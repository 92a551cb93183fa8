----------------------------- MODULE MCTransport -----------------------------
(* Model-checking instance of Tunnels and Relay: one tunnel that reconnects by *)
(* itself and one that does not; three peers, fewer slots than peers.  The     *)
(* daemon and the relay are programs of their own and share nothing, so a      *)
(* behaviour is of one of them.                                                *)
EXTENDS Tunnels, Relay

VARIABLE program  \* the program this behaviour is of

allVars == <<vars, relayVars, program>>

Daemon(A) == program = "daemon" /\ A /\ UNCHANGED <<relayVars, program>>
Server(A) == program = "relay" /\ A /\ UNCHANGED <<vars, program>>

TransportInit ==
    /\ Init
    /\ RelayInit
    /\ program \in {"daemon", "relay"}

TransportNext ==
    \/ Daemon(Next)
    \/ Server(RelayNext)

\* The fairness of FairSpec and of RelaySpec.
TransportSpec ==
    /\ TransportInit
    /\ [][TransportNext]_allVars
    /\ WF_allVars(Daemon(CheckHealth))
    /\ WF_allVars(Daemon(Tick))
    /\ \A c \in Clients : WF_allVars(Server(Accept(c) \/ Reject(c)))
==============================================================================
