-------------------------------- MODULE Relay --------------------------------
(***************************************************************************)
(* The accept loop of the QUIC relay (netfusion-relay/src/server.rs).      *)
(* One loop takes connection attempts off the endpoint, counts them in     *)
(* active_connections and spawns a task per accepted attempt; the task     *)
(* finishes the handshake and then serves bidirectional streams until the  *)
(* connection or a stream fails.  Nothing else ever writes the counter.    *)
(***************************************************************************)
EXTENDS Integers, FiniteSets

CONSTANTS
    Clients,        \* the peers that dial the relay, one attempt each at a time
    MaxConnections  \* RelayConfig.max_connections

ASSUME RelayAssumption ==
    /\ IsFiniteSet(Clients)
    /\ MaxConnections \in Nat

VARIABLES
    active_connections, \* RelayServer.active_connections
    conn                \* where each client's attempt stands

relayVars == <<active_connections, conn>>

\* "dialing" waits in the endpoint's accept queue; the next three are the await
\* points of the spawned task: connecting.await, accept_bi and read_to_end.
Stages == {"idle", "dialing", "handshaking", "connected", "streaming"}

\* The attempts a spawned task still holds.
Live == {c \in Clients : conn[c] \in {"handshaking", "connected", "streaming"}}

RelayTypeOK ==
    /\ active_connections \in Nat
    /\ conn \in [Clients -> Stages]

RelayInit ==
    /\ active_connections = 0
    /\ conn = [c \in Clients |-> "idle"]

------------------------------------------------------------------------------

Goto(c, from, to) ==
    /\ conn[c] \in from
    /\ conn' = [conn EXCEPT ![c] = to]

\* A peer sends its first packet: the attempt appears in endpoint.accept().
Dial(c) ==
    /\ Goto(c, {"idle"}, "dialing")
    /\ UNCHANGED active_connections

\* Mutant: the limit test lets one attempt too many in.
Accept_OffByOne(c) ==
    /\ active_connections <= MaxConnections
    /\ Goto(c, {"dialing"}, "handshaking")
    /\ active_connections' = active_connections + 1

\* Mutant: the loop awaits the handshake itself instead of spawning a task for it.
Accept_AwaitsHandshake(c) ==
    /\ \A d \in Clients : conn[d] # "handshaking"
    /\ active_connections < MaxConnections
    /\ Goto(c, {"dialing"}, "handshaking")
    /\ active_connections' = active_connections + 1

Accept(c) ==
    /\ active_connections < MaxConnections
    /\ Goto(c, {"dialing"}, "handshaking")
    /\ active_connections' = active_connections + 1

\* "Connection limit reached, rejecting": the attempt is dropped.
Reject(c) ==
    /\ active_connections >= MaxConnections
    /\ Goto(c, {"dialing"}, "idle")
    /\ UNCHANGED active_connections

HandshakeDone(c) ==
    /\ Goto(c, {"handshaking"}, "connected")
    /\ UNCHANGED active_connections

StreamOpened(c) ==
    /\ Goto(c, {"connected"}, "streaming")
    /\ UNCHANGED active_connections

\* The stream was read to its end and echoed; a failed write is only logged.
StreamEchoed(c) ==
    /\ Goto(c, {"streaming"}, "connected")
    /\ UNCHANGED active_connections

\* The handshake failed, accept_bi failed or read_to_end failed: the task ends.
TaskEnds(c) ==
    /\ Goto(c, {"handshaking", "connected", "streaming"}, "idle")
    /\ UNCHANGED active_connections

RelayNext ==
    \E c \in Clients :
        \/ Dial(c)
        \/ Accept(c)
        \/ Reject(c)
        \/ HandshakeDone(c)
        \/ StreamOpened(c)
        \/ StreamEchoed(c)
        \/ TaskEnds(c)

\* The accept loop awaits nothing but endpoint.accept(), which hands attempts out
\* in arrival order: an attempt that waits is eventually taken.  Peers and the
\* network owe nothing.
RelaySpec ==
    /\ RelayInit
    /\ [][RelayNext]_relayVars
    /\ \A c \in Clients : WF_relayVars(Accept(c) \/ Reject(c))

------------------------------------------------------------------------------

\* At no time do more tasks hold a connection than max_connections allows, whatever
\* the order in which handshakes, streams and disconnects interleave with accepts.
ConcurrencyBounded == Cardinality(Live) <= MaxConnections

\* A peer that stalls in its handshake or holds a stream open does not keep the
\* accept loop from answering the others, with a connection or a rejection.
EveryDialAnswered == \A c \in Clients : conn[c] = "dialing" ~> conn[c] # "dialing"

==============================================================================
