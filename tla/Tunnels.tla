------------------------------- MODULE Tunnels -------------------------------
(***************************************************************************)
(* The tunnel manager (netfusion-core/src/tunnels/manager.rs) and the      *)
(* kernel interfaces its WireGuard tunnels make (tunnels/wireguard.rs).    *)
(* The manager keeps four maps by tunnel name; a tunnel that is not in     *)
(* wg_tunnels is not looked at by check_health.  Each command to ip and wg *)
(* can fail, and what earlier commands did to the kernel stays.            *)
(***************************************************************************)
EXTENDS Integers, FiniteSets

CONSTANTS
    Names,          \* tunnel names, which are also their interface names
    Startable,      \* WireGuard tunnels whose required options are present
    AutoConnect,    \* TunnelConfig.auto_connect
    AutoReconnect,  \* TunnelConfig.auto_reconnect
    MaxDelay        \* MAX_RECONNECT_DELAY_SECS

ASSUME TunnelsAssumption ==
    /\ Startable \subseteq Names
    /\ AutoConnect \subseteq Names
    /\ AutoReconnect \subseteq Names
    /\ MaxDelay \in Nat \ {0}

VARIABLES
    configs,          \* names with a configuration
    wg_tunnels,       \* names with a tunnel object; each has is_up set
    reconnect_state,  \* ReconnectInfo per name
    health_scores,    \* 0 or 100 per name
    link,             \* the kernel interface of each name
    handshake         \* whether its peer ever completed a handshake

maps == <<configs, wg_tunnels, reconnect_state, health_scores>>
kernel == <<link, handshake>>
vars == <<maps, kernel>>

\* last_attempt as its age in ticks, followed up to the largest delay.
Never == MaxDelay + 1
ReconnectInfo ==
    [attempts : Nat, current_delay : 1 .. MaxDelay, last_attempt : 0 .. Never]

Fresh == [attempts |-> 0, current_delay |-> 1, last_attempt |-> Never]

TypeOK ==
    /\ configs \subseteq Names
    /\ wg_tunnels \subseteq Names
    /\ DOMAIN reconnect_state \subseteq Names
    /\ \A n \in DOMAIN reconnect_state : reconnect_state[n] \in ReconnectInfo
    /\ DOMAIN health_scores \subseteq Names
    /\ \A n \in DOMAIN health_scores : health_scores[n] \in {0, 100}
    /\ link \in [Names -> {"absent", "down", "up"}]
    /\ handshake \in [Names -> BOOLEAN]

Empty == [n \in {} |-> 0]

Init ==
    /\ configs = {}
    /\ wg_tunnels = {}
    /\ reconnect_state = Empty
    /\ health_scores = Empty
    /\ link = [n \in Names |-> "absent"]
    /\ handshake = [n \in Names |-> FALSE]

\* f with g's entries in place of its own.
Put(f, g) == [n \in DOMAIN f \cup DOMAIN g |-> IF n \in DOMAIN g THEN g[n] ELSE f[n]]
Drop(f, S) == [n \in DOMAIN f \ S |-> f[n]]

------------------------------------------------------------------------------
(* WireGuardTunnel: what a create or a teardown leaves in the kernel *)

\* How the commands of one create go: ip link add fails for another reason than
\* that the interface exists; a later step fails; all succeed.  A step can fail
\* before or after the peer is set, never after bring_up.
CreateOutcomes == {"no_link", "half_made", "made"}

LinkAfterCreate(l, out) ==
    CASE out = "made"      -> "up"
      [] out = "half_made" -> IF l = "absent" THEN "down" ELSE l
      [] out = "no_link"   -> l

\* A new interface has seen no handshake; one that existed keeps what it saw.
HandshakeAfterCreate(l, h) == h /\ l # "absent"

\* ip link del fails or not; teardown ignores its exit status.
TeardownOutcomes == {"deleted", "kept"}

LinkAfterTeardown(l, out) == IF out = "deleted" THEN "absent" ELSE l

------------------------------------------------------------------------------
(* TunnelManager *)

AddConfig(n) ==
    /\ n \notin configs
    /\ configs' = configs \cup {n}
    /\ UNCHANGED <<wg_tunnels, reconnect_state, health_scores, kernel>>

\* start_auto_connect: start_tunnel for each; what cannot be started is logged.
StartAutoConnect ==
    LET started == configs \cap AutoConnect \cap Startable
    IN \E out \in [started -> CreateOutcomes] :
           LET made == {n \in started : out[n] = "made"}
           IN /\ started # {}
              /\ wg_tunnels' = wg_tunnels \cup made
              /\ reconnect_state' = Put(reconnect_state, [n \in made |-> Fresh])
              /\ link' = [n \in Names |-> IF n \in started
                                          THEN LinkAfterCreate(link[n], out[n])
                                          ELSE link[n]]
              /\ handshake' = [n \in Names |->
                                  IF n \in started
                                  THEN HandshakeAfterCreate(link[n], handshake[n])
                                  ELSE handshake[n]]
    /\ UNCHANGED <<configs, health_scores>>

\* Mutant: the backoff state of a removed tunnel stays.
RemoveTunnel_KeepsBackoff(n) ==
    /\ n \in configs
    /\ configs' = configs \ {n}
    /\ wg_tunnels' = wg_tunnels \ {n}
    /\ health_scores' = Drop(health_scores, {n})
    /\ IF n \in wg_tunnels
       THEN \E out \in TeardownOutcomes :
                link' = [link EXCEPT ![n] = LinkAfterTeardown(@, out)]
       ELSE UNCHANGED link
    /\ UNCHANGED <<reconnect_state, handshake>>

\* remove_tunnel forgets everything about n, and deletes its interface only if
\* there is a tunnel object.
RemoveTunnel(n) ==
    /\ n \in configs
    /\ configs' = configs \ {n}
    /\ wg_tunnels' = wg_tunnels \ {n}
    /\ reconnect_state' = Drop(reconnect_state, {n})
    /\ health_scores' = Drop(health_scores, {n})
    /\ IF n \in wg_tunnels
       THEN \E out \in TeardownOutcomes :
                link' = [link EXCEPT ![n] = LinkAfterTeardown(@, out)]
       ELSE UNCHANGED link
    /\ UNCHANGED handshake

\* ip could not be started: remove_tunnel returns early, without the object only.
RemoveTunnelFails(n) ==
    /\ n \in wg_tunnels
    /\ wg_tunnels' = wg_tunnels \ {n}
    /\ UNCHANGED <<configs, reconnect_state, health_scores, kernel>>

\* What check_health asks of a tunnel: its interface is up and some handshake,
\* however old, is on record.  A question that goes wrong - ip cannot be started, wg
\* show fails - is answered no; failing holds the tunnels whose questions do.
Healthy(n, failing) == n \notin failing /\ link[n] = "up" /\ handshake[n]

\* Mutant: a tunnel whose interface is not up is scored but not reconnected.
Unhealthy_UpOnly(failing) == {n \in wg_tunnels : link[n] = "up" /\ ~Healthy(n, failing)}

Unhealthy(failing) == {n \in wg_tunnels : ~Healthy(n, failing)}

ShouldReconnect(info) == info.last_attempt >= info.current_delay

InfoOf(n) == IF n \in DOMAIN reconnect_state THEN reconnect_state[n] ELSE Fresh

\* The tunnels this check tears down and recreates.
Reconnecting(failing) ==
    {n \in Unhealthy(failing) :
        ShouldReconnect(InfoOf(n)) /\ n \in configs \cap AutoReconnect}

\* next_delay doubles the delay up to the maximum and counts the attempt.
NextDelay(info) ==
    [attempts |-> info.attempts + 1,
     current_delay |-> IF info.current_delay * 2 < MaxDelay
                       THEN info.current_delay * 2 ELSE MaxDelay,
     last_attempt |-> 0]

\* Mutant: a reconnect that succeeded does not reset the backoff.
AfterAttempt_NoReset(info, made) == NextDelay(info)

\* reset() follows a recreation that succeeded.
AfterAttempt(info, made) ==
    IF made THEN [Fresh EXCEPT !.last_attempt = 0] ELSE NextDelay(info)

\* check_health: scores every tunnel, then tries to reconnect the unhealthy ones, those
\* that work but could not be asked included.  A tunnel whose recreation fails is out of
\* wg_tunnels and stays out.  All of it runs without an await; tunnels share nothing, so
\* their order does not matter.
CheckTunnels(failing) ==
    /\ health_scores' = Put(health_scores,
                            [n \in wg_tunnels |-> IF Healthy(n, failing) THEN 100 ELSE 0])
    /\ \E down \in [Reconnecting(failing) -> TeardownOutcomes],
          up \in [Reconnecting(failing) -> CreateOutcomes] :
           LET torn(n) == LinkAfterTeardown(link[n], down[n])
               made(n) == n \in Startable /\ up[n] = "made"
           IN /\ wg_tunnels' = {n \in wg_tunnels : n \in Reconnecting(failing) => made(n)}
              /\ reconnect_state' =
                     Put(reconnect_state,
                         [n \in Unhealthy(failing) |->
                             IF n \in Reconnecting(failing)
                             THEN AfterAttempt(InfoOf(n), made(n)) ELSE InfoOf(n)])
              /\ link' = [n \in Names |-> IF n \in Reconnecting(failing)
                                          THEN LinkAfterCreate(torn(n), up[n])
                                          ELSE link[n]]
              /\ handshake' = [n \in Names |->
                                  IF n \in Reconnecting(failing)
                                  THEN HandshakeAfterCreate(torn(n), handshake[n])
                                  ELSE handshake[n]]
    /\ UNCHANGED configs

CheckHealth == \E failing \in SUBSET wg_tunnels : CheckTunnels(failing)

------------------------------------------------------------------------------
(* The world around it *)

\* The peer answers on an interface that is up.
Handshake(n) ==
    /\ link[n] = "up" /\ ~handshake[n]
    /\ handshake' = [handshake EXCEPT ![n] = TRUE]
    /\ UNCHANGED <<maps, link>>

\* Someone takes the interface down or deletes it.
LinkLost(n) ==
    /\ link[n] # "absent"
    /\ \E l \in {"down", "absent"} : l # link[n] /\ link' = [link EXCEPT ![n] = l]
    /\ UNCHANGED <<maps, handshake>>

Older(age) == IF age < MaxDelay THEN age + 1 ELSE age

Tick ==
    /\ reconnect_state' = [n \in DOMAIN reconnect_state |->
                              [reconnect_state[n] EXCEPT !.last_attempt = Older(@)]]
    /\ UNCHANGED <<configs, wg_tunnels, health_scores, kernel>>

\* The process dies; the interfaces stay.
Crash ==
    /\ configs' = {}
    /\ wg_tunnels' = {}
    /\ reconnect_state' = Empty
    /\ health_scores' = Empty
    /\ UNCHANGED kernel

Next ==
    \/ \E n \in Names : AddConfig(n) \/ RemoveTunnel(n) \/ RemoveTunnelFails(n)
    \/ StartAutoConnect
    \/ CheckHealth
    \/ \E n \in Names : Handshake(n) \/ LinkLost(n)
    \/ Tick
    \/ Crash

Spec == Init /\ [][Next]_vars

\* run_health_loop checks every ten seconds, and time passes.
FairSpec == Spec /\ WF_vars(CheckHealth) /\ WF_vars(Tick)

------------------------------------------------------------------------------

\* Whatever fails on the way, nothing is kept about a tunnel without configuration:
\* a tunnel added again under the same name starts without old scores or delays.
NothingOutlivesConfig ==
    /\ wg_tunnels \subseteq configs
    /\ DOMAIN reconnect_state \subseteq configs
    /\ DOMAIN health_scores \subseteq configs

\* A tunnel the manager holds is either new or was reconnected with success, so its
\* backoff starts over: no failed attempts counted, the shortest delay.
HeldTunnelBackoffReset ==
    \A n \in wg_tunnels \cap DOMAIN reconnect_state :
        reconnect_state[n].attempts = 0 /\ reconnect_state[n].current_delay = 1

\* An attempt to recreate n was made since the last tick.
Attempted(n) == n \in DOMAIN reconnect_state /\ reconnect_state[n].last_attempt = 0

\* A held tunnel of auto_reconnect does not stay down unattended: check_health attempts to
\* recreate it, unless it comes back by itself or is let go without a failed attempt - on
\* request, or because the process dies.
DownTunnelAttempted ==
    \A n \in AutoReconnect :
        n \in wg_tunnels /\ link[n] # "up" /\ ~Attempted(n)
            ~> \/ link[n] = "up"
               \/ Attempted(n)
               \/ n \notin wg_tunnels /\ InfoOf(n).attempts = 0

\* What config.rs says of auto_reconnect: "Reconnect on failure."  A tunnel whose last
\* attempt failed is attempted again, for which ReconnectInfo keeps the delay of the next
\* attempt, or is up or forgotten.  The code does not do this: the tunnel is out of
\* wg_tunnels, which are all that check_health looks at.
FailedReconnectRetried ==
    \A n \in AutoReconnect :
        InfoOf(n).attempts > 0 /\ ~Attempted(n)
            ~> Attempted(n) \/ link[n] = "up" \/ InfoOf(n).attempts = 0

==============================================================================
