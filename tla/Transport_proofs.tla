--------------------------- MODULE Transport_proofs ---------------------------
(***************************************************************************)
(* Proofs about the two ends of the transport: the tunnel manager of the   *)
(* daemon (Tunnels), for every set of tunnels, every choice of those that  *)
(* start and reconnect by themselves and every largest delay, and the      *)
(* relay's accept loop (Relay), for every finite set of peers and limit.   *)
(***************************************************************************)
EXTENDS Tunnels, Relay, FiniteSetTheorems, TLAPS

IInv == TypeOK /\ NothingOutlivesConfig /\ HeldTunnelBackoffReset

------------------------------------------------------------------------------

\* What a create or a teardown leaves is a state of an interface.
LEMMA LinkTypes ==
    ASSUME NEW l \in {"absent", "down", "up"}
    PROVE  /\ \A out \in CreateOutcomes : LinkAfterCreate(l, out) \in {"absent", "down", "up"}
           /\ \A out \in TeardownOutcomes : LinkAfterTeardown(l, out) \in {"absent", "down", "up"}
  BY DEF CreateOutcomes, TeardownOutcomes, LinkAfterCreate, LinkAfterTeardown

LEMMA HandshakeType ==
    ASSUME NEW l, NEW h \in BOOLEAN
    PROVE  HandshakeAfterCreate(l, h) \in BOOLEAN
  BY DEF HandshakeAfterCreate

\* A new backoff state is at its start, and so is one whose attempt succeeded.
LEMMA FreshStarts ==
    /\ Fresh \in ReconnectInfo
    /\ Fresh.attempts = 0 /\ Fresh.current_delay = 1
    /\ \A info : /\ AfterAttempt(info, TRUE).attempts = 0
                 /\ AfterAttempt(info, TRUE).current_delay = 1
  BY TunnelsAssumption DEF Fresh, ReconnectInfo, Never, AfterAttempt

\* An attempt, whatever its outcome, leaves the delay between 1 and the largest.
LEMMA AttemptType ==
    ASSUME NEW info \in ReconnectInfo, NEW made \in BOOLEAN
    PROVE  AfterAttempt(info, made) \in ReconnectInfo
  BY TunnelsAssumption DEF AfterAttempt, NextDelay, Fresh, ReconnectInfo, Never

LEMMA OlderType ==
    ASSUME NEW age \in 0 .. Never
    PROVE  Older(age) \in 0 .. Never
  BY TunnelsAssumption DEF Older, Never

LEMMA InitInv == Init => IInv
  BY DEF Init, Empty, IInv, TypeOK, NothingOutlivesConfig, HeldTunnelBackoffReset

------------------------------------------------------------------------------

\* A start gives every tunnel that came up a new backoff state.
LEMMA StartInv ==
    ASSUME IInv, StartAutoConnect
    PROVE  IInv'
  <1> DEFINE started == configs \cap AutoConnect \cap Startable
  <1>1. PICK out \in [started -> CreateOutcomes] :
            /\ wg_tunnels' = wg_tunnels \cup {n \in started : out[n] = "made"}
            /\ reconnect_state' = Put(reconnect_state,
                                      [n \in {m \in started : out[m] = "made"} |-> Fresh])
            /\ link' = [n \in Names |-> IF n \in started
                                        THEN LinkAfterCreate(link[n], out[n]) ELSE link[n]]
            /\ handshake' = [n \in Names |->
                                IF n \in started
                                THEN HandshakeAfterCreate(link[n], handshake[n])
                                ELSE handshake[n]]
    BY DEF StartAutoConnect
  <1>2. UNCHANGED <<configs, health_scores>>
    BY DEF StartAutoConnect
  <1> DEFINE made == {n \in started : out[n] = "made"}
  <1>3. /\ DOMAIN reconnect_state' = DOMAIN reconnect_state \cup made
        /\ \A n \in made : reconnect_state'[n] = Fresh
        /\ \A n \in DOMAIN reconnect_state \ made : reconnect_state'[n] = reconnect_state[n]
    BY <1>1 DEF Put
  <1>4. link' \in [Names -> {"absent", "down", "up"}]
    BY <1>1, LinkTypes DEF IInv, TypeOK
  <1>5. handshake' \in [Names -> BOOLEAN]
    BY <1>1, HandshakeType DEF IInv, TypeOK
  <1> HIDE DEF made
  <1>6. made \subseteq configs /\ wg_tunnels' = wg_tunnels \cup made
    BY <1>1 DEF made
  <1>7. TypeOK'
    BY <1>2, <1>3, <1>4, <1>5, <1>6, FreshStarts DEF IInv, TypeOK
  <1>8. NothingOutlivesConfig'
    BY <1>2, <1>3, <1>6 DEF IInv, NothingOutlivesConfig
  <1>9. HeldTunnelBackoffReset'
    BY <1>2, <1>3, <1>6, FreshStarts DEF IInv, HeldTunnelBackoffReset
  <1> QED BY <1>7, <1>8, <1>9 DEF IInv

\* A check keeps a tunnel only if it is healthy, not yet due, or recreated with success.
LEMMA CheckInv ==
    ASSUME IInv, NEW failing \in SUBSET wg_tunnels, CheckTunnels(failing)
    PROVE  IInv'
  <1>1. PICK down \in [Reconnecting(failing) -> TeardownOutcomes],
               up \in [Reconnecting(failing) -> CreateOutcomes] :
            LET torn(n) == LinkAfterTeardown(link[n], down[n])
                made(n) == n \in Startable /\ up[n] = "made"
            IN /\ wg_tunnels' = {n \in wg_tunnels : n \in Reconnecting(failing) => made(n)}
               /\ reconnect_state' =
                      Put(reconnect_state,
                          [n \in Unhealthy(failing) |-> IF n \in Reconnecting(failing)
                                               THEN AfterAttempt(InfoOf(n), made(n))
                                               ELSE InfoOf(n)])
               /\ link' = [n \in Names |-> IF n \in Reconnecting(failing)
                                           THEN LinkAfterCreate(torn(n), up[n])
                                           ELSE link[n]]
               /\ handshake' = [n \in Names |->
                                   IF n \in Reconnecting(failing)
                                   THEN HandshakeAfterCreate(torn(n), handshake[n])
                                   ELSE handshake[n]]
    BY DEF CheckTunnels
  <1> DEFINE made(n) == n \in Startable /\ up[n] = "made"
  <1>2. /\ configs' = configs
        /\ health_scores' = Put(health_scores,
                                [n \in wg_tunnels |-> IF Healthy(n, failing) THEN 100 ELSE 0])
    BY DEF CheckTunnels
  <1>3. Unhealthy(failing) \subseteq wg_tunnels /\ Reconnecting(failing) \subseteq Unhealthy(failing)
    BY DEF Unhealthy, Reconnecting
  <1>4. /\ DOMAIN reconnect_state' = DOMAIN reconnect_state \cup Unhealthy(failing)
        /\ \A n \in Reconnecting(failing) : reconnect_state'[n] = AfterAttempt(InfoOf(n), made(n))
        /\ \A n \in Unhealthy(failing) \ Reconnecting(failing) : reconnect_state'[n] = InfoOf(n)
        /\ \A n \in DOMAIN reconnect_state \ Unhealthy(failing) : reconnect_state'[n] = reconnect_state[n]
    BY <1>1, <1>3 DEF Put
  <1>5. \A n \in Unhealthy(failing) : InfoOf(n) \in ReconnectInfo
    BY FreshStarts DEF InfoOf, IInv, TypeOK
  <1>6. /\ DOMAIN health_scores' = DOMAIN health_scores \cup wg_tunnels
        /\ \A n \in DOMAIN health_scores' : health_scores'[n] \in {0, 100}
    BY <1>2 DEF Put, IInv, TypeOK
  <1>7. link' \in [Names -> {"absent", "down", "up"}]
    <2>1. ASSUME NEW n \in Names
          PROVE  link'[n] \in {"absent", "down", "up"}
      <3>1. link[n] \in {"absent", "down", "up"}
        BY DEF IInv, TypeOK
      <3>2. CASE n \in Reconnecting(failing)
        BY <1>1, <3>1, <3>2, LinkTypes
      <3> QED BY <1>1, <3>1, <3>2
    <2> QED BY <1>1, <2>1
  <1>8. handshake' \in [Names -> BOOLEAN]
    <2>1. handshake \in [Names -> BOOLEAN]
      BY DEF IInv, TypeOK
    <2> QED BY <1>1, <2>1, HandshakeType
  <1>9. \A n \in DOMAIN reconnect_state' : reconnect_state'[n] \in ReconnectInfo
    <2>1. ASSUME NEW n \in Reconnecting(failing)
          PROVE  reconnect_state'[n] \in ReconnectInfo
      <3>1. InfoOf(n) \in ReconnectInfo /\ made(n) \in BOOLEAN
        BY <1>3, <1>5
      <3> HIDE DEF made
      <3> QED BY <1>4, <3>1, AttemptType
    <2> QED BY <1>4, <1>5, <2>1 DEF IInv, TypeOK
  <1>10. wg_tunnels' \subseteq wg_tunnels /\ \A n \in Reconnecting(failing) \cap wg_tunnels' : made(n)
    BY <1>1
  <1>11. TypeOK'
    BY <1>2, <1>3, <1>4, <1>6, <1>7, <1>8, <1>9, <1>10 DEF IInv, TypeOK
  <1>12. NothingOutlivesConfig'
    BY <1>2, <1>3, <1>4, <1>6, <1>10 DEF IInv, NothingOutlivesConfig
  <1>13. HeldTunnelBackoffReset'
    <2> SUFFICES ASSUME NEW n \in wg_tunnels' \cap DOMAIN reconnect_state'
                 PROVE  /\ reconnect_state'[n].attempts = 0
                        /\ reconnect_state'[n].current_delay = 1
      BY DEF HeldTunnelBackoffReset
    <2>1. CASE n \in Reconnecting(failing)
      <3>1. made(n) = TRUE
        BY <1>10, <2>1
      <3>2. reconnect_state'[n] = AfterAttempt(InfoOf(n), TRUE)
        BY <1>4, <2>1, <3>1
      <3> QED BY <3>2, FreshStarts
    <2>2. CASE n \notin Reconnecting(failing)
      BY <1>4, <1>10, <2>2, FreshStarts DEF InfoOf, IInv, HeldTunnelBackoffReset
    <2> QED BY <2>1, <2>2
  <1> QED BY <1>11, <1>12, <1>13 DEF IInv

\* remove_tunnel forgets everything about one tunnel; failing, it forgets the object.
LEMMA RemoveInv ==
    ASSUME IInv, NEW n \in Names, RemoveTunnel(n) \/ RemoveTunnelFails(n)
    PROVE  IInv'
  <1>1. CASE RemoveTunnel(n)
    <2>1. link' \in [Names -> {"absent", "down", "up"}]
      BY <1>1, LinkTypes DEF RemoveTunnel, IInv, TypeOK
    <2>2. /\ configs' = configs \ {n} /\ wg_tunnels' = wg_tunnels \ {n}
          /\ reconnect_state' = Drop(reconnect_state, {n})
          /\ health_scores' = Drop(health_scores, {n})
          /\ handshake' = handshake
      BY <1>1 DEF RemoveTunnel
    <2> QED BY <2>1, <2>2 DEF Drop, IInv, TypeOK, NothingOutlivesConfig, HeldTunnelBackoffReset
  <1>2. CASE RemoveTunnelFails(n)
    BY <1>2 DEF RemoveTunnelFails, kernel, IInv, TypeOK, NothingOutlivesConfig,
       HeldTunnelBackoffReset
  <1> QED BY <1>1, <1>2

\* Time changes the age of the last attempts only.
LEMMA TickInv ==
    ASSUME IInv, Tick
    PROVE  IInv'
  <1>1. /\ DOMAIN reconnect_state' = DOMAIN reconnect_state
        /\ UNCHANGED <<configs, wg_tunnels, health_scores, link, handshake>>
    BY DEF Tick, kernel
  <1>2. ASSUME NEW n \in DOMAIN reconnect_state
        PROVE  /\ reconnect_state'[n] \in ReconnectInfo
               /\ reconnect_state'[n].attempts = reconnect_state[n].attempts
               /\ reconnect_state'[n].current_delay = reconnect_state[n].current_delay
    <2>1. reconnect_state[n] \in ReconnectInfo
      BY DEF IInv, TypeOK
    <2>2. reconnect_state'[n] = [reconnect_state[n] EXCEPT !.last_attempt = Older(@)]
      BY DEF Tick
    <2>3. Older(reconnect_state[n].last_attempt) \in 0 .. Never
      BY <2>1, OlderType DEF ReconnectInfo
    <2> QED BY <2>1, <2>2, <2>3 DEF ReconnectInfo
  <1> QED BY <1>1, <1>2 DEF IInv, TypeOK, NothingOutlivesConfig, HeldTunnelBackoffReset

LEMMA StepInv ==
    ASSUME IInv, [Next]_vars
    PROVE  IInv'
  <1> USE DEF kernel, maps, IInv, TypeOK, NothingOutlivesConfig, HeldTunnelBackoffReset
  <1>1. ASSUME NEW n \in Names, AddConfig(n) \/ Handshake(n) \/ LinkLost(n)
        PROVE  IInv'
    <2>1. CASE AddConfig(n)
      BY <2>1 DEF AddConfig
    <2>2. CASE Handshake(n)
      BY <2>2 DEF Handshake
    <2>3. CASE LinkLost(n)
      BY <2>3 DEF LinkLost
    <2> QED BY <1>1, <2>1, <2>2, <2>3
  <1>2. CASE Crash
    BY <1>2 DEF Crash, Empty
  <1>3. CASE UNCHANGED vars
    BY <1>3 DEF vars
  <1>4. CASE CheckHealth
    BY <1>4, CheckInv DEF CheckHealth
  <1> QED BY <1>1, <1>2, <1>3, <1>4, StartInv, RemoveInv, TickInv DEF Next

THEOREM Invariance == Spec => []IInv
  BY InitInv, StepInv, PTL DEF Spec

\* The manager's maps and the kernel's interfaces keep their types; delays stay between
\* one second and MAX_RECONNECT_DELAY_SECS, whatever the number of attempts.
THEOREM TypeCorrect == Spec => []TypeOK
  BY Invariance, PTL DEF IInv

\* No tunnel object, backoff state or score is kept under a name without configuration,
\* however remove_tunnel and check_health interleave and fail.
THEOREM MapsCorrect == Spec => []NothingOutlivesConfig
  BY Invariance, PTL DEF IInv

\* A tunnel in wg_tunnels starts its next backoff from one second.
THEOREM BackoffCorrect == Spec => []HeldTunnelBackoffReset
  BY Invariance, PTL DEF IInv

\* A check that finds n down, a tick or more after its last attempt, attempts to recreate
\* it: it is up again, or let go with one failed attempt counted.
AttemptMade(n) ==
    /\ n \in DOMAIN reconnect_state'
    /\ reconnect_state'[n].last_attempt = 0
    /\ \/ n \in wg_tunnels' /\ link'[n] = "up" /\ reconnect_state'[n].attempts = 0
       \/ n \notin wg_tunnels' /\ reconnect_state'[n].attempts = 1

DownTunnelHandled ==
    [][\A n \in wg_tunnels \cap AutoReconnect :
           CheckHealth /\ link[n] # "up" /\ ~Attempted(n) => AttemptMade(n)]_vars

LEMMA CheckHandles ==
    ASSUME IInv, NEW failing \in SUBSET wg_tunnels, CheckTunnels(failing),
           NEW n \in wg_tunnels \cap AutoReconnect, link[n] # "up", ~Attempted(n)
    PROVE  AttemptMade(n)
  <1>1. InfoOf(n) \in ReconnectInfo /\ InfoOf(n).attempts = 0 /\ InfoOf(n).current_delay = 1
    BY FreshStarts DEF InfoOf, IInv, TypeOK, HeldTunnelBackoffReset
  <1>2. InfoOf(n).last_attempt >= 1
    BY <1>1, TunnelsAssumption DEF InfoOf, Attempted, Fresh, Never, ReconnectInfo
  <1>3. n \in Unhealthy(failing) /\ n \in Reconnecting(failing)
    BY <1>1, <1>2 DEF Reconnecting, ShouldReconnect, Unhealthy, Healthy, IInv,
       NothingOutlivesConfig
  <1>4. PICK down \in [Reconnecting(failing) -> TeardownOutcomes],
               up \in [Reconnecting(failing) -> CreateOutcomes] :
            /\ n \in wg_tunnels' <=> n \in Startable /\ up[n] = "made"
            /\ reconnect_state' =
                   Put(reconnect_state,
                       [m \in Unhealthy(failing) |->
                           IF m \in Reconnecting(failing)
                           THEN AfterAttempt(InfoOf(m), m \in Startable /\ up[m] = "made")
                           ELSE InfoOf(m)])
            /\ link'[n] = LinkAfterCreate(LinkAfterTeardown(link[n], down[n]), up[n])
    <2>1. n \in Names
      BY DEF IInv, TypeOK
    <2> QED BY <1>3, <2>1 DEF CheckTunnels
  <1> DEFINE made == n \in Startable /\ up[n] = "made"
  <1>5. n \in DOMAIN reconnect_state' /\ reconnect_state'[n] = AfterAttempt(InfoOf(n), made)
    BY <1>3, <1>4 DEF Put
  <1>6. CASE made
    <2>1. link'[n] = "up"
      BY <1>4, <1>6 DEF LinkAfterCreate
    <2>2. reconnect_state'[n].attempts = 0 /\ reconnect_state'[n].last_attempt = 0
      BY <1>5, <1>6 DEF AfterAttempt, Fresh
    <2> QED BY <1>4, <1>5, <1>6, <2>1, <2>2 DEF AttemptMade
  <1>7. CASE ~made
    <2>1. reconnect_state'[n].attempts = 1 /\ reconnect_state'[n].last_attempt = 0
      BY <1>1, <1>5, <1>7 DEF AfterAttempt, NextDelay
    <2> QED BY <1>4, <1>5, <1>7, <2>1 DEF AttemptMade
  <1> QED BY <1>6, <1>7

\* The step behind DownTunnelAttempted: the first check_health that finds a tunnel of
\* auto_reconnect down, a tick or more after its last attempt, attempts to recreate it,
\* whatever questions fail.  The backoff never makes it wait longer, because a tunnel that
\* is held has the shortest delay (BackoffCorrect) and is configured (MapsCorrect).
THEOREM CheckActs == Spec => DownTunnelHandled
  <1>1. IInv => \A n \in wg_tunnels \cap AutoReconnect :
                    CheckHealth /\ link[n] # "up" /\ ~Attempted(n) => AttemptMade(n)
    BY CheckHandles DEF CheckHealth
  <1> QED BY <1>1, Invariance, PTL DEF Spec, DownTunnelHandled

------------------------------------------------------------------------------
(* The backoff that nothing reads: a tunnel let go is never attempted again *)

FailedLeftAlone ==
    [][\A n \in DOMAIN reconnect_state :
           CheckHealth /\ reconnect_state[n].attempts > 0
               => /\ n \notin wg_tunnels /\ n \notin wg_tunnels'
                  /\ n \in DOMAIN reconnect_state'
                  /\ reconnect_state'[n] = reconnect_state[n]
                  /\ link'[n] = link[n]]_vars

LEMMA CheckPasses ==
    ASSUME IInv, NEW failing \in SUBSET wg_tunnels, CheckTunnels(failing),
           NEW n \in DOMAIN reconnect_state, reconnect_state[n].attempts > 0
    PROVE  /\ n \notin wg_tunnels /\ n \notin wg_tunnels'
           /\ n \in DOMAIN reconnect_state'
           /\ reconnect_state'[n] = reconnect_state[n]
           /\ link'[n] = link[n]
  <1>1. n \notin wg_tunnels /\ n \in Names
    BY DEF IInv, TypeOK, HeldTunnelBackoffReset
  <1>2. n \notin Unhealthy(failing) /\ n \notin Reconnecting(failing)
    BY <1>1 DEF Unhealthy, Reconnecting
  <1>3. n \notin wg_tunnels' /\ link'[n] = link[n]
    BY <1>1, <1>2 DEF CheckTunnels
  <1>4. PICK g : /\ DOMAIN g = Unhealthy(failing)
                 /\ reconnect_state' = Put(reconnect_state, g)
    BY DEF CheckTunnels
  <1>5. n \in DOMAIN reconnect_state' /\ reconnect_state'[n] = reconnect_state[n]
    BY <1>2, <1>4 DEF Put
  <1> QED BY <1>1, <1>3, <1>5

\* Once an attempt has failed, no check_health looks at the tunnel again: its interface is
\* left as it is and the doubled delay is never used.  This is why FailedReconnectRetried
\* is violated, for any tunnels and delays.
THEOREM FailedNeverRetried == Spec => FailedLeftAlone
  <1>1. IInv => \A n \in DOMAIN reconnect_state :
                    CheckHealth /\ reconnect_state[n].attempts > 0
                        => /\ n \notin wg_tunnels /\ n \notin wg_tunnels'
                           /\ n \in DOMAIN reconnect_state'
                           /\ reconnect_state'[n] = reconnect_state[n]
                           /\ link'[n] = link[n]
    BY CheckPasses DEF CheckHealth
  <1> QED BY <1>1, Invariance, PTL DEF Spec, FailedLeftAlone

------------------------------------------------------------------------------
(* The relay *)

\* The inductive invariant.  The counter never goes down while connections end, so
\* the number of live ones is bounded through it: the limit test bounds the counter
\* and every accept that makes a connection live is counted.
RelayInv ==
    /\ RelayTypeOK
    /\ Cardinality(Live) <= active_connections
    /\ active_connections <= MaxConnections

------------------------------------------------------------------------------

\* The attempts that tasks hold are finitely many.
LEMMA LiveFinite == IsFiniteSet(Live) /\ Cardinality(Live) \in Nat
  BY RelayAssumption, FS_Subset, FS_CardinalityType DEF Live

\* A step that makes no new attempt live does not raise the number of live ones.
LEMMA ShrinkingLive ==
    ASSUME Live' \subseteq Live
    PROVE  Cardinality(Live') <= Cardinality(Live)
  BY LiveFinite, FS_Subset

\* A step that moves one attempt to a stage makes at most that attempt live, and
\* nothing live at all if the stage is not one a task holds or the task held it before.
LEMMA GotoLive ==
    ASSUME RelayTypeOK, NEW c \in Clients, NEW from \in SUBSET Stages, NEW to \in Stages,
           Goto(c, from, to)
    PROVE  /\ conn' \in [Clients -> Stages]
           /\ Live' \subseteq Live \cup {c}
           /\ to \notin {"handshaking", "connected", "streaming"} => Live' \subseteq Live
           /\ from \subseteq {"handshaking", "connected", "streaming"} => Live' \subseteq Live
  BY DEF RelayTypeOK, Goto, Live

\* Only an accept makes an attempt live.
LEMMA QuietLive ==
    ASSUME RelayTypeOK, NEW c \in Clients,
           \/ Dial(c) \/ Reject(c) \/ HandshakeDone(c)
           \/ StreamOpened(c) \/ StreamEchoed(c) \/ TaskEnds(c)
    PROVE  conn' \in [Clients -> Stages] /\ Live' \subseteq Live
  <1>1. CASE Dial(c)
    BY <1>1, GotoLive DEF Dial, Stages
  <1>2. CASE Reject(c)
    BY <1>2, GotoLive DEF Reject, Stages
  <1>3. CASE HandshakeDone(c)
    BY <1>3, GotoLive DEF HandshakeDone, Stages
  <1>4. CASE StreamOpened(c)
    BY <1>4, GotoLive DEF StreamOpened, Stages
  <1>5. CASE StreamEchoed(c)
    BY <1>5, GotoLive DEF StreamEchoed, Stages
  <1>6. CASE TaskEnds(c)
    BY <1>6, GotoLive DEF TaskEnds, Stages
  <1> QED BY <1>1, <1>2, <1>3, <1>4, <1>5, <1>6

\* Every step of the accept loop, of a task or of a peer keeps the invariant.
LEMMA RelayStep ==
    ASSUME RelayInv, NEW c \in Clients,
           \/ Dial(c) \/ Accept(c) \/ Reject(c) \/ HandshakeDone(c)
           \/ StreamOpened(c) \/ StreamEchoed(c) \/ TaskEnds(c)
    PROVE  RelayInv'
  <1>1. RelayTypeOK /\ active_connections \in Nat /\ MaxConnections \in Nat
    BY RelayAssumption DEF RelayInv, RelayTypeOK
  <1>2. CASE Accept(c)
    <2>1. conn' \in [Clients -> Stages] /\ Live' \subseteq Live \cup {c}
      BY <1>1, <1>2, GotoLive DEF Accept, Stages
    <2>2. IsFiniteSet(Live \cup {c}) /\ Cardinality(Live \cup {c}) <= Cardinality(Live) + 1
      BY LiveFinite, FS_AddElement
    <2>3. /\ Cardinality(Live') \in Nat /\ Cardinality(Live) \in Nat
          /\ Cardinality(Live') <= Cardinality(Live \cup {c})
          /\ Cardinality(Live \cup {c}) \in Nat
      BY <2>1, <2>2, LiveFinite, FS_Subset, FS_CardinalityType
    <2>4. Cardinality(Live') <= active_connections'
      BY <1>1, <1>2, <2>2, <2>3 DEF Accept, RelayInv
    <2> QED BY <1>1, <1>2, <2>1, <2>4 DEF Accept, RelayInv, RelayTypeOK
  <1>3. CASE \/ Dial(c) \/ Reject(c) \/ HandshakeDone(c)
             \/ StreamOpened(c) \/ StreamEchoed(c) \/ TaskEnds(c)
    <2>1. conn' \in [Clients -> Stages] /\ Live' \subseteq Live
      BY <1>1, <1>3, QuietLive
    <2>2. Cardinality(Live') <= Cardinality(Live)
      BY <2>1, ShrinkingLive
    <2>3. UNCHANGED active_connections
      BY <1>3 DEF Dial, Reject, HandshakeDone, StreamOpened, StreamEchoed, TaskEnds
    <2>4. Cardinality(Live') \in Nat /\ Cardinality(Live) \in Nat
      BY <2>1, LiveFinite, FS_Subset, FS_CardinalityType
    <2> QED BY <1>1, <2>1, <2>2, <2>3, <2>4 DEF RelayInv, RelayTypeOK
  <1> QED BY <1>2, <1>3

\* The invariant holds in every reachable state of the relay.
THEOREM RelayInvariance == RelaySpec => []RelayInv
  <1>1. RelayInit => RelayInv
    <2> SUFFICES ASSUME RelayInit PROVE RelayInv
      OBVIOUS
    <2>1. Live = {} /\ conn \in [Clients -> Stages]
      BY DEF RelayInit, Live, Stages
    <2> QED BY <2>1, FS_EmptySet, RelayAssumption DEF RelayInit, RelayInv, RelayTypeOK
  <1>2. RelayInv /\ [RelayNext]_relayVars => RelayInv'
    <2> SUFFICES ASSUME RelayInv, [RelayNext]_relayVars PROVE RelayInv'
      OBVIOUS
    <2>1. CASE RelayNext
      BY <2>1, RelayStep DEF RelayNext
    <2>2. CASE UNCHANGED relayVars
      BY <2>2 DEF relayVars, RelayInv, RelayTypeOK, Live
    <2> QED BY <2>1, <2>2
  <1> QED BY <1>1, <1>2, PTL DEF RelaySpec

\* The counter is a natural number and every attempt at one of its stages, for any
\* peers and any limit (RelayServer.active_connections, a usize).
THEOREM RelayTypeCorrect == RelaySpec => []RelayTypeOK
  BY RelayInvariance, PTL DEF RelayInv

\* At no time do more tasks hold a connection than max_connections, for any number
\* of peers and any limit (the test and the increment of RelayServer::run).
THEOREM ConcurrencyCorrect == RelaySpec => []ConcurrencyBounded
  <1>1. RelayInv => ConcurrencyBounded
    BY LiveFinite, RelayAssumption DEF RelayInv, RelayTypeOK, ConcurrencyBounded
  <1> QED BY <1>1, RelayInvariance, PTL

\* As many attempts have been accepted as the limit allows.
Exhausted == active_connections = MaxConnections

\* From an exhausted relay only attempts go that it had before.
ExhaustedStep == Exhausted => Exhausted' /\ Live' \subseteq Live

ExhaustedForGood == [][ExhaustedStep]_relayVars

\* After max_connections accepts in all the relay is exhausted for good: the counter
\* of RelayServer::run has an increment and no decrement, so whatever connections end
\* afterwards, no attempt ever becomes a connection again.
THEOREM RelayRunsDry == RelaySpec => ExhaustedForGood
  <1>1. ASSUME RelayInv, [RelayNext]_relayVars PROVE ExhaustedStep
    <2> SUFFICES ASSUME Exhausted PROVE Exhausted' /\ Live' \subseteq Live
      BY DEF ExhaustedStep
    <2>1. CASE UNCHANGED relayVars
      BY <2>1 DEF relayVars, Exhausted, Live
    <2>2. ASSUME NEW c \in Clients, Accept(c) PROVE FALSE
      BY <1>1, <2>2, RelayAssumption DEF Accept, Exhausted, RelayInv, RelayTypeOK
    <2>3. ASSUME NEW c \in Clients,
                 \/ Dial(c) \/ Reject(c) \/ HandshakeDone(c)
                 \/ StreamOpened(c) \/ StreamEchoed(c) \/ TaskEnds(c)
          PROVE  Exhausted' /\ Live' \subseteq Live
      <3>1. UNCHANGED active_connections
        BY <2>3 DEF Dial, Reject, HandshakeDone, StreamOpened, StreamEchoed, TaskEnds
      <3>2. Live' \subseteq Live
        BY <1>1, <2>3, QuietLive DEF RelayInv
      <3> QED BY <3>1, <3>2 DEF Exhausted
    <2> QED BY <1>1, <2>1, <2>2, <2>3 DEF RelayNext
  <1> QED BY <1>1, RelayInvariance, PTL DEF RelaySpec, ExhaustedForGood
==============================================================================
