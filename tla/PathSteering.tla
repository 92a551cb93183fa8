----------------------------- MODULE PathSteering -----------------------------
(***************************************************************************)
(* The path steering engine (netfusion-core/src/routing/path_steering.rs). *)
(* It caches the last smoothed score of every interface the health monitor *)
(* reports and keeps, for its one traffic class "default", the interface   *)
(* the traffic is on, the score that interface had WHEN IT WAS CHOSEN, the *)
(* time since that choice and a count of degraded readings.  Every health  *)
(* update runs one evaluation; each action below is one outcome of it.     *)
(***************************************************************************)
EXTENDS Integers, FiniteSets

CONSTANTS
    Ifaces,             \* the interfaces that can be reported
    Scores,             \* the overall scores a reading can have
    MinViable,          \* SteeringConfig.min_viable_score
    Hysteresis,         \* SteeringConfig.switch_hysteresis
    Cooldown,           \* SteeringConfig.steering_cooldown, in ticks
    AutoFailoverModes,  \* the values of SteeringConfig.auto_failover considered
    NoIface             \* stands for an empty path_states map

ASSUME SteeringAssumption ==
    /\ Scores \subseteq Nat
    /\ MinViable \in Nat
    /\ Hysteresis \in Nat
    /\ Cooldown \in Nat
    /\ AutoFailoverModes \subseteq BOOLEAN
    /\ NoIface \notin Ifaces

VARIABLES
    auto_failover,        \* SteeringConfig.auto_failover, fixed at start
    health_scores,        \* latest score per reported interface
    active_interface,     \* PathState.active_interface
    active_score,         \* PathState.active_score: the score at assignment time
    since_steering,       \* last_steering.elapsed(), capped at Cooldown
    consecutive_degraded, \* PathState.consecutive_degraded
    decision              \* decisions["default"], the last decision recorded

path == <<active_interface, active_score, since_steering, consecutive_degraded>>
vars == <<auto_failover, health_scores, path, decision>>

Reasons == {"Initial", "HealthDegraded", "BetterPath", "NoViablePath"}

Decision == [active_interface : Ifaces, active_score : Scores,
             is_failover : BOOLEAN, reason : Reasons]

NoDecision == [reason |-> "None"]

\* Degraded readings that trigger a failover; the count is not followed above it.
FailoverAfter == 3

TypeOK ==
    /\ auto_failover \in BOOLEAN
    /\ DOMAIN health_scores \subseteq Ifaces
    /\ health_scores \in [DOMAIN health_scores -> Scores]
    /\ active_interface \in Ifaces \cup {NoIface}
    /\ active_score \in Nat
    /\ since_steering \in 0 .. Cooldown
    /\ consecutive_degraded \in 0 .. FailoverAfter
    /\ decision \in Decision \cup {NoDecision}

Init ==
    /\ auto_failover \in AutoFailoverModes
    /\ health_scores = [i \in {} |-> 0]
    /\ active_interface = NoIface
    /\ active_score = 0
    /\ since_steering = 0
    /\ consecutive_degraded = 0
    /\ decision = NoDecision

------------------------------------------------------------------------------

Viable(scores) == {i \in DOMAIN scores : scores[i] >= MinViable}

\* find_best_interface: an interface of the highest viable score.  The map is
\* hashed, so which of several equal ones comes out is not determined.
BestIfaces(scores) ==
    {i \in Viable(scores) : \A j \in Viable(scores) : scores[j] <= scores[i]}

\* on_health_update first stores the reading.
Store(i, s) ==
    health_scores' = [j \in DOMAIN health_scores \cup {i} |->
                         IF j = i THEN s ELSE health_scores[j]]

\* Mutant: steer leaves the score of the path it replaces.
TakePath_KeepsScore(b, failover, why) ==
    /\ active_interface' = b
    /\ active_score' = active_score
    /\ since_steering' = 0
    /\ consecutive_degraded' = 0
    /\ decision' = [active_interface |-> b, active_score |-> health_scores'[b],
                    is_failover |-> failover, reason |-> why]

\* What make_initial_assignment and steer write for interface b.
TakePath(b, failover, why) ==
    /\ active_interface' = b
    /\ active_score' = health_scores'[b]
    /\ since_steering' = 0
    /\ consecutive_degraded' = 0
    /\ decision' = [active_interface |-> b, active_score |-> health_scores'[b],
                    is_failover |-> failover, reason |-> why]

\* No interface is viable: the path stays and the decision says so.
NoViablePath(i, s) ==
    /\ Store(i, s)
    /\ Viable(health_scores') = {}
    /\ decision' = IF active_interface = NoIface
                   THEN decision
                   ELSE [active_interface |-> active_interface,
                         active_score |-> active_score,
                         is_failover |-> FALSE, reason |-> "NoViablePath"]
    /\ UNCHANGED <<auto_failover, path>>

InitialAssignment(i, s) ==
    /\ Store(i, s)
    /\ active_interface = NoIface
    /\ \E b \in BestIfaces(health_scores') : TakePath(b, FALSE, "Initial")
    /\ UNCHANGED auto_failover

\* The evaluation returns at the cooldown test, before it looks at the reading.
InCooldown(i, s) ==
    /\ Store(i, s)
    /\ Viable(health_scores') # {}
    /\ active_interface # NoIface
    /\ since_steering < Cooldown
    /\ UNCHANGED <<auto_failover, path, decision>>

\* Mutant: the cooldown test is dropped.
Evaluated_NoCooldown ==
    /\ Viable(health_scores') # {}
    /\ active_interface # NoIface

\* The evaluation got past the cooldown test.
Evaluated ==
    /\ Viable(health_scores') # {}
    /\ active_interface # NoIface
    /\ since_steering >= Cooldown

DegradedReading(i, s) == i = active_interface /\ s < MinViable

\* A degraded reading of the current path that does not steer: too few of them
\* yet, or automatic failover is off.
CountDegraded(i, s) ==
    /\ Store(i, s)
    /\ Evaluated
    /\ DegradedReading(i, s)
    /\ consecutive_degraded + 1 < FailoverAfter \/ ~auto_failover
    /\ consecutive_degraded' = IF consecutive_degraded < FailoverAfter
                               THEN consecutive_degraded + 1
                               ELSE FailoverAfter
    /\ UNCHANGED <<auto_failover, active_interface, active_score,
                   since_steering, decision>>

\* The third degraded reading: the best viable interface, never the current one,
\* takes over.
Failover(i, s) ==
    /\ Store(i, s)
    /\ Evaluated
    /\ DegradedReading(i, s)
    /\ consecutive_degraded + 1 >= FailoverAfter
    /\ auto_failover
    /\ \E b \in BestIfaces(health_scores') : TakePath(b, TRUE, "HealthDegraded")
    /\ UNCHANGED auto_failover

\* The gain is measured against the score the path had when it was chosen.  The
\* bufferbloat test that follows it in the code asks for the same gain and more,
\* so it never decides anything.
Better(b) ==
    /\ b # active_interface
    /\ health_scores'[b] - active_score > Hysteresis

\* Any other reading moves the traffic to a better path ...
SwitchToBetter(i, s) ==
    /\ Store(i, s)
    /\ Evaluated
    /\ ~DegradedReading(i, s)
    /\ auto_failover
    /\ \E b \in BestIfaces(health_scores') :
           Better(b) /\ TakePath(b, FALSE, "BetterPath")
    /\ UNCHANGED auto_failover

\* Mutant: a healthy reading of the current path does not reset the count.
KeepPath_NeverForgets(i, s) ==
    /\ Store(i, s)
    /\ Evaluated
    /\ ~DegradedReading(i, s)
    /\ ~auto_failover \/ \E b \in BestIfaces(health_scores') : ~Better(b)
    /\ UNCHANGED <<auto_failover, path, decision>>

\* Mutant: a reading of any interface resets the count.
KeepPath_ForgetsAlways(i, s) ==
    /\ Store(i, s)
    /\ Evaluated
    /\ ~DegradedReading(i, s)
    /\ ~auto_failover \/ \E b \in BestIfaces(health_scores') : ~Better(b)
    /\ consecutive_degraded' = 0
    /\ UNCHANGED <<auto_failover, active_interface, active_score,
                   since_steering, decision>>

\* ... or leaves it, forgetting degraded readings if the current path recovered.
KeepPath(i, s) ==
    /\ Store(i, s)
    /\ Evaluated
    /\ ~DegradedReading(i, s)
    /\ ~auto_failover \/ \E b \in BestIfaces(health_scores') : ~Better(b)
    /\ consecutive_degraded' =
           IF i = active_interface THEN 0 ELSE consecutive_degraded
    /\ UNCHANGED <<auto_failover, active_interface, active_score,
                   since_steering, decision>>

HealthUpdate(i, s) ==
    \/ NoViablePath(i, s)
    \/ InitialAssignment(i, s)
    \/ InCooldown(i, s)
    \/ CountDegraded(i, s)
    \/ Failover(i, s)
    \/ SwitchToBetter(i, s)
    \/ KeepPath(i, s)

\* Mutant: reset() clears the paths only.
Reset_KeepsDecision ==
    /\ active_interface' = NoIface
    /\ active_score' = 0
    /\ since_steering' = 0
    /\ consecutive_degraded' = 0
    /\ UNCHANGED <<auto_failover, health_scores, decision>>

\* reset(): the path and the decision are forgotten, the scores are kept.
Reset ==
    /\ active_interface' = NoIface
    /\ active_score' = 0
    /\ since_steering' = 0
    /\ consecutive_degraded' = 0
    /\ decision' = NoDecision
    /\ UNCHANGED <<auto_failover, health_scores>>

\* Time passes; beyond the cooldown it no longer matters how much.
Tick ==
    /\ active_interface # NoIface
    /\ since_steering < Cooldown
    /\ since_steering' = since_steering + 1
    /\ UNCHANGED <<auto_failover, health_scores, active_interface, active_score,
                   consecutive_degraded, decision>>

Next ==
    \/ \E i \in Ifaces, s \in Scores : HealthUpdate(i, s)
    \/ Reset
    \/ Tick

\* The monitor probes every interface again and again, and time passes.  Nothing
\* is assumed of the scores it reports, nor that reset is ever called.
Fairness ==
    /\ \A i \in Ifaces : WF_vars(\E s \in Scores : HealthUpdate(i, s))
    /\ WF_vars(Tick)

Spec == Init /\ [][Next]_vars
FairSpec == Spec /\ Fairness

------------------------------------------------------------------------------

\* The recorded decision names the interface the traffic is on and the score it
\* was chosen with, across refused steers, lost viability and resets.
DecisionMatchesPath ==
    IF active_interface = NoIface
    THEN decision = NoDecision
    ELSE /\ decision # NoDecision
         /\ decision.active_interface = active_interface
         /\ decision.active_score = active_score

\* "Consecutive" means it: while any degraded reading is counted, the last reading
\* of the current path was degraded, and none was counted during a cooldown.
DegradedCountConsecutive ==
    consecutive_degraded > 0 =>
        /\ active_interface \in DOMAIN health_scores
        /\ health_scores[active_interface] < MinViable
        /\ since_steering = Cooldown

\* Traffic leaves an interface only after a full cooldown, only for a viable one,
\* and leaves an interface whose last reading is viable only for a gain, over the
\* score it was chosen with, of more than the hysteresis.
SwitchJustified ==
    [][ /\ active_interface # NoIface
        /\ active_interface' \notin {NoIface, active_interface}
        => /\ since_steering = Cooldown
           /\ health_scores'[active_interface'] >= MinViable
           /\ \/ health_scores'[active_interface] < MinViable
              \/ active_score' - active_score > Hysteresis ]_vars

\* Endless switching takes endless failovers or resets: switches to better paths
\* alone die out, because each raises the score the next one has to beat.
NoEndlessFlapping ==
    []<><<\E i \in Ifaces, s \in Scores : SwitchToBetter(i, s)>>_vars
    => \/ []<><<\E i \in Ifaces, s \in Scores : Failover(i, s)>>_vars
       \/ []<><<Reset>>_vars

\* With automatic failover on, traffic does not stay for ever on an interface
\* whose readings stay below the threshold while another one stays viable.
DegradedPathAbandoned ==
    auto_failover =>
        \A i \in Ifaces :
            ~<>[](/\ active_interface = i
                  /\ health_scores[i] < MinViable
                  /\ Viable(health_scores) # {})
==============================================================================
