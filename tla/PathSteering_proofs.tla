------------------------- MODULE PathSteering_proofs -------------------------
(***************************************************************************)
(* Proofs about PathSteering, for every set of interfaces, every set of    *)
(* scores, every threshold, hysteresis and cooldown.                       *)
(***************************************************************************)
EXTENDS PathSteering, TLAPS

\* The interface the traffic is on has been reported, so it has a cached score.
PathIsReported ==
    active_interface # NoIface => active_interface \in DOMAIN health_scores

\* The inductive invariant.  The count of degraded readings says nothing about
\* the cached score of the current path unless that score exists and survives.
IInv ==
    /\ TypeOK
    /\ PathIsReported
    /\ DecisionMatchesPath
    /\ DegradedCountConsecutive

------------------------------------------------------------------------------

\* Storing a reading keeps the earlier interfaces, sets the reported one to the
\* reading and no other one (on_health_update's insert into health_scores).
LEMMA StoreProperties ==
    ASSUME TypeOK, NEW i \in Ifaces, NEW s \in Scores, Store(i, s)
    PROVE  /\ DOMAIN health_scores' = DOMAIN health_scores \cup {i}
           /\ DOMAIN health_scores' \subseteq Ifaces
           /\ health_scores' \in [DOMAIN health_scores' -> Scores]
           /\ health_scores'[i] = s
           /\ \A j \in DOMAIN health_scores \ {i} :
                  health_scores'[j] = health_scores[j]
  BY DEF Store, TypeOK

\* What find_best_interface returns was reported and is viable.
LEMMA BestIsViable ==
    ASSUME NEW scores, NEW b \in BestIfaces(scores)
    PROVE  b \in DOMAIN scores /\ scores[b] >= MinViable
  BY DEF BestIfaces, Viable

\* Taking a reported interface, whatever the reason, establishes the invariant.
LEMMA TakePathInv ==
    ASSUME auto_failover' \in BOOLEAN, DOMAIN health_scores' \subseteq Ifaces,
           health_scores' \in [DOMAIN health_scores' -> Scores],
           NEW b \in DOMAIN health_scores', NEW failover \in BOOLEAN,
           NEW why \in Reasons, TakePath(b, failover, why)
    PROVE  IInv'
  <1>1. b \in Ifaces /\ b # NoIface /\ health_scores'[b] \in Scores
    BY SteeringAssumption
  <1>2. health_scores'[b] \in Nat
    BY <1>1, SteeringAssumption
  <1>3. decision' \in Decision
    BY <1>1 DEF TakePath, Decision
  <1>4. decision' # NoDecision
    BY DEF TakePath, NoDecision, Reasons
  <1>5. TypeOK'
    BY <1>1, <1>2, <1>3, SteeringAssumption DEF TypeOK, TakePath, FailoverAfter
  <1>6. PathIsReported' /\ DecisionMatchesPath' /\ DegradedCountConsecutive'
    BY <1>1, <1>4 DEF TakePath, PathIsReported, DecisionMatchesPath,
       DegradedCountConsecutive
  <1> QED BY <1>5, <1>6 DEF IInv

LEMMA InitInv == Init => IInv
  <1> SUFFICES ASSUME Init PROVE IInv
    OBVIOUS
  <1>1. TypeOK
    BY SteeringAssumption DEF Init, TypeOK, FailoverAfter
  <1> QED
    BY <1>1 DEF Init, IInv, PathIsReported, DecisionMatchesPath,
       DegradedCountConsecutive

\* Every outcome of an evaluation preserves the invariant.
LEMMA HealthUpdateInv ==
    ASSUME IInv, NEW i \in Ifaces, NEW s \in Scores, HealthUpdate(i, s)
    PROVE  IInv'
  <1> USE SteeringAssumption
  <1>0. TypeOK /\ PathIsReported /\ DecisionMatchesPath /\ DegradedCountConsecutive
    BY DEF IInv
  <1>s. Store(i, s) /\ auto_failover' = auto_failover
    BY DEF HealthUpdate, NoViablePath, InitialAssignment, InCooldown,
       CountDegraded, Failover, SwitchToBetter, KeepPath
  <1>d. /\ DOMAIN health_scores' = DOMAIN health_scores \cup {i}
        /\ DOMAIN health_scores' \subseteq Ifaces
        /\ health_scores' \in [DOMAIN health_scores' -> Scores]
        /\ health_scores'[i] = s
        /\ \A j \in DOMAIN health_scores \ {i} :
               health_scores'[j] = health_scores[j]
    BY <1>0, <1>s, StoreProperties
  <1>a. auto_failover' \in BOOLEAN
    BY <1>0, <1>s DEF TypeOK
  <1>1. ASSUME NoViablePath(i, s) PROVE IInv'
    <2>1. UNCHANGED path
      BY <1>1 DEF NoViablePath
    <2>2. decision' \in Decision \cup {NoDecision}
      <3>1. CASE active_interface = NoIface
        BY <1>0, <1>1, <3>1 DEF NoViablePath, TypeOK
      <3>2. CASE active_interface # NoIface
        <4>1. active_interface \in Ifaces
          BY <1>0, <3>2 DEF TypeOK
        <4>2. decision \in Decision /\ decision.active_score = active_score
          BY <1>0, <3>2 DEF TypeOK, DecisionMatchesPath
        <4>3. active_score \in Scores
          BY <4>2 DEF Decision
        <4> QED BY <1>1, <3>2, <4>1, <4>3 DEF NoViablePath, Decision, Reasons
      <3> QED BY <3>1, <3>2
    <2>3. TypeOK'
      BY <1>0, <1>a, <1>d, <2>1, <2>2 DEF TypeOK, path
    <2>4. PathIsReported'
      BY <1>0, <1>d, <2>1 DEF PathIsReported, path
    <2>5. DecisionMatchesPath'
      BY <1>0, <1>1, <2>1 DEF NoViablePath, DecisionMatchesPath, path,
         NoDecision
    <2>6. DegradedCountConsecutive'
      <3>1. ASSUME consecutive_degraded > 0
            PROVE  health_scores'[active_interface] < MinViable
        <4>1. active_interface \in DOMAIN health_scores'
          BY <1>0, <1>d, <3>1 DEF DegradedCountConsecutive
        <4>2. health_scores'[active_interface] \in Nat
          BY <4>1, <1>d
        <4> QED BY <1>1, <4>1, <4>2 DEF NoViablePath, Viable
      <3> QED
        BY <1>0, <1>d, <2>1, <3>1 DEF DegradedCountConsecutive, path
    <2> QED BY <2>3, <2>4, <2>5, <2>6 DEF IInv
  <1>2. ASSUME InitialAssignment(i, s) PROVE IInv'
    <2>1. PICK b \in BestIfaces(health_scores') : TakePath(b, FALSE, "Initial")
      BY <1>2 DEF InitialAssignment
    <2> QED BY <2>1, <1>0, <1>a, <1>d, BestIsViable, TakePathInv DEF Reasons
  <1>3. ASSUME InCooldown(i, s) PROVE IInv'
    <2>1. /\ UNCHANGED path /\ decision' = decision
          /\ since_steering < Cooldown
      BY <1>3 DEF InCooldown
    <2>2. TypeOK'
      BY <1>0, <1>a, <1>d, <2>1 DEF TypeOK, path
    <2>3. PathIsReported' /\ DecisionMatchesPath'
      BY <1>0, <1>d, <2>1 DEF PathIsReported, DecisionMatchesPath, path
    <2>4. DegradedCountConsecutive'
      BY <1>0, <2>1 DEF DegradedCountConsecutive, TypeOK, path
    <2> QED BY <2>2, <2>3, <2>4 DEF IInv
  <1>4. ASSUME CountDegraded(i, s) PROVE IInv'
    <2>1. /\ i = active_interface /\ s < MinViable
          /\ since_steering >= Cooldown /\ active_interface # NoIface
          /\ UNCHANGED <<active_interface, active_score, since_steering, decision>>
      BY <1>4 DEF CountDegraded, DegradedReading, Evaluated
    <2>2. consecutive_degraded' \in 0 .. FailoverAfter
      BY <1>0, <1>4 DEF CountDegraded, TypeOK, FailoverAfter
    <2>3. TypeOK'
      BY <1>0, <1>a, <1>d, <2>1, <2>2 DEF TypeOK
    <2>4. PathIsReported' /\ DecisionMatchesPath'
      BY <1>0, <1>d, <2>1 DEF PathIsReported, DecisionMatchesPath
    <2>5. DegradedCountConsecutive'
      BY <1>0, <1>d, <2>1 DEF DegradedCountConsecutive, TypeOK
    <2> QED BY <2>3, <2>4, <2>5 DEF IInv
  <1>5. ASSUME Failover(i, s) PROVE IInv'
    <2>1. PICK b \in BestIfaces(health_scores') :
              TakePath(b, TRUE, "HealthDegraded")
      BY <1>5 DEF Failover
    <2> QED BY <2>1, <1>0, <1>a, <1>d, BestIsViable, TakePathInv DEF Reasons
  <1>6. ASSUME SwitchToBetter(i, s) PROVE IInv'
    <2>1. PICK b \in BestIfaces(health_scores') :
              TakePath(b, FALSE, "BetterPath")
      BY <1>6 DEF SwitchToBetter
    <2> QED BY <2>1, <1>0, <1>a, <1>d, BestIsViable, TakePathInv DEF Reasons
  <1>7. ASSUME KeepPath(i, s) PROVE IInv'
    <2>1. /\ ~(i = active_interface /\ s < MinViable)
          /\ consecutive_degraded' =
                 IF i = active_interface THEN 0 ELSE consecutive_degraded
          /\ UNCHANGED <<active_interface, active_score, since_steering, decision>>
      BY <1>7 DEF KeepPath, DegradedReading
    <2>2. TypeOK'
      BY <1>0, <1>a, <1>d, <2>1 DEF TypeOK, FailoverAfter
    <2>3. PathIsReported' /\ DecisionMatchesPath'
      BY <1>0, <1>d, <2>1 DEF PathIsReported, DecisionMatchesPath
    <2>4. DegradedCountConsecutive'
      BY <1>0, <1>d, <2>1 DEF DegradedCountConsecutive
    <2> QED BY <2>2, <2>3, <2>4 DEF IInv
  <1> QED
    BY <1>1, <1>2, <1>3, <1>4, <1>5, <1>6, <1>7 DEF HealthUpdate

LEMMA NextInv == IInv /\ [Next]_vars => IInv'
  <1> SUFFICES ASSUME IInv, [Next]_vars PROVE IInv'
    OBVIOUS
  <1> USE SteeringAssumption
  <1>1. CASE \E i \in Ifaces, s \in Scores : HealthUpdate(i, s)
    BY <1>1, HealthUpdateInv
  <1>2. CASE Reset
    BY <1>2 DEF Reset, IInv, TypeOK, FailoverAfter, PathIsReported,
       DecisionMatchesPath, DegradedCountConsecutive
  <1>3. CASE Tick
    <2>1. TypeOK'
      BY <1>3 DEF Tick, IInv, TypeOK
    <2>2. PathIsReported' /\ DecisionMatchesPath'
      BY <1>3 DEF Tick, IInv, PathIsReported, DecisionMatchesPath
    <2>3. DegradedCountConsecutive'
      BY <1>3 DEF Tick, IInv, TypeOK, DegradedCountConsecutive
    <2> QED BY <2>1, <2>2, <2>3 DEF IInv
  <1>4. CASE UNCHANGED vars
    BY <1>4 DEF vars, path, IInv, TypeOK, PathIsReported, DecisionMatchesPath,
       DegradedCountConsecutive
  <1> QED BY <1>1, <1>2, <1>3, <1>4 DEF Next

\* The inductive invariant holds in every reachable state.
THEOREM Invariance == Spec => []IInv
  BY InitInv, NextInv, PTL DEF Spec

\* The state of the engine keeps its types, whatever is reported and when.
THEOREM TypeCorrect == Spec => []TypeOK
  BY Invariance, PTL DEF IInv

\* decisions["default"] always describes the path in path_states["default"].
THEOREM DecisionCorrect == Spec => []DecisionMatchesPath
  BY Invariance, PTL DEF IInv

\* The failover count only ever counts degraded readings with no healthy reading
\* of the current path between them, and never one taken during a cooldown.
THEOREM CountCorrect == Spec => []DegradedCountConsecutive
  BY Invariance, PTL DEF IInv

------------------------------------------------------------------------------

\* One switch: after a full cooldown, to a viable interface, and away from a
\* viable one only for a gain.
SwitchStepJustified ==
    /\ active_interface # NoIface
    /\ active_interface' \notin {NoIface, active_interface}
    => /\ since_steering = Cooldown
       /\ health_scores'[active_interface'] >= MinViable
       /\ \/ health_scores'[active_interface] < MinViable
          \/ active_score' - active_score > Hysteresis

LEMMA StepJustified ==
    ASSUME IInv, [Next]_vars PROVE [SwitchStepJustified]_vars
  <1> SUFFICES ASSUME active_interface # NoIface,
                      active_interface' \notin {NoIface, active_interface}
               PROVE  /\ since_steering = Cooldown
                      /\ health_scores'[active_interface'] >= MinViable
                      /\ \/ health_scores'[active_interface] < MinViable
                         \/ active_score' - active_score > Hysteresis
    BY DEF SwitchStepJustified
  <1> USE SteeringAssumption
  <1>1. PICK i \in Ifaces, s \in Scores :
            Failover(i, s) \/ SwitchToBetter(i, s)
    BY DEF Next, vars, path, Reset, Tick, HealthUpdate, NoViablePath,
       InitialAssignment, InCooldown, CountDegraded, KeepPath
  <1>2. since_steering = Cooldown
    <2>1. since_steering >= Cooldown
      BY <1>1 DEF Failover, SwitchToBetter, Evaluated
    <2> QED BY <2>1 DEF IInv, TypeOK
  <1>3. active_interface' \in BestIfaces(health_scores')
    BY <1>1 DEF Failover, SwitchToBetter, TakePath
  <1>4. CASE Failover(i, s)
    <2>1. Store(i, s) /\ i = active_interface /\ s < MinViable
      BY <1>4 DEF Failover, DegradedReading
    <2>2. health_scores'[active_interface] < MinViable
      BY <2>1, StoreProperties DEF IInv
    <2> QED BY <1>2, <1>3, <2>2, BestIsViable
  <1>5. CASE SwitchToBetter(i, s)
    <2>1. active_score' - active_score > Hysteresis
      BY <1>5 DEF SwitchToBetter, Better, TakePath
    <2> QED BY <1>2, <1>3, <2>1, BestIsViable
  <1> QED BY <1>1, <1>4, <1>5

\* No sequence of readings, resets and waits moves the traffic without a full
\* cooldown before it, to an interface that is not viable, or away from a viable
\* one for less than the hysteresis.
THEOREM SwitchesJustified == Spec => SwitchJustified
  <1>1. IInv /\ [Next]_vars => [SwitchStepJustified]_vars
    BY StepJustified
  <1> QED BY <1>1, Invariance, PTL DEF Spec, SwitchJustified, SwitchStepJustified

------------------------------------------------------------------------------

\* One step's part in NoEndlessFlapping: while the engine is on some interface, only
\* a failover or a reset lowers the score the next interface has to beat; any other
\* step that moves the traffic raises it by more than the hysteresis.
ScoreToBeatStep ==
    /\ active_interface # NoIface
    /\ ~ \E i \in Ifaces, s \in Scores : Failover(i, s)
    /\ ~Reset
    => \/ UNCHANGED <<active_interface, active_score>>
       \/ /\ active_interface' \notin {NoIface, active_interface}
          /\ active_score' > active_score + Hysteresis

ScoreToBeatRises == [][ScoreToBeatStep]_vars

LEMMA GainAdds ==
    ASSUME NEW old \in Nat, NEW new \in Nat, NEW gain \in Nat, new - old > gain
    PROVE  new > old + gain
  OBVIOUS

\* A switch to a better path raises the score to beat by more than the hysteresis.
LEMMA SwitchRaises ==
    ASSUME TypeOK, TypeOK', NEW i \in Ifaces, NEW s \in Scores, SwitchToBetter(i, s)
    PROVE  /\ active_interface' \notin {NoIface, active_interface}
           /\ active_score' > active_score + Hysteresis
  <1>1. PICK b \in BestIfaces(health_scores') :
            Better(b) /\ TakePath(b, FALSE, "BetterPath")
    BY DEF SwitchToBetter
  <1>2. b \in Ifaces
    BY BestIsViable, StoreProperties DEF SwitchToBetter
  <1>3. /\ active_interface' = b /\ b # active_interface /\ b # NoIface
        /\ active_score' - active_score > Hysteresis
    BY <1>1, <1>2, SteeringAssumption DEF Better, TakePath
  <1>4. active_score \in Nat /\ active_score' \in Nat /\ Hysteresis \in Nat
    BY SteeringAssumption DEF TypeOK
  <1>5. active_score' > active_score + Hysteresis
    BY <1>3, <1>4, GainAdds, Zenon
  <1> QED BY <1>3, <1>5

LEMMA ScoreStep ==
    ASSUME IInv, [Next]_vars PROVE ScoreToBeatStep
  <1> SUFFICES ASSUME active_interface # NoIface,
                      ~ \E i \in Ifaces, s \in Scores : Failover(i, s),
                      ~Reset,
                      ~ UNCHANGED <<active_interface, active_score>>
               PROVE  /\ active_interface' \notin {NoIface, active_interface}
                      /\ active_score' > active_score + Hysteresis
    BY DEF ScoreToBeatStep
  <1>1. PICK i \in Ifaces, s \in Scores : SwitchToBetter(i, s)
    BY DEF Next, vars, path, Tick, HealthUpdate, NoViablePath,
       InitialAssignment, InCooldown, CountDegraded, KeepPath
  <1>2. TypeOK /\ TypeOK'
    BY NextInv DEF IInv
  <1> QED BY <1>1, <1>2, SwitchRaises

\* Switches to better paths cannot go round in a circle: between two failovers or
\* resets each one raises the score the next has to beat by more than the hysteresis,
\* whatever the monitor reports (the gain of steer is taken against the score at
\* assignment).  As scores have a best one, this is why they die out.
THEOREM ScoreRises == Spec => ScoreToBeatRises
  <1>1. IInv /\ [Next]_vars => [ScoreToBeatStep]_vars
    BY ScoreStep
  <1> QED BY <1>1, Invariance, PTL DEF Spec, ScoreToBeatRises
==============================================================================
