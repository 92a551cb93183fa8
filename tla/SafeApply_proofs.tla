--------------------------- MODULE SafeApply_proofs ---------------------------
(***************************************************************************)
(* Proofs about SafeApply, for every set of routes and rules and any       *)
(* number of changes.                                                      *)
(***************************************************************************)
EXTENDS SafeApply, TLAPS

\* execute() gives its result back when it ends, and not before.
NoResultYet == phase # "idle" => result = NoResult

\* The snapshot is part of what the kernel had when the changes began.
SnapshotOfBefore == phase # "idle" => previous_routes \subseteq before.routes

\* What a rollback that starts now would delete (the engine's list), or what the one
\* that runs has still to look at.
ToDelete == IF phase = "rollback" THEN pending ELSE managed_routes

\* Every route that the changes added is one that the rollback will find outside its
\* snapshot, or has already failed on, or that the kernel does not give up.
AddedAreListed ==
    phase # "idle" /\ (phase = "rollback" => success) =>
        routes \ before.routes \subseteq (ToDelete \ previous_routes) \cup stuck

\* A route of before that no change tried to delete is in the snapshot or was never on
\* the engine's list: the rollback does not take it for an added one.
OwnRoutesUnlisted ==
    phase # "idle" =>
        (ToDelete \ previous_routes) \cap (before.routes \ touched) = {}

\* The inductive invariant.
IInv ==
    /\ TypeOK
    /\ ManagedInKernel
    /\ NoResultYet
    /\ SnapshotOfBefore
    /\ AddedAreListed
    /\ OwnRoutesUnlisted
    /\ AddedRoutesRemoved
    /\ UntouchedRoutesSurvive

------------------------------------------------------------------------------

\* A result of a rollback is known by its kind and says whether it was complete.
LEMMA RolledBack ==
    ASSUME NEW why \in Causes, NEW ok \in BOOLEAN
    PROVE  /\ Failed(why, ok).kind = why
           /\ Failed(why, ok) \in {Failed(w, TRUE) : w \in Causes} => ok
  <1>1. \A w : Failed(w, TRUE).rollback = TRUE
    BY DEF Failed
  <1>2. Failed(why, ok).kind = why /\ Failed(why, ok).rollback = ok
    BY DEF Failed
  <1> QED BY <1>1, <1>2

\* No other result is one of a rollback.
LEMMA NotRolledBack ==
    ASSUME NEW res \in {NoResult, Done("Success"), Done("ValidationFailed")}
    PROVE  res \notin {Failed(why, TRUE) : why \in Causes}
  <1>1. res.kind \in {"None", "Success", "ValidationFailed"}
    BY DEF NoResult, Done
  <1>2. \A why \in Causes : Failed(why, TRUE).kind \notin {"None", "Success", "ValidationFailed"}
    BY DEF Failed, Causes
  <1> QED BY <1>1, <1>2

LEMMA InitInv == Init => IInv
  <1> SUFFICES ASSUME Init PROVE IInv
    OBVIOUS
  <1>1. TypeOK
    BY SafeApplyAssumption DEF Init, TypeOK, Results, Phases, Causes
  <1>2. AddedRoutesRemoved
    BY NotRolledBack DEF Init, AddedRoutesRemoved
  <1>3. UntouchedRoutesSurvive
    BY DEF Init, UntouchedRoutesSurvive
  <1> QED BY <1>1, <1>2, <1>3 DEF Init, IInv, ManagedInKernel, NoResultYet,
             SnapshotOfBefore, AddedAreListed, OwnRoutesUnlisted

\* Every step keeps the types.
LEMMA TypeInv ==
    ASSUME TypeOK, [Next]_vars
    PROVE  TypeOK'
  <1> USE SafeApplyAssumption DEF TypeOK, config, kernel, flow, history
  <1>1. CASE DirectCall
    BY <1>1 DEF DirectCall, EngineCall, AddDefaultRoute, DelDefaultRoute, AddRule,
       DelRule, Results
  <1>2. CASE Validate
    BY <1>2 DEF Validate, Results
  <1>3. CASE BeginChanges
    BY <1>3 DEF BeginChanges, Results, Phases
  <1>4. CASE Change
    BY <1>4 DEF Change, AddDefaultRoute, DelDefaultRoute, AddRule, DelRule
  <1>5. CASE ChangesDone
    BY <1>5 DEF ChangesDone, Phases
  <1>6. CASE Commit
    BY <1>6 DEF Commit, Phases, Results
  <1>7. CASE BeginRollback
    BY <1>7 DEF BeginRollback, Phases, Causes
  <1>8. ASSUME NEW r \in Routes,
               RollbackSkip(r) \/ RollbackDelete(r) \/ RollbackDeleteFails(r)
        PROVE  TypeOK'
    BY <1>8 DEF RollbackSkip, RollbackDelete, RollbackDeleteFails, DelDefaultRoute
  <1>9. CASE RollbackDone
    BY <1>9 DEF RollbackDone, Phases, Results
  <1>10. CASE Crash
    BY <1>10 DEF Crash, Phases, Causes, Results
  <1>11. CASE UNCHANGED vars
    BY <1>11 DEF vars
  <1> QED BY <1>1, <1>2, <1>3, <1>4, <1>5, <1>6, <1>7, <1>8, <1>9, <1>10, <1>11 DEF Next

\* A call of the engine keeps what it lists in the kernel.
LEMMA EngineKeepsList ==
    ASSUME ManagedInKernel, EngineCall
    PROVE  ManagedInKernel'
  BY DEF EngineCall, AddDefaultRoute, DelDefaultRoute, AddRule, DelRule, ManagedInKernel

\* The changes run between the snapshot and the verification.
LEMMA ChangeInv ==
    ASSUME IInv, Change
    PROVE  IInv'
  <1>1. TypeOK'
    BY TypeInv DEF IInv, Next
  <1>2. ManagedInKernel'
    BY EngineKeepsList DEF Change, EngineCall, IInv
  <1>3. phase = "changing" /\ phase' = phase /\ result' = result /\ result = NoResult
    BY DEF Change, IInv, NoResultYet
  <1>4. UNCHANGED <<stuck, previous_routes, before, dry_run>>
    BY DEF Change, config
  <1>5. NoResultYet' /\ SnapshotOfBefore' /\ AddedRoutesRemoved' /\ UntouchedRoutesSurvive'
    <2>1. AddedRoutesRemoved'
      BY <1>3, NotRolledBack DEF AddedRoutesRemoved
    <2>2. UntouchedRoutesSurvive'
      BY <1>3, <1>4 DEF Change, AddDefaultRoute, DelDefaultRoute, AddRule, DelRule,
         UntouchedRoutesSurvive, IInv
    <2> QED BY <1>3, <1>4, <2>1, <2>2 DEF NoResultYet, SnapshotOfBefore, IInv
  <1>6. AddedAreListed' /\ OwnRoutesUnlisted'
    <2>1. CASE \E r \in Routes : AddDefaultRoute(r) /\ UNCHANGED touched
      BY <1>3, <1>4, <2>1 DEF AddDefaultRoute, AddedAreListed, OwnRoutesUnlisted, ToDelete,
         IInv, SnapshotOfBefore, UntouchedRoutesSurvive
    <2>2. CASE \E r \in Routes : DelDefaultRoute(r) /\ touched' = touched \cup {r}
      BY <1>3, <1>4, <2>2 DEF DelDefaultRoute, AddedAreListed, OwnRoutesUnlisted, ToDelete,
         IInv
    <2>3. CASE (\E p \in Rules : AddRule(p) \/ DelRule(p)) /\ UNCHANGED touched
      BY <1>3, <1>4, <2>3 DEF AddRule, DelRule, AddedAreListed, OwnRoutesUnlisted, ToDelete,
         IInv
    <2> QED BY <2>1, <2>2, <2>3 DEF Change
  <1> QED BY <1>1, <1>2, <1>5, <1>6 DEF IInv

\* Everything else execute() does before its rollback.
LEMMA ExecuteInv ==
    ASSUME IInv, Validate \/ BeginChanges \/ ChangesDone \/ Commit \/ BeginRollback
    PROVE  IInv'
  <1> USE DEF config, kernel, history
  <1>0. TypeOK'
    BY TypeInv DEF IInv, Next
  <1>1. CASE Validate
    <2>1. phase' = "idle" /\ result' \in {Done("Success"), Done("ValidationFailed")}
      BY <1>1 DEF Validate
    <2>2. AddedRoutesRemoved'
      BY <2>1, NotRolledBack DEF AddedRoutesRemoved
    <2>3. ~dry_run' => result'.kind = "ValidationFailed"
      BY <1>1 DEF Validate, Done
    <2>4. UntouchedRoutesSurvive'
      BY <2>1, <2>3 DEF UntouchedRoutesSurvive, Causes
    <2> QED BY <1>0, <1>1, <2>1, <2>2, <2>4 DEF Validate, IInv, ManagedInKernel, NoResultYet,
               SnapshotOfBefore, AddedAreListed, OwnRoutesUnlisted
  <1>2. CASE BeginChanges
    <2>1. phase' = "changing" /\ result' = NoResult /\ UNCHANGED <<routes, managed_routes>>
      BY <1>2 DEF BeginChanges
    <2>2. previous_routes' = managed_routes /\ before'.routes = routes /\ touched' = {}
      BY <1>2 DEF BeginChanges
    <2>3. AddedRoutesRemoved'
      BY <2>1, NotRolledBack DEF AddedRoutesRemoved
    <2> QED BY <1>0, <2>1, <2>2, <2>3 DEF IInv, ManagedInKernel, NoResultYet, SnapshotOfBefore,
               AddedAreListed, OwnRoutesUnlisted, ToDelete, UntouchedRoutesSurvive
  <1>3. CASE ChangesDone
    <2>1. /\ phase = "changing" /\ phase' = "verifying"
          /\ UNCHANGED <<stuck, routes, managed_routes, previous_routes, result, before, touched>>
      BY <1>3 DEF ChangesDone
    <2> QED BY <1>0, <2>1 DEF IInv, ManagedInKernel, NoResultYet, SnapshotOfBefore,
               AddedAreListed, OwnRoutesUnlisted, ToDelete, AddedRoutesRemoved,
               UntouchedRoutesSurvive
  <1>4. CASE Commit
    <2>1. /\ phase # "idle" /\ phase' = "idle" /\ managed_routes' = {}
          /\ result' = Done("Success")
          /\ UNCHANGED <<routes, before, touched>>
      BY <1>4 DEF Commit
    <2>2. AddedRoutesRemoved'
      BY <2>1, NotRolledBack DEF AddedRoutesRemoved
    <2> QED BY <1>0, <2>1, <2>2 DEF IInv, ManagedInKernel, NoResultYet, SnapshotOfBefore,
               AddedAreListed, OwnRoutesUnlisted, UntouchedRoutesSurvive
  <1>5. CASE BeginRollback
    <2>1. /\ phase \in {"changing", "verifying"} /\ phase' = "rollback"
          /\ pending' = managed_routes
          /\ UNCHANGED <<stuck, routes, managed_routes, previous_routes, result, before, touched>>
      BY <1>5 DEF BeginRollback
    <2> QED BY <1>0, <2>1 DEF IInv, ManagedInKernel, NoResultYet, SnapshotOfBefore,
               AddedAreListed, OwnRoutesUnlisted, ToDelete, AddedRoutesRemoved,
               UntouchedRoutesSurvive
  <1> QED BY <1>1, <1>2, <1>3, <1>4, <1>5

\* One turn of the rollback's loop: the route it looks at is skipped, deleted, or left
\* with the rollback marked as incomplete.
LEMMA RollbackInv ==
    ASSUME IInv, NEW r \in Routes,
           RollbackSkip(r) \/ RollbackDelete(r) \/ RollbackDeleteFails(r)
    PROVE  IInv'
  <1> USE DEF config, kernel, history
  <1>0. TypeOK'
    BY TypeInv DEF IInv, Next
  <1>1. /\ phase = "rollback" /\ phase' = "rollback" /\ result = NoResult /\ result' = NoResult
        /\ r \in pending /\ pending' = pending \ {r}
        /\ UNCHANGED <<stuck, previous_routes, before, touched>>
    BY DEF RollbackSkip, RollbackDelete, RollbackDeleteFails, IInv, NoResultYet
  <1>2. NoResultYet' /\ SnapshotOfBefore' /\ OwnRoutesUnlisted'
    BY <1>1 DEF IInv, NoResultYet, SnapshotOfBefore, OwnRoutesUnlisted, ToDelete
  <1>3. AddedRoutesRemoved'
    BY <1>1, NotRolledBack DEF AddedRoutesRemoved
  <1>4. ManagedInKernel'
    BY DEF RollbackSkip, RollbackDelete, RollbackDeleteFails, DelDefaultRoute, IInv,
       ManagedInKernel
  <1>5. AddedAreListed'
    <2>1. CASE RollbackSkip(r)
      BY <1>1, <2>1 DEF RollbackSkip, IInv, AddedAreListed, ToDelete
    <2>2. CASE RollbackDelete(r)
      BY <1>1, <2>2 DEF RollbackDelete, DelDefaultRoute, IInv, AddedAreListed, ToDelete
    <2>3. CASE RollbackDeleteFails(r)
      BY <1>1, <2>3 DEF RollbackDeleteFails, AddedAreListed
    <2> QED BY <2>1, <2>2, <2>3
  <1>6. UntouchedRoutesSurvive'
    <2>1. CASE RollbackDelete(r)
      <3>1. r \notin before.routes \ touched
        BY <1>1, <2>1 DEF RollbackDelete, IInv, OwnRoutesUnlisted, ToDelete
      <3> QED BY <1>1, <2>1, <3>1 DEF RollbackDelete, DelDefaultRoute, IInv,
                 UntouchedRoutesSurvive
    <2>2. CASE RollbackSkip(r) \/ RollbackDeleteFails(r)
      BY <1>1, <2>2 DEF RollbackSkip, RollbackDeleteFails, IInv, UntouchedRoutesSurvive
    <2> QED BY <2>1, <2>2
  <1> QED BY <1>0, <1>2, <1>3, <1>4, <1>5, <1>6 DEF IInv

LEMMA StepInv ==
    ASSUME IInv, [Next]_vars
    PROVE  IInv'
  <1> USE DEF config, kernel, history
  <1>0. TypeOK'
    BY TypeInv DEF IInv
  <1>1. CASE DirectCall
    <2>1. phase' = "idle" /\ result' = NoResult
      BY <1>1 DEF DirectCall
    <2>2. AddedRoutesRemoved' /\ UntouchedRoutesSurvive'
      <3>1. AddedRoutesRemoved'
        BY <2>1, NotRolledBack DEF AddedRoutesRemoved
      <3> QED BY <2>1, <3>1 DEF UntouchedRoutesSurvive, NoResult, Causes
    <2>3. ManagedInKernel'
      BY <1>1, EngineKeepsList DEF DirectCall, IInv
    <2> QED BY <1>0, <2>1, <2>2, <2>3 DEF IInv, NoResultYet, SnapshotOfBefore,
               AddedAreListed, OwnRoutesUnlisted
  <1>2. CASE RollbackDone
    <2>1. /\ phase = "rollback" /\ pending = {} /\ phase' = "idle"
          /\ result' = Failed(cause, success)
          /\ UNCHANGED <<stuck, routes, managed_routes, before, touched>>
      BY <1>2 DEF RollbackDone
    <2>2. cause \in Causes /\ success \in BOOLEAN
      BY DEF IInv, TypeOK
    <2>3. AddedRoutesRemoved'
      BY <2>1, <2>2, RolledBack DEF AddedRoutesRemoved, IInv, AddedAreListed, ToDelete
    <2>4. UntouchedRoutesSurvive'
      BY <2>1 DEF IInv, UntouchedRoutesSurvive
    <2> QED BY <1>0, <2>1, <2>3, <2>4 DEF IInv, ManagedInKernel, NoResultYet,
               SnapshotOfBefore, AddedAreListed, OwnRoutesUnlisted
  <1>3. CASE Crash
    <2>1. phase' = "idle" /\ result' = NoResult /\ managed_routes' = {}
      BY <1>3 DEF Crash
    <2>2. AddedRoutesRemoved'
      BY <2>1, NotRolledBack DEF AddedRoutesRemoved
    <2> QED BY <1>0, <2>1, <2>2 DEF IInv, ManagedInKernel, NoResultYet, SnapshotOfBefore,
               AddedAreListed, OwnRoutesUnlisted, UntouchedRoutesSurvive, NoResult, Causes
  <1>4. CASE UNCHANGED vars
    BY <1>0, <1>4 DEF vars, flow, IInv, ManagedInKernel, NoResultYet, SnapshotOfBefore,
       AddedAreListed, OwnRoutesUnlisted, ToDelete, AddedRoutesRemoved,
       UntouchedRoutesSurvive
  <1> QED BY <1>1, <1>2, <1>3, <1>4, ChangeInv, ExecuteInv, RollbackInv DEF Next

THEOREM Invariance == Spec => []IInv
  BY InitInv, StepInv, PTL DEF Spec

\* Every state of the engine, the kernel and execute() is of its type.
THEOREM TypeCorrect == Spec => []TypeOK
  BY Invariance, PTL DEF IInv

\* Every route on the engine's list (managed_routes) is in the kernel, through crashes,
\* commits and deletions that the kernel refuses.
THEOREM ListCorrect == Spec => []ManagedInKernel
  BY Invariance, PTL DEF IInv

\* A rollback() that returns true has deleted every default route that the changes
\* added and the kernel gives up.
THEOREM RollbackComplete == Spec => []AddedRoutesRemoved
  BY Invariance, PTL DEF IInv

\* Neither execute() nor its rollback takes away a default route of before that the
\* changes did not try to delete themselves.
THEOREM RollbackHarmless == Spec => []UntouchedRoutesSurvive
  BY Invariance, PTL DEF IInv
==============================================================================
