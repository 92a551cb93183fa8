------------------------------ MODULE SafeApply ------------------------------
(***************************************************************************)
(* The safe apply flow (netfusion-core/src/routing/safe_apply.rs) over the *)
(* routing engine (routing/engine.rs): validate, snapshot the engine's     *)
(* list of managed routes, run the caller's changes, verify connectivity,  *)
(* and commit or roll back.  The engine's list and the kernel's routes and *)
(* rules are separate state; a crash loses the first and keeps the second. *)
(***************************************************************************)
EXTENDS Integers, FiniteSets

CONSTANTS
    Routes,     \* default routes: a gateway, an interface and a metric each
    Rules,      \* policy rules: a priority and a table each
    MaxChanges  \* bound on the engine calls of one run of the caller's changes

ASSUME SafeApplyAssumption == MaxChanges \in Nat

VARIABLES
    dry_run,         \* SafeApplyConfig.dry_run, fixed at start
    stuck,           \* routes the kernel refuses to delete, fixed at start
    routes,          \* default routes in the kernel
    rules,           \* policy rules in the kernel
    managed_routes,  \* RoutingEngine.managed_routes
    phase,           \* where execute() is
    previous_routes, \* the snapshot execute() took
    pending,         \* managed routes rollback() has still to look at
    success,         \* rollback()'s flag
    cause,           \* why rollback() runs
    changes,         \* engine calls the caller's changes have made so far
    result,          \* what execute() returned last, until the caller goes on
    before,          \* history: kernel routes and rules when the changes began
    touched          \* history: routes the changes tried to delete

config == <<dry_run, stuck>>
kernel == <<routes, rules>>
flow == <<phase, previous_routes, pending, success, cause, changes, result>>
history == <<before, touched>>
vars == <<config, kernel, managed_routes, flow, history>>

Phases == {"idle", "changing", "verifying", "rollback"}
Causes == {"ApplyFailed", "VerificationFailed"}
NoResult == [kind |-> "None"]
Done(kind) == [kind |-> kind]
Failed(why, ok) == [kind |-> why, rollback |-> ok]

Results ==
    {NoResult, Done("Success"), Done("ValidationFailed")} \cup
    {Failed(why, ok) : why \in Causes, ok \in BOOLEAN}

TypeOK ==
    /\ dry_run \in BOOLEAN
    /\ stuck \subseteq Routes
    /\ routes \subseteq Routes
    /\ rules \subseteq Rules
    /\ managed_routes \subseteq Routes
    /\ phase \in Phases
    /\ previous_routes \subseteq Routes
    /\ pending \subseteq Routes
    /\ success \in BOOLEAN
    /\ cause \in Causes
    /\ changes \in 0 .. MaxChanges
    /\ result \in Results
    /\ before \in [routes : SUBSET Routes, rules : SUBSET Rules]
    /\ touched \subseteq Routes

\* The kernel has the routes it has when the engine starts with an empty list.
Init ==
    /\ dry_run \in BOOLEAN
    /\ stuck \in SUBSET Routes
    /\ routes \in SUBSET Routes
    /\ rules = {}
    /\ managed_routes = {}
    /\ phase = "idle"
    /\ previous_routes = {}
    /\ pending = {}
    /\ success = TRUE
    /\ cause = "ApplyFailed"
    /\ changes = 0
    /\ result = NoResult
    /\ before = [routes |-> routes, rules |-> rules]
    /\ touched = {}

------------------------------------------------------------------------------
(* The routing engine *)

\* add_default_route: the kernel refuses a route it has; a refused or failed call
\* returns an error and changes nothing.  No route is in the list twice, since a
\* listed route is in the kernel.
AddDefaultRoute(r) ==
    /\ r \notin routes
    /\ routes' = routes \cup {r}
    /\ managed_routes' = managed_routes \cup {r}
    /\ UNCHANGED rules

\* Mutant: the route stays on the list.
DelDefaultRoute_KeepsListed(r) ==
    /\ routes' = IF r \in stuck THEN routes ELSE routes \ {r}
    /\ UNCHANGED <<rules, managed_routes>>

\* del_default_route, once ip has been started: its exit status is ignored and
\* the route leaves the list whether or not it left the kernel.
DelDefaultRoute(r) ==
    /\ routes' = IF r \in stuck THEN routes ELSE routes \ {r}
    /\ managed_routes' = managed_routes \ {r}
    /\ UNCHANGED rules

AddRule(p) ==
    /\ p \notin rules
    /\ rules' = rules \cup {p}
    /\ UNCHANGED <<routes, managed_routes>>

DelRule(p) ==
    /\ rules' = rules \ {p}
    /\ UNCHANGED <<routes, managed_routes>>

EngineCall ==
    \/ \E r \in Routes : AddDefaultRoute(r)
    \/ \E r \in Routes : DelDefaultRoute(r)
    \/ \E p \in Rules : AddRule(p) \/ DelRule(p)

\* The engine's owner calls it outside execute().
DirectCall ==
    /\ phase = "idle"
    /\ EngineCall
    /\ result' = NoResult
    /\ UNCHANGED <<config, phase, previous_routes, pending, success, cause,
                   changes, history>>

------------------------------------------------------------------------------
(* execute() *)

\* Validation pings first, except in a dry run, which then changes nothing.
Validate ==
    /\ phase = "idle"
    /\ result' = IF dry_run THEN Done("Success") ELSE Done("ValidationFailed")
    /\ UNCHANGED <<config, kernel, managed_routes, phase, previous_routes, pending,
                   success, cause, changes, history>>

BeginChanges ==
    /\ phase = "idle" /\ ~dry_run
    /\ phase' = "changing"
    /\ previous_routes' = managed_routes
    /\ changes' = 0
    /\ result' = NoResult
    /\ before' = [routes |-> routes, rules |-> rules]
    /\ touched' = {}
    /\ UNCHANGED <<config, kernel, managed_routes, pending, success, cause>>

Change ==
    /\ phase = "changing" /\ changes < MaxChanges
    /\ changes' = changes + 1
    /\ \/ /\ \E r \in Routes : AddDefaultRoute(r)
          /\ UNCHANGED touched
       \/ \E r \in Routes : DelDefaultRoute(r) /\ touched' = touched \cup {r}
       \/ /\ \E p \in Rules : AddRule(p) \/ DelRule(p)
          /\ UNCHANGED touched
    /\ UNCHANGED <<config, phase, previous_routes, pending, success, cause,
                   result, before>>

\* Mutant: the snapshot is taken after the changes.
ChangesDone_LateSnapshot ==
    /\ phase = "changing"
    /\ phase' = "verifying"
    /\ previous_routes' = managed_routes
    /\ UNCHANGED <<config, kernel, managed_routes, pending, success, cause, changes,
                   result, history>>

ChangesDone ==
    /\ phase = "changing"
    /\ phase' = "verifying"
    /\ UNCHANGED <<config, kernel, managed_routes, previous_routes, pending,
                   success, cause, changes, result, history>>

\* Step 6, the verification ping got its answer in time.
Commit ==
    /\ phase = "verifying"
    /\ phase' = "idle"
    /\ managed_routes' = {}
    /\ result' = Done("Success")
    /\ UNCHANGED <<config, kernel, previous_routes, pending, success, cause,
                   changes, history>>

\* The changes returned an error, or the ping failed or timed out: rollback()
\* copies the engine's list.
BeginRollback ==
    /\ phase \in {"changing", "verifying"}
    /\ phase' = "rollback"
    /\ cause' = IF phase = "changing" THEN "ApplyFailed" ELSE "VerificationFailed"
    /\ pending' = managed_routes
    /\ success' = TRUE
    /\ UNCHANGED <<config, kernel, managed_routes, previous_routes, changes,
                   result, history>>

\* Mutant: a skipped route is not taken off the list.
RollbackSkip_Spins(r) ==
    /\ phase = "rollback" /\ r \in pending /\ r \in previous_routes
    /\ UNCHANGED vars

\* One turn of rollback()'s loop.  A route of the snapshot is skipped; any other
\* is deleted, unless ip cannot be started.
RollbackSkip(r) ==
    /\ phase = "rollback" /\ r \in pending /\ r \in previous_routes
    /\ pending' = pending \ {r}
    /\ UNCHANGED <<config, kernel, managed_routes, phase, previous_routes, success,
                   cause, changes, result, history>>

\* Mutant: the routes are not compared with the snapshot.
RollbackDelete_All(r) ==
    /\ phase = "rollback" /\ r \in pending
    /\ DelDefaultRoute(r)
    /\ pending' = pending \ {r}
    /\ UNCHANGED <<config, phase, previous_routes, success, cause, changes, result,
                   history>>

RollbackDelete(r) ==
    /\ phase = "rollback" /\ r \in pending /\ r \notin previous_routes
    /\ DelDefaultRoute(r)
    /\ pending' = pending \ {r}
    /\ UNCHANGED <<config, phase, previous_routes, success, cause, changes, result,
                   history>>

RollbackDeleteFails(r) ==
    /\ phase = "rollback" /\ r \in pending /\ r \notin previous_routes
    /\ success' = FALSE
    /\ pending' = pending \ {r}
    /\ UNCHANGED <<config, kernel, managed_routes, phase, previous_routes, cause,
                   changes, result, history>>

RollbackDone ==
    /\ phase = "rollback" /\ pending = {}
    /\ phase' = "idle"
    /\ result' = Failed(cause, success)
    /\ UNCHANGED <<config, kernel, managed_routes, previous_routes, pending,
                   success, cause, changes, history>>

\* The process dies anywhere and comes back with an empty list.
Crash ==
    /\ managed_routes' = {}
    /\ phase' = "idle"
    /\ previous_routes' = {}
    /\ pending' = {}
    /\ success' = TRUE
    /\ cause' = "ApplyFailed"
    /\ changes' = 0
    /\ result' = NoResult
    /\ UNCHANGED <<config, kernel, history>>

Next ==
    \/ DirectCall
    \/ Validate
    \/ BeginChanges
    \/ Change
    \/ ChangesDone
    \/ Commit
    \/ BeginRollback
    \/ \E r \in Routes : \/ RollbackSkip(r)
                         \/ RollbackDelete(r)
                         \/ RollbackDeleteFails(r)
    \/ RollbackDone
    \/ Crash

Spec == Init /\ [][Next]_vars

\* Once begun, execute() goes on: the changes end, the ping ends (it waits 3 s and
\* the verification 10 s at most) and the loop of rollback() turns.
FairSpec ==
    /\ Spec
    /\ WF_vars(Commit \/ BeginRollback)
    /\ WF_vars(RollbackDone)
    /\ \A r \in Routes :
           WF_vars(RollbackSkip(r) \/ RollbackDelete(r) \/ RollbackDeleteFails(r))

------------------------------------------------------------------------------

\* What the engine lists is in the kernel, so a rollback works on real routes,
\* also after crashes, refused deletions and commits.
ManagedInKernel == managed_routes \subseteq routes

\* A rollback that reports success leaves no default route the changes added,
\* except those the kernel refused to delete.
AddedRoutesRemoved ==
    result \in {Failed(why, TRUE) : why \in Causes} =>
        routes \ before.routes \subseteq stuck

\* While execute() runs, committing or rolling back, no default route of before
\* disappears that its changes did not try to delete themselves.
UntouchedRoutesSurvive ==
    \/ phase # "idle"
    \/ ~dry_run /\ result.kind \in {"Success"} \cup Causes
    => before.routes \ touched \subseteq routes

\* execute() always comes to an end, even if every command of its rollback fails.
ExecuteEnds == phase # "idle" ~> phase = "idle"

==============================================================================
