----------------------------- MODULE BondFailover -----------------------------
(***************************************************************************)
(* The failover engine (netfusion-core/src/bonding/failover.rs) over the   *)
(* bond manager's map.  One task alternates between health updates and an  *)
(* interval tick; after either it looks at every bond and announces, at    *)
(* most once per cooldown, those whose failover_active is set.  It never   *)
(* calls update_membership, and its bad-reading counts decide nothing.     *)
(***************************************************************************)
EXTENDS Bonding

CONSTANTS
    MinViable,           \* FailoverConfig.min_viable_score
    FailoverCooldown,    \* FailoverConfig.failover_cooldown, in ticks
    BadReadingThreshold  \* FailoverConfig.bad_reading_threshold

ASSUME FailoverAssumption ==
    /\ MinViable \in Nat
    /\ FailoverCooldown \in Nat
    /\ BadReadingThreshold \in Nat

VARIABLES
    bad_readings,   \* per interface, not followed above the threshold
    last_failover,  \* ticks since last_failover[b], up to the cooldown; Never if unset
    announced       \* ticks since a subscriber last saw a FailoverTriggered of b

engineVars == <<bad_readings, last_failover, announced>>
vars == <<mgrVars, engineVars>>

Never == FailoverCooldown + 1
Ages == 0 .. Never

TypeOK ==
    /\ BondingTypeOK
    /\ bad_readings \in [Ifaces -> 0 .. BadReadingThreshold]
    /\ last_failover \in [Bonds -> Ages]
    /\ announced \in [Bonds -> Ages]

EngineInit ==
    /\ bad_readings = [i \in Ifaces |-> 0]
    /\ last_failover = [b \in Bonds |-> Never]
    /\ announced = [b \in Bonds |-> Never]

Init == BondingInit /\ EngineInit

------------------------------------------------------------------------------

\* The bonds evaluate_failover announces, each against its cooldown.
Due == {b \in DOMAIN bonds :
            bonds[b].failover_active /\ last_failover[b] >= FailoverCooldown}

\* Mutant: the engine announces without stamping last_failover.
EvaluateFailover_NoStamp ==
    /\ lock = Nobody
    /\ announced' = [b \in Bonds |-> IF b \in Due THEN 0 ELSE announced[b]]
    /\ UNCHANGED last_failover

\* Mutant: a bond is stamped before its cooldown is tested.
EvaluateFailover_StampsFirst ==
    /\ lock = Nobody
    /\ last_failover' = [b \in Bonds |-> IF b \in Due THEN 0
                                         ELSE last_failover[b]]
    /\ UNCHANGED announced

\* evaluate_failover: under the read lock of the map it broadcasts one event per
\* due bond and stamps it.
EvaluateFailover ==
    /\ lock = Nobody
    /\ last_failover' = [b \in Bonds |-> IF b \in Due THEN 0
                                         ELSE last_failover[b]]
    /\ announced' = [b \in Bonds |-> IF b \in Due THEN 0 ELSE announced[b]]

\* process_health_update counts the reading, or forgets the count on a good one.
ProcessHealthUpdate(i, s) ==
    /\ bad_readings' = [bad_readings EXCEPT ![i] =
                           IF s >= MinViable THEN 0
                           ELSE IF @ < BadReadingThreshold THEN @ + 1 ELSE @]
    /\ EvaluateFailover
    /\ UNCHANGED mgrVars

IntervalTick ==
    /\ Due # {}
    /\ EvaluateFailover
    /\ UNCHANGED <<mgrVars, bad_readings>>

Older(age) == IF age < FailoverCooldown THEN age + 1 ELSE age

TimePasses ==
    /\ last_failover' = [b \in Bonds |-> Older(last_failover[b])]
    /\ announced' = [b \in Bonds |-> Older(announced[b])]
    /\ UNCHANGED <<mgrVars, bad_readings>>

\* The engine dies with the manager, and its subscribers with both.
CrashAll ==
    /\ Crash
    /\ bad_readings' = [i \in Ifaces |-> 0]
    /\ last_failover' = [b \in Bonds |-> Never]
    /\ announced' = [b \in Bonds |-> Never]

EngineNext ==
    \/ \E i \in Ifaces, s \in Scores : ProcessHealthUpdate(i, s)
    \/ IntervalTick
    \/ TimePasses

Next ==
    \/ BondingNext /\ UNCHANGED engineVars
    \/ EngineNext
    \/ CrashAll

Spec == Init /\ [][Next]_vars

\* The engine's interval, the clock and the commands of a running caller go on; a
\* fair RwLock lets the engine in again and again between deletions.
FairSpec ==
    /\ Spec
    /\ SF_vars(IntervalTick)
    /\ WF_vars(TimePasses)
    /\ \A t \in Tasks : WF_vars((ReleaseNext(t) \/ DeleteLink(t)) /\ UNCHANGED engineVars)

------------------------------------------------------------------------------

\* Subscribers never see two FailoverTriggered events of one bond within a
\* cooldown, whichever of ticks and health updates bring the evaluations.
AnnouncementsSpaced == \A b \in Due : announced[b] >= FailoverCooldown

\* A bond whose active member changed is announced in the end, unless it is deleted
\* first: neither its cooldown nor deletions that hold the lock silence it for ever.
FailoverAnnounced ==
    \A b \in Bonds :
        (b \in DOMAIN bonds /\ bonds[b].failover_active)
        ~> (b \notin DOMAIN bonds \/ announced[b] = 0)
==============================================================================
