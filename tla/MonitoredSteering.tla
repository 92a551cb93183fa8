--------------------------- MODULE MonitoredSteering ---------------------------
(***************************************************************************)
(* The health monitor and the path steerer composed: every update the      *)
(* monitor broadcasts waits in the steerer's receiver and is evaluated in  *)
(* order.  The components are the modules HealthMonitor and PathSteering   *)
(* as they are; what is new is the channel between them.  Together they    *)
(* implement SmoothedSteering, which has no channel.                       *)
(***************************************************************************)
EXTENDS HealthMonitor, Sequences

CONSTANTS
    MinViable, Hysteresis, Cooldown, AutoFailoverModes, NoIface, \* PathSteering
    MaxPending  \* bound: updates waiting; the broadcast channel holds 1024

VARIABLES
    auto_failover, health_scores, active_interface, active_score, since_steering,
    consecutive_degraded, decision,
    pending     \* the updates the steerer's broadcast::Receiver has not taken yet

Steerer == INSTANCE PathSteering WITH Scores <- Score

\* The abstract specification: no channel, and a steerer that smooths for itself.
Promise == INSTANCE SmoothedSteering WITH Scores <- Score, Smooth <- Ema

steerer == <<auto_failover, health_scores, active_interface, active_score,
             since_steering, consecutive_degraded, decision>>
vars == <<monitor, steerer, pending>>

Init == MonitorInit /\ Steerer!Init /\ pending = <<>>

\* Mutant: an update is sent only when the smoothed score changed.
Probe_OnlyChanges(i) ==
    /\ Len(pending) < MaxPending
    /\ Probe(i)
    /\ pending' = IF previous_scores' = previous_scores THEN pending
                  ELSE Append(pending, update')
    /\ UNCHANGED steerer

\* A probe ends and its update is sent; sending never waits for the receiver.
MonitorProbe(i) ==
    /\ Len(pending) < MaxPending
    /\ Probe(i)
    /\ pending' = Append(pending, update')
    /\ UNCHANGED steerer

\* A probe that sends nothing, because the interface is down.
MonitorSkip(i) == SkipDown(i) /\ UNCHANGED <<steerer, pending>>

MonitorPass ==
    /\ \E d \in PingTicks : BeginPass(d)
    /\ UNCHANGED <<steerer, pending>>

MonitorScan(seen) == Scan(seen) /\ UNCHANGED <<steerer, pending>>

\* Mutant: the receiver keeps the newest update only.
Deliver_NewestOnly ==
    /\ pending # <<>>
    /\ LET last == pending[Len(pending)]
       IN Steerer!HealthUpdate(last.interface, last.smoothed_score)
    /\ pending' = <<>>
    /\ UNCHANGED monitor

\* Mutant: updates are stored as they come, and the path is evaluated on the last.
Deliver_Batched ==
    /\ pending # <<>>
    /\ IF Len(pending) = 1
       THEN Steerer!HealthUpdate(Head(pending).interface, Head(pending).smoothed_score)
       ELSE /\ Steerer!Store(Head(pending).interface, Head(pending).smoothed_score)
            /\ UNCHANGED <<auto_failover, active_interface, active_score,
                           since_steering, consecutive_degraded, decision>>
    /\ pending' = Tail(pending)
    /\ UNCHANGED monitor

\* The steerer takes the oldest update; it looks at the smoothed score only.
Deliver ==
    /\ pending # <<>>
    /\ Steerer!HealthUpdate(Head(pending).interface, Head(pending).smoothed_score)
    /\ pending' = Tail(pending)
    /\ UNCHANGED monitor

Tick == Steerer!Tick /\ UNCHANGED <<monitor, pending>>

Next ==
    \/ \E i \in Ifaces : MonitorProbe(i) \/ MonitorSkip(i)
    \/ MonitorPass
    \/ \E seen \in [Ifaces -> [up : BOOLEAN, bytes : Counters]] : MonitorScan(seen)
    \/ Deliver
    \/ Tick

Spec == Init /\ [][Next]_vars

\* The fairness of the monitor, a steerer that takes its updates, and time.
FairSpec ==
    /\ Spec
    /\ WF_vars(MonitorPass)
    /\ \A i \in Ifaces : WF_vars(MonitorProbe(i) \/ MonitorSkip(i))
    /\ WF_vars(Deliver)
    /\ WF_vars(Tick)

------------------------------------------------------------------------------

\* The steerer knows what the monitor knows, but for the updates under way: the score
\* it caches for an interface is the monitor's as soon as no update of that interface
\* waits.  Needs every smoothed score sent, in order, and the cache keyed as the scores.
CacheCurrent ==
    \A i \in Ifaces :
        \/ \E n \in DOMAIN pending : pending[n].interface = i
        \/ i \notin DOMAIN previous_scores /\ i \notin DOMAIN health_scores
        \/ /\ i \in DOMAIN previous_scores /\ i \in DOMAIN health_scores
           /\ health_scores[i] = previous_scores[i]

\* From the ping to the path: with automatic failover on, traffic does not stay for
\* ever on an interface that is up and whose smoothed score stays below the threshold
\* while another one is up and viable.
FailingPathAbandoned ==
    auto_failover =>
        \A i, j \in Ifaces :
            ~<>[](/\ active_interface = i /\ interfaces[i].up
                  /\ previous_scores[i] < MinViable
                  /\ interfaces[j].up /\ j \in DOMAIN previous_scores
                  /\ previous_scores[j] >= MinViable)

\* Two caches and a channel between them act as one: each delivery is the evaluation of
\* one raw score, smoothed with the score the steerer itself cached before, although the
\* monitor smoothed it earlier, with its own score, while older updates were under way.
\* Broken by an update that is lost, folded into another, out of order or smoothed twice.
SmoothedSpec == Promise!SmoothedSpec

\* With automatic failover on, traffic does not stay for ever on an interface that
\* the daemon's own list shows as down while another one is up and viable: the steerer
\* promises to act when "an interface's health drops below a configurable threshold".
\* The monitor sends nothing for an interface that is down, so its last good score
\* stays in the steerer's cache.
DownPathAbandoned ==
    auto_failover =>
        \A i, j \in Ifaces :
            ~<>[](/\ active_interface = i /\ ~interfaces[i].up
                  /\ interfaces[j].up /\ j \in DOMAIN previous_scores
                  /\ previous_scores[j] >= MinViable)
==============================================================================
