----------------------------- MODULE HealthMonitor -----------------------------
(***************************************************************************)
(* The health monitor (netfusion-core/src/monitoring.rs) with its scoring  *)
(* (health.rs, HealthScore of netfusion-shared/src/types.rs).  One loop    *)
(* holds the read lock of the shared interface list while it pings one     *)
(* interface after the other, and keeps per interface a smoothed score and *)
(* the byte counters of its last reading, but ONE time of last reading.    *)
(* Scores are integers of 0 .. Full, rounded down where the code has f64.  *)
(***************************************************************************)
EXTENDS Integers, FiniteSets

CONSTANTS
    Ifaces,               \* the interfaces of the shared list
    Counters,             \* values of rx_bytes + tx_bytes, in units
    MbpsPerUnit,          \* throughput of one unit per tick
    Pings,                \* answers of ping: rtt, jitter and loss
    WeightChoices,        \* the HealthWeights considered
    Full,                 \* the best score, 100 in the code
    AlphaNum, AlphaDen,   \* MonitorConfig.ema_alpha as a fraction
    HysteresisThreshold,  \* MonitorConfig.hysteresis_threshold
    PingTicks,            \* how long a ping can take
    Horizon,              \* no longer time than this is told apart
    NoUpdate              \* no update was broadcast in the last step

ASSUME MonitorAssumption ==
    /\ Counters \subseteq Nat
    /\ MbpsPerUnit \in Nat \ {0}
    /\ Pings \subseteq [rtt : Nat, jitter : Nat, loss : 0 .. 100]
    /\ WeightChoices \subseteq [{"rtt", "jitter", "loss", "throughput", "stability"}
                                    -> 0 .. 100]
    /\ Full \in Nat \ {0}
    /\ AlphaNum \in Nat /\ AlphaDen \in Nat \ {0} /\ AlphaNum <= AlphaDen
    /\ PingTicks \subseteq Nat \ {0}
    /\ Horizon \in Nat \ {0}

VARIABLES
    weights,          \* HealthMonitor.weights, fixed at start
    interfaces,       \* the shared list: what the last scan saw of each interface
    to_probe,         \* interfaces this pass has still to look at; empty: no pass
    previous_scores,  \* smoothed overall score of each interface scored so far
    last_bytes,       \* ThroughputTracker.last_rx and last_tx together
    elapsed,          \* ticks since ThroughputTracker.last_time, up to Horizon
    own_elapsed,      \* history: ticks since each interface's own last reading
    update            \* the HealthUpdate the last step broadcast

tracker == <<last_bytes, elapsed, own_elapsed>>
monitor == <<weights, interfaces, to_probe, previous_scores, tracker, update>>

Score == 0 .. Full
Metrics == {"rtt", "jitter", "loss", "throughput", "stability"}

MonitorTypeOK ==
    /\ weights \in [Metrics -> 0 .. 100]
    /\ interfaces \in [Ifaces -> [up : BOOLEAN, bytes : Counters]]
    /\ to_probe \subseteq Ifaces
    /\ DOMAIN previous_scores \subseteq Ifaces
    /\ \A i \in DOMAIN previous_scores : previous_scores[i] \in Score
    /\ DOMAIN last_bytes = DOMAIN previous_scores
    /\ \A i \in DOMAIN last_bytes : last_bytes[i] \in Counters
    /\ elapsed \in 0 .. Horizon
    /\ own_elapsed \in [Ifaces -> 0 .. Horizon]
    /\ \/ update = NoUpdate
       \/ /\ update.interface \in Ifaces
          /\ {update.previous_score, update.new_score, update.smoothed_score}
                 \subseteq Score
          /\ update.failover_candidate \in BOOLEAN
          /\ update.throughput \in Nat

Empty == [i \in {} |-> 0]

MonitorInit ==
    /\ weights \in WeightChoices
    /\ interfaces \in [Ifaces -> [up : BOOLEAN, bytes : Counters]]
    /\ to_probe = {}
    /\ previous_scores = Empty
    /\ last_bytes = Empty
    /\ elapsed = 0
    /\ own_elapsed = [i \in Ifaces |-> 0]
    /\ update = NoUpdate

------------------------------------------------------------------------------
(* Scoring *)

\* normalize_linear: ideal and anything beyond it is Full, worst and beyond is 0.
NormalizeLinear(value, ideal, worst) ==
    LET reached(a, b) == IF ideal < worst THEN a <= b ELSE a >= b
    IN IF ideal = worst \/ reached(value, ideal) THEN Full
       ELSE IF reached(worst, value) THEN 0
       ELSE IF ideal < worst
            THEN ((worst - value) * Full) \div (worst - ideal)
            ELSE ((value - worst) * Full) \div (ideal - worst)

\* The normalized metrics of a reading; no state change is ever counted.
Components(ping, mbps) ==
    [rtt |-> NormalizeLinear(ping.rtt, 10, 500),
     jitter |-> NormalizeLinear(ping.jitter, 1, 100),
     loss |-> NormalizeLinear(ping.loss, 0, 10),
     throughput |-> NormalizeLinear(mbps, 1000, 1),
     stability |-> NormalizeLinear(0, 0, 10)]

SumOver(w) == w.rtt + w.jitter + w.loss + w.throughput + w.stability

\* Mutant: the weighted mean is not clamped.
Compute_NoClamp(c, w) ==
    LET total_weight == SumOver(w) % 256
    IN IF total_weight = 0 THEN 0
       ELSE SumOver([m \in Metrics |-> w[m] * c[m]]) \div total_weight

\* HealthScore::compute.  The weights are added as u8, which wraps in the release
\* build, so the clamp matters: the mean of large weights can exceed Full.
Compute(c, w) ==
    LET total_weight == SumOver(w) % 256
        mean == SumOver([m \in Metrics |-> w[m] * c[m]]) \div total_weight
    IN IF total_weight = 0 THEN 0 ELSE IF mean > Full THEN Full ELSE mean

\* HealthScore::ema, for the overall score.
Ema(current, previous) ==
    (AlphaNum * current + (AlphaDen - AlphaNum) * previous) \div AlphaDen

Abs(n) == IF n < 0 THEN -n ELSE n

ExceedsHysteresis(current, previous) == Abs(current - previous) > HysteresisThreshold

------------------------------------------------------------------------------
(* The loop *)

Older(ticks, d) == IF ticks + d < Horizon THEN ticks + d ELSE Horizon

\* The owner of the list replaces it, under its write lock: not during a pass.
\* Counters grow, or start again with a recreated interface.
Scan(seen) ==
    /\ to_probe = {}
    /\ interfaces' = seen
    /\ update' = NoUpdate
    /\ UNCHANGED <<weights, to_probe, previous_scores, tracker>>

\* The interval ticks, d after the last reading at least: the pass begins.
BeginPass(d) ==
    /\ to_probe = {}
    /\ to_probe' = Ifaces
    /\ elapsed' = Older(elapsed, d)
    /\ own_elapsed' = [i \in Ifaces |-> Older(own_elapsed[i], d)]
    /\ update' = NoUpdate
    /\ UNCHANGED <<weights, interfaces, previous_scores, last_bytes>>

\* Mutant: an interface that is down ends the pass.
SkipDown_EndsPass(i) ==
    /\ i \in to_probe /\ ~interfaces[i].up
    /\ to_probe' = {}
    /\ update' = NoUpdate
    /\ UNCHANGED <<weights, interfaces, previous_scores, tracker>>

\* probe_interface returns at once for an interface that is not up.
SkipDown(i) ==
    /\ i \in to_probe /\ ~interfaces[i].up
    /\ to_probe' = to_probe \ {i}
    /\ update' = NoUpdate
    /\ UNCHANGED <<weights, interfaces, previous_scores, tracker>>

\* ThroughputTracker::estimate, d ticks after the ping began: nothing is known of
\* a first reading, and a counter that fell counts as no traffic.
Mbps(i, d) ==
    IF i \notin DOMAIN last_bytes \/ interfaces[i].bytes < last_bytes[i] THEN 0
    ELSE ((interfaces[i].bytes - last_bytes[i]) * MbpsPerUnit)
             \div Older(elapsed, d)

\* Mutant: only the first reading of an interface stamps last_time.
Stamp_FirstOnly(i, d) ==
    /\ last_bytes' = [j \in DOMAIN last_bytes \cup {i} |->
                         IF j = i THEN interfaces[i].bytes ELSE last_bytes[j]]
    /\ elapsed' = IF i \in DOMAIN last_bytes THEN Older(elapsed, d) ELSE 0
    /\ own_elapsed' = [j \in Ifaces |-> IF j = i THEN 0
                                        ELSE Older(own_elapsed[j], d)]

\* estimate stamps the counters of i and the one last_time.
Stamp(i, d) ==
    /\ last_bytes' = [j \in DOMAIN last_bytes \cup {i} |->
                         IF j = i THEN interfaces[i].bytes ELSE last_bytes[j]]
    /\ elapsed' = 0
    /\ own_elapsed' = [j \in Ifaces |-> IF j = i THEN 0
                                        ELSE Older(own_elapsed[j], d)]

Keep(i, score) ==
    previous_scores' = [j \in DOMAIN previous_scores \cup {i} |->
                           IF j = i THEN score ELSE previous_scores[j]]

\* What a ping that exits with an error, or does not end, counts as.
FailedPing == [rtt |-> 999, jitter |-> 100, loss |-> 100]

\* The rest of probe_interface, for a ping of d ticks.  The hysteresis test reads
\* previous_scores again, after the new score was stored there.
ProbeDone(i, ping, d) ==
    /\ i \in to_probe /\ interfaces[i].up
    /\ LET raw == Compute(Components(ping, Mbps(i, d)), weights)
           smoothed == IF i \in DOMAIN previous_scores
                       THEN Ema(raw, previous_scores[i]) ELSE raw
       IN /\ Keep(i, smoothed)
          /\ update' = [interface |-> i,
                        previous_score |-> smoothed,
                        new_score |-> raw,
                        smoothed_score |-> smoothed,
                        failover_candidate |->
                            ExceedsHysteresis(smoothed, previous_scores'[i]),
                        throughput |-> Mbps(i, d)]
    /\ Stamp(i, d)
    /\ to_probe' = to_probe \ {i}
    /\ UNCHANGED <<weights, interfaces>>

Probe(i) == \E ping \in Pings \cup {FailedPing}, d \in PingTicks : ProbeDone(i, ping, d)

MonitorNext ==
    \/ \E seen \in [Ifaces -> [up : BOOLEAN, bytes : Counters]] : Scan(seen)
    \/ \E d \in PingTicks : BeginPass(d)
    \/ \E i \in Ifaces : SkipDown(i) \/ Probe(i)

MonitorSpec == MonitorInit /\ [][MonitorNext]_monitor

\* The interval ticks for ever and every ping ends: ping has its own timeout and
\* the monitor gives up on it after three times its own.
MonitorFairSpec ==
    /\ MonitorSpec
    /\ WF_monitor(\E d \in PingTicks : BeginPass(d))
    /\ \A i \in Ifaces : WF_monitor(SkipDown(i) \/ Probe(i))

------------------------------------------------------------------------------

\* No traffic goes missing between readings: the throughput reported is at least
\* what the interface moved since its own last reading, over that time.  With the
\* one last_time of all interfaces it can be more, never less.
ThroughputNotUnderstated ==
    [][\A i \in DOMAIN last_bytes, ping \in Pings \cup {FailedPing}, d \in PingTicks :
           ProbeDone(i, ping, d) =>
               (update'.throughput + 1) * Older(own_elapsed[i], d)
                   > (interfaces[i].bytes - last_bytes[i]) * MbpsPerUnit]_monitor

\* Interfaces that are down or whose pings run into their timeout do not starve
\* the others: one that stays up is reported again and again.
UpInterfaceReported ==
    \A i \in Ifaces :
        []<>(~interfaces[i].up \/ (update # NoUpdate /\ update.interface = i))

==============================================================================
