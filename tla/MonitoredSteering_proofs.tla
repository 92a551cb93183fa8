----------------------- MODULE MonitoredSteering_proofs -----------------------
(***************************************************************************)
(* Proofs about MonitoredSteering, for every set of interfaces, every      *)
(* weighting and smoothing, and any number of updates under way.           *)
(***************************************************************************)
EXTENDS MonitoredSteering, TLAPS

\* What a HealthUpdate carries.
Updates ==
    [interface : Ifaces, previous_score : Score, new_score : Score,
     smoothed_score : Score, failover_candidate : BOOLEAN, throughput : Nat]

\* What the monitor computes its scores from.
ReadingsTyped ==
    /\ weights \in [{"rtt", "jitter", "loss", "throughput", "stability"} -> 0 .. 100]
    /\ interfaces \in [Ifaces -> [up : BOOLEAN, bytes : Counters]]
    /\ to_probe \subseteq Ifaces
    /\ \A i \in DOMAIN last_bytes : last_bytes[i] \in Counters
    /\ elapsed \in 0 .. Horizon

ScoresTyped == \A i \in DOMAIN previous_scores : previous_scores[i] \in Score

IInv == MonitorTypeOK /\ pending \in Seq(Updates)

------------------------------------------------------------------------------
(* The scores of the monitor *)

LEMMA DivNat ==
    ASSUME NEW a \in Nat, NEW b \in Nat \ {0}
    PROVE  a \div b \in Nat
  OBVIOUS

LEMMA ProductNat ==
    ASSUME NEW a \in Nat, NEW b \in Nat
    PROVE  a * b \in Nat
  OBVIOUS

LEMMA ProductMonotone ==
    ASSUME NEW a \in Nat, NEW b \in Nat, NEW c \in Nat, b <= c
    PROVE  a * b <= a * c
  OBVIOUS

LEMMA DivBounded ==
    ASSUME NEW a \in Nat, NEW b \in Nat \ {0}, NEW c \in Nat, a <= b * c
    PROVE  a \div b <= c
  OBVIOUS

\* HealthScore::ema of two scores is a score.
LEMMA EmaType ==
    ASSUME NEW current \in Score, NEW previous \in Score
    PROVE  Ema(current, previous) \in Score
  <1>0. /\ AlphaNum \in Nat /\ AlphaDen \in Nat \ {0} /\ AlphaDen - AlphaNum \in Nat
        /\ Full \in Nat /\ current \in Nat /\ previous \in Nat
        /\ current <= Full /\ previous <= Full
    BY MonitorAssumption DEF Score
  <1> DEFINE a == AlphaNum * current
             b == (AlphaDen - AlphaNum) * previous
  <1>1. a \in Nat /\ b \in Nat
    BY <1>0, ProductNat
  <1>2. a <= AlphaNum * Full /\ b <= (AlphaDen - AlphaNum) * Full
    BY <1>0, ProductMonotone
  <1>3. AlphaNum * Full + (AlphaDen - AlphaNum) * Full = AlphaDen * Full
    BY <1>0
  <1>4. AlphaNum * Full \in Nat /\ (AlphaDen - AlphaNum) * Full \in Nat
    BY <1>0, ProductNat
  <1> HIDE DEF a, b
  <1>5. a + b \in Nat /\ a + b <= AlphaDen * Full
    BY <1>1, <1>2, <1>3, <1>4
  <1>6. (a + b) \div AlphaDen \in Nat /\ (a + b) \div AlphaDen <= Full
    BY <1>0, <1>5, DivNat, DivBounded
  <1> QED BY <1>6, <1>0 DEF Ema, a, b, Score

\* A normalized metric is not negative, whatever the value.
LEMMA NormalizeType ==
    ASSUME NEW value \in Nat, NEW ideal \in Nat, NEW worst \in Nat
    PROVE  NormalizeLinear(value, ideal, worst) \in Nat
  <1>0. Full \in Nat
    BY MonitorAssumption
  <1>1. CASE ideal < worst /\ ideal < value /\ value < worst
    <2>1. ((worst - value) * Full) \div (worst - ideal) \in Nat
      <3>1. worst - value \in Nat /\ worst - ideal \in Nat \ {0}
        BY <1>1
      <3> QED BY <1>0, <3>1, ProductNat, DivNat
    <2> QED BY <1>0, <1>1, <2>1 DEF NormalizeLinear
  <1>2. CASE worst < ideal /\ worst < value /\ value < ideal
    <2>1. ((value - worst) * Full) \div (ideal - worst) \in Nat
      <3>1. value - worst \in Nat /\ ideal - worst \in Nat \ {0}
        BY <1>2
      <3> QED BY <1>0, <3>1, ProductNat, DivNat
    <2> QED BY <1>0, <1>2, <2>1 DEF NormalizeLinear
  <1>3. CASE ~(ideal < worst /\ ideal < value /\ value < worst)
             /\ ~(worst < ideal /\ worst < value /\ value < ideal)
    BY <1>0, <1>3 DEF NormalizeLinear
  <1> QED BY <1>1, <1>2, <1>3

\* The normalized metrics of a ping and a throughput are not negative.
LEMMA ComponentsType ==
    ASSUME NEW ping \in [rtt : Nat, jitter : Nat, loss : 0 .. 100], NEW mbps \in Nat
    PROVE  LET c == Components(ping, mbps)
           IN /\ c.rtt \in Nat /\ c.jitter \in Nat /\ c.loss \in Nat
              /\ c.throughput \in Nat /\ c.stability \in Nat
  <1>1. ping.rtt \in Nat /\ ping.jitter \in Nat /\ ping.loss \in Nat
    OBVIOUS
  <1>2. /\ NormalizeLinear(ping.rtt, 10, 500) \in Nat
        /\ NormalizeLinear(ping.jitter, 1, 100) \in Nat
        /\ NormalizeLinear(ping.loss, 0, 10) \in Nat
        /\ NormalizeLinear(mbps, 1000, 1) \in Nat
        /\ NormalizeLinear(0, 0, 10) \in Nat
    <2>1. 0 \in Nat
      OBVIOUS
    <2>2. NormalizeLinear(ping.rtt, 10, 500) \in Nat
      <3>1. PICK ideal \in Nat, worst \in Nat : ideal = 10 /\ worst = 500
        OBVIOUS
      <3>2. NormalizeLinear(ping.rtt, ideal, worst) \in Nat
        BY <1>1, NormalizeType, Zenon
      <3> QED BY <3>1, <3>2
    <2>3. NormalizeLinear(ping.jitter, 1, 100) \in Nat
      <3>1. PICK ideal \in Nat, worst \in Nat : ideal = 1 /\ worst = 100
        OBVIOUS
      <3>2. NormalizeLinear(ping.jitter, ideal, worst) \in Nat
        BY <1>1, NormalizeType, Zenon
      <3> QED BY <3>1, <3>2
    <2>4. NormalizeLinear(ping.loss, 0, 10) \in Nat
      <3>1. PICK ideal \in Nat, worst \in Nat : ideal = 0 /\ worst = 10
        OBVIOUS
      <3>2. NormalizeLinear(ping.loss, ideal, worst) \in Nat
        BY <1>1, NormalizeType, Zenon
      <3> QED BY <3>1, <3>2
    <2>5. NormalizeLinear(mbps, 1000, 1) \in Nat
      <3>1. PICK ideal \in Nat, worst \in Nat : ideal = 1000 /\ worst = 1
        OBVIOUS
      <3>2. NormalizeLinear(mbps, ideal, worst) \in Nat
        BY NormalizeType, Zenon
      <3> QED BY <3>1, <3>2
    <2>6. NormalizeLinear(0, 0, 10) \in Nat
      <3>1. PICK ideal \in Nat, worst \in Nat : ideal = 0 /\ worst = 10
        OBVIOUS
      <3>2. NormalizeLinear(0, ideal, worst) \in Nat
        BY <2>1, NormalizeType, Zenon
      <3> QED BY <3>1, <3>2
    <2> QED BY <2>2, <2>3, <2>4, <2>5, <2>6
  <1> QED BY <1>2 DEF Components

\* HealthScore::compute yields a score, although its sum of weights can wrap.
LEMMA ComputeType ==
    ASSUME NEW c, NEW w \in [{"rtt", "jitter", "loss", "throughput", "stability"}
                                 -> 0 .. 100],
           c.rtt \in Nat, c.jitter \in Nat, c.loss \in Nat,
           c.throughput \in Nat, c.stability \in Nat
    PROVE  Compute(c, w) \in Score
  <1> DEFINE total == SumOver(w) % 256
             products == [m \in Metrics |-> w[m] * c[m]]
             sum == SumOver(products)
  <1>0. Full \in Nat
    BY MonitorAssumption
  <1>1. /\ w["rtt"] \in Nat /\ w["jitter"] \in Nat /\ w["loss"] \in Nat
        /\ w["throughput"] \in Nat /\ w["stability"] \in Nat
    OBVIOUS
  <1>2. total \in Nat
    BY <1>1 DEF SumOver
  <1>3. /\ w["rtt"] * c["rtt"] \in Nat /\ w["jitter"] * c["jitter"] \in Nat
        /\ w["loss"] * c["loss"] \in Nat
        /\ w["throughput"] * c["throughput"] \in Nat
        /\ w["stability"] * c["stability"] \in Nat
    BY <1>1, ProductNat
  <1>4. sum \in Nat
    <2>1. /\ products.rtt \in Nat /\ products.jitter \in Nat /\ products.loss \in Nat
          /\ products.throughput \in Nat /\ products.stability \in Nat
      BY <1>3 DEF Metrics
    <2> HIDE DEF products
    <2> QED BY <2>1 DEF SumOver
  <1>5. Compute(c, w) =
            IF total = 0 THEN 0 ELSE IF sum \div total > Full THEN Full ELSE sum \div total
    BY DEF Compute
  <1> HIDE DEF total, sum
  <1>6. CASE total = 0
    BY <1>0, <1>5, <1>6 DEF Score
  <1>7. CASE total # 0
    <2>1. sum \div total \in Nat
      BY <1>2, <1>4, <1>7, DivNat
    <2> QED BY <1>0, <1>5, <1>7, <2>1 DEF Score
  <1> QED BY <1>6, <1>7

\* The throughput of a reading is never negative: a counter that fell counts as none.
LEMMA MbpsType ==
    ASSUME ReadingsTyped, NEW i \in Ifaces, NEW d \in PingTicks
    PROVE  Mbps(i, d) \in Nat
  <1>1. CASE i \notin DOMAIN last_bytes \/ interfaces[i].bytes < last_bytes[i]
    BY <1>1 DEF Mbps
  <1>2. CASE i \in DOMAIN last_bytes /\ ~(interfaces[i].bytes < last_bytes[i])
    <2>1. interfaces[i].bytes \in Nat /\ last_bytes[i] \in Nat /\ MbpsPerUnit \in Nat
      BY <1>2, MonitorAssumption DEF ReadingsTyped
    <2>2. Older(elapsed, d) \in Nat \ {0}
      BY MonitorAssumption DEF ReadingsTyped, Older
    <2>3. interfaces[i].bytes - last_bytes[i] \in Nat
      BY <1>2, <2>1
    <2>4. ((interfaces[i].bytes - last_bytes[i]) * MbpsPerUnit)
              \div Older(elapsed, d) \in Nat
      BY <2>1, <2>2, <2>3, ProductNat, DivNat
    <2> QED BY <1>2, <2>4 DEF Mbps
  <1> QED BY <1>1, <1>2

\* What a probe leaves: a score for its interface, and an update that carries it.
LEMMA ProbeSends ==
    ASSUME ReadingsTyped, ScoresTyped, NEW i \in Ifaces, Probe(i)
    PROVE  /\ update' \in Updates
           /\ update'.interface = i
           /\ update'.smoothed_score = IF i \in DOMAIN previous_scores
                                       THEN Ema(update'.new_score, previous_scores[i])
                                       ELSE update'.new_score
           /\ i \in DOMAIN previous_scores' /\ previous_scores'[i] = update'.smoothed_score
           /\ DOMAIN previous_scores' = DOMAIN previous_scores \cup {i}
           /\ \A j \in DOMAIN previous_scores \ {i} :
                  previous_scores'[j] = previous_scores[j]
           /\ ReadingsTyped'
  <1>1. PICK ping \in Pings \cup {FailedPing}, d \in PingTicks :
            ProbeDone(i, ping, d)
    BY DEF Probe
  <1> DEFINE mbps == Mbps(i, d)
             raw == Compute(Components(ping, mbps), weights)
             smoothed == IF i \in DOMAIN previous_scores
                         THEN Ema(raw, previous_scores[i]) ELSE raw
  <1>2. mbps \in Nat
    BY MbpsType
  <1>3. ping \in [rtt : Nat, jitter : Nat, loss : 0 .. 100]
    BY MonitorAssumption DEF FailedPing
  <1>4. raw \in Score
    <2> HIDE DEF mbps
    <2> QED BY <1>2, <1>3, ComponentsType, ComputeType DEF ReadingsTyped
  <1>5. smoothed \in Score
    <2> HIDE DEF raw
    <2> QED BY <1>4, EmaType DEF ScoresTyped
  <1>6. /\ previous_scores' = [j \in DOMAIN previous_scores \cup {i} |->
                                  IF j = i THEN smoothed ELSE previous_scores[j]]
        /\ update' = [interface |-> i,
                      previous_score |-> smoothed,
                      new_score |-> raw,
                      smoothed_score |-> smoothed,
                      failover_candidate |->
                          ExceedsHysteresis(smoothed, previous_scores'[i]),
                      throughput |-> mbps]
        /\ Stamp(i, d) /\ to_probe' = to_probe \ {i}
        /\ UNCHANGED <<weights, interfaces>>
    BY <1>1 DEF ProbeDone, Keep
  <1>7. ExceedsHysteresis(smoothed, previous_scores'[i]) \in BOOLEAN
    BY DEF ExceedsHysteresis
  <1>8. ReadingsTyped'
    <2>1. 0 \in 0 .. Horizon
      BY MonitorAssumption
    <2> QED BY <1>6, <2>1 DEF ReadingsTyped, Stamp
  <1>9. update'.smoothed_score = IF i \in DOMAIN previous_scores
                                 THEN Ema(update'.new_score, previous_scores[i])
                                 ELSE update'.new_score
    <2> HIDE DEF raw
    <2> QED BY <1>6
  <1> HIDE DEF mbps, raw, smoothed
  <1> QED BY <1>2, <1>4, <1>5, <1>6, <1>7, <1>8, <1>9 DEF Updates

------------------------------------------------------------------------------
(* The monitor on its own *)

LEMMA TypesOfReadings ==
    ASSUME MonitorTypeOK
    PROVE  ReadingsTyped /\ ScoresTyped
  BY DEF MonitorTypeOK, ReadingsTyped, ScoresTyped, Metrics

LEMMA OlderType ==
    ASSUME NEW ticks \in 0 .. Horizon, NEW d \in PingTicks
    PROVE  Older(ticks, d) \in 0 .. Horizon /\ Older(ticks, d) # 0
  BY MonitorAssumption DEF Older

LEMMA MonitorTypeInit == MonitorInit => MonitorTypeOK
  BY MonitorAssumption DEF MonitorInit, MonitorTypeOK, Empty, Metrics

LEMMA ProbeTypes ==
    ASSUME MonitorTypeOK, NEW i \in Ifaces, Probe(i)
    PROVE  MonitorTypeOK'
  <1>1. /\ update' \in Updates
        /\ DOMAIN previous_scores' = DOMAIN previous_scores \cup {i}
        /\ previous_scores'[i] = update'.smoothed_score
        /\ \A j \in DOMAIN previous_scores \ {i} : previous_scores'[j] = previous_scores[j]
        /\ ReadingsTyped'
    BY TypesOfReadings, ProbeSends
  <1>2. PICK ping \in Pings \cup {FailedPing}, d \in PingTicks : ProbeDone(i, ping, d)
    BY DEF Probe
  <1>3. /\ DOMAIN last_bytes' = DOMAIN last_bytes \cup {i}
        /\ own_elapsed' \in [Ifaces -> 0 .. Horizon]
    <2>1. 0 \in 0 .. Horizon /\ \A j \in Ifaces : Older(own_elapsed[j], d) \in 0 .. Horizon
      BY MonitorAssumption, OlderType DEF MonitorTypeOK
    <2> QED BY <1>2, <2>1 DEF ProbeDone, Stamp
  <1>4. \A j \in DOMAIN previous_scores' : previous_scores'[j] \in Score
    BY <1>1 DEF Updates, MonitorTypeOK
  <1>5. /\ update'.interface \in Ifaces
        /\ {update'.previous_score, update'.new_score, update'.smoothed_score} \subseteq Score
        /\ update'.failover_candidate \in BOOLEAN
        /\ update'.throughput \in Nat
    BY <1>1 DEF Updates
  <1>6. DOMAIN previous_scores' \subseteq Ifaces /\ DOMAIN last_bytes' = DOMAIN previous_scores'
    BY <1>1, <1>3 DEF MonitorTypeOK
  <1> QED BY <1>1, <1>3, <1>4, <1>5, <1>6 DEF ReadingsTyped, MonitorTypeOK, Metrics

LEMMA MonitorTypeStep ==
    ASSUME MonitorTypeOK, [MonitorNext]_monitor
    PROVE  MonitorTypeOK'
  <1>1. ASSUME NEW d \in PingTicks, BeginPass(d)
        PROVE  MonitorTypeOK'
    <2>1. /\ Older(elapsed, d) \in 0 .. Horizon
          /\ \A j \in Ifaces : Older(own_elapsed[j], d) \in 0 .. Horizon
      BY OlderType DEF MonitorTypeOK
    <2> QED BY <1>1, <2>1 DEF BeginPass, MonitorTypeOK
  <1>2. ASSUME NEW seen \in [Ifaces -> [up : BOOLEAN, bytes : Counters]], Scan(seen)
        PROVE  MonitorTypeOK'
    BY <1>2 DEF Scan, tracker, MonitorTypeOK
  <1>3. ASSUME NEW i \in Ifaces, SkipDown(i)
        PROVE  MonitorTypeOK'
    BY <1>3 DEF SkipDown, tracker, MonitorTypeOK
  <1>4. CASE UNCHANGED monitor
    BY <1>4 DEF monitor, tracker, MonitorTypeOK
  <1> QED BY <1>1, <1>2, <1>3, <1>4, ProbeTypes DEF MonitorNext

\* Scores stay between 0 and the best, counters and clocks keep their types, for any
\* interfaces, weights, smoothing and pings (HealthMonitor; the clamp of compute matters,
\* as its sum of weights can wrap).
THEOREM MonitorTypeCorrect == MonitorSpec => []MonitorTypeOK
  BY MonitorTypeInit, MonitorTypeStep, PTL DEF MonitorSpec

\* The one last_time of the tracker is never older than an interface's own last reading.
ElapsedLeast == \A i \in Ifaces : elapsed <= own_elapsed[i]

LEMMA OlderMonotone ==
    ASSUME NEW a \in 0 .. Horizon, NEW b \in 0 .. Horizon, a <= b, NEW d \in PingTicks
    PROVE  Older(a, d) <= Older(b, d)
  BY MonitorAssumption DEF Older

LEMMA ElapsedStep ==
    ASSUME MonitorTypeOK, ElapsedLeast, [MonitorNext]_monitor
    PROVE  ElapsedLeast'
  <1>1. ASSUME NEW d \in PingTicks, BeginPass(d)
        PROVE  ElapsedLeast'
    BY <1>1, OlderMonotone DEF BeginPass, ElapsedLeast, MonitorTypeOK
  <1>2. ASSUME NEW i \in Ifaces, Probe(i)
        PROVE  ElapsedLeast'
    <2>1. PICK ping \in Pings \cup {FailedPing}, d \in PingTicks : ProbeDone(i, ping, d)
      BY <1>2 DEF Probe
    <2>2. /\ elapsed' = 0
          /\ own_elapsed' = [j \in Ifaces |-> IF j = i THEN 0 ELSE Older(own_elapsed[j], d)]
      BY <2>1 DEF ProbeDone, Stamp
    <2>3. \A j \in Ifaces : Older(own_elapsed[j], d) \in Nat
      BY OlderType DEF MonitorTypeOK
    <2> QED BY <2>2, <2>3 DEF ElapsedLeast
  <1>3. CASE \/ \E seen \in [Ifaces -> [up : BOOLEAN, bytes : Counters]] : Scan(seen)
             \/ \E i \in Ifaces : SkipDown(i)
             \/ UNCHANGED monitor
    BY <1>3 DEF Scan, SkipDown, monitor, tracker, ElapsedLeast
  <1> QED BY <1>1, <1>2, <1>3 DEF MonitorNext

\* A quotient rounded down, over a shorter time, is more than one short of no longer one.
LEMMA QuotientOverLonger ==
    ASSUME NEW moved \in Nat, NEW short \in Nat \ {0}, NEW long \in Nat, short <= long
    PROVE  (moved \div short + 1) * long > moved
  <1> DEFINE q == moved \div short
  <1>1. q \in Nat
    BY DivNat
  <1>2. (q + 1) * short > moved
    OBVIOUS
  <1>3. (q + 1) * short <= (q + 1) * long
    <2> HIDE DEF q
    <2> QED BY <1>1, ProductMonotone
  <1>4. (q + 1) * short \in Nat /\ (q + 1) * long \in Nat
    <2> HIDE DEF q
    <2> QED BY <1>1, ProductNat
  <1> HIDE DEF q
  <1>5. (q + 1) * long > moved
    BY <1>2, <1>3, <1>4
  <1> QED BY <1>5 DEF q

\* The throughput that ProbeDone(i, ping, d) reports, against the interface's own time.
LEMMA ThroughputStep ==
    ASSUME MonitorTypeOK, ElapsedLeast, NEW i \in DOMAIN last_bytes, NEW ping,
           NEW d \in PingTicks, ProbeDone(i, ping, d)
    PROVE  (update'.throughput + 1) * Older(own_elapsed[i], d)
               > (interfaces[i].bytes - last_bytes[i]) * MbpsPerUnit
  <1> DEFINE delta == interfaces[i].bytes - last_bytes[i]
             own == Older(own_elapsed[i], d)
             all == Older(elapsed, d)
  <1>1. i \in Ifaces /\ interfaces[i].bytes \in Nat /\ last_bytes[i] \in Nat /\ delta \in Int
    <2>1. i \in Ifaces /\ last_bytes[i] \in Counters
      BY DEF MonitorTypeOK
    <2>2. interfaces[i].bytes \in Counters
      BY <2>1 DEF MonitorTypeOK
    <2>3. interfaces[i].bytes \in Nat /\ last_bytes[i] \in Nat
      BY <2>1, <2>2, MonitorAssumption
    <2> QED BY <2>1, <2>3
  <1>2. own \in Nat \ {0} /\ all \in Nat \ {0} /\ all <= own
    BY <1>1, OlderType, OlderMonotone DEF MonitorTypeOK, ElapsedLeast
  <1>3. update'.throughput = IF interfaces[i].bytes < last_bytes[i] THEN 0
                             ELSE (delta * MbpsPerUnit) \div all
    BY DEF ProbeDone, Mbps
  <1>4. MbpsPerUnit \in Nat \ {0}
    BY MonitorAssumption
  <1>5. CASE interfaces[i].bytes < last_bytes[i]
    <2>1. delta < 0
      BY <1>1, <1>5
    <2> HIDE DEF delta, own
    <2>2. delta * MbpsPerUnit <= 0 /\ delta * MbpsPerUnit \in Int
      BY <1>1, <1>4, <2>1
    <2> QED BY <1>2, <1>3, <1>5, <2>2 DEF delta, own
  <1>6. CASE ~(interfaces[i].bytes < last_bytes[i])
    <2>1. delta \in Nat
      BY <1>1, <1>6
    <2> HIDE DEF delta, own, all
    <2>2. delta * MbpsPerUnit \in Nat
      BY <1>4, <2>1, ProductNat
    <2>3. ((delta * MbpsPerUnit) \div all + 1) * own > delta * MbpsPerUnit
      BY <1>2, <2>2, QuotientOverLonger
    <2> QED BY <1>3, <1>6, <2>3 DEF delta, own
  <1> QED BY <1>5, <1>6

\* No traffic goes missing from the throughput between two readings of an interface
\* (ThroughputTracker::estimate), although one last_time serves all interfaces: it can only
\* make the time between readings look shorter.
THEOREM ThroughputCorrect == MonitorSpec => ThroughputNotUnderstated
  <1>1. MonitorInit => ElapsedLeast
    BY MonitorAssumption DEF MonitorInit, ElapsedLeast
  <1>2. MonitorTypeOK /\ ElapsedLeast =>
            \A i \in DOMAIN last_bytes, ping \in Pings \cup {FailedPing}, d \in PingTicks :
                ProbeDone(i, ping, d) =>
                    (update'.throughput + 1) * Older(own_elapsed[i], d)
                        > (interfaces[i].bytes - last_bytes[i]) * MbpsPerUnit
    BY ThroughputStep
  <1> QED BY <1>1, <1>2, ElapsedStep, MonitorTypeInit, MonitorTypeStep, PTL
          DEF MonitorSpec, ThroughputNotUnderstated

------------------------------------------------------------------------------
(* What smoothing and scoring promise *)

LEMMA DivAtLeast ==
    ASSUME NEW a \in Nat, NEW b \in Nat \ {0}, NEW c \in Nat, b * c <= a
    PROVE  c <= a \div b
  OBVIOUS

\* A fraction of two scores in order lies between them.
LEMMA EmaOfOrdered ==
    ASSUME NEW low \in Nat, NEW high \in Nat, low <= high,
           NEW p \in Nat, NEW q \in Nat, p + q \in Nat \ {0}
    PROVE  /\ low <= (p * low + q * high) \div (p + q)
           /\ (p * low + q * high) \div (p + q) <= high
  <1> DEFINE sum == p * low + q * high
  <1>1. /\ p * low \in Nat /\ q * high \in Nat /\ p * high \in Nat /\ q * low \in Nat
        /\ p * low <= p * high /\ q * low <= q * high
    BY ProductNat, ProductMonotone
  <1>2. (p + q) * low = p * low + q * low /\ (p + q) * high = p * high + q * high
    OBVIOUS
  <1>3. sum \in Nat /\ (p + q) * low <= sum /\ sum <= (p + q) * high
    BY <1>1, <1>2
  <1> HIDE DEF sum
  <1>4. low <= sum \div (p + q) /\ sum \div (p + q) <= high
    BY <1>3, DivAtLeast, DivBounded
  <1> QED BY <1>4 DEF sum

Between(a, x, b) == (a <= x /\ x <= b) \/ (b <= x /\ x <= a)

\* HealthScore::ema never leaves the interval of the two scores it is given.
LEMMA EmaBetween ==
    ASSUME NEW current \in Score, NEW previous \in Score
    PROVE  Between(previous, Ema(current, previous), current)
  <1>1. PICK p \in Nat, q \in Nat :
            p = AlphaNum /\ q = AlphaDen - AlphaNum /\ p + q = AlphaDen
    BY MonitorAssumption
  <1>2. p + q \in Nat \ {0} /\ current \in Nat /\ previous \in Nat
    BY <1>1, MonitorAssumption DEF Score
  <1>3. Ema(current, previous) = (p * current + q * previous) \div (p + q)
    BY <1>1 DEF Ema
  <1>4. CASE current <= previous
    BY <1>2, <1>3, <1>4, EmaOfOrdered DEF Between
  <1>5. CASE previous <= current
    <2>1. /\ previous <= (q * previous + p * current) \div (q + p)
          /\ (q * previous + p * current) \div (q + p) <= current
      <3>1. q + p \in Nat \ {0}
        BY <1>2
      <3> QED BY <1>2, <1>5, <3>1, EmaOfOrdered
    <2>2. q * previous \in Nat /\ p * current \in Nat
      BY <1>2, ProductNat
    <2>3. q * previous + p * current = p * current + q * previous /\ q + p = p + q
      BY <2>2
    <2> QED BY <1>3, <2>1, <2>3 DEF Between
  <1> QED BY <1>2, <1>4, <1>5

\* The score kept of an interface lies between the one kept before and the new one.
SmoothingBounded ==
    [][\A i \in DOMAIN previous_scores :
           Probe(i) => Between(previous_scores[i], previous_scores'[i],
                               update'.new_score)]_monitor

LEMMA SmoothingStep ==
    ASSUME MonitorTypeOK, NEW i \in DOMAIN previous_scores, Probe(i)
    PROVE  Between(previous_scores[i], previous_scores'[i], update'.new_score)
  <1>1. i \in Ifaces /\ previous_scores[i] \in Score
    BY DEF MonitorTypeOK
  <1>2. update' \in Updates /\ previous_scores'[i] = update'.smoothed_score
    BY <1>1, TypesOfReadings, ProbeSends
  <1>3. update'.new_score \in Score
    BY <1>2 DEF Updates
  <1>4. update'.smoothed_score = Ema(update'.new_score, previous_scores[i])
    BY DEF Probe, ProbeDone
  <1> QED BY <1>1, <1>2, <1>3, <1>4, EmaBetween

\* One reading never moves the smoothed score past itself (HealthScore::ema with an alpha
\* of 0 to 1): the score that steering compares with its thresholds neither overshoots nor
\* moves away from what was measured.
THEOREM SmoothingCorrect == MonitorSpec => SmoothingBounded
  <1>1. MonitorTypeOK =>
            \A i \in DOMAIN previous_scores :
                Probe(i) => Between(previous_scores[i], previous_scores'[i],
                                    update'.new_score)
    BY SmoothingStep
  <1> QED BY <1>1, MonitorTypeInit, MonitorTypeStep, PTL DEF MonitorSpec, SmoothingBounded

NoCandidate == update # NoUpdate => ~update.failover_candidate

\* The monitor never announces a failover candidate, however far a score falls: the test
\* reads previous_scores after the new score was stored there (monitoring.rs 208-226), so
\* it compares that score with itself.
THEOREM CandidateNeverSet ==
    ASSUME HysteresisThreshold \in Nat
    PROVE  MonitorSpec => []NoCandidate
  <1>1. MonitorInit => NoCandidate
    BY DEF MonitorInit, NoCandidate
  <1>2. ASSUME MonitorTypeOK, NoCandidate, [MonitorNext]_monitor
        PROVE  NoCandidate'
    <2>1. ASSUME NEW i \in Ifaces, Probe(i)
          PROVE  NoCandidate'
      <3>1. /\ update' \in Updates
            /\ previous_scores'[i] = update'.smoothed_score
        BY <1>2, <2>1, TypesOfReadings, ProbeSends
      <3>2. update'.failover_candidate
                = ExceedsHysteresis(update'.smoothed_score, previous_scores'[i])
        BY <2>1 DEF Probe, ProbeDone
      <3>3. update'.smoothed_score \in Nat
        BY <3>1, MonitorAssumption DEF Updates, Score
      <3>4. ~ExceedsHysteresis(update'.smoothed_score, update'.smoothed_score)
        BY <3>3 DEF ExceedsHysteresis, Abs
      <3> QED BY <3>1, <3>2, <3>4 DEF NoCandidate
    <2>2. CASE UNCHANGED monitor
      BY <1>2, <2>2 DEF monitor, NoCandidate
    <2>3. ASSUME update' = NoUpdate PROVE NoCandidate'
      BY <2>3 DEF NoCandidate
    <2> QED BY <1>2, <2>1, <2>2, <2>3 DEF MonitorNext, Scan, BeginPass, SkipDown
  <1> QED BY <1>1, <1>2, MonitorTypeInit, MonitorTypeStep, PTL DEF MonitorSpec

LEMMA DivMonotone ==
    ASSUME NEW a \in Nat, NEW b \in Nat, NEW c \in Nat \ {0}, a <= b
    PROVE  a \div c <= b \div c
  OBVIOUS

\* A part of a whole that is nearer to it is worth no less, and never more than Full.
LEMMA PartMonotone ==
    ASSUME NEW a \in Nat, NEW b \in Nat, NEW c \in Nat \ {0}, a <= b, b <= c
    PROVE  /\ (a * Full) \div c \in Nat
           /\ (a * Full) \div c <= (b * Full) \div c
           /\ (b * Full) \div c <= Full
  <1>1. Full \in Nat
    BY MonitorAssumption
  <1>2. /\ a * Full \in Nat /\ b * Full \in Nat
        /\ Full * a <= Full * b /\ Full * b <= Full * c
    BY <1>1, ProductNat, ProductMonotone
  <1>3. Full * a = a * Full /\ Full * b = b * Full /\ Full * c = c * Full
    BY <1>1
  <1>4. a * Full <= b * Full /\ b * Full <= c * Full
    BY <1>2, <1>3
  <1> QED BY <1>1, <1>2, <1>4, DivNat, DivMonotone, DivBounded

\* A metric of which less is better, like a round-trip time.
LEMMA LessIsBetter ==
    ASSUME NEW ideal \in Nat, NEW worst \in Nat, ideal < worst,
           NEW better \in Nat, NEW value \in Nat, better <= value
    PROVE  NormalizeLinear(value, ideal, worst) <= NormalizeLinear(better, ideal, worst)
  <1> DEFINE N(v) == NormalizeLinear(v, ideal, worst)
             Part(v) == ((worst - v) * Full) \div (worst - ideal)
  <1>0. Full \in Nat
    BY MonitorAssumption
  <1>1. ASSUME NEW v \in Nat
        PROVE  N(v) = IF v <= ideal THEN Full ELSE IF worst <= v THEN 0 ELSE Part(v)
    BY DEF NormalizeLinear
  <1>2. CASE better <= ideal
    <2>1. N(better) = Full
      BY <1>1, <1>2
    <2>2. N(value) <= Full
      <3>1. CASE ideal < value /\ value < worst
        <4>1. worst - value \in Nat /\ worst - ideal \in Nat \ {0}
              /\ worst - value <= worst - ideal
          BY <3>1
        <4>2. Part(value) <= Full
          BY <4>1, PartMonotone
        <4> QED BY <1>1, <3>1, <4>2
      <3>2. CASE value <= ideal
        BY <1>0, <1>1, <3>2
      <3>3. CASE worst <= value
        BY <1>0, <1>1, <3>3
      <3> QED BY <3>1, <3>2, <3>3
    <2> QED BY <2>1, <2>2
  <1>3. CASE worst <= value
    <2>1. N(value) = 0
      BY <1>1, <1>3
    <2>2. N(better) \in Nat
      BY NormalizeType
    <2> QED BY <2>1, <2>2
  <1>4. CASE ideal < better /\ value < worst
    <2>1. /\ worst - value \in Nat /\ worst - better \in Nat /\ worst - ideal \in Nat \ {0}
          /\ worst - value <= worst - better /\ worst - better <= worst - ideal
      BY <1>4
    <2>2. Part(value) <= Part(better)
      BY <2>1, PartMonotone
    <2>3. N(value) = Part(value) /\ N(better) = Part(better)
      BY <1>1, <1>4
    <2> QED BY <2>2, <2>3
  <1> QED BY <1>2, <1>3, <1>4

\* A metric of which more is better: the throughput.
LEMMA MoreIsBetter ==
    ASSUME NEW ideal \in Nat, NEW worst \in Nat, worst < ideal,
           NEW better \in Nat, NEW value \in Nat, value <= better
    PROVE  NormalizeLinear(value, ideal, worst) <= NormalizeLinear(better, ideal, worst)
  <1> DEFINE N(v) == NormalizeLinear(v, ideal, worst)
             Part(v) == ((v - worst) * Full) \div (ideal - worst)
  <1>0. Full \in Nat
    BY MonitorAssumption
  <1>1. ASSUME NEW v \in Nat
        PROVE  N(v) = IF v >= ideal THEN Full ELSE IF worst >= v THEN 0 ELSE Part(v)
    BY DEF NormalizeLinear
  <1>2. CASE better >= ideal
    <2>1. N(better) = Full
      BY <1>1, <1>2
    <2>2. N(value) <= Full
      <3>1. CASE worst < value /\ value < ideal
        <4>1. value - worst \in Nat /\ ideal - worst \in Nat \ {0}
              /\ value - worst <= ideal - worst
          BY <3>1
        <4>2. Part(value) <= Full
          BY <4>1, PartMonotone
        <4> QED BY <1>1, <3>1, <4>2
      <3>2. CASE value >= ideal
        BY <1>0, <1>1, <3>2
      <3>3. CASE worst >= value
        BY <1>0, <1>1, <3>3
      <3> QED BY <3>1, <3>2, <3>3
    <2> QED BY <2>1, <2>2
  <1>3. CASE worst >= value
    <2>1. N(value) = 0
      BY <1>1, <1>3
    <2>2. N(better) \in Nat
      BY NormalizeType
    <2> QED BY <2>1, <2>2
  <1>4. CASE better < ideal /\ worst < value
    <2>1. /\ value - worst \in Nat /\ better - worst \in Nat /\ ideal - worst \in Nat \ {0}
          /\ value - worst <= better - worst /\ better - worst <= ideal - worst
      BY <1>4
    <2>2. Part(value) <= Part(better)
      BY <2>1, PartMonotone
    <2>3. N(value) = Part(value) /\ N(better) = Part(better)
      BY <1>1, <1>4
    <2> QED BY <2>2, <2>3
  <1> QED BY <1>2, <1>3, <1>4

ComponentsTyped(c) ==
    /\ c.rtt \in Nat /\ c.jitter \in Nat /\ c.loss \in Nat
    /\ c.throughput \in Nat /\ c.stability \in Nat

NoneBetter(c, d) ==
    /\ c.rtt <= d.rtt /\ c.jitter <= d.jitter /\ c.loss <= d.loss
    /\ c.throughput <= d.throughput /\ c.stability <= d.stability

\* HealthScore::compute of components none of which is better is no higher, for any
\* weights, also those whose sum wraps.
LEMMA ComputeMonotone ==
    ASSUME NEW w \in [{"rtt", "jitter", "loss", "throughput", "stability"} -> 0 .. 100],
           NEW c, NEW d, ComponentsTyped(c), ComponentsTyped(d), NoneBetter(c, d)
    PROVE  Compute(c, w) <= Compute(d, w)
  <1> DEFINE total == SumOver(w) % 256
             P(x) == [m \in Metrics |-> w[m] * x[m]]
  <1>0. Full \in Nat
    BY MonitorAssumption
  <1>1. /\ w["rtt"] \in Nat /\ w["jitter"] \in Nat /\ w["loss"] \in Nat
        /\ w["throughput"] \in Nat /\ w["stability"] \in Nat
    OBVIOUS
  <1>2. total \in Nat
    BY <1>1 DEF SumOver
  <1>3. ASSUME NEW x
        PROVE  SumOver(P(x)) = w["rtt"] * x.rtt + w["jitter"] * x.jitter
                                 + w["loss"] * x.loss + w["throughput"] * x.throughput
                                 + w["stability"] * x.stability
    BY DEF SumOver, Metrics
  <1>4. PICK rc \in Nat, rd \in Nat :
            rc = w["rtt"] * c.rtt /\ rd = w["rtt"] * d.rtt /\ rc <= rd
    BY <1>1, ProductNat, ProductMonotone DEF ComponentsTyped, NoneBetter
  <1>5. PICK jc \in Nat, jd \in Nat :
            jc = w["jitter"] * c.jitter /\ jd = w["jitter"] * d.jitter /\ jc <= jd
    BY <1>1, ProductNat, ProductMonotone DEF ComponentsTyped, NoneBetter
  <1>6. PICK lc \in Nat, ld \in Nat :
            lc = w["loss"] * c.loss /\ ld = w["loss"] * d.loss /\ lc <= ld
    BY <1>1, ProductNat, ProductMonotone DEF ComponentsTyped, NoneBetter
  <1>7. PICK tc \in Nat, td \in Nat :
            /\ tc = w["throughput"] * c.throughput /\ td = w["throughput"] * d.throughput
            /\ tc <= td
    BY <1>1, ProductNat, ProductMonotone DEF ComponentsTyped, NoneBetter
  <1>8. PICK sc \in Nat, sd \in Nat :
            sc = w["stability"] * c.stability /\ sd = w["stability"] * d.stability /\ sc <= sd
    BY <1>1, ProductNat, ProductMonotone DEF ComponentsTyped, NoneBetter
  <1>9. PICK sumc \in Nat, sumd \in Nat :
            sumc <= sumd /\ sumc = SumOver(P(c)) /\ sumd = SumOver(P(d))
    <2>1. /\ rc + jc + lc + tc + sc \in Nat /\ rd + jd + ld + td + sd \in Nat
          /\ rc + jc + lc + tc + sc <= rd + jd + ld + td + sd
      BY <1>4, <1>5, <1>6, <1>7, <1>8
    <2>2. SumOver(P(c)) = rc + jc + lc + tc + sc
      BY <1>3, <1>4, <1>5, <1>6, <1>7, <1>8, Zenon
    <2>3. SumOver(P(d)) = rd + jd + ld + td + sd
      BY <1>3, <1>4, <1>5, <1>6, <1>7, <1>8, Zenon
    <2> QED BY <2>1, <2>2, <2>3, Zenon
  <1>10. /\ Compute(c, w) = IF total = 0 THEN 0
                             ELSE IF sumc \div total > Full THEN Full ELSE sumc \div total
         /\ Compute(d, w) = IF total = 0 THEN 0
                             ELSE IF sumd \div total > Full THEN Full ELSE sumd \div total
    BY <1>9 DEF Compute
  <1> HIDE DEF total
  <1>11. CASE total = 0
    BY <1>10, <1>11
  <1>12. CASE total # 0
    <2>1. /\ sumc \div total \in Nat /\ sumd \div total \in Nat
          /\ sumc \div total <= sumd \div total
      BY <1>2, <1>9, <1>12, DivNat, DivMonotone
    <2> QED BY <1>0, <1>10, <1>12, <2>1
  <1> QED BY <1>11, <1>12

\* A reading that is no better in any respect never scores higher, whatever the weights
\* (compute_health of health.rs over HealthScore::compute of types.rs): a link cannot gain
\* on another one by getting slower, although compute adds its weights in a u8 that wraps.
THEOREM ScoreMonotone ==
    ASSUME NEW w \in [{"rtt", "jitter", "loss", "throughput", "stability"} -> 0 .. 100],
           NEW p \in [rtt : Nat, jitter : Nat, loss : 0 .. 100], NEW m \in Nat,
           NEW q \in [rtt : Nat, jitter : Nat, loss : 0 .. 100], NEW n \in Nat,
           q.rtt <= p.rtt, q.jitter <= p.jitter, q.loss <= p.loss, m <= n
    PROVE  Compute(Components(p, m), w) <= Compute(Components(q, n), w)
  <1> DEFINE c == Components(p, m)
             d == Components(q, n)
  <1>1. /\ p.rtt \in Nat /\ p.jitter \in Nat /\ p.loss \in Nat
        /\ q.rtt \in Nat /\ q.jitter \in Nat /\ q.loss \in Nat
    OBVIOUS
  <1>2. ComponentsTyped(c) /\ ComponentsTyped(d)
    BY ComponentsType DEF ComponentsTyped
  <1>3. c.rtt <= d.rtt
    <2>1. PICK ideal \in Nat, worst \in Nat :
              ideal = 10 /\ worst = 500 /\ ideal < worst
      OBVIOUS
    <2>2. NormalizeLinear(p.rtt, ideal, worst) <= NormalizeLinear(q.rtt, ideal, worst)
      BY <1>1, <2>1, LessIsBetter
    <2> QED BY <2>1, <2>2 DEF Components
  <1>4. c.jitter <= d.jitter
    <2>1. PICK ideal \in Nat, worst \in Nat :
              ideal = 1 /\ worst = 100 /\ ideal < worst
      OBVIOUS
    <2>2. NormalizeLinear(p.jitter, ideal, worst)
              <= NormalizeLinear(q.jitter, ideal, worst)
      BY <1>1, <2>1, LessIsBetter
    <2> QED BY <2>1, <2>2 DEF Components
  <1>5. c.loss <= d.loss
    <2>1. PICK ideal \in Nat, worst \in Nat :
              ideal = 0 /\ worst = 10 /\ ideal < worst
      OBVIOUS
    <2>2. NormalizeLinear(p.loss, ideal, worst) <= NormalizeLinear(q.loss, ideal, worst)
      BY <1>1, <2>1, LessIsBetter
    <2> QED BY <2>1, <2>2 DEF Components
  <1>6. c.throughput <= d.throughput
    <2>1. PICK ideal \in Nat, worst \in Nat :
              ideal = 1000 /\ worst = 1 /\ worst < ideal
      OBVIOUS
    <2>2. NormalizeLinear(m, ideal, worst) <= NormalizeLinear(n, ideal, worst)
      BY <2>1, MoreIsBetter
    <2> QED BY <2>1, <2>2 DEF Components
  <1>7. c.stability <= d.stability
    <2>1. c.stability = d.stability
      BY DEF Components
    <2> QED BY <1>2, <2>1 DEF ComponentsTyped
  <1>8. NoneBetter(c, d)
    BY <1>3, <1>4, <1>5, <1>6, <1>7 DEF NoneBetter
  <1> HIDE DEF c, d
  <1>9. Compute(c, w) <= Compute(d, w)
    BY <1>2, <1>8, ComputeMonotone
  <1> QED BY <1>9 DEF c, d

------------------------------------------------------------------------------
(* The invariant, and what the two components are asked to do *)

LEMMA SubActions ==
    ASSUME [Next]_vars
    PROVE  \/ \E i \in Ifaces : MonitorProbe(i)
           \/ \E i \in Ifaces : MonitorSkip(i)
           \/ MonitorPass
           \/ \E seen \in [Ifaces -> [up : BOOLEAN, bytes : Counters]] : MonitorScan(seen)
           \/ Deliver
           \/ Tick
           \/ UNCHANGED vars
  BY DEF Next

\* The monitor takes its own steps or none.
LEMMA MonitorStep ==
    ASSUME [Next]_vars
    PROVE  [MonitorNext]_monitor
  BY SubActions DEF MonitorProbe, MonitorSkip, MonitorPass, MonitorScan, MonitorNext, Deliver,
     Tick, vars

LEMMA InvInit == Init => IInv
  BY MonitorTypeInit DEF Init, IInv

\* Steps of the monitor that change no score.
LEMMA QuietSteps ==
    ASSUME \/ \E i \in Ifaces : MonitorSkip(i)
           \/ MonitorPass
           \/ \E seen \in [Ifaces -> [up : BOOLEAN, bytes : Counters]] : MonitorScan(seen)
    PROVE  UNCHANGED <<previous_scores, steerer, pending>>
  BY DEF MonitorSkip, SkipDown, MonitorPass, BeginPass, MonitorScan, Scan

LEMMA InvStep == IInv /\ [Next]_vars => IInv'
  <1> SUFFICES ASSUME IInv, [Next]_vars PROVE IInv'
    OBVIOUS
  <1>1. MonitorTypeOK'
    BY MonitorStep, MonitorTypeStep DEF IInv
  <1>2. CASE \E i \in Ifaces : MonitorProbe(i)
    <2>1. PICK i \in Ifaces : MonitorProbe(i)
      BY <1>2
    <2>2. pending' = Append(pending, update') /\ update' \in Updates
      BY <2>1, TypesOfReadings, ProbeSends DEF MonitorProbe, IInv
    <2> QED BY <1>1, <2>2 DEF IInv
  <1>3. CASE Deliver
    <2>1. pending' \in Seq(Updates)
      BY <1>3 DEF Deliver, IInv
    <2> QED BY <1>1, <2>1 DEF IInv
  <1>4. CASE \/ \E i \in Ifaces : MonitorSkip(i)
             \/ MonitorPass
             \/ \E seen \in [Ifaces -> [up : BOOLEAN, bytes : Counters]] : MonitorScan(seen)
             \/ Tick
             \/ UNCHANGED vars
    BY <1>1, <1>4, QuietSteps DEF IInv, Tick, vars
  <1> QED BY <1>2, <1>3, <1>4, SubActions

------------------------------------------------------------------------------
(* The scores cached by the steerer *)

\* An update after which no other of the same interface waits.
Newest(n) ==
    /\ n \in 1 .. Len(pending)
    /\ \A m \in 1 .. Len(pending) :
           m > n => pending[m].interface # pending[n].interface

\* The newest update under way carries the monitor's score; without one, the two
\* caches agree.  The first part is what makes the second survive a delivery.
CacheInv ==
    /\ DOMAIN previous_scores \subseteq Ifaces
    /\ \A n \in 1 .. Len(pending) :
           Newest(n) => /\ pending[n].interface \in DOMAIN previous_scores
                        /\ previous_scores[pending[n].interface]
                               = pending[n].smoothed_score
    /\ CacheCurrent

LEMMA CacheInit == Init => CacheInv
  <1> SUFFICES ASSUME Init PROVE CacheInv
    OBVIOUS
  <1>1. /\ pending = <<>> /\ DOMAIN previous_scores = {} /\ DOMAIN health_scores = {}
    BY DEF Init, MonitorInit, Empty, Steerer!Init
  <1> QED BY <1>1 DEF CacheInv, Newest, CacheCurrent

\* A probe appends the newest update of its interface and disturbs no other.
LEMMA CacheProbe ==
    ASSUME IInv, CacheInv, NEW i \in Ifaces, MonitorProbe(i)
    PROVE  CacheInv'
  <1>1. pending' = Append(pending, update') /\ health_scores' = health_scores
    BY DEF MonitorProbe, steerer
  <1>2. /\ update'.interface = i
        /\ i \in DOMAIN previous_scores' /\ previous_scores'[i] = update'.smoothed_score
        /\ DOMAIN previous_scores' = DOMAIN previous_scores \cup {i}
        /\ \A j \in DOMAIN previous_scores \ {i} :
               previous_scores'[j] = previous_scores[j]
    BY TypesOfReadings, ProbeSends DEF IInv, MonitorProbe
  <1>3. /\ Len(pending) \in Nat /\ Len(pending') = Len(pending) + 1
        /\ pending'[Len(pending) + 1] = update'
        /\ \A n \in 1 .. Len(pending) : pending'[n] = pending[n]
    BY <1>1 DEF IInv
  <1>4. DOMAIN previous_scores' \subseteq Ifaces
    BY <1>2 DEF CacheInv
  <1>5. ASSUME NEW n \in 1 .. Len(pending'), Newest(n)'
        PROVE  /\ pending'[n].interface \in DOMAIN previous_scores'
               /\ previous_scores'[pending'[n].interface] = pending'[n].smoothed_score
    <2>1. CASE n = Len(pending) + 1
      BY <1>2, <1>3, <2>1
    <2>2. CASE n # Len(pending) + 1
      <3>1. n \in 1 .. Len(pending)
        BY <1>3, <2>2
      <3>2. Newest(n)
        BY <1>3, <1>5, <3>1 DEF Newest
      <3>3. pending'[n] = pending[n] /\ pending[n].interface # i
        BY <1>2, <1>3, <1>5, <3>1 DEF Newest
      <3> QED BY <1>2, <3>1, <3>2, <3>3 DEF CacheInv
    <2> QED BY <2>1, <2>2
  <1>6. CacheCurrent'
    <2> SUFFICES ASSUME NEW j \in Ifaces,
                        ~ \E n \in DOMAIN pending' : pending'[n].interface = j
                 PROVE  \/ j \notin DOMAIN previous_scores' /\ j \notin DOMAIN health_scores'
                        \/ /\ j \in DOMAIN previous_scores' /\ j \in DOMAIN health_scores'
                           /\ health_scores'[j] = previous_scores'[j]
      BY DEF CacheCurrent
    <2>1. DOMAIN pending' = 1 .. Len(pending) + 1 /\ DOMAIN pending = 1 .. Len(pending)
      BY <1>1 DEF IInv
    <2>2. j # i
      BY <1>2, <1>3, <2>1
    <2>3. ~ \E n \in DOMAIN pending : pending[n].interface = j
      BY <1>3, <2>1
    <2> QED BY <1>1, <1>2, <2>2, <2>3 DEF CacheInv, CacheCurrent
  <1> QED BY <1>4, <1>5, <1>6 DEF CacheInv

\* The steerer's cache after a reading of i.
Stored(i, s) ==
    /\ DOMAIN health_scores' = DOMAIN health_scores \cup {i}
    /\ health_scores'[i] = s
    /\ \A j \in DOMAIN health_scores \ {i} : health_scores'[j] = health_scores[j]

\* Whatever the evaluation decides, the reading is stored.
LEMMA DeliveryStores ==
    ASSUME Deliver
    PROVE  Stored(Head(pending).interface, Head(pending).smoothed_score)
  <1> DEFINE i == Head(pending).interface
             s == Head(pending).smoothed_score
  <1>1. Steerer!HealthUpdate(i, s)
    BY DEF Deliver
  <1> HIDE DEF i, s
  <1>2. Steerer!Store(i, s)
    BY <1>1 DEF Steerer!HealthUpdate, Steerer!NoViablePath, Steerer!InitialAssignment,
                Steerer!InCooldown, Steerer!CountDegraded, Steerer!Failover,
                Steerer!SwitchToBetter, Steerer!KeepPath
  <1>3. Stored(i, s)
    BY <1>2 DEF Steerer!Store, Stored
  <1> QED BY <1>3 DEF i, s

\* A delivery stores the oldest update: if it was the newest of its interface too,
\* the first part of the invariant says it carries the monitor's score.
LEMMA CacheDeliver ==
    ASSUME IInv, CacheInv, Deliver
    PROVE  CacheInv'
  <1> DEFINE first == pending[1]
  <1>1. /\ Len(pending) \in Nat /\ Len(pending) >= 1 /\ Head(pending) = first
        /\ pending' = Tail(pending) /\ pending' \in Seq(Updates)
        /\ previous_scores' = previous_scores
    BY DEF Deliver, IInv, monitor
  <1>2. /\ DOMAIN health_scores' = DOMAIN health_scores \cup {first.interface}
        /\ health_scores'[first.interface] = first.smoothed_score
        /\ \A j \in DOMAIN health_scores \ {first.interface} :
               health_scores'[j] = health_scores[j]
    BY <1>1, DeliveryStores DEF Stored
  <1> HIDE DEF first
  <1>3. /\ Len(pending') = Len(pending) - 1
        /\ \A n \in 1 .. Len(pending) - 1 : pending'[n] = pending[n + 1]
    BY <1>1 DEF IInv
  <1>4. ASSUME NEW n \in 1 .. Len(pending'), Newest(n)'
        PROVE  /\ pending'[n].interface \in DOMAIN previous_scores'
               /\ previous_scores'[pending'[n].interface] = pending'[n].smoothed_score
    <2>1. n + 1 \in 1 .. Len(pending) /\ pending'[n] = pending[n + 1]
      BY <1>1, <1>3
    <2>2. ASSUME NEW m \in 1 .. Len(pending), m > n + 1
          PROVE  pending[m].interface # pending[n + 1].interface
      <3>1. m - 1 \in 1 .. Len(pending') /\ m - 1 > n /\ pending'[m - 1] = pending[m]
        BY <1>1, <1>3, <2>2
      <3> QED BY <1>4, <2>1, <3>1 DEF Newest
    <2>3. Newest(n + 1)
      BY <2>1, <2>2 DEF Newest
    <2> QED BY <1>1, <2>1, <2>3 DEF CacheInv
  <1>5. CacheCurrent'
    <2> SUFFICES ASSUME NEW j \in Ifaces,
                        ~ \E n \in DOMAIN pending' : pending'[n].interface = j
                 PROVE  \/ j \notin DOMAIN previous_scores' /\ j \notin DOMAIN health_scores'
                        \/ /\ j \in DOMAIN previous_scores' /\ j \in DOMAIN health_scores'
                           /\ health_scores'[j] = previous_scores'[j]
      BY DEF CacheCurrent
    <2>1. DOMAIN pending' = 1 .. Len(pending) - 1 /\ DOMAIN pending = 1 .. Len(pending)
      BY <1>1, <1>3 DEF IInv
    <2>2. ASSUME NEW m \in 1 .. Len(pending), m > 1
          PROVE  pending[m].interface # j
      <3>1. m - 1 \in 1 .. Len(pending) - 1 /\ pending'[m - 1] = pending[m]
        BY <1>1, <1>3, <2>2
      <3> QED BY <2>1, <3>1
    <2>3. CASE first.interface = j
      <3>1. Newest(1) /\ 1 \in 1 .. Len(pending)
        BY <1>1, <2>2, <2>3 DEF Newest, first
      <3>2. j \in DOMAIN previous_scores /\ previous_scores[j] = first.smoothed_score
        BY <2>3, <3>1 DEF CacheInv, first
      <3> QED BY <1>1, <1>2, <2>3, <3>2
    <2>4. CASE first.interface # j
      <3>1. ~ \E n \in DOMAIN pending : pending[n].interface = j
        BY <2>1, <2>2, <2>4, <1>1 DEF first
      <3> QED BY <1>1, <1>2, <2>4, <3>1 DEF CacheInv, CacheCurrent
    <2> QED BY <2>3, <2>4
  <1> QED BY <1>1, <1>4, <1>5 DEF CacheInv

LEMMA CacheStep == IInv /\ CacheInv /\ [Next]_vars => CacheInv'
  <1> SUFFICES ASSUME IInv, CacheInv, [Next]_vars PROVE CacheInv'
    OBVIOUS
  <1>1. CASE \E i \in Ifaces : MonitorProbe(i)
    BY <1>1, CacheProbe
  <1>2. CASE Deliver
    BY <1>2, CacheDeliver
  <1>3. CASE UNCHANGED <<previous_scores, health_scores, pending>>
    BY <1>3 DEF CacheInv, Newest, CacheCurrent
  <1>4. CASE \/ \E i \in Ifaces : MonitorSkip(i)
             \/ MonitorPass
             \/ \E seen \in [Ifaces -> [up : BOOLEAN, bytes : Counters]] : MonitorScan(seen)
    BY <1>3, <1>4, QuietSteps DEF steerer
  <1>5. CASE Tick
    BY <1>3, <1>5 DEF Tick, Steerer!Tick, monitor
  <1>6. CASE UNCHANGED vars
    BY <1>3, <1>6 DEF vars, monitor, tracker, steerer
  <1> QED BY <1>1, <1>2, <1>4, <1>5, <1>6, SubActions

\* The steerer's cache is the monitor's (path_steering.rs 150-157 against
\* monitoring.rs 210-243), but for the interfaces with an update under way.
THEOREM CacheCorrect == Spec => []CacheCurrent
  <1>1. CacheInv => CacheCurrent
    BY DEF CacheInv
  <1> QED BY <1>1, InvInit, InvStep, CacheInit, CacheStep, PTL DEF Spec

------------------------------------------------------------------------------
(* One steerer that smooths for itself *)

\* No earlier update of the interface of update n is under way, and: m is the last one.
First(n) == \A l \in 1 .. n - 1 : pending[l].interface # pending[n].interface

Precedes(m, n) ==
    /\ m \in 1 .. n - 1
    /\ pending[m].interface = pending[n].interface
    /\ \A l \in m + 1 .. n - 1 : pending[l].interface # pending[n].interface

\* Update n was smoothed with the score the steerer caches, or with update m.
FromCache(n) ==
    pending[n].smoothed_score =
        IF pending[n].interface \in DOMAIN health_scores
        THEN Ema(pending[n].new_score, health_scores[pending[n].interface])
        ELSE pending[n].new_score

FromUpdate(m, n) ==
    pending[n].smoothed_score = Ema(pending[n].new_score, pending[m].smoothed_score)

\* The updates of an interface are a chain from the score the steerer caches: each was
\* smoothed with the one before it, the first with the cached score.
ChainInv ==
    \A n \in 1 .. Len(pending) :
        /\ First(n) => FromCache(n)
        /\ \A m \in 1 .. n - 1 : Precedes(m, n) => FromUpdate(m, n)

LEMMA ChainInit == Init => ChainInv
  BY DEF Init, ChainInv

\* A probe appends a link: it smooths with the monitor's score, which is the newest
\* update's or, when none of its interface waits, the steerer's.
LEMMA ChainProbe ==
    ASSUME IInv, CacheInv, ChainInv, NEW i \in Ifaces, MonitorProbe(i)
    PROVE  ChainInv'
  <1>1. pending' = Append(pending, update') /\ health_scores' = health_scores
    BY DEF MonitorProbe, steerer
  <1>2. /\ update'.interface = i
        /\ update'.smoothed_score = IF i \in DOMAIN previous_scores
                                    THEN Ema(update'.new_score, previous_scores[i])
                                    ELSE update'.new_score
    BY TypesOfReadings, ProbeSends DEF IInv, MonitorProbe
  <1>3. /\ Len(pending) \in Nat /\ Len(pending') = Len(pending) + 1
        /\ pending'[Len(pending) + 1] = update'
        /\ \A n \in 1 .. Len(pending) : pending'[n] = pending[n]
        /\ DOMAIN pending = 1 .. Len(pending)
    BY <1>1 DEF IInv
  <1> SUFFICES ASSUME NEW n \in 1 .. Len(pending')
               PROVE  /\ First(n)' => FromCache(n)'
                      /\ \A m \in 1 .. n - 1 : Precedes(m, n)' => FromUpdate(m, n)'
    BY DEF ChainInv
  <1>4. CASE n \in 1 .. Len(pending)
    <2>1. /\ pending'[n] = pending[n]
          /\ \A m \in 1 .. n - 1 : pending'[m] = pending[m]
      BY <1>3, <1>4
    <2>2. First(n)' => First(n)
      BY <2>1 DEF First
    <2>3. \A m \in 1 .. n - 1 : Precedes(m, n)' => Precedes(m, n)
      <3> SUFFICES ASSUME NEW m \in 1 .. n - 1, Precedes(m, n)'
                   PROVE  Precedes(m, n)
        OBVIOUS
      <3>1. \A l \in m + 1 .. n - 1 : l \in 1 .. n - 1
        OBVIOUS
      <3> QED BY <2>1, <3>1 DEF Precedes
    <2> QED BY <1>1, <1>4, <2>1, <2>2, <2>3 DEF ChainInv, FromCache, FromUpdate
  <1>5. CASE n = Len(pending) + 1
    <2>1. pending'[n] = update'
      BY <1>3, <1>5
    <2>2. ASSUME First(n)'
          PROVE  FromCache(n)'
      <3>1. ~ \E l \in DOMAIN pending : pending[l].interface = i
        BY <1>2, <1>3, <1>5, <2>1, <2>2 DEF First
      <3>2. \/ i \notin DOMAIN previous_scores /\ i \notin DOMAIN health_scores
            \/ /\ i \in DOMAIN previous_scores /\ i \in DOMAIN health_scores
               /\ health_scores[i] = previous_scores[i]
        BY <3>1 DEF CacheInv, CacheCurrent
      <3> QED BY <1>1, <1>2, <2>1, <3>2 DEF FromCache
    <2>3. ASSUME NEW m \in 1 .. n - 1, Precedes(m, n)'
          PROVE  FromUpdate(m, n)'
      <3>1. m \in 1 .. Len(pending) /\ pending'[m] = pending[m] /\ pending[m].interface = i
        BY <1>2, <1>3, <1>5, <2>1, <2>3 DEF Precedes
      <3>2. \A l \in 1 .. Len(pending) : l > m => pending[l].interface # i
        <4> SUFFICES ASSUME NEW l \in 1 .. Len(pending), l > m
                     PROVE  pending[l].interface # i
          OBVIOUS
        <4>1. l \in m + 1 .. n - 1 /\ pending'[l] = pending[l]
          BY <1>3, <1>5, <3>1
        <4> QED BY <1>2, <2>1, <2>3, <4>1 DEF Precedes
      <3>3. Newest(m)
        BY <3>1, <3>2 DEF Newest
      <3>4. i \in DOMAIN previous_scores /\ previous_scores[i] = pending[m].smoothed_score
        BY <3>1, <3>3 DEF CacheInv
      <3> QED BY <1>2, <2>1, <3>1, <3>4 DEF FromUpdate
    <2> QED BY <2>2, <2>3
  <1> QED BY <1>3, <1>4, <1>5

\* A delivery takes the first link: what comes after it in its chain was smoothed with it,
\* and it is the score cached from now on.
LEMMA ChainDeliver ==
    ASSUME IInv, ChainInv, Deliver
    PROVE  ChainInv'
  <1> DEFINE first == pending[1]
  <1>1. /\ Len(pending) \in Nat /\ Len(pending) >= 1 /\ Head(pending) = first
        /\ Len(pending') = Len(pending) - 1
        /\ \A n \in 1 .. Len(pending) - 1 : pending'[n] = pending[n + 1]
    BY DEF Deliver, IInv
  <1>2. Stored(first.interface, first.smoothed_score)
    BY <1>1, DeliveryStores
  <1> HIDE DEF first
  <1> SUFFICES ASSUME NEW n \in 1 .. Len(pending) - 1
               PROVE  /\ First(n)' => FromCache(n)'
                      /\ \A m \in 1 .. n - 1 : Precedes(m, n)' => FromUpdate(m, n)'
    BY <1>1 DEF ChainInv
  <1>3. /\ n + 1 \in 1 .. Len(pending) /\ pending'[n] = pending[n + 1]
        /\ \A l \in 1 .. n - 1 : pending'[l] = pending[l + 1]
    BY <1>1
  <1>4. ASSUME First(n)'
        PROVE  FromCache(n)'
    <2>1. ASSUME NEW l \in 2 .. n
          PROVE  pending[l].interface # pending[n + 1].interface
      <3>1. l - 1 \in 1 .. n - 1 /\ pending'[l - 1] = pending[l]
        BY <1>3
      <3> QED BY <1>3, <1>4, <3>1 DEF First
    <2>2. CASE first.interface = pending[n + 1].interface
      <3>1. Precedes(1, n + 1)
        BY <1>3, <2>1, <2>2 DEF Precedes, first
      <3>2. pending[n + 1].smoothed_score
                = Ema(pending[n + 1].new_score, first.smoothed_score)
        BY <1>3, <3>1 DEF ChainInv, FromUpdate, first
      <3> QED BY <1>2, <1>3, <2>2, <3>2 DEF Stored, FromCache
    <2>3. CASE first.interface # pending[n + 1].interface
      <3>1. \A l \in 1 .. n : l = 1 \/ l \in 2 .. n
        OBVIOUS
      <3>2. First(n + 1)
        BY <1>3, <2>1, <2>3, <3>1 DEF First, first
      <3>3. FromCache(n + 1)
        BY <1>3, <3>2 DEF ChainInv
      <3> QED BY <1>2, <1>3, <2>3, <3>3 DEF Stored, FromCache
    <2> QED BY <2>2, <2>3
  <1>5. ASSUME NEW m \in 1 .. n - 1, Precedes(m, n)'
        PROVE  FromUpdate(m, n)'
    <2>1. m + 1 \in 1 .. n /\ pending'[m] = pending[m + 1]
      BY <1>3
    <2>2. ASSUME NEW l \in m + 2 .. n
          PROVE  pending[l].interface # pending[n + 1].interface
      <3>1. l - 1 \in m + 1 .. n - 1 /\ l - 1 \in 1 .. n - 1 /\ (l - 1) + 1 = l
        OBVIOUS
      <3> QED BY <1>3, <1>5, <3>1 DEF Precedes
    <2>3. Precedes(m + 1, n + 1)
      BY <1>3, <1>5, <2>1, <2>2 DEF Precedes
    <2>4. FromUpdate(m + 1, n + 1)
      BY <1>3, <2>1, <2>3 DEF ChainInv
    <2> QED BY <1>3, <2>1, <2>4 DEF FromUpdate
  <1> QED BY <1>4, <1>5

LEMMA ChainStep == IInv /\ CacheInv /\ ChainInv /\ [Next]_vars => ChainInv'
  <1> SUFFICES ASSUME IInv, CacheInv, ChainInv, [Next]_vars PROVE ChainInv'
    OBVIOUS
  <1>1. CASE \E i \in Ifaces : MonitorProbe(i)
    BY <1>1, ChainProbe
  <1>2. CASE Deliver
    BY <1>2, ChainDeliver
  <1>3. CASE UNCHANGED <<health_scores, pending>>
    BY <1>3 DEF ChainInv, First, Precedes, FromCache, FromUpdate
  <1>4. CASE \/ \E i \in Ifaces : MonitorSkip(i)
             \/ MonitorPass
             \/ \E seen \in [Ifaces -> [up : BOOLEAN, bytes : Counters]] : MonitorScan(seen)
    BY <1>3, <1>4, QuietSteps DEF steerer
  <1>5. CASE Tick
    BY <1>3, <1>5 DEF Tick, Steerer!Tick
  <1>6. CASE UNCHANGED vars
    BY <1>3, <1>6 DEF vars, steerer
  <1> QED BY <1>1, <1>2, <1>4, <1>5, <1>6, SubActions

\* Both specifications evaluate a score in the same way.
LEMMA SameEvaluation ==
    ASSUME NEW i, NEW s, Steerer!HealthUpdate(i, s)
    PROVE  Promise!HealthUpdate(i, s)
  BY DEF Steerer!HealthUpdate, Steerer!NoViablePath, Steerer!InitialAssignment,
     Steerer!InCooldown, Steerer!CountDegraded, Steerer!Failover, Steerer!SwitchToBetter,
     Steerer!KeepPath, Steerer!Store, Steerer!TakePath, Steerer!Evaluated, Steerer!Better,
     Steerer!DegradedReading, Steerer!BestIfaces, Steerer!Viable, Steerer!path,
     Promise!HealthUpdate, Promise!NoViablePath, Promise!InitialAssignment,
     Promise!InCooldown, Promise!CountDegraded, Promise!Failover, Promise!SwitchToBetter,
     Promise!KeepPath, Promise!Store, Promise!TakePath, Promise!Evaluated, Promise!Better,
     Promise!DegradedReading, Promise!BestIfaces, Promise!Viable, Promise!path,
     Steerer!FailoverAfter, Promise!FailoverAfter

\* A delivery is one reading of the abstract steerer: its update is the first of its
\* interface, so what it carries is its raw score smoothed with the cached one.
LEMMA DeliveryReads ==
    ASSUME IInv, ChainInv, Deliver
    PROVE  \E i \in Ifaces, raw \in Score : Promise!Reading(i, raw)
  <1> DEFINE i == pending[1].interface
             raw == pending[1].new_score
             s == pending[1].smoothed_score
  <1>1. 1 \in 1 .. Len(pending) /\ Head(pending) = pending[1] /\ pending[1] \in Updates
    BY DEF Deliver, IInv
  <1>2. First(1)
    BY DEF First
  <1>3. s = Promise!Smoothed(i, raw)
    BY <1>1, <1>2 DEF ChainInv, FromCache, Promise!Smoothed
  <1>4. i \in Ifaces /\ raw \in Score
    BY <1>1 DEF Updates
  <1>5. Steerer!HealthUpdate(i, s)
    BY <1>1 DEF Deliver
  <1> HIDE DEF i, raw, s
  <1>6. Promise!HealthUpdate(i, s)
    BY <1>5, SameEvaluation
  <1> QED BY <1>3, <1>4, <1>6 DEF Promise!Reading

\* The refinement: a delivery is a reading, a tick a tick, all else a stutter.
LEMMA PromiseStep ==
    ASSUME IInv, ChainInv, [Next]_vars
    PROVE  [Promise!SmoothedNext]_(Promise!vars)
  <1>1. CASE Deliver
    BY <1>1, DeliveryReads DEF Promise!SmoothedNext
  <1>2. CASE Tick
    BY <1>2 DEF Tick, Steerer!Tick, Promise!Tick, Promise!SmoothedNext
  <1>3. CASE UNCHANGED steerer
    BY <1>3 DEF steerer, Promise!vars, Promise!path
  <1>4. CASE \E i \in Ifaces : MonitorProbe(i)
    BY <1>3, <1>4 DEF MonitorProbe
  <1>5. CASE \/ \E i \in Ifaces : MonitorSkip(i)
             \/ MonitorPass
             \/ \E seen \in [Ifaces -> [up : BOOLEAN, bytes : Counters]] : MonitorScan(seen)
    BY <1>3, <1>5, QuietSteps
  <1>6. CASE UNCHANGED vars
    BY <1>3, <1>6 DEF vars
  <1> QED BY <1>1, <1>2, <1>4, <1>5, <1>6, SubActions

\* The monitor smooths with scores of its own and its updates wait in the channel
\* (monitoring.rs 210-285); the steerer evaluates them later (path_steering.rs 142-158).
\* To an observer of the path it is one steerer that smooths each raw score itself, for any
\* interfaces, weights, smoothing and number of updates under way: by ChainInv, which
\* rests on CacheInv.
THEOREM ImplementsSmoothed == Spec => SmoothedSpec
  <1>1. Init => Promise!Init
    BY DEF Init, Steerer!Init, Promise!Init, Steerer!NoDecision, Promise!NoDecision
  <1>2. IInv /\ ChainInv /\ [Next]_vars => [Promise!SmoothedNext]_(Promise!vars)
    BY PromiseStep
  <1> QED BY <1>1, <1>2, InvInit, InvStep, CacheInit, CacheStep, ChainInit, ChainStep, PTL
          DEF Spec, SmoothedSpec, Promise!SmoothedSpec

------------------------------------------------------------------------------
(* From the ping to the switch *)

\* No update of i is under way.
Settled(i) == \A n \in DOMAIN pending : pending[n].interface # i

\* A step that moves the traffic from i to j, told by the monitor's own scores: after a
\* full cooldown; j is viable; and i is not, or the gain is more than the hysteresis.
SwitchOnReadings(i, j) ==
    active_interface = i /\ active_interface' = j =>
        /\ since_steering >= Cooldown
        /\ Settled(j)' => /\ j \in DOMAIN previous_scores'
                          /\ previous_scores'[j] >= MinViable
        /\ Settled(i)' => \/ /\ i \in DOMAIN previous_scores'
                             /\ previous_scores'[i] < MinViable
                          \/ active_score' - active_score > Hysteresis

SwitchesOnReadings ==
    [][\A i \in Ifaces : \A j \in Ifaces \ {i} : SwitchOnReadings(i, j)]_vars

\* One delivery that moves the traffic, told by the scores the steerer caches.
LEMMA DeliverySwitches ==
    ASSUME NoIface \notin Ifaces, Deliver, NEW i \in Ifaces, NEW j \in Ifaces \ {i},
           active_interface = i, active_interface' = j
    PROVE  /\ since_steering >= Cooldown
           /\ j \in DOMAIN health_scores' /\ health_scores'[j] >= MinViable
           /\ \/ i \in DOMAIN health_scores' /\ health_scores'[i] < MinViable
              \/ active_score' - active_score > Hysteresis
  <1> DEFINE k == Head(pending).interface
             s == Head(pending).smoothed_score
  <1>1. Steerer!HealthUpdate(k, s)
    BY DEF Deliver
  <1> HIDE DEF k, s
  <1>2. Steerer!Failover(k, s) \/ Steerer!SwitchToBetter(k, s)
    BY <1>1 DEF Steerer!HealthUpdate, Steerer!NoViablePath, Steerer!path,
       Steerer!InitialAssignment, Steerer!InCooldown, Steerer!CountDegraded,
       Steerer!KeepPath
  <1>3. since_steering >= Cooldown /\ j \in Steerer!BestIfaces(health_scores')
    BY <1>2 DEF Steerer!Failover, Steerer!SwitchToBetter, Steerer!Evaluated,
       Steerer!TakePath
  <1>4. j \in DOMAIN health_scores' /\ health_scores'[j] >= MinViable
    BY <1>3 DEF Steerer!BestIfaces, Steerer!Viable
  <1>5. CASE Steerer!Failover(k, s)
    <2>1. Steerer!Store(k, s) /\ k = i /\ s < MinViable
      BY <1>5 DEF Steerer!Failover, Steerer!DegradedReading
    <2>2. i \in DOMAIN health_scores' /\ health_scores'[i] = s
      BY <2>1 DEF Steerer!Store
    <2> QED BY <1>3, <1>4, <2>1, <2>2
  <1>6. CASE Steerer!SwitchToBetter(k, s)
    BY <1>3, <1>4, <1>6 DEF Steerer!SwitchToBetter, Steerer!Better, Steerer!TakePath
  <1> QED BY <1>2, <1>5, <1>6

LEMMA SwitchStep ==
    ASSUME NoIface \notin Ifaces, CacheInv', [Next]_vars,
           NEW i \in Ifaces, NEW j \in Ifaces \ {i}
    PROVE  SwitchOnReadings(i, j)
  <1> SUFFICES ASSUME active_interface = i, active_interface' = j
               PROVE  SwitchOnReadings(i, j)
    BY DEF SwitchOnReadings
  <1>1. Deliver
    BY SubActions, QuietSteps DEF MonitorProbe, Tick, Steerer!Tick, steerer, vars
  <1>2. /\ since_steering >= Cooldown
        /\ j \in DOMAIN health_scores' /\ health_scores'[j] >= MinViable
        /\ \/ i \in DOMAIN health_scores' /\ health_scores'[i] < MinViable
           \/ active_score' - active_score > Hysteresis
    BY <1>1, DeliverySwitches
  <1>3. CacheCurrent'
    BY DEF CacheInv
  <1>4. ASSUME NEW k \in Ifaces, Settled(k)', k \in DOMAIN health_scores'
        PROVE  k \in DOMAIN previous_scores' /\ health_scores'[k] = previous_scores'[k]
    BY <1>3, <1>4 DEF CacheCurrent, Settled
  <1> QED BY <1>2, <1>4 DEF SwitchOnReadings

\* From the ping to the path: the daemon moves traffic only after a full cooldown, to an
\* interface whose smoothed score in the monitor is viable, and away from one that is not or
\* for more than the hysteresis.  A score can have changed since only if the update that
\* says so still waits in the receiver (path_steering.rs on the scores of monitoring.rs).
THEOREM SwitchesCorrect ==
    ASSUME NoIface \notin Ifaces
    PROVE  Spec => SwitchesOnReadings
  <1>1. CacheInv' /\ [Next]_vars =>
            [\A i \in Ifaces : \A j \in Ifaces \ {i} : SwitchOnReadings(i, j)]_vars
    BY SwitchStep
  <1> QED BY <1>1, InvInit, InvStep, CacheInit, CacheStep, PTL
          DEF Spec, SwitchesOnReadings
==============================================================================
