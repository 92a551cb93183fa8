------------------------------- MODULE Predictive -------------------------------
(***************************************************************************)
(* The predictive failover engine (netfusion-core/src/intelligence/        *)
(* predictive.rs), for one interface: the engine keeps one such history    *)
(* per interface and never relates two.  Scores count in units of `Unit`   *)
(* points.  Samples are 5 s apart and their times are counted from the     *)
(* oldest one kept, on which no result depends.  Quotients are kept as     *)
(* numerator and denominator, so that every comparison is exact where the  *)
(* code has f64.                                                           *)
(***************************************************************************)
EXTENDS Integers, Sequences, SequencesExt, FiniteSetsExt

CONSTANTS
    Readings,       \* the scores of a reading, in units
    Unit,           \* points per unit
    MinSamples,     \* PredictiveEngine.min_samples
    ActionTenths,   \* PredictiveEngine.action_threshold in tenths, 6 by default
    RecentWindows,  \* the values of PredictiveEngine.recent_window considered
    MaxReadings     \* bound: readings kept, where 4 windows are more

ASSUME PredictiveAssumption ==
    /\ Readings \subseteq Nat
    /\ Unit \in Nat \ {0}
    /\ MinSamples \in Nat /\ ActionTenths \in 0 .. 10
    /\ RecentWindows \subseteq Nat \ {0}
    /\ MaxReadings \in Nat

VARIABLES
    recent_window,  \* PredictiveEngine.recent_window, fixed at start
    history         \* the values of the interface's data points, oldest first

engine == <<recent_window, history>>

PredictiveTypeOK ==
    /\ recent_window \in RecentWindows
    /\ history \in Seq(Readings)
    /\ Len(history) <= 4 * recent_window

PredictiveInit == recent_window \in RecentWindows /\ history = <<>>

\* Mutant: the window slides one reading late.
AddReading_OffByOne(score) ==
    /\ Len(history) < MaxReadings \/ MaxReadings > 4 * recent_window
    /\ history' = LET longer == Append(history, score)
                  IN IF Len(longer) > 4 * recent_window + 1 THEN Tail(longer) ELSE longer
    /\ UNCHANGED recent_window

\* add_reading: the window of four times the recent one slides.
AddReading(score) ==
    /\ Len(history) < MaxReadings \/ MaxReadings > 4 * recent_window
    /\ history' = LET longer == Append(history, score)
                  IN IF Len(longer) > 4 * recent_window THEN Tail(longer) ELSE longer
    /\ UNCHANGED recent_window

\* clear and clear_all.
Clear ==
    /\ history' = <<>>
    /\ UNCHANGED recent_window

PredictiveNext == Clear \/ \E score \in Readings : AddReading(score)

PredictiveSpec == PredictiveInit /\ [][PredictiveNext]_engine

------------------------------------------------------------------------------
(* Linear regression: point i of a sequence is at time i - 1, in steps of 5 s *)

SumX(p) == SumFunction([i \in DOMAIN p |-> i - 1])
SumY(p) == SumFunction(p)
SumXY(p) == SumFunction([i \in DOMAIN p |-> (i - 1) * p[i]])
SumX2(p) == SumFunction([i \in DOMAIN p |-> (i - 1) * (i - 1)])
SumY2(p) == SumFunction([i \in DOMAIN p |-> p[i] * p[i]])

Denominator(p) == Len(p) * SumX2(p) - SumX(p) * SumX(p)

\* Mutant: the sums are taken for means.
Rise_NoCount(p) == SumXY(p) - SumX(p) * SumY(p)

\* The slope in units per step is Rise / Denominator.
Rise(p) == Len(p) * SumXY(p) - SumX(p) * SumY(p)

\* The number of points, squared, times the variance of their values.
Spread(p) == Len(p) * SumY2(p) - SumY(p) * SumY(p)

\* linear_regression returns nothing for fewer than three points.
HasLine(p) == Len(p) >= 3

\* The slope in points per second is below -hundredths / 100.
FallsFaster(p, hundredths) ==
    HasLine(p) /\ 100 * Unit * Rise(p) < -5 * hundredths * Denominator(p)

\* r_squared = 1 - ss_res / ss_tot is Explained / Total: see FitIsLeastSquares.  Of
\* points without spread it is 1, and their slope is 0.
Explained(p) == Rise(p) * Rise(p)
Total(p) == Denominator(p) * Spread(p)

------------------------------------------------------------------------------
(* analyze *)

Recent == SubSeq(history, Max({1, Len(history) - recent_window + 1}), Len(history))

\* analyze_trend: is_degrading.
Degrading ==
    FallsFaster(Recent, 1) /\ 2 * Explained(Recent) > Total(Recent)

\* detect_acceleration: the second half of the recent points falls faster than the
\* first.
Accelerating ==
    LET mid == Len(Recent) \div 2
        first == SubSeq(Recent, 1, mid)
        second == SubSeq(Recent, mid + 1, Len(Recent))
    IN /\ Len(Recent) >= 10
       /\ FallsFaster(second, 2)
       /\ Rise(second) * Denominator(first) < Rise(first) * Denominator(second)

\* detect_anomalies: the last value is more than z standard deviations off the mean.
Anomaly(z) ==
    LET off == Len(history) * history[Len(history)] - SumY(history)
    IN Len(history) >= 10 /\ off * off > z * z * Spread(history)

\* combine_indicators, in tenths of confidence over this denominator.
Whole == Max({1, Total(Recent)})

\* Mutant: a trend counts for its full fit.
Confidence_FullFit ==
    (IF Degrading THEN 10 * Explained(Recent) ELSE 0)
        + (IF Accelerating THEN 3 * Whole ELSE 0)
        + (IF Anomaly(3) THEN 4 * Whole ELSE 0)

Confidence ==
    (IF Degrading THEN 5 * Explained(Recent) ELSE 0)
        + (IF Accelerating THEN 3 * Whole ELSE 0)
        + (IF Anomaly(3) THEN 4 * Whole ELSE 0)

\* Severity::None ... Severity::Critical as 0 .. 4.
Severity ==
    IF Confidence > 6 * Whole /\ (Degrading \/ Accelerating) /\ Anomaly(2) THEN 4
    ELSE Max({0} \cup {s \in {2} : Degrading \/ Anomaly(3)}
                 \cup {s \in {3} : Accelerating \/ (Degrading /\ FallsFaster(Recent, 10))})

\* should_act of analyze's prediction, with the engine's threshold.  The cap of the
\* confidence at 1 is not reached below the threshold.
ShouldAct ==
    /\ Len(history) >= Max({1, MinSamples})
    /\ Confidence >= ActionTenths * Whole
    /\ Severity > 0

------------------------------------------------------------------------------

\* The regression against what defines it: no line has a smaller sum of squared
\* residuals (the normal equations), and the share of the squares it explains is the
\* r_squared that the code computes from the residuals.
LeastSquares(p) ==
    LET n == Len(p)
        d == Denominator(p)
        residual == [i \in DOMAIN p |->
                        d * n * p[i] - n * Rise(p) * (i - 1)
                            - (d * SumY(p) - Rise(p) * SumX(p))]
    IN /\ SumFunction(residual) = 0
       /\ SumFunction([i \in DOMAIN p |-> (i - 1) * residual[i]]) = 0
       /\ SumFunction([i \in DOMAIN p |-> residual[i] * residual[i]])
              = n * d * (Total(p) - Explained(p))

\* Of the histories, those short enough for the integers of the model checker.
FitIsLeastSquares ==
    HasLine(history) /\ Len(history) <= 6 => LeastSquares(history)

\* The engine acts when two indicators speak at once, never on one alone, and never while
\* no recent reading is below the one before it.  The anomaly has no direction, it may be
\* an outlier upwards; alone it sends no traffic away.
ActsOnConfirmedDecline ==
    ShouldAct /\ ActionTenths >= 6 =>
        /\ \/ Degrading /\ Accelerating
           \/ (Degrading \/ Accelerating) /\ Anomaly(3)
        /\ \E i \in 2 .. Len(Recent) : Recent[i] < Recent[i - 1]
==============================================================================
