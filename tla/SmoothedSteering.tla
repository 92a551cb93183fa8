--------------------------- MODULE SmoothedSteering ---------------------------
(***************************************************************************)
(* What the daemon promises of steering on measurements: a steerer without *)
(* monitor or channel.  Every raw score is smoothed with the score this    *)
(* steerer itself cached for the interface last, and evaluated at once.    *)
(* MonitoredSteering, where the monitor smooths with scores of its own and *)
(* the results wait in a channel, implements it.                           *)
(***************************************************************************)
EXTENDS PathSteering

CONSTANT Smooth(_, _)   \* a new score weighed with the one before

Smoothed(i, raw) ==
    IF i \in DOMAIN health_scores THEN Smooth(raw, health_scores[i]) ELSE raw

\* One measurement of i, from the raw score to the path.
Reading(i, raw) == HealthUpdate(i, Smoothed(i, raw))

SmoothedNext ==
    \/ \E i \in Ifaces, raw \in Scores : Reading(i, raw)
    \/ Tick

SmoothedSpec == Init /\ [][SmoothedNext]_vars
==============================================================================
