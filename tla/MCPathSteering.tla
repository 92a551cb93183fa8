---------------------------- MODULE MCPathSteering ----------------------------
(* Model-checking instance of PathSteering: the scores lie below, at, within   *)
(* the hysteresis above, and beyond the hysteresis above the threshold.        *)
EXTENDS PathSteering
==============================================================================
