-------------------------- MODULE MCMonitoredSteering --------------------------
(* Model-checking instance of MonitoredSteering: two interfaces, three scores, *)
(* no traffic, since throughput has no weight.                                 *)
EXTENDS MonitoredSteering

MCPings == {[rtt |-> 10, jitter |-> 1, loss |-> 0]}

MCWeights == {[rtt |-> 100, jitter |-> 0, loss |-> 0, throughput |-> 0, stability |-> 0]}
==============================================================================
