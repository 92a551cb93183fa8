---------------------------- MODULE MCHealthMonitor ----------------------------
(* Model-checking instance of HealthMonitor: two interfaces, the default weights *)
(* and weights whose sum does not fit into a u8.                                 *)
EXTENDS HealthMonitor

MCPings == {[rtt |-> 10, jitter |-> 1, loss |-> 0],
            [rtt |-> 255, jitter |-> 50, loss |-> 5]}

Weigh(r, j, l, t, s) ==
    [rtt |-> r, jitter |-> j, loss |-> l, throughput |-> t, stability |-> s]

\* The sums are 100, and 300 which is 44 as a u8.
MCWeights == {Weigh(30, 20, 25, 15, 10), Weigh(100, 50, 100, 25, 25)}
==============================================================================
