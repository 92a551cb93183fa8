------------------------------- MODULE MCBalancer -------------------------------
(* Model-checking instance of Balancer: two uplinks, and a third interface that *)
(* has a score but never a gateway.                                             *)
EXTENDS Balancer

CONSTANTS wan, lte, vpn

\* The uplink's default route where a user or where a DHCP client puts it.
MCHostTables ==
    {[m \in {first, 600} |-> LET i == IF m = 600 THEN lte ELSE wan
                             IN Route([j \in {i} |-> 1], i)] : first \in {0, 100}}
==============================================================================
