------------------------------ MODULE MCDiscovery ------------------------------
(* Model-checking instance of Discovery: a modem that is replaced under its name *)
(* by one without a gateway, beside an Ethernet card.                            *)
EXTENDS Discovery

MCNameOf == [d \in Devices |-> IF d = 3 THEN "eth0" ELSE "wwan0"]

MCStatesOf == <<{"down", "routed"}, {"onlink"}, {"routed"}>>
==============================================================================
