---------------------------- MODULE MCBondFailover ----------------------------
(* Model-checking instance of BondFailover.  The groups "bond0" and "0" get the *)
(* same link name netfusion0, and every group shares a member with another one. *)
EXTENDS BondFailover

CONSTANTS eth, wifi, t1, t2

MCBonds == {"bond0", "0", "bond1"}
MCIfaces == {eth, wifi}
MCMembers == [n \in MCBonds |-> IF n = "bond0" THEN <<eth, wifi>> ELSE <<wifi>>]
MCLinkOf == [n \in MCBonds |-> IF n = "bond1" THEN "netfusion1" ELSE "netfusion0"]
MCTasks == {t1, t2}
==============================================================================
