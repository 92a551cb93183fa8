------------------------------ MODULE MCConsole ------------------------------
(* Model-checking instance of Console: up to two interfaces, a bincode that    *)
(* may fail at every call, every key the program handles here.                 *)
EXTENDS Console
==============================================================================
