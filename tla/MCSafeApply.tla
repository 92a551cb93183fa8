----------------------------- MODULE MCSafeApply -----------------------------
(* Model-checking instance of SafeApply: two default routes, one policy rule,  *)
(* and changes long enough to delete a route, add it again and add another.    *)
EXTENDS SafeApply
==============================================================================
