------------------------- MODULE MCActionLifecycle --------------------------
(* Bounds for TLC: two targets, so that an action can succeed in part, and  *)
(* two requests with one action id, so that a request can be replayed while *)
(* the first is being created, executed, or is over.                        *)
EXTENDS ActionLifecycle
=============================================================================
