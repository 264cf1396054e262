-------------------------- MODULE MCTelemetrySync --------------------------
(* Bounds for TLC.  One window and three sessions: the workers of two       *)
(* earlier managers are at work when the third sends the window; two        *)
(* attempts make a retry.                                                   *)
EXTENDS TelemetrySync
=============================================================================
