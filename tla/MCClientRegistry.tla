-------------------------- MODULE MCClientRegistry --------------------------
(* Bounds for TLC: one device and two connections.  That is enough for a    *)
(* connection to be lost, replaced and lost again while its first loss is   *)
(* still being classified, and for a service and an interactive agent of    *)
(* the device to be connected at the same time.                             *)
EXTENDS ClientRegistry
=============================================================================
