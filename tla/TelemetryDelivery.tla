------------------------- MODULE TelemetryDelivery -------------------------
(***************************************************************************)
(* What telemetry sync promises for a closed activity window: the client   *)
(* keeps a durable copy until the server has the window, and the server    *)
(* takes it once.                                                          *)
(***************************************************************************)
CONSTANT Windows

VARIABLES
  kept,     (* the windows the client has on disk *)
  stored    (* the windows the server has *)

Init == kept = {} /\ stored = {}

(* A window is closed and written to disk. *)
Close(w) == w \notin kept \cup stored /\ kept' = kept \cup {w} /\ UNCHANGED stored

(* The server stores it: only a window that the client still keeps. *)
Store(w) == w \in kept \ stored /\ stored' = stored \cup {w} /\ UNCHANGED kept

(* The client drops a copy of what the server has, or finds it again. *)
Release(w) == w \in kept \cap stored /\ kept' = kept \ {w} /\ UNCHANGED stored
Rewrite(w) == w \in stored \ kept /\ kept' = kept \cup {w} /\ UNCHANGED stored

Next == \E w \in Windows : Close(w) \/ Store(w) \/ Release(w) \/ Rewrite(w)

Spec == Init /\ [][Next]_<<kept, stored>>
=============================================================================
