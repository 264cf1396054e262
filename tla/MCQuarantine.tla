---- MODULE MCQuarantine ----
(* Quarantine on an endpoint whose inbound policy is not the default, with up *)
(* to five commands and restarts: a quarantine, its repetition, a release     *)
(* that fails and one that does not, and a restart.                           *)
EXTENDS Quarantine
====
