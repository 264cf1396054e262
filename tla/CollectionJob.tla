---------------------------- MODULE CollectionJob ----------------------------
(***************************************************************************)
(* What a global neighbourhood collection promises, without its buckets    *)
(* and threads: one job is open at a time; an open job gives each of its   *)
(* targets one outcome, and no outcome changes; a job is closed when every *)
(* target has one, as "COMPLETED" exactly if all of them are, and a closed *)
(* job stays as it is.                                                     *)
(***************************************************************************)
CONSTANTS Jobs, NoJob, Clients, Outcomes, Success, Unsettled

VARIABLES
  open,      (* the open job, or NoJob                                     *)
  targets,   (* of each job: the clients it was started for                *)
  outcome,   (* of each job and client                                     *)
  result     (* of each job: "none", "COMPLETED" or "PARTIAL"              *)

jobs == <<open, targets, outcome, result>>

Init ==
  /\ open = NoJob
  /\ targets = [j \in Jobs |-> {}]
  /\ outcome = [j \in Jobs |-> [c \in Clients |-> Unsettled]]
  /\ result  = [j \in Jobs |-> "none"]

Open(j, online) ==
  /\ open = NoJob /\ result[j] = "none"
  /\ open' = j
  /\ targets' = [targets EXCEPT ![j] = online]
  /\ UNCHANGED <<outcome, result>>

Settle(j, c, o) ==
  /\ open = j /\ c \in targets[j] /\ outcome[j][c] = Unsettled
  /\ outcome' = [outcome EXCEPT ![j][c] = o]
  /\ UNCHANGED <<open, targets, result>>

Close(j) ==
  /\ open = j /\ \A c \in targets[j] : outcome[j][c] # Unsettled
  /\ open' = NoJob
  /\ result' = [result EXCEPT ![j] =
       IF \A c \in targets[j] : outcome[j][c] = Success THEN "COMPLETED" ELSE "PARTIAL"]
  /\ UNCHANGED <<targets, outcome>>

Next == \E j \in Jobs :
  \/ \E online \in SUBSET Clients : Open(j, online)
  \/ \E c \in Clients, o \in Outcomes : Settle(j, c, o)
  \/ Close(j)

Spec == Init /\ [][Next]_jobs
=============================================================================
