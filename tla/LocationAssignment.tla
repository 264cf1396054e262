------------------------- MODULE LocationAssignment -------------------------
(***************************************************************************)
(* Assignment of clients to physical positions.  Operators assign and      *)
(* confirm positions over REST; registrations, neighbour reports and       *)
(* operators start automatic assignments.  The assignments are written by  *)
(* worker threads, from one bounded queue; whoever asked waits for the     *)
(* answer, for ten seconds at most.  A transaction reads a snapshot of the *)
(* database; its writes lock the rows of a client until it commits, so the *)
(* model has one step for the reads and one for the writes of each.        *)
(*                                                                         *)
(* The ids of clients and locations are the keys of their rows.            *)
(***************************************************************************)
EXTENDS Naturals, Sequences, FiniteSets

CONSTANTS
    Clients,       \* the ids of the rows of clients
    Locations,     \* the ids of the rows of locations
    Assignable,    \* the locations that are PC positions
    Requests,      \* bound: what operators and triggers ask for
    QueueSize,     \* the capacity of the queue
    MaxWorkers,    \* bound: worker threads
    WorkerAtStart  \* whether server.py, which starts a worker, is what runs

ASSUME IdsAssumption ==
    /\ Clients \subseteq Nat \ {0} /\ Locations \subseteq Nat \ {0} /\ Requests \subseteq Nat \ {0}
    /\ Assignable \subseteq Locations
ASSUME SizesAssumption == QueueSize \in Nat \ {0} /\ MaxWorkers \in Nat \ {0}
ASSUME StartAssumption == WorkerAtStart \in BOOLEAN

Workers == 1..MaxWorkers
Nowhere == 0
NoTask == [request |-> 0, at |-> Nowhere]
Kinds == {"manual", "auto", "confirm"}
Methods == {"none", "MANUAL", "AUTO"}
Statuses == {"none", "PENDING", "ASSIGNED", "CONFIRMED"}
Rows == [at : Locations \cup {Nowhere}, method : Methods, status : Statuses, verified : BOOLEAN]

VARIABLES
    client,      \* the rows of clients
    open,        \* the rows of client_location_history that are not closed
    request,     \* the threads that ask
    queue,       \* location_assignment_queue
    worker,      \* the task of each worker, and the location its snapshot shows
    running,     \* the worker threads
    started,     \* location_assignment_worker_started
    overtaken    \* history: automatic requests whose client became protected after their guard

tables == <<client, open>>
workers == <<worker, running, started>>
vars == <<client, open, request, queue, workers, overtaken>>

NoRequest == [kind |-> "none", client |-> 0, target |-> Nowhere, stage |-> "new"]

TypeOK ==
  /\ client \in [Clients -> Rows]
  /\ open \in [Clients -> SUBSET Locations]
  /\ request \in [Requests -> {NoRequest} \cup
       [kind : Kinds, client : Clients, target : Locations \cup {Nowhere},
        stage : {"guard", "calculate", "submit", "waiting", "failing", "confirming", "done"}]]
  /\ queue \in Seq(Requests) /\ Len(queue) <= QueueSize
  /\ worker \in [Workers -> {NoTask} \cup [request : Requests, at : Locations \cup {Nowhere}]]
  /\ running \in SUBSET Workers /\ started \in BOOLEAN
  /\ overtaken \in SUBSET Requests

Init ==
  /\ client = [c \in Clients |-> [at |-> Nowhere, method |-> "none", status |-> "none", verified |-> FALSE]]
  /\ open = [c \in Clients |-> {}]
  /\ request = [r \in Requests |-> NoRequest]
  /\ queue = << >>
  /\ worker = [w \in Workers |-> NoTask]
  /\ running = IF WorkerAtStart THEN {1} ELSE {}
  /\ started = FALSE
  /\ overtaken = {}

At(r, s) == request[r].stage = s
Goes(r, s) == request' = [request EXCEPT ![r].stage = s]

(* PATCH .../location of an operator, its target any row of locations;      *)
(* POST .../location/confirm; and the three triggers of an automatic one.   *)
Ask(r) ==
  /\ request[r] = NoRequest
  /\ \E c \in Clients :
       \/ \E l \in Locations :
            request' = [request EXCEPT ![r] = [kind |-> "manual", client |-> c, target |-> l, stage |-> "submit"]]
       \/ request' = [request EXCEPT ![r] = [kind |-> "auto", client |-> c, target |-> Nowhere, stage |-> "guard"]]
       \/ request' = [request EXCEPT ![r] = [kind |-> "confirm", client |-> c, target |-> Nowhere, stage |-> "guard"]]
  /\ UNCHANGED <<tables, queue, workers, overtaken>>

-----------------------------------------------------------------------------
(* Automatic assignment.  The guard, the calculation and the record of a    *)
(* failure each have a connection of their own.                             *)

Protected(row) == row.at # Nowhere /\ (row.verified \/ row.status = "CONFIRMED")

Guard_ManualOnly(r) ==                            \* mutant
  LET row == client[request[r].client] IN
  /\ At(r, "guard") /\ request[r].kind = "auto"
  /\ Goes(r, IF Protected(row) /\ row.method = "MANUAL" THEN "done" ELSE "calculate")
  /\ UNCHANGED <<tables, queue, workers, overtaken>>

Guard(r) ==
  /\ At(r, "guard") /\ request[r].kind = "auto"
  /\ Goes(r, IF Protected(client[request[r].client]) THEN "done" ELSE "calculate")
  /\ UNCHANGED <<tables, queue, workers, overtaken>>

(* The nearest position, with enough confidence, or none. *)
Calculate(r) ==
  /\ At(r, "calculate")
  /\ \/ \E l \in Assignable : request' = [request EXCEPT ![r].target = l, ![r].stage = "submit"]
     \/ Goes(r, "failing")
  /\ UNCHANGED <<tables, queue, workers, overtaken>>

Failed(row) == [row EXCEPT !.method = "AUTO", !.status = "PENDING", !.verified = FALSE]

RecordFailure_Always(r) ==                        \* mutant
  LET c == request[r].client IN
  /\ At(r, "failing")
  /\ client' = [client EXCEPT ![c] = Failed(@)]
  /\ Goes(r, "done")
  /\ UNCHANGED <<open, queue, workers, overtaken>>

RecordFailure(r) ==
  LET c == request[r].client IN
  /\ At(r, "failing")
  /\ client' = IF client[c].at = Nowhere THEN [client EXCEPT ![c] = Failed(@)] ELSE client
  /\ Goes(r, "done")
  /\ UNCHANGED <<open, queue, workers, overtaken>>

(* The database does not answer: nothing is written. *)
Unavailable(r) ==
  /\ \E s \in {"guard", "calculate", "failing", "confirming"} : At(r, s)
  /\ Goes(r, "done")
  /\ UNCHANGED <<tables, queue, workers, overtaken>>

-----------------------------------------------------------------------------
(* The queue.  A thread that asks makes sure that there is a worker; the    *)
(* one of server.py is not known to that check.                             *)

EnsureStarted_EachTime ==                         \* mutant
  /\ started' = TRUE
  /\ running' = running \cup {w \in Workers : \A v \in Workers : v < w => v \in running}
EnsureStarted ==
  /\ started' = TRUE
  /\ running' = IF started THEN running
                ELSE running \cup {w \in Workers : \A v \in Workers : v < w <=> v \in running}

Submit(r) ==
  /\ At(r, "submit") /\ Len(queue) < QueueSize
  /\ EnsureStarted
  /\ queue' = Append(queue, r)
  /\ Goes(r, "waiting")
  /\ UNCHANGED <<tables, worker, overtaken>>

(* The queue stays full for five seconds: "please try again". *)
Busy(r) ==
  /\ At(r, "submit") /\ Len(queue) = QueueSize
  /\ EnsureStarted
  /\ Goes(r, "done")
  /\ UNCHANGED <<tables, queue, worker, overtaken>>

(* The task stays in the queue, or with its worker. *)
TimeOut(r) ==
  /\ At(r, "waiting")
  /\ Goes(r, "done")
  /\ UNCHANGED <<tables, queue, workers, overtaken>>

-----------------------------------------------------------------------------
(* A worker. *)

(* A refused automatic request is recorded, if it still waits; an error of  *)
(* the database is not.                                                     *)
Answer(r, a) ==
  Goes(r, IF ~ At(r, "waiting") THEN request[r].stage
          ELSE IF a = "refused" /\ request[r].kind = "auto" THEN "failing" ELSE "done")

Occupied(c, l) == \E d \in Clients \ {c} : client[d].at = l

Refused(r) == request[r].target \notin Assignable \/ Occupied(request[r].client, request[r].target)

Examine(w) ==
  /\ w \in running /\ worker[w] = NoTask /\ queue # << >>
  /\ LET r == Head(queue) IN
     IF Refused(r)
     THEN /\ Answer(r, "refused")
          /\ UNCHANGED worker
     ELSE /\ worker' = [worker EXCEPT ![w] = [request |-> r, at |-> client[request[r].client].at]]
          /\ UNCHANGED request
  /\ queue' = Tail(queue)
  /\ UNCHANGED <<tables, running, started, overtaken>>

Overtakes(c, row) ==
  overtaken' = IF Protected(row) /\ ~ Protected(client[c])
               THEN overtaken \cup {r \in Requests : request[r].client = c /\ request[r].kind = "auto"
                                                     /\ ~ At(r, "guard")}
               ELSE overtaken

Method(r) == IF request[r].kind = "manual" THEN "MANUAL" ELSE "AUTO"

(* The new row of the client: another location, or other metadata only. *)
Assigned(w) ==
  LET r == worker[w].request
      row == client[request[r].client]
  IN [row EXCEPT !.at = IF worker[w].at # request[r].target THEN request[r].target ELSE @,
                 !.method = Method(r), !.status = "ASSIGNED", !.verified = request[r].kind = "manual"]

Closed_None(c) == open[c]                         \* mutant
Closed(c) == {}

Write(w) ==
  LET r == worker[w].request
      c == request[r].client
  IN
  /\ w \in running /\ worker[w] # NoTask
  /\ client' = [client EXCEPT ![c] = Assigned(w)]
  /\ open' = IF worker[w].at # request[r].target
             THEN [open EXCEPT ![c] = Closed(c) \cup {request[r].target}] ELSE open
  /\ Overtakes(c, Assigned(w))
  /\ worker' = [worker EXCEPT ![w] = NoTask]
  /\ Answer(r, "ok")
  /\ UNCHANGED <<queue, running, started>>

(* An exception of any statement is the answer; the worker goes on.  A      *)
(* ValueError ("Database unavailable.") is a refusal.                       *)
Fails_Ends(w) ==                                  \* mutant
  /\ w \in running /\ worker[w] # NoTask
  /\ running' = running \ {w}
  /\ UNCHANGED <<tables, request, queue, worker, started, overtaken>>

Fails(w) ==
  /\ w \in running /\ worker[w] # NoTask
  /\ worker' = [worker EXCEPT ![w] = NoTask]
  /\ \E a \in {"refused", "error"} : Answer(worker[w].request, a)
  /\ UNCHANGED <<tables, queue, running, started, overtaken>>

-----------------------------------------------------------------------------
(* Confirmation by an operator, in the thread of the request.  The select   *)
(* is of c.id and of l.*, whose id replaces the other in the dictionary of  *)
(* the row, so the id in the updates is that of the location.               *)

ConfirmRead(r) ==
  LET at == client[request[r].client].at IN
  /\ At(r, "guard") /\ request[r].kind = "confirm"
  /\ request' = IF at = Nowhere THEN [request EXCEPT ![r].stage = "done"]
                ELSE [request EXCEPT ![r].stage = "confirming", ![r].target = at]
  /\ UNCHANGED <<tables, queue, workers, overtaken>>

Selected(r) == request[r].target

ConfirmWrite(r) ==
  LET c == Selected(r)
      row == [client[c] EXCEPT !.status = "CONFIRMED", !.verified = TRUE]
  IN
  /\ At(r, "confirming")
  /\ IF c \in Clients
     THEN /\ client' = [client EXCEPT ![c] = row]
          /\ Overtakes(c, row)
     ELSE UNCHANGED <<client, overtaken>>
  /\ Goes(r, "done")
  /\ UNCHANGED <<open, queue, workers>>

-----------------------------------------------------------------------------
Asks(r) == Guard(r) \/ Calculate(r) \/ RecordFailure(r) \/ Submit(r) \/ Busy(r)
           \/ ConfirmRead(r) \/ ConfirmWrite(r) \/ Unavailable(r)

Works(w) == Examine(w) \/ Write(w) \/ Fails(w)

Next ==
  \/ \E r \in Requests : Ask(r) \/ Asks(r) \/ TimeOut(r)
  \/ \E w \in Workers : Works(w)

(* The threads run. *)
Fairness == \A w \in Workers : WF_vars(Works(w))

Spec == Init /\ [][Next]_vars /\ Fairness

-----------------------------------------------------------------------------
(* The properties. *)

(* No two clients have one position, whoever asks at the same time: what    *)
(* the one worker is for (location_repository.py:314).                      *)
OnePerPosition ==
  \A c, d \in Clients : c # d /\ client[c].at # Nowhere => client[c].at # client[d].at

(* The history of a client has one open row, of the position it has, or     *)
(* none if it has no position (location_repository.py:182-233).             *)
HistoryAgrees ==
  \A c \in Clients : open[c] = {client[c].at} \ {Nowhere}

(* A client with a position is not in the list of those that wait for one:  *)
(* the failure of a slow calculation does not undo what was assigned in the *)
(* meantime (client_localization.py:276).                                   *)
SeatedIsNotPending ==
  \A c \in Clients : client[c].at # Nowhere => client[c].status # "PENDING"

(* An automatic assignment replaces a protected one only if the protection  *)
(* came after its guard (client_localization.py:323-344).                   *)
ProtectedIsKept ==
  [][\A w \in Workers : worker[w] # NoTask /\ Write(w) =>
       LET r == worker[w].request IN
       request[r].kind = "auto" /\ r \notin overtaken => ~ Protected(client[request[r].client])]_vars

(* What the queue has accepted is carried out or refused, although those    *)
(* before it fail and whoever asked has given up (the loop of               *)
(* location_repository.py:315-337).                                         *)
AcceptedIsExecuted ==
  \A r \in Requests :
    (\E i \in 1..Len(queue) : queue[i] = r)
      ~> (\A i \in 1..Len(queue) : queue[i] # r) /\ (\A w \in Workers : worker[w].request # r)

(* What docs/archive/plans/auto-manual-client-localization.md:504 says,     *)
(* "Automatic recalculation must not overwrite a manually confirmed         *)
(* location.", is false of the code: nothing looks again after the guard.   *)
ConfirmedIsKept ==
  [][\A w \in Workers : worker[w] # NoTask /\ Write(w) =>
       LET r == worker[w].request IN
       request[r].kind = "auto" => client[request[r].client].status # "CONFIRMED"]_vars

(* What api_service.py:483 says, "Mark the current client location as       *)
(* administrator-confirmed", is false of the code: a client is confirmed    *)
(* that nobody asked to confirm.                                            *)
ConfirmationIsAsked ==
  [][\A c \in Clients : client'[c].status = "CONFIRMED" /\ client[c].status # "CONFIRMED" =>
       \E r \in Requests : request[r].kind = "confirm" /\ request[r].client = c]_vars
=============================================================================
