--------------------- MODULE LocationAssignment_proofs ---------------------
(***************************************************************************)
(* Proofs about LocationAssignment, for any clients, locations, requests   *)
(* and number of workers.  Inv follows a request from its guard through    *)
(* the queue and a worker to the row it changes; it holds whatever runs.   *)
(* Single is about the process with one worker, which is the one that      *)
(* gives every position to one client.                                     *)
(***************************************************************************)
EXTENDS LocationAssignment, TLAPS

Queued(r) == \E i \in 1..Len(queue) : queue[i] = r
Held(r) == \E w \in Workers : worker[w].request = r

\* What is in the queue or with a worker has been submitted.
Handed ==
  \A r \in Requests : Queued(r) \/ Held(r) => request[r].stage \in {"waiting", "failing", "done"}

\* A worker writes real locations.
Targets ==
  \A w \in Workers : worker[w] # NoTask => request[worker[w].request].target \in Locations

\* An automatic request that can still write has passed the guard, and is
\* overtaken if its client has been protected since.
Guarded ==
  \A r \in Requests :
    /\ request[r].kind = "auto"
    /\ request[r].stage \in {"calculate", "submit", "waiting"} \/ Queued(r) \/ Held(r)
    => r \in overtaken \/ ~ Protected(client[request[r].client])

Inv == TypeOK /\ HistoryAgrees /\ SeatedIsNotPending /\ Handed /\ Targets /\ Guarded

\* There is at most one worker; what it has examined is still so.
Single ==
  /\ running \subseteq {1}
  /\ ~ started => running = {}
  /\ \A w \in Workers : worker[w] # NoTask =>
       LET r == worker[w].request IN
       /\ w \in running
       /\ worker[w].at = client[request[r].client].at
       /\ ~ Occupied(request[r].client, request[r].target)

SInv == Inv /\ Single /\ OnePerPosition

\* A task that was accepted is in the queue once, or with one worker, or gone.
OnePlace ==
  /\ \A i, j \in 1..Len(queue) : queue[i] = queue[j] => i = j
  /\ \A w \in Workers : worker[w] # NoTask => ~ Queued(worker[w].request)
  /\ \A v, w \in Workers :
       worker[v] # NoTask /\ worker[w] # NoTask /\ worker[v].request = worker[w].request => v = w

\* The request has been through its submission.
Passed(r) == request[r].stage \in {"waiting", "failing", "done"}

(* No task is executed twice: once submitted, a task that has left the      *)
(* queue does not come back to it, and one that its worker has done with is *)
(* not taken up again, though it failed or nobody waits for its answer any  *)
(* more (the loop of location_repository.py:315-337).                       *)
ExecutedOnce ==
  [][\A r \in Requests : Passed(r) =>
       /\ Passed(r)'
       /\ Queued(r)' => Queued(r)
       /\ Held(r)' => Held(r) \/ (Queued(r) /\ ~ Queued(r)')]_vars

Full == [kind : Kinds, client : Clients, target : Locations \cup {Nowhere},
         stage : {"guard", "calculate", "submit", "waiting", "failing", "confirming", "done"}]

-----------------------------------------------------------------------------
LEMMA Ids == 0 \notin Clients /\ 0 \notin Locations /\ 0 \notin Requests /\ Assignable \subseteq Locations
  BY IdsAssumption

LEMMA WorkersAre == 1 \in Workers /\ Workers \subseteq Nat
  BY SizesAssumption DEF Workers

\* A request that has begun has all its fields.
LEMMA Begun ==
  ASSUME TypeOK, NEW r \in Requests, request[r].stage # "new"
  PROVE  request[r] \in Full
  BY DEF TypeOK, NoRequest, Full

\* The task of a worker is a request that has been submitted.
LEMMA TaskIs ==
  ASSUME TypeOK, Handed, NEW w \in Workers, worker[w] # NoTask
  PROVE  /\ worker[w] \in [request : Requests, at : Locations \cup {Nowhere}]
         /\ Held(worker[w].request)
         /\ request[worker[w].request] \in Full
         /\ request[worker[w].request].stage \in {"waiting", "failing", "done"}
  <1>1. worker[w] \in [request : Requests, at : Locations \cup {Nowhere}]
    BY DEF TypeOK
  <1>2. Held(worker[w].request)
    BY DEF Held
  <1>3. request[worker[w].request].stage \in {"waiting", "failing", "done"}
    BY <1>1, <1>2 DEF Handed
  <1> QED BY <1>1, <1>2, <1>3, Begun

\* The head of the queue is a request that has been submitted.
LEMMA HeadIs ==
  ASSUME TypeOK, Handed, queue # << >>
  PROVE  /\ Head(queue) \in Requests /\ Tail(queue) \in Seq(Requests)
         /\ Len(Tail(queue)) = Len(queue) - 1
         /\ \A i \in 1..Len(Tail(queue)) : Tail(queue)[i] = queue[i + 1]
         /\ Queued(Head(queue))
         /\ request[Head(queue)] \in Full
         /\ request[Head(queue)].stage \in {"waiting", "failing", "done"}
  <1>1. /\ Head(queue) \in Requests /\ Tail(queue) \in Seq(Requests)
        /\ Len(Tail(queue)) = Len(queue) - 1
        /\ \A i \in 1..Len(Tail(queue)) : Tail(queue)[i] = queue[i + 1]
        /\ Len(queue) \in Nat /\ Len(queue) >= 1 /\ Head(queue) = queue[1]
    BY DEF TypeOK
  <1>2. Queued(Head(queue))
    BY <1>1 DEF Queued
  <1>3. request[Head(queue)].stage \in {"waiting", "failing", "done"}
    BY <1>1, <1>2 DEF Handed
  <1> QED BY <1>1, <1>2, <1>3, Begun

\* A step that moves a request on changes its stage only.
LEMMA GoesIs ==
  ASSUME TypeOK, NEW r \in Requests, request[r] \in Full,
         NEW s \in {"guard", "calculate", "submit", "waiting", "failing", "confirming", "done"},
         Goes(r, s)
  PROVE  /\ request' \in [Requests -> {NoRequest} \cup Full]
         /\ request'[r].stage = s
         /\ \A q \in Requests : q # r => request'[q] = request[q]
         /\ \A q \in Requests : /\ request'[q].kind = request[q].kind
                                /\ request'[q].client = request[q].client
                                /\ request'[q].target = request[q].target
  <1>1. request \in [Requests -> {NoRequest} \cup Full]
    BY DEF TypeOK, Full
  <1> QED BY <1>1 DEF Goes, Full, NoRequest

\* An answer moves a request that waits, and no other.
LEMMA AnswerIs ==
  ASSUME TypeOK, NEW r \in Requests, request[r] \in Full,
         request[r].stage \in {"waiting", "failing", "done"}, NEW a, Answer(r, a)
  PROVE  /\ request' \in [Requests -> {NoRequest} \cup Full]
         /\ request'[r].stage \in {"failing", "done"}
         /\ \A q \in Requests : q # r => request'[q] = request[q]
         /\ \A q \in Requests : /\ request'[q].kind = request[q].kind
                                /\ request'[q].client = request[q].client
                                /\ request'[q].target = request[q].target
  <1>1. PICK s \in {"failing", "done"} : Goes(r, s)
    BY DEF Answer, At
  <1> QED BY <1>1, GoesIs

\* Only workers that exist are started.
LEMMA StartedTyped ==
  ASSUME TypeOK, EnsureStarted
  PROVE  running' \in SUBSET Workers /\ started' \in BOOLEAN
  BY DEF TypeOK, EnsureStarted

-----------------------------------------------------------------------------
LEMMA InitInv == Init => Inv
  <1> SUFFICES ASSUME Init PROVE Inv
    OBVIOUS
  <1>1. TypeOK
    <2>1. client \in [Clients -> Rows] /\ open \in [Clients -> SUBSET Locations]
      BY DEF Init, Rows, Methods, Statuses
    <2>2. queue \in Seq(Requests) /\ Len(queue) <= QueueSize
      BY SizesAssumption DEF Init
    <2>3. running \in SUBSET Workers /\ started \in BOOLEAN /\ overtaken \in SUBSET Requests
      BY WorkersAre DEF Init
    <2> QED BY <2>1, <2>2, <2>3 DEF Init, TypeOK
  <1>2. HistoryAgrees /\ SeatedIsNotPending
    BY DEF Init, HistoryAgrees, SeatedIsNotPending
  <1>3. \A r \in Requests : ~ Queued(r) /\ ~ Held(r)
    BY Ids DEF Init, Queued, Held, NoTask
  <1> QED BY <1>1, <1>2, <1>3 DEF Init, Inv, Handed, Targets, Guarded, NoRequest

\* A request that is only asking moves: the rows, the queue and the workers do not.
LEMMA OnlyAsks ==
  ASSUME Inv, NEW r \in Requests, UNCHANGED <<tables, queue, workers, overtaken>>,
         request' \in [Requests -> {NoRequest} \cup Full],
         \A q \in Requests : q # r => request'[q] = request[q],
         Queued(r) \/ Held(r) =>
           request'[r].stage \in {"waiting", "failing", "done"}
             /\ request'[r].kind = request[r].kind /\ request'[r].client = request[r].client
             /\ request'[r].target = request[r].target,
         request'[r].kind = "auto" /\ request'[r].stage \in {"calculate", "submit", "waiting"} =>
           r \in overtaken \/ ~ Protected(client[request'[r].client])
  PROVE  Inv'
  <1> USE DEF tables, workers
  <1>1. TypeOK'
    BY DEF Inv, TypeOK, Full
  <1>2. HistoryAgrees' /\ SeatedIsNotPending'
    BY DEF Inv, HistoryAgrees, SeatedIsNotPending
  <1>3. \A q \in Requests : (Queued(q)' <=> Queued(q)) /\ (Held(q)' <=> Held(q))
    BY DEF Queued, Held
  <1>4. Handed'
    BY <1>3 DEF Inv, Handed
  <1>5. Targets'
    <2> SUFFICES ASSUME NEW w \in Workers, worker[w] # NoTask
                 PROVE  request'[worker[w].request].target \in Locations
      BY DEF Targets
    <2>1. worker[w].request \in Requests /\ Held(worker[w].request)
      BY TaskIs DEF Inv
    <2> QED BY <2>1 DEF Inv, Targets
  <1>6. Guarded'
    BY <1>3 DEF Inv, Guarded, Protected
  <1> QED BY <1>1, <1>2, <1>4, <1>5, <1>6 DEF Inv

\* A request in its early stages is neither in the queue nor with a worker.
LEMMA Early ==
  ASSUME Inv, NEW r \in Requests, request[r].stage \notin {"waiting", "failing", "done"}
  PROVE  ~ Queued(r) /\ ~ Held(r)
  BY DEF Inv, Handed

LEMMA AskInv == ASSUME Inv, NEW r \in Requests, Ask(r) PROVE Inv'
  <1>1. request[r].stage \notin {"waiting", "failing", "done"}
    BY DEF Ask, NoRequest
  <1>2. PICK q \in Full : request' = [request EXCEPT ![r] = q] /\ (q.kind = "auto" => q.stage = "guard")
    <2> DEFINE Q(k, c, l, s) == [kind |-> k, client |-> c, target |-> l, stage |-> s]
    <2>1. PICK c \in Clients :
            \/ \E l \in Locations : request' = [request EXCEPT ![r] = Q("manual", c, l, "submit")]
            \/ request' = [request EXCEPT ![r] = Q("auto", c, Nowhere, "guard")]
            \/ request' = [request EXCEPT ![r] = Q("confirm", c, Nowhere, "guard")]
      BY DEF Ask
    <2>2. CASE \E l \in Locations : request' = [request EXCEPT ![r] = Q("manual", c, l, "submit")]
      <3>1. PICK l \in Locations : request' = [request EXCEPT ![r] = Q("manual", c, l, "submit")]
        BY <2>2
      <3>2. Q("manual", c, l, "submit") \in Full
        BY DEF Full, Kinds
      <3> WITNESS Q("manual", c, l, "submit") \in Full
      <3> QED BY <3>1
    <2>3. CASE request' = [request EXCEPT ![r] = Q("auto", c, Nowhere, "guard")]
      <3>1. Q("auto", c, Nowhere, "guard") \in Full
        BY DEF Full, Kinds
      <3> WITNESS Q("auto", c, Nowhere, "guard") \in Full
      <3> QED BY <2>3
    <2>4. CASE request' = [request EXCEPT ![r] = Q("confirm", c, Nowhere, "guard")]
      <3>1. Q("confirm", c, Nowhere, "guard") \in Full
        BY DEF Full, Kinds
      <3> WITNESS Q("confirm", c, Nowhere, "guard") \in Full
      <3> QED BY <2>4
    <2> QED BY <2>1, <2>2, <2>3, <2>4
  <1>3. request' \in [Requests -> {NoRequest} \cup Full] /\ request'[r] = q
        /\ \A p \in Requests : p # r => request'[p] = request[p]
    BY <1>2 DEF Inv, TypeOK, Full
  <1> QED BY <1>1, <1>2, <1>3, Early, OnlyAsks DEF Ask

LEMMA GuardInv == ASSUME Inv, NEW r \in Requests, Guard(r) PROVE Inv'
  <1>1. request[r].stage = "guard" /\ request[r] \in Full
    BY Begun DEF Guard, At, Inv
  <1>2. PICK s \in {"done", "calculate"} :
          Goes(r, s) /\ (s = "calculate" => ~ Protected(client[request[r].client]))
    BY DEF Guard
  <1>3. /\ request' \in [Requests -> {NoRequest} \cup Full]
        /\ request'[r].stage = s /\ request'[r].client = request[r].client
        /\ \A q \in Requests : q # r => request'[q] = request[q]
    BY <1>1, <1>2, GoesIs DEF Inv
  <1> QED BY <1>1, <1>2, <1>3, Early, OnlyAsks DEF Guard

LEMMA CalculateInv == ASSUME Inv, NEW r \in Requests, Calculate(r) PROVE Inv'
  <1>1. request[r].stage = "calculate" /\ request[r] \in Full
    BY Begun DEF Calculate, At, Inv
  <1>2. /\ request' \in [Requests -> {NoRequest} \cup Full]
        /\ request'[r].client = request[r].client /\ request'[r].kind = request[r].kind
        /\ \A q \in Requests : q # r => request'[q] = request[q]
    <2>1. CASE Goes(r, "failing")
      BY <2>1, <1>1, GoesIs DEF Inv
    <2>2. CASE \E l \in Assignable : request' = [request EXCEPT ![r].target = l, ![r].stage = "submit"]
      BY <2>2, <1>1, Ids DEF Inv, TypeOK, Full, NoRequest
    <2> QED BY <2>1, <2>2 DEF Calculate
  <1>3. request[r].kind = "auto" => r \in overtaken \/ ~ Protected(client[request[r].client])
    BY <1>1 DEF Inv, Guarded
  <1> QED BY <1>1, <1>2, <1>3, Early, OnlyAsks DEF Calculate

LEMMA TimeOutInv == ASSUME Inv, NEW r \in Requests, TimeOut(r) PROVE Inv'
  <1>1. request[r].stage = "waiting" /\ request[r] \in Full
    BY Begun DEF TimeOut, At, Inv
  <1>2. /\ request' \in [Requests -> {NoRequest} \cup Full] /\ request'[r].stage = "done"
        /\ \A q \in Requests : q # r => request'[q] = request[q]
        /\ \A q \in Requests : /\ request'[q].kind = request[q].kind
                               /\ request'[q].client = request[q].client
                               /\ request'[q].target = request[q].target
    BY <1>1, GoesIs DEF TimeOut, Inv
  <1> QED BY <1>1, <1>2, OnlyAsks DEF TimeOut

LEMMA UnavailableInv == ASSUME Inv, NEW r \in Requests, Unavailable(r) PROVE Inv'
  <1>1. request[r].stage # "new" /\ request[r] \in Full
    BY Begun DEF Unavailable, At, Inv
  <1>2. /\ request' \in [Requests -> {NoRequest} \cup Full] /\ request'[r].stage = "done"
        /\ \A q \in Requests : q # r => request'[q] = request[q]
        /\ \A q \in Requests : /\ request'[q].kind = request[q].kind
                               /\ request'[q].client = request[q].client
                               /\ request'[q].target = request[q].target
    BY <1>1, GoesIs DEF Unavailable, Inv
  <1> QED BY <1>1, <1>2, OnlyAsks DEF Unavailable

LEMMA ConfirmReadInv == ASSUME Inv, NEW r \in Requests, ConfirmRead(r) PROVE Inv'
  <1>1. request[r].stage = "guard" /\ request[r].kind = "confirm" /\ request[r] \in Full
    BY Begun DEF ConfirmRead, At, Inv
  <1>2. client[request[r].client].at \in Locations \cup {Nowhere}
    BY <1>1 DEF Inv, TypeOK, Full, Rows
  <1>3. /\ request' \in [Requests -> {NoRequest} \cup Full] /\ request'[r].kind = "confirm"
        /\ \A q \in Requests : q # r => request'[q] = request[q]
    BY <1>1, <1>2 DEF ConfirmRead, Inv, TypeOK, Full, NoRequest
  <1> QED BY <1>1, <1>3, Early, OnlyAsks DEF ConfirmRead

LEMMA BusyInv == ASSUME Inv, NEW r \in Requests, Busy(r) PROVE Inv'
  <1> USE DEF tables
  <1>1. request[r].stage = "submit" /\ request[r] \in Full
    BY Begun DEF Busy, At, Inv
  <1>2. Goes(r, "done") /\ UNCHANGED <<tables, queue, worker, overtaken>>
    BY DEF Busy
  <1>3. /\ request' \in [Requests -> {NoRequest} \cup Full] /\ request'[r].stage = "done"
        /\ \A q \in Requests : q # r => request'[q] = request[q]
        /\ \A q \in Requests : /\ request'[q].kind = request[q].kind
                               /\ request'[q].client = request[q].client
                               /\ request'[q].target = request[q].target
    BY <1>1, <1>2, GoesIs DEF Inv
  <1>4. \A q \in Requests : (Queued(q)' <=> Queued(q)) /\ (Held(q)' <=> Held(q))
    BY <1>2 DEF Queued, Held
  <1>5. TypeOK'
    BY <1>2, <1>3, StartedTyped DEF Busy, Inv, TypeOK, Full
  <1>6. Handed'
    BY <1>3, <1>4 DEF Inv, Handed
  <1>7. Targets'
    BY <1>2, <1>3, TaskIs DEF Inv, Targets
  <1>8. Guarded'
    BY <1>2, <1>3, <1>4, <1>1, Early DEF Inv, Guarded, Protected
  <1> QED BY <1>2, <1>5, <1>6, <1>7, <1>8 DEF Inv, HistoryAgrees, SeatedIsNotPending

LEMMA SubmitInv == ASSUME Inv, NEW r \in Requests, Submit(r) PROVE Inv'
  <1> USE DEF tables
  <1>1. request[r].stage = "submit" /\ request[r] \in Full
    BY Begun DEF Submit, At, Inv
  <1>2. /\ Goes(r, "waiting") /\ UNCHANGED <<tables, worker, overtaken>>
        /\ queue' = Append(queue, r) /\ Len(queue) < QueueSize
    BY DEF Submit
  <1>3. /\ request' \in [Requests -> {NoRequest} \cup Full] /\ request'[r].stage = "waiting"
        /\ \A q \in Requests : q # r => request'[q] = request[q]
        /\ \A q \in Requests : /\ request'[q].kind = request[q].kind
                               /\ request'[q].client = request[q].client
                               /\ request'[q].target = request[q].target
    BY <1>1, <1>2, GoesIs DEF Inv
  <1>4. /\ queue' \in Seq(Requests) /\ Len(queue') = Len(queue) + 1 /\ Len(queue) \in Nat
        /\ queue'[Len(queue')] = r
        /\ \A i \in 1..Len(queue) : queue'[i] = queue[i]
    BY <1>2 DEF Inv, TypeOK
  <1>5. Len(queue') <= QueueSize
    BY <1>2, <1>4, SizesAssumption
  <1>6. \A q \in Requests : q # r => (Queued(q)' => Queued(q))
    BY <1>4 DEF Queued
  <1>7. \A q \in Requests : Held(q)' => Held(q)
    BY <1>2 DEF Held
  <1>8. TypeOK'
    BY <1>2, <1>3, <1>4, <1>5, StartedTyped DEF Submit, Inv, TypeOK, Full
  <1>9. Handed'
    BY <1>3, <1>6, <1>7 DEF Inv, Handed
  <1>10. Targets'
    BY <1>2, <1>3, TaskIs DEF Inv, Targets
  <1>11. Guarded'
    BY <1>2, <1>3, <1>6, <1>7, <1>1 DEF Inv, Guarded, Protected
  <1> QED BY <1>2, <1>8, <1>9, <1>10, <1>11 DEF Inv, HistoryAgrees, SeatedIsNotPending

LEMMA RecordFailureInv == ASSUME Inv, NEW r \in Requests, RecordFailure(r) PROVE Inv'
  <1> DEFINE c == request[r].client
  <1> USE DEF tables, workers
  <1>1. request[r].stage = "failing" /\ request[r] \in Full /\ c \in Clients
    BY Begun DEF RecordFailure, At, Inv, Full
  <1>2. Goes(r, "done") /\ UNCHANGED <<open, queue, workers, overtaken>>
    BY DEF RecordFailure
  <1>3. /\ request' \in [Requests -> {NoRequest} \cup Full] /\ request'[r].stage = "done"
        /\ \A q \in Requests : q # r => request'[q] = request[q]
        /\ \A q \in Requests : /\ request'[q].kind = request[q].kind
                               /\ request'[q].client = request[q].client
                               /\ request'[q].target = request[q].target
    BY <1>1, <1>2, GoesIs DEF Inv
  <1>4. /\ client' \in [Clients -> Rows]
        /\ \A d \in Clients : /\ client'[d].at = client[d].at
                              /\ client[d].at # Nowhere => client'[d] = client[d]
    <2>1. client \in [Clients -> Rows] /\ client[c] \in Rows
      BY <1>1 DEF Inv, TypeOK
    <2>2. Failed(client[c]) \in Rows /\ Failed(client[c]).at = client[c].at
      BY <2>1 DEF Failed, Rows, Methods, Statuses
    <2>3. CASE client[c].at = Nowhere
      <3>1. client' = [client EXCEPT ![c] = Failed(client[c])]
        BY <2>3 DEF RecordFailure
      <3> QED BY <2>1, <2>2, <2>3, <3>1, <1>1
    <2>4. CASE client[c].at # Nowhere
      BY <2>1, <2>4 DEF RecordFailure
    <2> QED BY <2>3, <2>4
  <1>5. \A q \in Requests : (Queued(q)' <=> Queued(q)) /\ (Held(q)' <=> Held(q))
    BY <1>2 DEF Queued, Held
  <1>6. TypeOK'
    BY <1>2, <1>3, <1>4 DEF Inv, TypeOK, Full
  <1>7. HistoryAgrees' /\ SeatedIsNotPending'
    BY <1>2, <1>4 DEF Inv, HistoryAgrees, SeatedIsNotPending
  <1>8. Handed'
    BY <1>3, <1>5 DEF Inv, Handed
  <1>9. Targets'
    BY <1>2, <1>3, TaskIs DEF Inv, Targets
  <1>10. Guarded'
    <2> SUFFICES ASSUME NEW q \in Requests, request'[q].kind = "auto",
                        request'[q].stage \in {"calculate", "submit", "waiting"} \/ Queued(q)' \/ Held(q)'
                 PROVE  q \in overtaken \/ ~ Protected(client'[request'[q].client])
      BY <1>2 DEF Guarded, Protected
    <2>1. q \in overtaken \/ ~ Protected(client[request[q].client])
      BY <1>3, <1>5 DEF Inv, Guarded
    <2>2. request[q].client \in Clients
      BY <1>3, <1>1, Begun DEF Inv, TypeOK, Full, NoRequest
    <2> QED BY <1>3, <1>4, <2>1, <2>2 DEF Protected
  <1> QED BY <1>6, <1>7, <1>8, <1>9, <1>10 DEF Inv

-----------------------------------------------------------------------------
\* A worker takes the head of the queue.
LEMMA ExamineInv == ASSUME Inv, NEW w \in Workers, Examine(w) PROVE Inv'
  <1> DEFINE r == Head(queue)
  <1> USE DEF tables
  <1>1. /\ worker[w] = NoTask /\ queue # << >> /\ queue' = Tail(queue)
        /\ UNCHANGED <<tables, running, started, overtaken>>
    BY DEF Examine
  <1>2. /\ r \in Requests /\ Tail(queue) \in Seq(Requests) /\ Len(Tail(queue)) = Len(queue) - 1
        /\ \A i \in 1..Len(Tail(queue)) : Tail(queue)[i] = queue[i + 1]
        /\ Queued(r) /\ request[r] \in Full /\ request[r].stage \in {"waiting", "failing", "done"}
    BY <1>1, HeadIs DEF Inv
  <1>3. Len(queue) \in Nat /\ Len(queue) >= 1 /\ Len(queue) <= QueueSize /\ QueueSize \in Nat
    BY <1>1, SizesAssumption DEF Inv, TypeOK
  <1>4. Len(queue') <= QueueSize /\ queue' \in Seq(Requests)
    BY <1>1, <1>2, <1>3
  <1>5. \A q \in Requests : Queued(q)' => Queued(q)
    <2> SUFFICES ASSUME NEW q \in Requests, Queued(q)' PROVE Queued(q)
      OBVIOUS
    <2>1. PICK i \in 1..Len(queue') : queue'[i] = q
      BY DEF Queued
    <2>2. i + 1 \in 1..Len(queue) /\ queue[i + 1] = q
      BY <1>1, <1>2, <1>3, <2>1
    <2> QED BY <2>2 DEF Queued
  <1>6. CASE Refused(r)
    <2>1. Answer(r, "refused") /\ UNCHANGED worker
      BY <1>6 DEF Examine
    <2>2. /\ request' \in [Requests -> {NoRequest} \cup Full]
          /\ request'[r].stage \in {"failing", "done"}
          /\ \A q \in Requests : q # r => request'[q] = request[q]
          /\ \A q \in Requests : /\ request'[q].kind = request[q].kind
                                 /\ request'[q].client = request[q].client
                                 /\ request'[q].target = request[q].target
      BY <1>2, <2>1, AnswerIs DEF Inv
    <2>3. \A q \in Requests : Held(q)' => Held(q)
      BY <2>1 DEF Held
    <2>4. TypeOK'
      BY <1>1, <1>4, <2>1, <2>2 DEF Inv, TypeOK, Full
    <2>5. Handed'
      BY <1>5, <2>2, <2>3 DEF Inv, Handed
    <2>6. Targets'
      BY <2>1, <2>2, TaskIs DEF Inv, Targets
    <2>7. Guarded'
      BY <1>1, <1>2, <1>5, <2>2, <2>3 DEF Inv, Guarded, Protected
    <2> QED BY <1>1, <2>4, <2>5, <2>6, <2>7 DEF Inv, HistoryAgrees, SeatedIsNotPending
  <1>7. CASE ~ Refused(r)
    <2>1. /\ worker' = [worker EXCEPT ![w] = [request |-> r, at |-> client[request[r].client].at]]
          /\ UNCHANGED request
      BY <1>7 DEF Examine
    <2>2. client[request[r].client].at \in Locations \cup {Nowhere}
      BY <1>2 DEF Inv, TypeOK, Full, Rows
    <2>3. request[r].target \in Locations
      BY <1>7, Ids DEF Refused
    <2>4. /\ worker' \in [Workers -> {NoTask} \cup [request : Requests, at : Locations \cup {Nowhere}]]
          /\ worker'[w].request = r
          /\ \A v \in Workers : v # w => worker'[v] = worker[v]
      BY <1>2, <2>1, <2>2 DEF Inv, TypeOK
    <2>5. \A q \in Requests : Held(q)' => Held(q) \/ Queued(q)
      BY <1>2, <2>4 DEF Held
    <2>6. TypeOK'
      BY <1>1, <1>4, <2>1, <2>4 DEF Inv, TypeOK
    <2>7. Handed'
      BY <1>5, <2>1, <2>5 DEF Inv, Handed
    <2>8. Targets'
      BY <2>1, <2>3, <2>4 DEF Inv, Targets
    <2>9. Guarded'
      BY <1>1, <1>5, <2>1, <2>5 DEF Inv, Guarded, Protected
    <2> QED BY <1>1, <2>6, <2>7, <2>8, <2>9 DEF Inv, HistoryAgrees, SeatedIsNotPending
  <1> QED BY <1>6, <1>7

LEMMA FailsInv == ASSUME Inv, NEW w \in Workers, Fails(w) PROVE Inv'
  <1> DEFINE r == worker[w].request
  <1> USE DEF tables
  <1>1. /\ worker[w] # NoTask /\ worker' = [worker EXCEPT ![w] = NoTask]
        /\ UNCHANGED <<tables, queue, running, started, overtaken>>
    BY DEF Fails
  <1>2. PICK a \in {"refused", "error"} : Answer(r, a)
    BY DEF Fails
  <1>3. r \in Requests /\ request[r] \in Full /\ request[r].stage \in {"waiting", "failing", "done"}
    BY <1>1, TaskIs DEF Inv
  <1>4. /\ request' \in [Requests -> {NoRequest} \cup Full]
        /\ request'[r].stage \in {"failing", "done"}
        /\ \A q \in Requests : q # r => request'[q] = request[q]
        /\ \A q \in Requests : /\ request'[q].kind = request[q].kind
                               /\ request'[q].client = request[q].client
                               /\ request'[q].target = request[q].target
    BY <1>2, <1>3, AnswerIs DEF Inv
  <1>5. /\ worker' \in [Workers -> {NoTask} \cup [request : Requests, at : Locations \cup {Nowhere}]]
        /\ \A v \in Workers : worker'[v] = NoTask \/ worker'[v] = worker[v]
    BY <1>1 DEF Inv, TypeOK
  <1>6. \A q \in Requests : (Held(q)' => Held(q)) /\ (Queued(q)' <=> Queued(q))
    BY <1>1, <1>5, Ids DEF Held, Queued, NoTask
  <1>7. TypeOK'
    BY <1>1, <1>4, <1>5 DEF Inv, TypeOK, Full
  <1>8. Handed'
    BY <1>4, <1>6 DEF Inv, Handed
  <1>9. Targets'
    BY <1>4, <1>5, TaskIs DEF Inv, Targets
  <1>10. Guarded'
    BY <1>1, <1>3, <1>4, <1>6 DEF Inv, Guarded, Protected
  <1> QED BY <1>1, <1>7, <1>8, <1>9, <1>10 DEF Inv, HistoryAgrees, SeatedIsNotPending

\* After a row of a client has changed, what can write to it has been overtaken
\* if the client has become protected.
LEMMA OvertakesIs ==
  ASSUME Inv, NEW c \in Clients, NEW row \in Rows, Overtakes(c, row),
         client' = [client EXCEPT ![c] = row],
         \A q \in Requests : /\ request'[q].kind = request[q].kind
                             /\ request'[q].client = request[q].client,
         \A q \in Requests :
           request'[q].stage \in {"calculate", "submit", "waiting"} \/ Queued(q)' \/ Held(q)' =>
             request[q].stage \in {"calculate", "submit", "waiting"} \/ Queued(q) \/ Held(q)
  PROVE  Guarded' /\ overtaken' \in SUBSET Requests
  <1>1. overtaken' \in SUBSET Requests /\ overtaken \subseteq overtaken'
    BY DEF Overtakes, Inv, TypeOK
  <1>2. SUFFICES ASSUME NEW q \in Requests, request'[q].kind = "auto",
                        request'[q].stage \in {"calculate", "submit", "waiting"} \/ Queued(q)' \/ Held(q)'
                 PROVE  q \in overtaken' \/ ~ Protected(client'[request'[q].client])
    BY <1>1 DEF Guarded, Protected
  <1>3. q \in overtaken \/ ~ Protected(client[request[q].client])
    BY <1>2 DEF Inv, Guarded
  <1>4. request[q].stage # "guard"
    BY <1>2 DEF Inv, Handed
  <1>5. client \in [Clients -> Rows]
    BY DEF Inv, TypeOK
  <1>6. CASE request[q].client # c
    BY <1>1, <1>3, <1>5, <1>6 DEF Protected
  <1>7. CASE request[q].client = c
    <2>1. client'[c] = row
      BY <1>5
    <2>2. CASE Protected(row) /\ ~ Protected(client[c])
      BY <1>2, <1>4, <1>7, <2>2 DEF Overtakes, At
    <2>3. CASE ~ Protected(row)
      BY <1>7, <2>1, <2>3 DEF Protected
    <2>4. CASE Protected(client[c])
      BY <1>1, <1>3, <1>7, <2>4
    <2> QED BY <2>2, <2>3, <2>4
  <1> QED BY <1>6, <1>7

LEMMA WriteInv == ASSUME Inv, NEW w \in Workers, Write(w) PROVE Inv'
  <1> DEFINE r == worker[w].request
             c == request[r].client
             row == Assigned(w)
  <1>1. /\ worker[w] # NoTask /\ worker' = [worker EXCEPT ![w] = NoTask]
        /\ client' = [client EXCEPT ![c] = row] /\ Overtakes(c, row) /\ Answer(r, "ok")
        /\ UNCHANGED <<queue, running, started>>
        /\ open' = IF worker[w].at # request[r].target
                   THEN [open EXCEPT ![c] = {request[r].target}] ELSE open
    BY DEF Write, Closed
  <1>2. /\ r \in Requests /\ request[r] \in Full /\ request[r].stage \in {"waiting", "failing", "done"}
        /\ worker[w].at \in Locations \cup {Nowhere}
    BY <1>1, TaskIs DEF Inv
  <1>3. c \in Clients /\ request[r].target \in Locations /\ request[r].target # Nowhere
    BY <1>1, <1>2, Ids DEF Inv, Targets, Full, Nowhere
  <1>4. /\ request' \in [Requests -> {NoRequest} \cup Full]
        /\ request'[r].stage \in {"failing", "done"}
        /\ \A q \in Requests : q # r => request'[q] = request[q]
        /\ \A q \in Requests : /\ request'[q].kind = request[q].kind
                               /\ request'[q].client = request[q].client
                               /\ request'[q].target = request[q].target
    BY <1>1, <1>2, AnswerIs DEF Inv
  <1>5. /\ worker' \in [Workers -> {NoTask} \cup [request : Requests, at : Locations \cup {Nowhere}]]
        /\ \A v \in Workers : worker'[v] = NoTask \/ worker'[v] = worker[v]
    BY <1>1 DEF Inv, TypeOK
  <1>6. \A q \in Requests : (Held(q)' => Held(q)) /\ (Queued(q)' <=> Queued(q))
    BY <1>1, <1>5, Ids DEF Held, Queued, NoTask
  <1>7. client[c] \in Rows /\ client \in [Clients -> Rows] /\ open \in [Clients -> SUBSET Locations]
    BY <1>3 DEF Inv, TypeOK
  <1>8. /\ row \in Rows /\ row.status = "ASSIGNED"
        /\ row.at = IF worker[w].at # request[r].target THEN request[r].target ELSE client[c].at
    <2>1. Method(r) \in Methods
      BY DEF Method, Methods
    <2>2. (IF worker[w].at # request[r].target THEN request[r].target ELSE client[c].at)
            \in Locations \cup {Nowhere}
      BY <1>3, <1>7 DEF Rows
    <2>3. row = [client[c] EXCEPT
                   !.at = IF worker[w].at # request[r].target THEN request[r].target ELSE client[c].at,
                   !.method = Method(r), !.status = "ASSIGNED", !.verified = request[r].kind = "manual"]
      <3> HIDE DEF r
      <3> QED BY DEF Assigned, r
    <2> HIDE DEF row, r, c
    <2> QED BY <1>7, <2>1, <2>2, <2>3 DEF Rows, Statuses
  <1>9. Guarded' /\ overtaken' \in SUBSET Requests
    <2>1. \A q \in Requests :
            request'[q].stage \in {"calculate", "submit", "waiting"} \/ Queued(q)' \/ Held(q)' =>
              request[q].stage \in {"calculate", "submit", "waiting"} \/ Queued(q) \/ Held(q)
      BY <1>4, <1>6
    <2> HIDE DEF row, r, c
    <2> QED BY <1>1, <1>3, <1>4, <1>8, <2>1, OvertakesIs
  <1>10. /\ client' \in [Clients -> Rows] /\ client'[c] = row
         /\ \A d \in Clients : d # c => client'[d] = client[d]
    <2> HIDE DEF row, r, c
    <2> QED BY <1>1, <1>3, <1>7, <1>8
  <1>11. /\ open' \in [Clients -> SUBSET Locations]
         /\ \A d \in Clients : d # c => open'[d] = open[d]
         /\ open'[c] = IF worker[w].at # request[r].target THEN {request[r].target} ELSE open[c]
    <2> HIDE DEF row, r, c
    <2> QED BY <1>1, <1>3, <1>7
  <1>12. TypeOK'
    <2> HIDE DEF row, r, c
    <2> QED BY <1>1, <1>4, <1>5, <1>9, <1>10, <1>11 DEF Inv, TypeOK, Full
  <1>13. HistoryAgrees'
    <2> HIDE DEF row, r, c
    <2> QED BY <1>3, <1>8, <1>10, <1>11 DEF Inv, HistoryAgrees
  <1>14. SeatedIsNotPending'
    <2> HIDE DEF row, r, c
    <2> QED BY <1>8, <1>10 DEF Inv, SeatedIsNotPending
  <1>15. Handed'
    BY <1>4, <1>6 DEF Inv, Handed
  <1>16. Targets'
    BY <1>4, <1>5, TaskIs DEF Inv, Targets
  <1> QED BY <1>9, <1>12, <1>13, <1>14, <1>15, <1>16 DEF Inv

LEMMA ConfirmWriteInv == ASSUME Inv, NEW r \in Requests, ConfirmWrite(r) PROVE Inv'
  <1> DEFINE c == Selected(r)
             row == [client[c] EXCEPT !.status = "CONFIRMED", !.verified = TRUE]
  <1> USE DEF workers
  <1>1. request[r].stage = "confirming" /\ request[r] \in Full
    BY Begun DEF ConfirmWrite, At, Inv
  <1>2. Goes(r, "done") /\ UNCHANGED <<open, queue, workers>>
    BY DEF ConfirmWrite
  <1>3. /\ request' \in [Requests -> {NoRequest} \cup Full] /\ request'[r].stage = "done"
        /\ \A q \in Requests : q # r => request'[q] = request[q]
        /\ \A q \in Requests : /\ request'[q].kind = request[q].kind
                               /\ request'[q].client = request[q].client
                               /\ request'[q].target = request[q].target
    BY <1>1, <1>2, GoesIs DEF Inv
  <1>4. \A q \in Requests : (Held(q)' <=> Held(q)) /\ (Queued(q)' <=> Queued(q))
    BY <1>2 DEF Held, Queued
  <1>5. Handed'
    BY <1>3, <1>4 DEF Inv, Handed
  <1>6. Targets'
    BY <1>2, <1>3, TaskIs DEF Inv, Targets
  <1>7. CASE c \in Clients
    <2>1. client' = [client EXCEPT ![c] = row] /\ Overtakes(c, row)
      BY <1>7 DEF ConfirmWrite
    <2>2. row \in Rows /\ row.at = client[c].at /\ row.status = "CONFIRMED"
      <3>1. client[c] \in Rows
        BY <1>7 DEF Inv, TypeOK
      <3>2. row = [client[c] EXCEPT !.status = "CONFIRMED", !.verified = TRUE]
        OBVIOUS
      <3> HIDE DEF c, row
      <3> QED BY <3>1, <3>2 DEF Rows, Statuses
    <2>3. Guarded' /\ overtaken' \in SUBSET Requests
      <3> HIDE DEF c, row
      <3> QED BY <1>3, <1>4, <1>7, <2>1, <2>2, OvertakesIs
    <2>4. /\ client' \in [Clients -> Rows] /\ client'[c] = row
          /\ \A d \in Clients : d # c => client'[d] = client[d]
      <3> HIDE DEF c, row
      <3> QED BY <1>7, <2>1, <2>2 DEF Inv, TypeOK
    <2> HIDE DEF c, row
    <2>5. TypeOK'
      BY <1>2, <1>3, <2>3, <2>4 DEF Inv, TypeOK, Full
    <2>6. HistoryAgrees' /\ SeatedIsNotPending'
      BY <1>2, <1>7, <2>2, <2>4 DEF Inv, HistoryAgrees, SeatedIsNotPending
    <2> QED BY <1>5, <1>6, <2>3, <2>5, <2>6 DEF Inv
  <1>8. CASE c \notin Clients
    <2>1. UNCHANGED <<client, overtaken>>
      BY <1>8 DEF ConfirmWrite
    <2>2. TypeOK'
      BY <1>2, <1>3, <2>1 DEF Inv, TypeOK, Full
    <2>3. Guarded'
      BY <1>3, <1>4, <2>1 DEF Inv, Guarded, Protected
    <2> QED BY <1>2, <1>5, <1>6, <2>1, <2>2, <2>3 DEF Inv, HistoryAgrees, SeatedIsNotPending
  <1> QED BY <1>7, <1>8

LEMMA NextInv == Inv /\ [Next]_vars => Inv'
  <1> SUFFICES ASSUME Inv, [Next]_vars PROVE Inv'
    OBVIOUS
  <1>1. ASSUME NEW r \in Requests, Ask(r) \/ Asks(r) \/ TimeOut(r) PROVE Inv'
    BY <1>1, AskInv, GuardInv, CalculateInv, RecordFailureInv, SubmitInv, BusyInv, ConfirmReadInv,
       ConfirmWriteInv, UnavailableInv, TimeOutInv DEF Asks
  <1>2. ASSUME NEW w \in Workers, Works(w) PROVE Inv'
    BY <1>2, ExamineInv, WriteInv, FailsInv DEF Works
  <1>3. ASSUME UNCHANGED vars PROVE Inv'
    BY <1>3 DEF vars, tables, workers, Inv, TypeOK, HistoryAgrees, SeatedIsNotPending, Handed, Targets,
                Guarded, Queued, Held, Protected
  <1> QED BY <1>1, <1>2, <1>3 DEF Next

LEMMA Invariant == Spec => []Inv
  <1> QED BY InitInv, NextInv, PTL DEF Spec

-----------------------------------------------------------------------------
(* The rows, requests, queue and workers have their types. *)
THEOREM TypeCorrect == Spec => []TypeOK
  <1>1. Inv => TypeOK
    BY DEF Inv
  <1> QED BY <1>1, Invariant, PTL

(* The open row of the history of a client is that of the position it has   *)
(* (location_repository.py:182-233), however many workers there are.        *)
THEOREM HistoryIsTrue == Spec => []HistoryAgrees
  <1>1. Inv => HistoryAgrees
    BY DEF Inv
  <1> QED BY <1>1, Invariant, PTL

(* A failure that is recorded late leaves a client with a position alone    *)
(* (client_localization.py:276).                                            *)
THEOREM FailureIsHarmless == Spec => []SeatedIsNotPending
  <1>1. Inv => SeatedIsNotPending
    BY DEF Inv
  <1> QED BY <1>1, Invariant, PTL

(* An automatic assignment replaces a protected one only if the protection  *)
(* came after its guard (client_localization.py:323-344).                   *)
THEOREM ProtectionIsRespected == Spec => ProtectedIsKept
  <1> DEFINE Kept == \A w \in Workers : worker[w] # NoTask /\ Write(w) =>
               LET r == worker[w].request IN
               request[r].kind = "auto" /\ r \notin overtaken => ~ Protected(client[request[r].client])
  <1>1. Inv => Kept
    BY TaskIs DEF Inv, Guarded
  <1>2. Inv /\ [Next]_vars => [Kept]_vars
    BY <1>1
  <1> QED BY <1>2, Invariant, PTL DEF Spec, ProtectedIsKept

-----------------------------------------------------------------------------
\* A request that has been submitted is never back before its submission.
LEMMA StageKept ==
  ASSUME TypeOK, NEW q \in Requests, Passed(q), NEW r \in Requests,
         NEW s \in {"waiting", "failing", "done"}, Goes(r, s)
  PROVE  Passed(q)'
  <1>1. request[q] \in Full
    BY Begun DEF Passed
  <1>2. CASE q = r
    <2>1. request'[q].stage = s
      BY <1>1, <1>2, GoesIs
    <2> QED BY <2>1 DEF Passed
  <1>3. CASE q # r
    <2>1. request'[q] = request[q]
      BY <1>3 DEF Goes, TypeOK
    <2> QED BY <2>1 DEF Passed
  <1> QED BY <1>2, <1>3

LEMMA AnswerKeeps ==
  ASSUME Inv, NEW q \in Requests, Passed(q), NEW w \in Workers, worker[w] # NoTask, NEW a,
         Answer(worker[w].request, a)
  PROVE  Passed(q)'
  <1> DEFINE r == worker[w].request
  <1>1. r \in Requests /\ request[r].stage \in {"waiting", "failing", "done"}
    BY TaskIs DEF Inv
  <1>2. PICK s \in {"waiting", "failing", "done"} : Goes(r, s)
    BY <1>1 DEF Answer, At
  <1> HIDE DEF r
  <1> QED BY <1>1, <1>2, StageKept DEF Inv

LEMMA PassedStays ==
  ASSUME Inv, [Next]_vars, NEW q \in Requests, Passed(q)
  PROVE  Passed(q)'
  <1> USE DEF tables, workers
  <1>1. CASE UNCHANGED vars
    BY <1>1 DEF vars, Passed
  <1>2. ASSUME NEW r \in Requests, Ask(r) \/ Guard(r) \/ Calculate(r) \/ ConfirmRead(r)
        PROVE  Passed(q)'
    <2>1. request[r].stage \notin {"waiting", "failing", "done"}
      BY <1>2 DEF Ask, Guard, Calculate, ConfirmRead, At, NoRequest
    <2>2. r # q
      BY <2>1 DEF Passed
    <2>3. \E x : request' = [request EXCEPT ![r] = x]
      BY <1>2 DEF Ask, Guard, Calculate, ConfirmRead, Goes
    <2>4. request'[q] = request[q]
      BY <2>2, <2>3 DEF Inv, TypeOK
    <2> QED BY <2>4 DEF Passed
  <1>3. ASSUME NEW r \in Requests,
               RecordFailure(r) \/ Unavailable(r) \/ Submit(r) \/ Busy(r) \/ ConfirmWrite(r) \/ TimeOut(r)
        PROVE  Passed(q)'
    <2>1. PICK s \in {"waiting", "failing", "done"} : Goes(r, s)
      BY <1>3 DEF RecordFailure, Unavailable, Submit, Busy, ConfirmWrite, TimeOut
    <2> QED BY <2>1, StageKept DEF Inv
  <1>4. ASSUME NEW w \in Workers, Examine(w)
        PROVE  Passed(q)'
    <2>1. CASE UNCHANGED request
      BY <2>1 DEF Passed
    <2>2. CASE Answer(Head(queue), "refused")
      <3>1. Head(queue) \in Requests /\ request[Head(queue)].stage \in {"waiting", "failing", "done"}
        BY <1>4, HeadIs DEF Examine, Inv
      <3>2. PICK s \in {"waiting", "failing", "done"} : Goes(Head(queue), s)
        BY <2>2, <3>1 DEF Answer, At
      <3> QED BY <3>1, <3>2, StageKept DEF Inv
    <2> QED BY <1>4, <2>1, <2>2 DEF Examine
  <1>5. ASSUME NEW w \in Workers, Write(w) \/ Fails(w)
        PROVE  Passed(q)'
    <2>1. worker[w] # NoTask /\ \E a : Answer(worker[w].request, a)
      BY <1>5 DEF Write, Fails
    <2> QED BY <2>1, AnswerKeeps
  <1> QED BY <1>1, <1>2, <1>3, <1>4, <1>5 DEF Next, Asks, Works

\* What a step does to the queue and to the workers.
Enters(r) == /\ request[r].stage = "submit" /\ queue' = Append(queue, r) /\ worker' = worker
Leaves    == /\ queue # << >> /\ queue' = Tail(queue) /\ worker' = worker
Begins(w) == /\ queue # << >> /\ queue' = Tail(queue) /\ worker[w] = NoTask
             /\ \E l : worker' = [worker EXCEPT ![w] = [request |-> Head(queue), at |-> l]]
Ends(w)   == queue' = queue /\ worker' = [worker EXCEPT ![w] = NoTask]

LEMMA QueueSteps ==
  ASSUME [Next]_vars
  PROVE  \/ UNCHANGED <<queue, worker>> \/ Leaves
         \/ \E r \in Requests : Enters(r)
         \/ \E w \in Workers : Begins(w) \/ Ends(w)
  <1> USE DEF workers
  <1>1. CASE UNCHANGED vars
    BY <1>1 DEF vars
  <1>2. ASSUME NEW r \in Requests, Ask(r) \/ Asks(r) \/ TimeOut(r)
        PROVE  UNCHANGED <<queue, worker>> \/ Enters(r)
    BY <1>2 DEF Ask, Asks, Guard, Calculate, RecordFailure, Submit, Busy, ConfirmRead, ConfirmWrite,
                Unavailable, TimeOut, At, Enters
  <1>3. ASSUME NEW w \in Workers, Works(w)
        PROVE  Leaves \/ Begins(w) \/ Ends(w)
    BY <1>3 DEF Works, Examine, Write, Fails, Leaves, Begins, Ends
  <1> QED BY <1>1, <1>2, <1>3 DEF Next

\* Once r is in the queue or with a worker it is in one place.
Advances ==
  \A r \in Requests : Passed(r) =>
    /\ Queued(r)' => Queued(r)
    /\ Held(r)' => Held(r) \/ (Queued(r) /\ ~ Queued(r)')

LEMMA EntersOnce ==
  ASSUME Inv, OnePlace, NEW r \in Requests, Enters(r)
  PROVE  OnePlace' /\ Advances
  <1>1. ~ Queued(r) /\ ~ Held(r) /\ ~ Passed(r)
    BY Early DEF Enters, Passed
  <1>2. queue \in Seq(Requests)
    BY DEF Inv, TypeOK
  <1>3. /\ Len(queue') = Len(queue) + 1 /\ Len(queue) \in Nat /\ queue'[Len(queue) + 1] = r
        /\ \A i \in 1..Len(queue) : queue'[i] = queue[i]
    BY <1>2 DEF Enters
  <1>4. \A i \in 1..Len(queue') : i \in 1..Len(queue) \/ i = Len(queue) + 1
    BY <1>3
  <1>5. \A q : Queued(q)' => Queued(q) \/ q = r
    BY <1>3, <1>4 DEF Queued
  <1>6. \A i, j \in 1..Len(queue') : queue'[i] = queue'[j] => i = j
    <2> SUFFICES ASSUME NEW i \in 1..Len(queue'), NEW j \in 1..Len(queue'), queue'[i] = queue'[j]
                 PROVE  i = j
      OBVIOUS
    <2>1. CASE i \in 1..Len(queue) /\ j \in 1..Len(queue)
      BY <1>3, <2>1 DEF OnePlace
    <2>2. CASE i = Len(queue) + 1 /\ j \in 1..Len(queue)
      BY <1>1, <1>3, <2>2 DEF Queued
    <2>3. CASE j = Len(queue) + 1 /\ i \in 1..Len(queue)
      BY <1>1, <1>3, <2>3 DEF Queued
    <2> QED BY <1>4, <2>1, <2>2, <2>3
  <1>7. worker' = worker
    BY DEF Enters
  <1>8. OnePlace'
    <2>1. \A w \in Workers : worker[w] # NoTask => worker[w].request # r
      BY <1>1 DEF Held
    <2>2. ASSUME NEW w \in Workers, worker[w] # NoTask
          PROVE  ~ Queued(worker[w].request)'
      BY <1>5, <1>7, <2>1, <2>2 DEF OnePlace
    <2> QED BY <1>6, <1>7, <2>2 DEF OnePlace
  <1>9. Advances
    <2>1. \A q : Held(q)' => Held(q)
      BY <1>7 DEF Held
    <2> QED BY <1>1, <1>5, <2>1 DEF Advances
  <1> QED BY <1>8, <1>9

\* The head leaves the queue: it is not in the rest of it.
LEMMA HeadLeaves ==
  ASSUME Inv, OnePlace, queue # << >>, queue' = Tail(queue), NEW h, h = Head(queue)
  PROVE  /\ \A i, j \in 1..Len(queue') : queue'[i] = queue'[j] => i = j
         /\ \A q : Queued(q)' => Queued(q)
         /\ ~ Queued(h)' /\ Queued(h) /\ h \in Requests /\ Passed(h)
  <1>1. /\ Len(queue') = Len(queue) - 1 /\ Len(queue) \in Nat
        /\ \A i \in 1..Len(queue') : queue'[i] = queue[i + 1]
        /\ Queued(h) /\ h = queue[1] /\ h \in Requests /\ Passed(h)
    BY HeadIs DEF Inv, TypeOK, Passed
  <1>2. \A i \in 1..Len(queue') : i + 1 \in 1..Len(queue) /\ i + 1 # 1
    BY <1>1
  <1>3. 1 \in 1..Len(queue)
    BY <1>1 DEF Inv, TypeOK
  <1>4. ~ Queued(h)'
    <2> SUFFICES ASSUME NEW i \in 1..Len(queue'), queue'[i] = h PROVE FALSE
      BY DEF Queued
    <2>1. queue[i + 1] = queue[1]
      BY <1>1
    <2> QED BY <1>2, <1>3, <2>1 DEF OnePlace
  <1>5. \A i, j \in 1..Len(queue') : queue'[i] = queue'[j] => i = j
    <2> SUFFICES ASSUME NEW i \in 1..Len(queue'), NEW j \in 1..Len(queue'), queue'[i] = queue'[j]
                 PROVE  i = j
      OBVIOUS
    <2>1. queue[i + 1] = queue[j + 1]
      BY <1>1
    <2>2. i + 1 = j + 1
      BY <1>2, <2>1 DEF OnePlace
    <2> QED BY <1>1, <2>2
  <1>6. \A q : Queued(q)' => Queued(q)
    BY <1>1, <1>2 DEF Queued
  <1> QED BY <1>1, <1>4, <1>5, <1>6

LEMMA LeavesOnce ==
  ASSUME Inv, OnePlace, Leaves
  PROVE  OnePlace' /\ Advances
  <1>1. PICK h : h = Head(queue)
    OBVIOUS
  <1>2. /\ \A i, j \in 1..Len(queue') : queue'[i] = queue'[j] => i = j
        /\ \A q : Queued(q)' => Queued(q)
    BY <1>1, HeadLeaves DEF Leaves
  <1>3. worker' = worker
    BY DEF Leaves
  <1>4. \A w \in Workers : worker'[w] # NoTask => ~ Queued(worker[w].request)'
    BY <1>2, <1>3 DEF OnePlace
  <1>5. \A q : Held(q)' => Held(q)
    BY <1>3 DEF Held
  <1> QED BY <1>2, <1>3, <1>4, <1>5 DEF OnePlace, Advances

LEMMA BeginsOnce ==
  ASSUME Inv, OnePlace, NEW w \in Workers, Begins(w)
  PROVE  OnePlace' /\ Advances
  <1>1. PICK h : h = Head(queue)
    OBVIOUS
  <1>2. /\ \A i, j \in 1..Len(queue') : queue'[i] = queue'[j] => i = j
        /\ \A q : Queued(q)' => Queued(q)
        /\ ~ Queued(h)' /\ Queued(h) /\ h \in Requests
    BY <1>1, HeadLeaves DEF Begins
  <1>3. /\ worker'[w].request = h /\ worker'[w] # NoTask
        /\ \A v \in Workers : v # w => worker'[v] = worker[v]
    <2>1. PICK l : worker' = [worker EXCEPT ![w] = [request |-> h, at |-> l]]
      BY <1>1 DEF Begins
    <2>2. worker'[w] = [request |-> h, at |-> l]
      BY <2>1 DEF Inv, TypeOK
    <2>3. worker'[w].request = h
      BY <2>2
    <2>4. NoTask.request # h
      BY <1>2, Ids DEF NoTask
    <2> QED BY <2>1, <2>3, <2>4
  <1>4. ASSUME NEW v \in Workers, v # w, worker[v] # NoTask
        PROVE  worker[v].request # h /\ ~ Queued(worker[v].request)'
    <2>1. PICK q : q = worker[v].request
      OBVIOUS
    <2>2. ~ Queued(q)
      BY <1>4, <2>1 DEF OnePlace
    <2>3. worker'[v] = worker[v]
      BY <1>3, <1>4
    <2> QED BY <1>2, <2>1, <2>2, <2>3
  <1>5. OnePlace'
    <2>1. ASSUME NEW v \in Workers, worker'[v] # NoTask
          PROVE  ~ Queued(worker[v].request)'
      BY <1>2, <1>3, <1>4, <2>1
    <2>2. ASSUME NEW v \in Workers, NEW u \in Workers, worker'[v] # NoTask, worker'[u] # NoTask,
                 worker'[v].request = worker'[u].request
          PROVE  v = u
      <3>1. CASE v # w /\ u # w
        BY <1>3, <2>2, <3>1 DEF OnePlace
      <3>2. CASE v = w /\ u # w
        BY <1>3, <1>4, <2>2, <3>2
      <3>3. CASE u = w /\ v # w
        BY <1>3, <1>4, <2>2, <3>3
      <3> QED BY <3>1, <3>2, <3>3
    <2> QED BY <1>2, <2>1, <2>2 DEF OnePlace
  <1>6. \A q : Held(q)' => Held(q) \/ q = h
    BY <1>3 DEF Held
  <1> QED BY <1>2, <1>5, <1>6 DEF Advances

LEMMA EndsOnce ==
  ASSUME Inv, OnePlace, NEW w \in Workers, Ends(w)
  PROVE  OnePlace' /\ Advances
  <1>1. /\ worker'[w] = NoTask /\ queue' = queue
        /\ \A v \in Workers : v # w => worker'[v] = worker[v]
    BY DEF Ends, Inv, TypeOK
  <1>2. \A q : Queued(q)' <=> Queued(q)
    BY <1>1 DEF Queued
  <1>3. \A q \in Requests : Held(q)' => Held(q)
    <2> SUFFICES ASSUME NEW q \in Requests, NEW v \in Workers, worker'[v].request = q
                 PROVE  Held(q)
      BY DEF Held
    <2>1. v # w
      BY <1>1, Ids DEF NoTask
    <2> QED BY <1>1, <2>1 DEF Held
  <1>4. ASSUME NEW v \in Workers, worker'[v] # NoTask
        PROVE  v # w /\ worker'[v] = worker[v] /\ ~ Queued(worker[v].request)'
    <2>1. v # w /\ worker'[v] = worker[v]
      BY <1>1, <1>4
    <2>2. PICK q : q = worker[v].request
      OBVIOUS
    <2>3. ~ Queued(q)
      BY <1>4, <2>1, <2>2 DEF OnePlace
    <2> QED BY <1>2, <2>1, <2>2, <2>3
  <1>5. OnePlace'
    <2>1. \A i, j \in 1..Len(queue') : queue'[i] = queue'[j] => i = j
      BY <1>1 DEF OnePlace
    <2>2. \A u, v \in Workers : worker'[u] # NoTask /\ worker'[v] # NoTask
                                /\ worker'[u].request = worker'[v].request => u = v
      BY <1>4 DEF OnePlace
    <2> QED BY <1>4, <2>1, <2>2 DEF OnePlace
  <1> QED BY <1>2, <1>3, <1>5 DEF Advances

(* An accepted task is in one place, and what has left the queue or its     *)
(* worker does not return (the loop of location_repository.py:315-337), for *)
(* any number of workers.                                                   *)
THEOREM TasksAreExecutedOnce == Spec => []OnePlace /\ ExecutedOnce
  <1> DEFINE Once == \A r \in Requests : Passed(r) =>
               /\ Passed(r)'
               /\ Queued(r)' => Queued(r)
               /\ Held(r)' => Held(r) \/ (Queued(r) /\ ~ Queued(r)')
  <1>1. Init => OnePlace
    BY DEF Init, OnePlace
  <1>2. Inv /\ OnePlace /\ [Next]_vars => OnePlace' /\ Advances
    <2> SUFFICES ASSUME Inv, OnePlace, [Next]_vars PROVE OnePlace' /\ Advances
      OBVIOUS
    <2>1. CASE UNCHANGED <<queue, worker>>
      <3>1. \A q : (Queued(q)' <=> Queued(q)) /\ (Held(q)' <=> Held(q))
        BY <2>1 DEF Queued, Held
      <3>2. OnePlace'
        BY <2>1 DEF OnePlace, Queued
      <3> QED BY <3>1, <3>2 DEF Advances
    <2> QED BY <2>1, QueueSteps, EntersOnce, LeavesOnce, BeginsOnce, EndsOnce
  <1>3. Inv /\ OnePlace /\ [Next]_vars => [Once]_vars
    BY <1>2, PassedStays DEF Advances
  <1> QED BY <1>1, <1>2, <1>3, Invariant, PTL DEF Spec, ExecutedOnce

-----------------------------------------------------------------------------
(* One worker. *)

\* A step that leaves the tasks and the positions alone.
LEMMA SingleIsKept ==
  ASSUME SInv, running' \subseteq {1}, running \subseteq running', ~ started' => running' = {},
         \A w \in Workers : worker'[w] = NoTask \/ worker'[w] = worker[w],
         \A d \in Clients : client'[d].at = client[d].at,
         \A q \in Requests : Held(q) => /\ request'[q].client = request[q].client
                                        /\ request'[q].target = request[q].target
  PROVE  Single' /\ OnePerPosition'
  <1>1. OnePerPosition'
    BY DEF SInv, OnePerPosition
  <1>2. ASSUME NEW w \in Workers, worker'[w] # NoTask
        PROVE  LET r == worker'[w].request IN
               /\ w \in running'
               /\ worker'[w].at = client'[request'[r].client].at
               /\ ~ Occupied(request[r].client, request[r].target)
               /\ request'[r].client = request[r].client /\ request'[r].target = request[r].target
               /\ request[r].client \in Clients
    <2>1. worker'[w] = worker[w] /\ worker[w] # NoTask
      BY <1>2
    <2>2. /\ worker[w].request \in Requests /\ Held(worker[w].request)
          /\ request[worker[w].request].client \in Clients
      BY <2>1, TaskIs DEF SInv, Inv, Full
    <2> DEFINE r == worker[w].request
    <2>3. /\ w \in running /\ worker[w].at = client[request[r].client].at
          /\ ~ Occupied(request[r].client, request[r].target)
      BY <2>1 DEF SInv, Single
    <2>4. request'[r].client = request[r].client /\ request'[r].target = request[r].target
      BY <2>2
    <2>5. client'[request[r].client].at = client[request[r].client].at
      BY <2>2
    <2> HIDE DEF r
    <2>6. /\ w \in running' /\ worker[w].at = client'[request'[r].client].at
      BY <2>3, <2>4, <2>5
    <2> QED BY <2>1, <2>2, <2>3, <2>4, <2>6 DEF r
  <1>3. ASSUME NEW c \in Clients, NEW l, ~ Occupied(c, l) PROVE ~ Occupied(c, l)'
    BY <1>3 DEF Occupied
  <1>4. Single'
    BY <1>2, <1>3 DEF Single, Occupied
  <1> QED BY <1>1, <1>4

\* A worker is started only if there is none.
LEMMA OneIsStarted ==
  ASSUME SInv, EnsureStarted
  PROVE  started' /\ running' \subseteq {1} /\ running \subseteq running'
  <1>1. CASE started
    BY <1>1 DEF SInv, Single, EnsureStarted
  <1>2. CASE ~ started
    <2>1. running = {} /\ running' = {w \in Workers : \A v \in Workers : ~ v < w}
      BY <1>2 DEF SInv, Single, EnsureStarted
    <2>2. \A w \in Workers : w = 1 \/ 1 < w
      BY SizesAssumption DEF Workers
    <2> QED BY <1>2, <2>1, <2>2, WorkersAre DEF EnsureStarted
  <1> QED BY <1>1, <1>2

\* Whoever asks leaves alone what a worker holds of its own and of other requests.
LEMMA AsksFrame ==
  ASSUME SInv, NEW r \in Requests, Ask(r) \/ Asks(r) \/ TimeOut(r)
  PROVE  \A q \in Requests : Held(q) => /\ request'[q].client = request[q].client
                                       /\ request'[q].target = request[q].target
  <1>1. request \in [Requests -> {NoRequest} \cup Full]
    BY DEF SInv, Inv, TypeOK, Full
  <1>2. CASE RecordFailure(r) \/ Unavailable(r) \/ TimeOut(r)
    <2>1. Goes(r, "done") /\ request[r] \in Full
      BY <1>2, Begun DEF RecordFailure, Unavailable, TimeOut, At, SInv, Inv
    <2> QED BY <2>1, GoesIs DEF SInv, Inv
  <1>3. CASE Ask(r) \/ Guard(r) \/ Calculate(r) \/ Submit(r) \/ Busy(r) \/ ConfirmRead(r) \/ ConfirmWrite(r)
    <2>1. request[r].stage \notin {"waiting", "failing", "done"}
      BY <1>3 DEF Ask, Guard, Calculate, Submit, Busy, ConfirmRead, ConfirmWrite, At, NoRequest
    <2>2. ~ Held(r)
      BY <2>1, Early DEF SInv
    <2>3. ASSUME NEW q \in Requests, q # r PROVE request'[q] = request[q]
      <3>1. CASE Ask(r)
        BY <1>1, <2>3, <3>1 DEF Ask
      <3>2. CASE Calculate(r)
        BY <1>1, <2>3, <3>2 DEF Calculate, Goes
      <3>3. CASE ConfirmRead(r)
        BY <1>1, <2>3, <3>3 DEF ConfirmRead
      <3>4. CASE Guard(r) \/ Submit(r) \/ Busy(r) \/ ConfirmWrite(r)
        <4>1. PICK s : Goes(r, s)
          BY <3>4 DEF Guard, Submit, Busy, ConfirmWrite
        <4> QED BY <1>1, <2>3, <4>1 DEF Goes
      <3> QED BY <1>3, <3>1, <3>2, <3>3, <3>4
    <2> QED BY <2>2, <2>3
  <1> QED BY <1>2, <1>3 DEF Asks

\* The steps of those who ask.
LEMMA AsksSingle ==
  ASSUME SInv, NEW r \in Requests, Ask(r) \/ Asks(r) \/ TimeOut(r)
  PROVE  Single' /\ OnePerPosition'
  <1> USE DEF tables, workers
  <1>1. CASE \/ UNCHANGED <<client, workers>>
             \/ EnsureStarted /\ UNCHANGED <<client, worker>>
    <2> QED BY <1>1, AsksFrame, OneIsStarted, SingleIsKept DEF SInv, Single
  <1>2. CASE RecordFailure(r) \/ ConfirmWrite(r)
    <2>1. request[r].stage \in {"failing", "confirming"} /\ request[r] \in Full
      BY <1>2, Begun DEF RecordFailure, ConfirmWrite, At, SInv, Inv
    <2>2. Goes(r, "done") /\ UNCHANGED workers
      BY <1>2 DEF RecordFailure, ConfirmWrite
    <2>3. \A d \in Clients : client'[d].at = client[d].at
      <3>1. client \in [Clients -> Rows]
        BY DEF SInv, Inv, TypeOK
      <3>2. ASSUME NEW d \in Clients, NEW row, row.at = client[d].at,
                   client' = [client EXCEPT ![d] = row]
            PROVE  \A e \in Clients : client'[e].at = client[e].at
        BY <3>1, <3>2
      <3>3. \A d \in Clients :
              /\ Failed(client[d]).at = client[d].at
              /\ [client[d] EXCEPT !.status = "CONFIRMED", !.verified = TRUE].at = client[d].at
        BY <3>1 DEF Failed, Rows
      <3>4. request[r].client \in Clients
        BY <2>1 DEF Full
      <3>5. CASE RecordFailure(r)
        <4>1. \/ client' = client
              \/ client' = [client EXCEPT ![request[r].client] = Failed(client[request[r].client])]
          BY <3>5 DEF RecordFailure
        <4> QED BY <3>2, <3>3, <3>4, <4>1
      <3>6. CASE ConfirmWrite(r)
        <4>1. \/ client' = client
              \/ /\ Selected(r) \in Clients
                 /\ client' = [client EXCEPT ![Selected(r)] =
                                 [client[Selected(r)] EXCEPT !.status = "CONFIRMED", !.verified = TRUE]]
          BY <3>6 DEF ConfirmWrite
        <4> QED BY <3>2, <3>3, <4>1
      <3> QED BY <1>2, <3>5, <3>6
    <2> QED BY <2>1, <2>2, <2>3, GoesIs, SingleIsKept DEF SInv, Inv, Single
  <1> QED BY <1>1, <1>2 DEF Ask, Asks, Guard, Calculate, Submit, Busy, ConfirmRead, Unavailable, TimeOut

LEMMA ExamineSingle ==
  ASSUME SInv, NEW w \in Workers, Examine(w)
  PROVE  Single' /\ OnePerPosition'
  <1> DEFINE r == Head(queue)
  <1> USE DEF tables
  <1>1. /\ w \in running /\ worker[w] = NoTask /\ queue # << >>
        /\ UNCHANGED <<tables, running, started, overtaken>>
    BY DEF Examine
  <1>2. r \in Requests /\ request[r] \in Full /\ request[r].stage \in {"waiting", "failing", "done"}
    BY <1>1, HeadIs DEF SInv, Inv
  <1>3. CASE Refused(r)
    <2>1. Answer(r, "refused") /\ UNCHANGED worker
      BY <1>3 DEF Examine
    <2> QED BY <1>1, <1>2, <2>1, AnswerIs, SingleIsKept DEF SInv, Inv, Single
  <1>4. CASE ~ Refused(r)
    <2>1. /\ worker' = [worker EXCEPT ![w] = [request |-> r, at |-> client[request[r].client].at]]
          /\ UNCHANGED request
      BY <1>4 DEF Examine
    <2>2. /\ worker'[w] = [request |-> r, at |-> client[request[r].client].at]
          /\ \A v \in Workers : v # w => worker'[v] = worker[v]
      BY <2>1 DEF SInv, Inv, TypeOK
    <2>3. ~ Occupied(request[r].client, request[r].target)
      BY <1>4 DEF Refused
    <2>4. Single'
      <3>1. /\ running' \subseteq {1} /\ (~ started' => running' = {})
            /\ \A v \in Workers : v # w => worker'[v] = NoTask
        BY <1>1, <2>2 DEF SInv, Single
      <3>2. PICK q : q = r
        OBVIOUS
      <3>3. /\ request' = request /\ client' = client /\ w \in running'
            /\ worker'[w].request = q /\ worker'[w].at = client[request[q].client].at
            /\ ~ Occupied(request[q].client, request[q].target)
        BY <1>1, <2>1, <2>2, <2>3, <3>2
      <3> HIDE DEF r
      <3>4. ~ Occupied(request[q].client, request[q].target)'
        BY <3>3 DEF Occupied
      <3>5. SUFFICES ASSUME NEW v \in Workers, (worker[v] # NoTask)'
                     PROVE  (LET k == worker[v].request IN
                             /\ v \in running
                             /\ worker[v].at = client[request[k].client].at
                             /\ ~ Occupied(request[k].client, request[k].target))'
        BY <3>1 DEF Single
      <3>6. v = w /\ worker'[v].request = q
        BY <3>1, <3>3, <3>5
      <3> QED BY <3>3, <3>4, <3>6
    <2> QED BY <1>1, <2>4 DEF SInv, OnePerPosition
  <1> QED BY <1>3, <1>4

LEMMA FailsSingle ==
  ASSUME SInv, NEW w \in Workers, Fails(w)
  PROVE  Single' /\ OnePerPosition'
  <1> USE DEF tables
  <1>1. /\ worker[w] # NoTask /\ worker' = [worker EXCEPT ![w] = NoTask]
        /\ UNCHANGED <<tables, running, started>>
    BY DEF Fails
  <1>2. PICK a \in {"refused", "error"} : Answer(worker[w].request, a)
    BY DEF Fails
  <1>3. \A v \in Workers : worker'[v] = NoTask \/ worker'[v] = worker[v]
    BY <1>1 DEF SInv, Inv, TypeOK
  <1>4. \A q \in Requests : /\ request'[q].client = request[q].client
                            /\ request'[q].target = request[q].target
    BY <1>1, <1>2, TaskIs, AnswerIs DEF SInv, Inv
  <1> QED BY <1>1, <1>3, <1>4, SingleIsKept DEF SInv, Single

\* The one worker writes what it has examined: the position is still free.
LEMMA WriteSingle ==
  ASSUME SInv, NEW w \in Workers, Write(w)
  PROVE  Single' /\ OnePerPosition'
  <1> DEFINE r == worker[w].request
             c == request[r].client
             l == request[r].target
  <1>1. /\ worker[w] # NoTask /\ w \in running
        /\ worker' = [worker EXCEPT ![w] = NoTask]
        /\ client' = [client EXCEPT ![c] = Assigned(w)]
        /\ UNCHANGED <<queue, running, started>>
    BY DEF Write
  <1>2. worker[w].at = client[c].at /\ ~ Occupied(c, l)
    BY <1>1 DEF SInv, Single
  <1>3. c \in Clients /\ client[c] \in Rows
    BY <1>1, TaskIs DEF SInv, Inv, Full, TypeOK
  <1>4. Assigned(w).at = l
    <2>1. Assigned(w).at = IF worker[w].at # l THEN l ELSE client[c].at
      BY <1>3 DEF Assigned, Rows
    <2> QED BY <1>2, <2>1
  <1>5. /\ client'[c].at = l
        /\ \A d \in Clients : d # c => client'[d] = client[d]
    <2>1. client \in [Clients -> Rows]
      BY DEF SInv, Inv, TypeOK
    <2> HIDE DEF r, c, l
    <2> QED BY <1>1, <1>3, <1>4, <2>1
  <1>6. \A v \in Workers : worker'[v] = NoTask
    <2>1. \A v \in Workers : v # w => worker[v] = NoTask
      BY <1>1 DEF SInv, Single
    <2> QED BY <1>1, <2>1 DEF SInv, Inv, TypeOK
  <1>7. Single'
    BY <1>1, <1>6 DEF SInv, Single
  <1>8. OnePerPosition'
    <2> HIDE DEF r, c, l
    <2> QED BY <1>2, <1>3, <1>5 DEF SInv, OnePerPosition, Occupied
  <1> QED BY <1>7, <1>8

(* With the API server alone, which starts its one worker itself, no two    *)
(* clients have one position (location_repository.py:314).  server.py has   *)
(* two, and the theorem is not true of it.                                  *)
THEOREM PositionsAreUnique ==
  ASSUME ~ WorkerAtStart
  PROVE  Spec => []OnePerPosition
  <1>1. Init => SInv
    <2> SUFFICES ASSUME Init PROVE SInv
      OBVIOUS
    <2>1. running = {} /\ \A w \in Workers : worker[w] = NoTask
      BY DEF Init
    <2>2. OnePerPosition
      BY DEF Init, OnePerPosition
    <2> QED BY <2>1, <2>2, InitInv DEF SInv, Single
  <1>2. SInv /\ [Next]_vars => SInv'
    <2> SUFFICES ASSUME SInv, [Next]_vars PROVE Single' /\ OnePerPosition'
      BY NextInv DEF SInv
    <2>1. ASSUME NEW r \in Requests, Ask(r) \/ Asks(r) \/ TimeOut(r) PROVE Single' /\ OnePerPosition'
      BY <2>1, AsksSingle
    <2>2. ASSUME NEW w \in Workers, Works(w) PROVE Single' /\ OnePerPosition'
      BY <2>2, ExamineSingle, WriteSingle, FailsSingle DEF Works
    <2>3. ASSUME UNCHANGED vars PROVE Single' /\ OnePerPosition'
      BY <2>3 DEF vars, tables, workers, SInv, Single, OnePerPosition, Occupied
    <2> QED BY <2>1, <2>2, <2>3 DEF Next
  <1>3. SInv => OnePerPosition
    BY DEF SInv
  <1> QED BY <1>1, <1>2, <1>3, PTL DEF Spec
=============================================================================
