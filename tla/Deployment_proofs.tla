------------------------- MODULE Deployment_proofs --------------------------
(***************************************************************************)
(* Proofs about what becomes of an operator's actions: ActionLifecycle,    *)
(* for any clients, requests and kinds, and, as U, ClientUpdate, for any   *)
(* deployments, packages and faults.  The two share nothing: each theorem  *)
(* is of the behaviours of one of them, those of ClientUpdate under its    *)
(* assumptions on its constants.                                           *)
(*                                                                         *)
(* In ActionLifecycle, at most one request has the targets, an execution   *)
(* has all of them or none, and a success that shows anywhere was said. In *)
(* ClientUpdate, Inv says of the files which transfer wrote them and that  *)
(* a verified one is whole, and of an updater that no other one overlapped *)
(* what the installation is at each of its steps.                          *)
(***************************************************************************)
EXTENDS ActionLifecycle, Naturals, TLAPS

CONSTANTS Actions, Packages, PackageOf, OperationOf, Contents, Chunks, LocksOpenFiles, MaxFaults
VARIABLES transfer, received, part, final, current, app, history, agents, updater, faults,
          alone, before

\* "session" is the variable of ActionLifecycle.
U == INSTANCE ClientUpdate WITH session <- transfer

WorkSteps == {"none", "queued", "streaming", "waiting", "ok", "failed"}

(* A move of one worker keeps the shape of work. *)
LEMMA MovesType ==
  ASSUME TypeOK, NEW r \in Requests, NEW c \in Clients,
         NEW s \in WorkSteps, Moves(r, c, s)
  PROVE  work' \in [Requests -> [Clients -> WorkSteps]]
BY DEF TypeOK, Moves, WorkSteps

(* Every variable stays in its domain. *)
LEMMA TypeInit == Init => TypeOK
BY DEF Init, TypeOK, NoWork

LEMMA TypeNext == TypeOK /\ [Next]_vars => TypeOK'
<1> SUFFICES ASSUME TypeOK, [Next]_vars PROVE TypeOK'
  OBVIOUS
<1> USE DEF Terminal, Verdicts, rows, waits, network, NoWork
<1>1. ASSUME NEW r \in Requests, Post(r) PROVE TypeOK'
  <2>1. CASE Look(r)
    BY <2>1 DEF Look, TypeOK
  <2>2. CASE Create(r)
    <3>1. target' \in [Clients -> {"none", "PENDING", "RUNNING", "SUCCESS", "FAILED"}]
      BY <2>2 DEF Create
    <3> QED
      BY <2>2, <3>1 DEF Create, TypeOK
  <2>3. CASE CreateFindsRow(r)
    <3>1. exec' \in [Requests -> {"none", "start", "fanout", "done", "dead"}]
      BY <2>3 DEF CreateFindsRow, TypeOK
    <3>2. work' \in [Requests -> [Clients -> WorkSteps]]
      BY <2>3 DEF CreateFindsRow, FoundTargets, TypeOK, WorkSteps
    <3> QED
      BY <2>3, <3>1, <3>2 DEF CreateFindsRow, TypeOK, WorkSteps
  <2> QED
    BY <1>1, <2>1, <2>2, <2>3 DEF Post
<1>2. ASSUME NEW r \in Requests, Execute(r) PROVE TypeOK'
  <2>1. CASE Start(r)
    BY <2>1 DEF Start, TypeOK
  <2>2. CASE Finish(r)
    <3>1. action' \in Terminal
      BY <2>2 DEF Finish, FinishWritten, Summary
    <3>2. target' \in [Clients -> {"none", "PENDING", "RUNNING", "SUCCESS", "FAILED"}]
      BY <2>2 DEF Finish, FinishWritten, TargetStatus, TypeOK
    <3> QED
      BY <2>2, <3>1, <3>2 DEF Finish, TypeOK
  <2>3. ASSUME NEW c \in Clients, RunCommand(r, c) PROVE TypeOK'
    <3>1. work' \in [Requests -> [Clients -> WorkSteps]]
      BY <2>3, MovesType DEF RunCommand, WorkSteps
    <3> QED
      BY <2>3, <3>1 DEF RunCommand, TypeOK, WorkSteps
  <2>4. ASSUME NEW c \in Clients, InitFails(r, c) PROVE TypeOK'
    <3>1. work' \in [Requests -> [Clients -> WorkSteps]]
      BY <2>4, MovesType DEF InitFails, WorkSteps
    <3> QED
      BY <2>4, <3>1 DEF InitFails, TypeOK, WorkSteps
  <2>5. ASSUME NEW c \in Clients, InitReady(r, c) PROVE TypeOK'
    <3>1. work' \in [Requests -> [Clients -> WorkSteps]]
      BY <2>5, MovesType DEF InitReady, WorkSteps
    <3>2. box' \in [Requests -> [Clients -> Verdicts \cup {"empty"}]]
      BY <2>5 DEF InitReady, TypeOK
    <3> QED
      BY <2>5, <3>1, <3>2 DEF InitReady, TypeOK, WorkSteps
  <2>6. ASSUME NEW c \in Clients, Transfer(r, c) PROVE TypeOK'
    <3>1. work' \in [Requests -> [Clients -> WorkSteps]]
      BY <2>6, MovesType DEF Transfer, StreamAll, StreamBreaks, TimesOut, GetsResult,
                             WorkSteps
    <3>2. waiter' \in [Clients -> Requests \cup {NoOne}]
      BY <2>6 DEF Transfer, StreamAll, StreamBreaks, TimesOut, GetsResult,
                  Unregister, TypeOK
    <3>3. session' \in [Clients -> {"none", "open", "full"}]
      BY <2>6 DEF Transfer, StreamAll, StreamBreaks, TimesOut, GetsResult, TypeOK
    <3>4. UNCHANGED <<kind, rows, request, exec, box, reader, result, said>>
      BY <2>6 DEF Transfer, StreamAll, StreamBreaks, TimesOut, GetsResult
    <3> QED
      BY <3>1, <3>2, <3>3, <3>4 DEF TypeOK, WorkSteps
  <2> QED
    BY <1>2, <2>1, <2>2, <2>3, <2>4, <2>5, <2>6 DEF Execute
<1>3. ASSUME NEW c \in Clients, ClientStep(c) PROVE TypeOK'
  <2>1. ASSUME NEW v \in Verdicts, Answer(c, v) PROVE TypeOK'
    BY <2>1 DEF Answer, TypeOK
  <2>2. CASE ClientFails(c) \/ ClientVerifies(c)
    BY <2>1, <2>2 DEF ClientFails, ClientVerifies
  <2>3. CASE StoreResult(c)
    BY <2>3 DEF StoreResult, StoredStatus, TypeOK
  <2>4. CASE HandOver(c)
    <3>1. box' \in [Requests -> [Clients -> Verdicts \cup {"empty"}]]
      <4>1. CASE UNCHANGED box
        BY <4>1 DEF TypeOK
      <4>2. CASE box' = [box EXCEPT ![waiter[c]][c] = reader[c]] /\ waiter[c] # NoOne
        <5>1. waiter[c] \in Requests /\ reader[c] \in Verdicts
          BY <2>4, <4>2 DEF HandOver, TypeOK
        <5> QED
          BY <4>2, <5>1 DEF TypeOK
      <4> QED
        BY <2>4, <4>1, <4>2 DEF HandOver
    <3> QED
      BY <2>4, <3>1 DEF HandOver, TypeOK
  <2> QED
    BY <1>3, <2>2, <2>3, <2>4 DEF ClientStep
<1>4. CASE Cancel
  BY <1>4 DEF Cancel, TypeOK
<1>5. CASE Restart
  BY <1>5 DEF Restart, TypeOK
<1>6. CASE UNCHANGED vars
  BY <1>6 DEF vars, TypeOK
<1> QED
  BY <1>1, <1>2, <1>3, <1>4, <1>5, <1>6 DEF Next

(* Every variable of an action stays in its domain.                         *)
THEOREM TypeCorrect == Spec => []TypeOK
BY TypeInit, TypeNext, PTL DEF Spec

-----------------------------------------------------------------------------
(* One dispatcher.  Only the request that inserted the row has targets: the *)
(* row exists from then on, and every later request gets it without them.   *)

HasTargets(r) == \E c \in Clients : work[r][c] # "none"

OneDispatcher ==
  /\ \A r \in Requests : request[r] # "done" => exec[r] = "none"
  /\ \A r \in Requests : HasTargets(r) => action # "none"
  /\ \A r, s \in Requests : HasTargets(r) /\ HasTargets(s) => r = s

(* What a move of one worker changes, and what it does not. *)
LEMMA MovesValue ==
  ASSUME TypeOK, NEW r \in Requests, NEW c \in Clients, NEW s, Moves(r, c, s)
  PROVE  /\ work'[r][c] = s
         /\ \A q \in Requests, d \in Clients :
              (q # r \/ d # c) => work'[q][d] = work[q][d]
BY DEF TypeOK, Moves

(* Every step of an execution but its first and last moves one worker whose *)
(* execution runs and that has the target.                                  *)
LEMMA ExecuteMoves ==
  ASSUME NEW r \in Requests, Execute(r), ~ Start(r), ~ Finish(r)
  PROVE  \E c \in Clients, s \in WorkSteps :
           /\ exec[r] = "fanout" /\ work[r][c] # "none" /\ s # "none"
           /\ Moves(r, c, s)
           /\ UNCHANGED <<action, request, exec>>
<1>1. ASSUME NEW c \in Clients, RunCommand(r, c)
      PROVE  exec[r] = "fanout" /\ work[r][c] # "none" /\ UNCHANGED <<action, request, exec>>
             /\ \E s \in WorkSteps : s # "none" /\ Moves(r, c, s)
  BY <1>1 DEF RunCommand, Working, WorkSteps, rows
<1>2. ASSUME NEW c \in Clients, InitFails(r, c)
      PROVE  exec[r] = "fanout" /\ work[r][c] # "none" /\ UNCHANGED <<action, request, exec>>
             /\ \E s \in WorkSteps : s # "none" /\ Moves(r, c, s)
  BY <1>2 DEF InitFails, Working, WorkSteps, rows
<1>3. ASSUME NEW c \in Clients, InitReady(r, c)
      PROVE  exec[r] = "fanout" /\ work[r][c] # "none" /\ UNCHANGED <<action, request, exec>>
             /\ \E s \in WorkSteps : s # "none" /\ Moves(r, c, s)
  BY <1>3 DEF InitReady, Working, WorkSteps
<1>4. ASSUME NEW c \in Clients, Transfer(r, c)
      PROVE  exec[r] = "fanout" /\ work[r][c] # "none" /\ UNCHANGED <<action, request, exec>>
             /\ \E s \in WorkSteps : s # "none" /\ Moves(r, c, s)
  BY <1>4 DEF Transfer, StreamAll, StreamBreaks, TimesOut, GetsResult, Working,
              WorkSteps, rows
<1> QED
  BY <1>1, <1>2, <1>3, <1>4 DEF Execute

LEMMA OneInit == Init => OneDispatcher
BY DEF Init, OneDispatcher, HasTargets, NoWork

LEMMA OneNext == TypeOK /\ OneDispatcher /\ [Next]_vars => OneDispatcher'
<1> SUFFICES ASSUME TypeOK, OneDispatcher, [Next]_vars PROVE OneDispatcher'
  OBVIOUS
<1>1. ASSUME UNCHANGED <<action, work, exec, request>> PROVE OneDispatcher'
  BY <1>1 DEF OneDispatcher, HasTargets
<1>2. ASSUME NEW r \in Requests, Post(r) PROVE OneDispatcher'
  <2>1. CASE Look(r)
    <3>1. UNCHANGED <<action, work, exec>>
      BY <2>1 DEF Look, rows
    <3>2. \A q \in Requests : request'[q] # "done" => request[q] # "done"
      BY <2>1 DEF Look, TypeOK
    <3> QED
      BY <3>1, <3>2 DEF OneDispatcher, HasTargets
  <2>2. CASE Create(r)
    <3>1. \A q \in Requests : ~ HasTargets(q)
      BY <2>2 DEF Create, OneDispatcher
    <3>2. \A q \in Requests : HasTargets(q)' => q = r
      BY <2>2, <3>1 DEF Create, HasTargets, TypeOK
    <3>3. action' # "none"
      BY <2>2 DEF Create
    <3>4. \A q \in Requests : request'[q] # "done" => exec'[q] = "none"
      BY <2>2 DEF Create, OneDispatcher, TypeOK
    <3> QED
      BY <3>2, <3>3, <3>4 DEF OneDispatcher
  <2>3. CASE CreateFindsRow(r)
    <3>1. \A q \in Requests : HasTargets(q)' => HasTargets(q)
      BY <2>3 DEF CreateFindsRow, FoundTargets, NoWork, HasTargets, TypeOK
    <3>2. \A q \in Requests : request'[q] # "done" => exec'[q] = "none"
      BY <2>3 DEF CreateFindsRow, OneDispatcher, TypeOK
    <3>3. action' = action
      BY <2>3 DEF CreateFindsRow, rows
    <3> QED
      BY <3>1, <3>2, <3>3 DEF OneDispatcher
  <2> QED
    BY <1>2, <2>1, <2>2, <2>3 DEF Post
<1>3. ASSUME NEW r \in Requests, Execute(r) PROVE OneDispatcher'
  <2>1. CASE Start(r) \/ Finish(r)
    <3>1. action' # "none"
      BY <2>1 DEF Start, Finish, FinishWritten, Summary
    <3>2. request' = request /\ work' = work
      BY <2>1 DEF Start, Finish
    <3>3. exec[r] # "none" /\ \A q \in Requests : q # r => exec'[q] = exec[q]
      BY <2>1 DEF Start, Finish, TypeOK
    <3> QED
      BY <3>1, <3>2, <3>3 DEF OneDispatcher, HasTargets
  <2>2. CASE ~ Start(r) /\ ~ Finish(r)
    <3>1. PICK c \in Clients, s \in WorkSteps :
            /\ exec[r] = "fanout" /\ work[r][c] # "none" /\ s # "none"
            /\ Moves(r, c, s)
            /\ UNCHANGED <<action, request, exec>>
      BY <1>3, <2>2, ExecuteMoves
    <3>2. \A q \in Requests : HasTargets(q)' => HasTargets(q)
      BY <3>1, MovesValue DEF HasTargets
    <3> QED
      BY <3>1, <3>2 DEF OneDispatcher
  <2> QED
    BY <2>1, <2>2
<1>4. ASSUME NEW c \in Clients, ClientStep(c) PROVE OneDispatcher'
  BY <1>1, <1>4 DEF ClientStep, ClientFails, ClientVerifies, Answer, StoreResult,
                    HandOver, rows
<1>5. CASE Cancel
  BY <1>5 DEF Cancel, Cancelable, OneDispatcher, HasTargets
<1>6. CASE Restart
  BY <1>6 DEF Restart, OneDispatcher, HasTargets, TypeOK, rows
<1>7. CASE UNCHANGED vars
  BY <1>1, <1>7 DEF vars, rows
<1> QED
  BY <1>2, <1>3, <1>4, <1>5, <1>6, <1>7 DEF Next

(* At most one execution ever sends a target its command or its package. *)
THEOREM DispatchIsUnique == Spec => []DispatchedOnce
<1>1. OneDispatcher => DispatchedOnce
  BY DEF OneDispatcher, DispatchedOnce, Sent, HasTargets
<1> QED
  BY <1>1, TypeInit, TypeNext, OneInit, OneNext, PTL DEF Spec

-----------------------------------------------------------------------------
(* Successes.  Wherever a success shows - in a row, in a message, in a      *)
(* queue, in a worker's answer - the client has said it; and nothing was    *)
(* said while its session is open or its work is still queued.              *)

QuietBefore(c) == said[c] = "none" /\ session[c] = "none"

Said ==
  /\ action = "none" => \A c \in Clients : QuietBefore(c)
  /\ \A c \in Clients : session[c] # "none" => said[c] = "none"
  /\ \A r \in Requests, c \in Clients : work[r][c] = "queued" => QuietBefore(c)
  /\ \A c \in Clients :
       target[c] = "SUCCESS" \/ result[c] = "SUCCESS" \/ reader[c] = "SUCCESS"
         => said[c] = "SUCCESS"
  /\ \A r \in Requests, c \in Clients :
       work[r][c] = "ok" \/ box[r][c] = "SUCCESS" => said[c] = "SUCCESS"

LEMMA SaidInit == Init => Said
BY DEF Init, Said, QuietBefore, NoWork

(* A step that makes no success and opens, empties or answers nothing. *)
LEMMA SaidFrame ==
  ASSUME Said, UNCHANGED <<said, session>>,
         action' = "none" => action = "none",
         \A c \in Clients :
           /\ target'[c] = "SUCCESS" => said[c] = "SUCCESS"
           /\ result'[c] = "SUCCESS" => said[c] = "SUCCESS"
           /\ reader'[c] = "SUCCESS" => said[c] = "SUCCESS",
         \A r \in Requests, c \in Clients :
           /\ work'[r][c] = "queued" => QuietBefore(c)
           /\ work'[r][c] = "ok" => said[c] = "SUCCESS"
           /\ box'[r][c] = "SUCCESS" => said[c] = "SUCCESS"
  PROVE  Said'
BY DEF Said, QuietBefore

LEMMA SaidNext == TypeOK /\ OneDispatcher /\ Said /\ [Next]_vars => Said'
<1> SUFFICES ASSUME TypeOK, OneDispatcher, Said, [Next]_vars PROVE Said'
  OBVIOUS
<1>1. ASSUME NEW r \in Requests, Post(r) PROVE Said'
  <2>1. CASE Look(r)
    BY <2>1, SaidFrame DEF Look, Said, rows, waits, network
  <2>2. CASE Create(r)
    <3>1. \A c \in Clients : QuietBefore(c) /\ target'[c] # "SUCCESS"
      BY <2>2 DEF Create, Said
    <3>2. \A q \in Requests, c \in Clients : work'[q][c] = "ok" => work[q][c] = "ok"
      BY <2>2 DEF Create, TypeOK
    <3>3. action' # "none" /\ UNCHANGED <<said, session, box, result, reader>>
      BY <2>2 DEF Create, waits, network
    <3> QED
      BY <3>1, <3>2, <3>3, SaidFrame DEF Said
  <2>3. CASE CreateFindsRow(r)
    <3>1. \A q \in Requests, c \in Clients :
            work'[q][c] = work[q][c] \/ work'[q][c] = "none"
      <4>1. CASE work' = [work EXCEPT ![r] = NoWork]
        <5>1. \A q \in Requests : work'[q] = IF q = r THEN NoWork ELSE work[q]
          BY <4>1 DEF TypeOK
        <5> QED
          BY <5>1 DEF NoWork
      <4>2. CASE UNCHANGED work
        BY <4>2
      <4> QED
        BY <2>3, <4>1, <4>2 DEF CreateFindsRow, FoundTargets
    <3>2. UNCHANGED <<action, target, said, session, box, result, reader>>
      BY <2>3 DEF CreateFindsRow, rows, waits, network
    <3> QED
      BY <3>1, <3>2, SaidFrame DEF Said
  <2> QED
    BY <1>1, <2>1, <2>2, <2>3 DEF Post
<1>2. ASSUME NEW r \in Requests, Execute(r) PROVE Said'
  <2>1. CASE Start(r)
    BY <2>1, SaidFrame DEF Start, Said, waits, network
  <2>2. CASE Finish(r)
    <3>1. action' # "none"
      BY <2>2 DEF Finish, FinishWritten, Summary
    <3>2. \A c \in Clients : target'[c] = "SUCCESS" => said[c] = "SUCCESS"
      BY <2>2 DEF Finish, FinishWritten, TargetStatus, Said
    <3>3. UNCHANGED <<work, said, session, box, result, reader>>
      BY <2>2 DEF Finish, waits, network
    <3> QED
      BY <3>1, <3>2, <3>3, SaidFrame DEF Said
  <2>3. ASSUME NEW c \in Clients, RunCommand(r, c) PROVE Said'
    <3>1. /\ work[r][c] = "queued"
          /\ \E s \in {"ok", "failed"} : Moves(r, c, s)
          /\ UNCHANGED <<action, target, box, result, reader, session>>
          /\ \/ said' = [said EXCEPT ![c] = "SUCCESS"]
             \/ UNCHANGED said /\ Moves(r, c, "failed")
      BY <2>3 DEF RunCommand, Working, rows, waits
    <3>2. \A q \in Requests : work'[q][c] # "queued"
      <4>1. work'[r][c] # "queued"
        BY <3>1, MovesValue
      <4>2. \A q \in Requests \ {r} : work[q][c] = "none" /\ work'[q][c] = work[q][c]
        BY <3>1, MovesValue DEF OneDispatcher, HasTargets
      <4> QED
        BY <4>1, <4>2
    <3>3. \A q \in Requests, d \in Clients : d # c => work'[q][d] = work[q][d]
      BY <3>1, MovesValue
    <3>4. QuietBefore(c) /\ action # "none"
      BY <3>1 DEF Said, OneDispatcher, HasTargets
    <3>5. \A d \in Clients : d # c => said'[d] = said[d]
      BY <3>1 DEF TypeOK
    <3>6. CASE said'[c] = "SUCCESS"
      BY <3>1, <3>2, <3>3, <3>4, <3>5, <3>6 DEF Said, QuietBefore
    <3>7. CASE UNCHANGED said /\ Moves(r, c, "failed")
      <4>1. \A q \in Requests, d \in Clients :
              work'[q][d] = work[q][d] \/ work'[q][d] = "failed"
        BY <3>7, MovesValue
      <4> QED
        BY <3>1, <3>7, <4>1, SaidFrame DEF Said
    <3> QED
      BY <3>1, <3>6, <3>7 DEF TypeOK
  <2>4. ASSUME NEW c \in Clients, InitFails(r, c) PROVE Said'
    <3>1. \A q \in Requests, d \in Clients :
            work'[q][d] = work[q][d] \/ work'[q][d] = "failed"
      BY <2>4, MovesValue DEF InitFails
    <3> QED
      BY <2>4, <3>1, SaidFrame DEF InitFails, Said, rows, waits, network
  <2>5. ASSUME NEW c \in Clients, InitReady(r, c) PROVE Said'
    <3>1. /\ work[r][c] = "queued" /\ Moves(r, c, "streaming")
          /\ UNCHANGED <<action, result, reader, said>>
      BY <2>5 DEF InitReady, Working
    <3>2. QuietBefore(c) /\ action # "none"
      BY <3>1 DEF Said, OneDispatcher, HasTargets
    <3>3. \A q \in Requests, d \in Clients :
            work'[q][d] = "queued" => work[q][d] = "queued" /\ d # c
      <4>1. \A q \in Requests \ {r} : work[q][c] = "none"
        BY <3>1 DEF OneDispatcher, HasTargets
      <4> QED
        BY <3>1, <4>1, MovesValue
    <3>4. \A q \in Requests, d \in Clients : work'[q][d] = "ok" => work[q][d] = "ok"
      BY <3>1, MovesValue
    <3>5. \A d \in Clients : /\ target'[d] = "SUCCESS" => target[d] = "SUCCESS"
                            /\ session'[d] = IF d = c THEN "open" ELSE session[d]
      BY <2>5 DEF InitReady, TypeOK
    <3>6. \A q \in Requests, d \in Clients : box'[q][d] = "SUCCESS" => box[q][d] = "SUCCESS"
      BY <2>5 DEF InitReady, TypeOK
    <3> QED
      BY <3>1, <3>2, <3>3, <3>4, <3>5, <3>6 DEF Said, QuietBefore
  <2>6. ASSUME NEW c \in Clients, StreamAll(r, c) PROVE Said'
    <3>1. Moves(r, c, "waiting") /\ UNCHANGED <<rows, box, reader, result, said>>
      BY <2>6 DEF StreamAll, waits
    <3>2. \A q \in Requests, d \in Clients :
            work'[q][d] = work[q][d] \/ work'[q][d] = "waiting"
      BY <3>1, MovesValue
    <3>3. \A d \in Clients : session'[d] = "none" <=> session[d] = "none"
      BY <2>6 DEF StreamAll, TypeOK
    <3> QED
      BY <3>1, <3>2, <3>3 DEF Said, QuietBefore, rows
  <2>7. ASSUME NEW c \in Clients, StreamBreaks(r, c) \/ TimesOut(r, c) PROVE Said'
    <3>1. \A q \in Requests, d \in Clients :
            work'[q][d] = work[q][d] \/ work'[q][d] = "failed"
      BY <2>7, MovesValue DEF StreamBreaks, TimesOut
    <3> QED
      BY <2>7, <3>1, SaidFrame DEF StreamBreaks, TimesOut, Said, rows, network
  <2>8. ASSUME NEW c \in Clients, GetsResult(r, c) PROVE Said'
    <3>1. \A q \in Requests, d \in Clients :
            \/ work'[q][d] = work[q][d] \/ work'[q][d] = "failed"
            \/ q = r /\ d = c /\ work'[q][d] = "ok" /\ box[r][c] = "SUCCESS"
      BY <2>8, MovesValue DEF GetsResult, Deployed
    <3> QED
      BY <2>8, <3>1, SaidFrame DEF GetsResult, Said, rows, network
  <2> QED
    BY <1>2, <2>1, <2>2, <2>3, <2>4, <2>5, <2>6, <2>7, <2>8 DEF Execute, Transfer
<1>3. ASSUME NEW c \in Clients, ClientStep(c) PROVE Said'
  <2>1. ASSUME NEW v \in Verdicts, session[c] # "none", Answer(c, v) PROVE Said'
    <3>1. /\ said[c] = "none"
          /\ \A d \in Clients : /\ session'[d] = IF d = c THEN "none" ELSE session[d]
                                /\ result'[d] = IF d = c THEN v ELSE result[d]
                                /\ said'[d] = IF d = c THEN v ELSE said[d]
      BY <2>1 DEF Answer, Said, TypeOK
    <3>2. action # "none" /\ \A r \in Requests : work[r][c] # "queued"
      BY <2>1 DEF Said, QuietBefore
    <3>3. UNCHANGED <<rows, work, waits, reader>>
      BY <2>1 DEF Answer
    <3> QED
      BY <3>1, <3>2, <3>3 DEF Said, QuietBefore, rows, waits
  <2>2. CASE ClientFails(c) \/ ClientVerifies(c)
    BY <2>1, <2>2 DEF ClientFails, ClientVerifies, Verdicts
  <2>3. CASE StoreResult(c)
    <3>1. \A d \in Clients :
            /\ target'[d] = "SUCCESS" => target[d] = "SUCCESS" \/ result[d] = "SUCCESS"
            /\ reader'[d] = "SUCCESS" => reader[d] = "SUCCESS" \/ result[d] = "SUCCESS"
            /\ result'[d] = "SUCCESS" => result[d] = "SUCCESS"
      BY <2>3 DEF StoreResult, StoredStatus, TypeOK
    <3>2. UNCHANGED <<action, work, box, session, said>>
      BY <2>3 DEF StoreResult, waits
    <3> QED
      BY <3>1, <3>2, SaidFrame DEF Said
  <2>4. CASE HandOver(c)
    <3>1. \A r \in Requests, d \in Clients :
            box'[r][d] = "SUCCESS" => box[r][d] = "SUCCESS" \/ reader[d] = "SUCCESS"
      <4>1. CASE UNCHANGED box
        BY <4>1
      <4>2. CASE box' = [box EXCEPT ![waiter[c]][c] = reader[c]]
        BY <4>2 DEF TypeOK
      <4> QED
        BY <2>4, <4>1, <4>2 DEF HandOver
    <3>2. \A d \in Clients : reader'[d] = "SUCCESS" => reader[d] = "SUCCESS"
      BY <2>4 DEF HandOver, TypeOK
    <3>3. UNCHANGED <<action, target, work, result, session, said>>
      BY <2>4 DEF HandOver, rows, network
    <3> QED
      BY <3>1, <3>2, <3>3, SaidFrame DEF Said
  <2> QED
    BY <1>3, <2>2, <2>3, <2>4 DEF ClientStep
<1>4. CASE Cancel
  BY <1>4, SaidFrame DEF Cancel, Said, waits, network
<1>5. CASE Restart
  BY <1>5 DEF Restart, Said, QuietBefore, rows
<1>6. CASE UNCHANGED vars
  BY <1>6, SaidFrame DEF vars, Said, rows, waits, network
<1> QED
  BY <1>1, <1>2, <1>3, <1>4, <1>5, <1>6 DEF Next

(* A target's row says SUCCESS only if that client said so. *)
THEOREM SuccessIsTrue == Spec => []SuccessIsReported
<1>1. Said => SuccessIsReported
  BY DEF Said, SuccessIsReported
<1> QED
  BY <1>1, TypeInit, TypeNext, OneInit, OneNext, SaidInit, SaidNext, PTL DEF Spec

-----------------------------------------------------------------------------
(* Waiters.  Before an execution runs, and after it has ended, none of its  *)
(* workers is in a transfer.                                                *)

InTransfer(r, c) == exec[r] = "fanout" /\ work[r][c] \in {"streaming", "waiting"}

Waits ==
  /\ \A r \in Requests, c \in Clients :
       exec[r] \in {"none", "start"} => work[r][c] \in {"none", "queued"}
  /\ \A c \in Clients, r \in Requests : waiter[c] = r <=> InTransfer(r, c)

LEMMA WaitsInit == Init => Waits
BY RequestsAssumption DEF Init, Waits, InTransfer, NoWork

LEMMA WaitsNext == TypeOK /\ OneDispatcher /\ Waits /\ [Next]_vars => Waits'
<1> SUFFICES ASSUME TypeOK, OneDispatcher, Waits, [Next]_vars PROVE Waits'
  OBVIOUS
<1>1. ASSUME UNCHANGED <<exec, work, waiter>> PROVE Waits'
  BY <1>1 DEF Waits, InTransfer
<1>2. ASSUME NEW r \in Requests, Post(r) PROVE Waits'
  <2>1. CASE Look(r)
    BY <1>1, <2>1 DEF Look, waits
  <2>2. CASE Create(r) \/ CreateFindsRow(r)
    <3>1. CASE UNCHANGED <<exec, work>>
      BY <1>1, <2>2, <3>1 DEF Create, CreateFindsRow, waits
    <3>2. CASE exec' = [exec EXCEPT ![r] = "start"] /\ exec[r] = "none"
      <4>1. \A c \in Clients : work'[r][c] \in {"none", "queued"}
        BY <2>2, <3>2 DEF Create, CreateFindsRow, FoundTargets, NoWork, Waits, TypeOK
      <4>2. \A q \in Requests : q # r => exec'[q] = exec[q] /\ work'[q] = work[q]
        BY <2>2, <3>2 DEF Create, CreateFindsRow, TypeOK
      <4>3. exec'[r] = "start" /\ UNCHANGED waiter
        BY <2>2, <3>2 DEF Create, CreateFindsRow, waits, TypeOK
      <4> QED
        BY <3>2, <4>1, <4>2, <4>3 DEF Waits, InTransfer
    <3>3. exec[r] = "none"
      BY <2>2 DEF Create, CreateFindsRow, OneDispatcher
    <3> QED
      BY <2>2, <3>1, <3>2, <3>3 DEF Create, CreateFindsRow
  <2> QED
    BY <1>2, <2>1, <2>2 DEF Post
<1>3. ASSUME NEW r \in Requests, Execute(r) PROVE Waits'
  <2>1. CASE Start(r) \/ Finish(r)
    <3>1. UNCHANGED <<work, waiter>>
      BY <2>1 DEF Start, Finish, waits
    <3>2. \A c \in Clients : ~ InTransfer(r, c) /\ ~ InTransfer(r, c)'
      BY <2>1, <3>1 DEF Start, Finish, InTransfer, Waits, AllAnswered, Targets, TypeOK
    <3>3. \A q \in Requests : q # r => exec'[q] = exec[q]
      BY <2>1 DEF Start, Finish, TypeOK
    <3>4. exec'[r] \notin {"none", "start"}
      BY <2>1 DEF Start, Finish, TypeOK
    <3> QED
      BY <3>1, <3>2, <3>3, <3>4 DEF Waits, InTransfer
  <2>2. ASSUME NEW c \in Clients, NEW s, NEW t \in Requests \cup {NoOne},
               exec[r] = "fanout", Moves(r, c, s), UNCHANGED exec,
               work[r][c] # "none",
               waiter' = [waiter EXCEPT ![c] = t],
               IF s \in {"streaming", "waiting"} THEN t = r ELSE t = NoOne
        PROVE  Waits'
    <3>1. \A q \in Requests, d \in Clients :
            work'[q][d] = IF q = r /\ d = c THEN s ELSE work[q][d]
      BY <2>2, MovesValue
    <3>2. \A d \in Clients : waiter'[d] = IF d = c THEN t ELSE waiter[d]
      BY <2>2 DEF TypeOK
    <3>3. \A q \in Requests : q # r => work[q][c] = "none"
      BY <2>2 DEF OneDispatcher, HasTargets
    <3> QED
      BY <2>2, <3>1, <3>2, <3>3, RequestsAssumption DEF Waits, InTransfer
  <2>3. ASSUME NEW c \in Clients, NEW s,
               exec[r] = "fanout", Moves(r, c, s), UNCHANGED <<exec, waiter>>,
               s \in {"streaming", "waiting"} <=> work[r][c] \in {"streaming", "waiting"}
        PROVE  Waits'
    <3>1. \A q \in Requests, d \in Clients :
            work'[q][d] = IF q = r /\ d = c THEN s ELSE work[q][d]
      BY <2>3, MovesValue
    <3> QED
      BY <2>3, <3>1 DEF Waits, InTransfer
  <2>4. ASSUME NEW c \in Clients, RunCommand(r, c) \/ InitFails(r, c) PROVE Waits'
    BY <2>3, <2>4 DEF RunCommand, InitFails, Working, waits
  <2>5. ASSUME NEW c \in Clients, InitReady(r, c) PROVE Waits'
    BY <2>2, <2>5 DEF InitReady, Working
  <2>6. ASSUME NEW c \in Clients, StreamAll(r, c) PROVE Waits'
    BY <2>3, <2>6 DEF StreamAll, Working, waits
  <2>7. ASSUME NEW c \in Clients, StreamBreaks(r, c) \/ TimesOut(r, c) \/ GetsResult(r, c)
        PROVE  Waits'
    <3>1. PICK s \in {"ok", "failed"} : Moves(r, c, s)
      BY <2>7 DEF StreamBreaks, TimesOut, GetsResult
    <3>2. exec[r] = "fanout" /\ work[r][c] # "none" /\ UNCHANGED exec
          /\ waiter' = [waiter EXCEPT ![c] = NoOne]
      BY <2>7 DEF StreamBreaks, TimesOut, GetsResult, Working, Unregister
    <3> QED
      BY <2>2, <3>1, <3>2
  <2> QED
    BY <1>3, <2>1, <2>4, <2>5, <2>6, <2>7 DEF Execute, Transfer
<1>4. ASSUME NEW c \in Clients, ClientStep(c) PROVE Waits'
  BY <1>1, <1>4 DEF ClientStep, ClientFails, ClientVerifies, Answer, StoreResult,
                    HandOver, waits
<1>5. CASE Cancel
  BY <1>1, <1>5 DEF Cancel, waits
<1>6. CASE Restart
  <2>1. \A r \in Requests : exec'[r] # "fanout" /\ (exec'[r] \in {"none", "start"}
                                                  => exec'[r] = exec[r])
    BY <1>6 DEF Restart, TypeOK
  <2>2. UNCHANGED work /\ \A c \in Clients : waiter'[c] = NoOne
    BY <1>6 DEF Restart
  <2> QED
    BY <2>1, <2>2, RequestsAssumption DEF Waits, InTransfer
<1>7. CASE UNCHANGED vars
  BY <1>1, <1>7 DEF vars, waits
<1> QED
  BY <1>2, <1>3, <1>4, <1>5, <1>6, <1>7 DEF Next

(* A result queue is registered exactly while its transfer is under way.    *)
THEOREM WaitersAreUsed == Spec => []WaitersHaveWorkers
<1>1. Waits => WaitersHaveWorkers
  BY DEF Waits, WaitersHaveWorkers, InTransfer
<1> QED
  BY <1>1, TypeInit, TypeNext, OneInit, OneNext, WaitsInit, WaitsNext, PTL DEF Spec

-----------------------------------------------------------------------------
(* Kept successes.  A client answers once, so every copy of an answer is    *)
(* the same; it succeeds only when the whole package has arrived, and a     *)
(* worker that failed had not got that answer, nor will.                    *)

Heard ==
  /\ \A c \in Clients : /\ result[c] # "none" => result[c] = said[c]
                        /\ reader[c] # "none" => reader[c] = said[c]
  /\ \A r \in Requests, c \in Clients : box[r][c] # "empty" => box[r][c] = said[c]
  /\ \A r \in Requests, c \in Clients :
       work[r][c] = "streaming" => session[c] # "full" /\ said[c] # "SUCCESS"
  /\ \A r \in Requests, c \in Clients : work[r][c] = "failed" => box[r][c] # "SUCCESS"

LEMMA HeardInit == Init => Heard
BY DEF Init, Heard, NoWork

(* A step of the server that neither fills a session nor hands an answer on. *)
LEMMA HeardFrame ==
  ASSUME Heard, UNCHANGED <<said, box>>,
         \A c \in Clients : /\ result'[c] \in {result[c], "none"}
                            /\ reader'[c] \in {reader[c], result[c], "none"}
                            /\ session'[c] = "full" => session[c] = "full",
         \A r \in Requests, c \in Clients :
           /\ work'[r][c] = "streaming" => work[r][c] = "streaming"
           /\ work'[r][c] = "failed" => work[r][c] = "failed" \/ box[r][c] # "SUCCESS"
  PROVE  Heard'
BY DEF Heard

LEMMA HeardNext == TypeOK /\ OneDispatcher /\ Said /\ Waits /\ Heard /\ [Next]_vars => Heard'
<1> SUFFICES ASSUME TypeOK, OneDispatcher, Said, Waits, Heard, [Next]_vars PROVE Heard'
  OBVIOUS
<1>1. ASSUME NEW r \in Requests, Post(r) PROVE Heard'
  <2>1. UNCHANGED <<said, box, session, result, reader>>
    BY <1>1 DEF Post, Look, Create, CreateFindsRow, waits, network
  <2>2. \A q \in Requests, c \in Clients :
          work'[q][c] = work[q][c] \/ work'[q][c] \in {"none", "queued"}
    <3>1. CASE UNCHANGED work
      BY <3>1
    <3>2. ASSUME NEW w, w \in {[c \in Clients |-> "queued"], NoWork},
                 work' = [work EXCEPT ![r] = w]
          PROVE  \A q \in Requests, c \in Clients :
                   work'[q][c] = work[q][c] \/ work'[q][c] \in {"none", "queued"}
      <4>1. \A q \in Requests : work'[q] = IF q = r THEN w ELSE work[q]
        BY <3>2 DEF TypeOK
      <4>2. \A c \in Clients : w[c] \in {"none", "queued"}
        BY <3>2 DEF NoWork
      <4> QED
        BY <4>1, <4>2
    <3> QED
      BY <1>1, <3>1, <3>2 DEF Post, Look, Create, CreateFindsRow, FoundTargets
  <2> QED
    BY <2>1, <2>2, HeardFrame
<1>2. ASSUME NEW r \in Requests, Execute(r) PROVE Heard'
  <2>1. CASE Start(r) \/ Finish(r)
    BY <2>1, HeardFrame DEF Start, Finish, waits, network
  <2>2. ASSUME NEW c \in Clients, NEW s, Moves(r, c, s), s # "streaming",
               s = "failed" => box[r][c] # "SUCCESS",
               UNCHANGED <<said, box, session, result, reader>>
        PROVE  Heard'
    <3>1. \A q \in Requests, d \in Clients :
            work'[q][d] = IF q = r /\ d = c THEN s ELSE work[q][d]
      BY <2>2, MovesValue
    <3> QED
      BY <2>2, <3>1, HeardFrame
  <2>3. ASSUME NEW c \in Clients, work[r][c] = "queued"
        PROVE  /\ said[c] = "none" /\ result[c] = "none" /\ reader[c] = "none"
               /\ \A q \in Requests : box[q][c] = "empty"
               /\ \A q \in Requests \ {r} : work[q][c] = "none"
    <3>1. said[c] = "none"
      BY <2>3 DEF Said, QuietBefore
    <3>2. "none" \notin Verdicts
      BY DEF Verdicts
    <3>3. \A q \in Requests : box[q][c] = "empty"
      BY <3>1, <3>2 DEF Heard, TypeOK
    <3>4. result[c] = "none" /\ reader[c] = "none"
      BY <3>1, <3>2 DEF Heard, TypeOK
    <3>5. \A q \in Requests \ {r} : work[q][c] = "none"
      BY <2>3 DEF OneDispatcher, HasTargets
    <3> QED
      BY <3>1, <3>3, <3>4, <3>5
  <2>4. ASSUME NEW c \in Clients, RunCommand(r, c) PROVE Heard'
    <3>1. work[r][c] = "queued" /\ UNCHANGED <<box, session, result, reader>>
      BY <2>4 DEF RunCommand, Working, waits
    <3>2. CASE Moves(r, c, "failed") /\ UNCHANGED said
      BY <2>2, <2>3, <3>1, <3>2
    <3>3. CASE Moves(r, c, "ok") /\ said' = [said EXCEPT ![c] = "SUCCESS"]
      <4>1. \A q \in Requests, d \in Clients :
              work'[q][d] = IF q = r /\ d = c THEN "ok" ELSE work[q][d]
        BY <3>3, MovesValue
      <4>2. \A d \in Clients \ {c} : said'[d] = said[d]
        BY <3>3 DEF TypeOK
      <4>3. /\ result[c] = "none" /\ reader[c] = "none"
            /\ \A q \in Requests : box[q][c] = "empty" /\ work'[q][c] \in {"ok", "none"}
        BY <2>3, <3>1, <4>1
      <4>4. \A q \in Requests, d \in Clients \ {c} : work'[q][d] = work[q][d]
        BY <4>1
      <4> QED
        BY <3>1, <4>2, <4>3, <4>4 DEF Heard
    <3> QED
      BY <2>4, <3>2, <3>3 DEF RunCommand
  <2>5. ASSUME NEW c \in Clients, InitFails(r, c) PROVE Heard'
    <3>1. /\ work[r][c] = "queued" /\ Moves(r, c, "failed")
          /\ UNCHANGED <<said, box, session, result, reader>>
      BY <2>5 DEF InitFails, Working, waits, network
    <3> QED
      BY <2>2, <2>3, <3>1
  <2>6. ASSUME NEW c \in Clients, InitReady(r, c) PROVE Heard'
    <3>1. /\ work[r][c] = "queued" /\ Moves(r, c, "streaming")
          /\ session' = [session EXCEPT ![c] = "open"]
          /\ box' = [box EXCEPT ![r][c] = "empty"]
          /\ UNCHANGED <<said, result, reader>>
      BY <2>6 DEF InitReady, Working
    <3>2. \A q \in Requests, d \in Clients :
            work'[q][d] = IF q = r /\ d = c THEN "streaming" ELSE work[q][d]
      BY <3>1, MovesValue
    <3>3. \A d \in Clients : session'[d] = IF d = c THEN "open" ELSE session[d]
      BY <3>1 DEF TypeOK
    <3>4. \A q \in Requests, d \in Clients :
            box'[q][d] = IF q = r /\ d = c THEN "empty" ELSE box[q][d]
      BY <3>1 DEF TypeOK
    <3>5. said[c] = "none"
      BY <2>3, <3>1
    <3> QED
      BY <3>1, <3>2, <3>3, <3>4, <3>5 DEF Heard
  <2>7. ASSUME NEW c \in Clients, StreamAll(r, c) PROVE Heard'
    <3>1. /\ work[r][c] = "streaming" /\ Moves(r, c, "waiting")
          /\ UNCHANGED <<said, box, result, reader>>
          /\ \A d \in Clients \ {c} : session'[d] = session[d]
      BY <2>7 DEF StreamAll, Working, waits, TypeOK
    <3>2. \A q \in Requests, d \in Clients :
            work'[q][d] = IF q = r /\ d = c THEN "waiting" ELSE work[q][d]
      BY <3>1, MovesValue
    <3>3. \A q \in Requests \ {r} : work[q][c] = "none"
      BY <3>1 DEF OneDispatcher, HasTargets
    <3>4. \A q \in Requests, d \in Clients : work'[q][d] = "streaming" => d # c
      BY <3>2, <3>3
    <3> QED
      BY <3>1, <3>2, <3>4 DEF Heard
  <2>8. ASSUME NEW c \in Clients, StreamBreaks(r, c) \/ TimesOut(r, c) PROVE Heard'
    <3>1. Moves(r, c, "failed") /\ UNCHANGED <<said, box, session, result, reader>>
      BY <2>8 DEF StreamBreaks, TimesOut, network
    <3>2. box[r][c] # "SUCCESS"
      BY <2>8 DEF StreamBreaks, TimesOut, Working, Expires, Heard
    <3> QED
      BY <2>2, <3>1, <3>2
  <2>9. ASSUME NEW c \in Clients, GetsResult(r, c) PROVE Heard'
    <3>1. CASE box[r][c] = "SUCCESS"
      BY <2>2, <2>9, <3>1 DEF GetsResult, Deployed, network
    <3>2. CASE box[r][c] # "SUCCESS"
      BY <2>2, <2>9, <3>2 DEF GetsResult, Deployed, network
    <3> QED
      BY <3>1, <3>2
  <2> QED
    BY <1>2, <2>1, <2>4, <2>5, <2>6, <2>7, <2>8, <2>9 DEF Execute, Transfer
<1>3. ASSUME NEW c \in Clients, ClientStep(c) PROVE Heard'
  <2>1. ASSUME NEW v \in Verdicts, session[c] # "none", v = "SUCCESS" => session[c] = "full",
               Answer(c, v)
        PROVE  Heard'
    <3>1. said[c] = "none" /\ "none" \notin Verdicts
      BY <2>1 DEF Said, Verdicts
    <3>2. /\ reader[c] = "none" /\ UNCHANGED <<work, box, reader>>
          /\ \A r \in Requests : box[r][c] = "empty"
      BY <2>1, <3>1 DEF Answer, Heard, TypeOK, waits
    <3>3. \A d \in Clients : /\ session'[d] = IF d = c THEN "none" ELSE session[d]
                             /\ result'[d] = IF d = c THEN v ELSE result[d]
                             /\ said'[d] = IF d = c THEN v ELSE said[d]
      BY <2>1 DEF Answer, TypeOK
    <3>4. \A r \in Requests : work[r][c] = "streaming" => v # "SUCCESS"
      BY <2>1 DEF Heard
    <3> QED
      BY <3>2, <3>3, <3>4 DEF Heard
  <2>2. CASE ClientFails(c) \/ ClientVerifies(c)
    BY <2>1, <2>2 DEF ClientFails, ClientVerifies, Verdicts
  <2>3. CASE StoreResult(c)
    <3>1. \A d \in Clients : /\ reader'[d] \in {reader[d], result[d]}
                             /\ result'[d] \in {result[d], "none"}
      BY <2>3 DEF StoreResult, TypeOK
    <3>2. UNCHANGED <<work, box, session, said>>
      BY <2>3 DEF StoreResult, waits
    <3> QED
      BY <3>1, <3>2, HeardFrame
  <2>4. CASE HandOver(c)
    <3>1. /\ UNCHANGED <<work, result, session, said>>
          /\ reader[c] # "none" /\ reader' = [reader EXCEPT ![c] = "none"]
      BY <2>4 DEF HandOver, network
    <3>2. \A d \in Clients : reader'[d] \in {reader[d], "none"}
      BY <3>1 DEF TypeOK
    <3>3. CASE UNCHANGED box
      BY <3>1, <3>2, <3>3, HeardFrame
    <3>4. CASE waiter[c] # NoOne /\ box' = [box EXCEPT ![waiter[c]][c] = reader[c]]
      <4> DEFINE q == waiter[c]
      <4>1. q \in Requests /\ work[q][c] \in {"streaming", "waiting"}
        BY <3>4 DEF Waits, InTransfer, TypeOK
      <4>2. \A r \in Requests, d \in Clients :
              box'[r][d] = IF r = q /\ d = c THEN reader[c] ELSE box[r][d]
        BY <3>4, <4>1 DEF TypeOK
      <4> HIDE DEF q
      <4>3. reader[c] = said[c]
        BY <3>1 DEF Heard
      <4> QED
        BY <3>1, <3>2, <4>1, <4>2, <4>3 DEF Heard
    <3> QED
      BY <2>4, <3>3, <3>4 DEF HandOver
  <2> QED
    BY <1>3, <2>2, <2>3, <2>4 DEF ClientStep
<1>4. CASE Cancel
  BY <1>4, HeardFrame DEF Cancel, waits, network
<1>5. CASE Restart
  <2>1. /\ UNCHANGED <<work, box, said>>
        /\ \A c \in Clients : result'[c] = "none" /\ reader'[c] = "none" /\ session'[c] = "none"
    BY <1>5 DEF Restart
  <2> QED
    BY <2>1, HeardFrame
<1>6. CASE UNCHANGED vars
  BY <1>6, HeardFrame DEF vars, waits, network
<1> QED
  BY <1>1, <1>2, <1>3, <1>4, <1>5, <1>6 DEF Next

(* A success that shows is taken back only by an execution whose worker was *)
(* never given the client's answer.                                         *)
THEOREM SuccessStays == Spec => SuccessIsKept
<1>1. ASSUME TypeOK, Said, Heard, [Next]_vars, NEW c \in Clients,
             target[c] = "SUCCESS", target'[c] # "SUCCESS"
      PROVE  \E r \in Requests : Sent(r, c) /\ box[r][c] = "empty"
  <2>1. said[c] = "SUCCESS" /\ action # "none"
    BY <1>1 DEF Said, QuietBefore
  <2>2. PICK r \in Requests : Finish(r)
    <3>1. ASSUME NEW r \in Requests, Create(r) PROVE FALSE
      BY <2>1, <3>1 DEF Create
    <3>2. ASSUME NEW r \in Requests, NEW d \in Clients, InitReady(r, d) PROVE FALSE
      <4>1. d # c
        BY <1>1, <2>1, <3>2 DEF InitReady, Working, Said, QuietBefore
      <4> QED
        BY <1>1, <3>2, <4>1 DEF InitReady, TypeOK
    <3>3. ASSUME NEW d \in Clients, StoreResult(d) PROVE FALSE
      <4>1. d = c => result[d] = "SUCCESS"
        BY <1>1, <2>1, <3>3 DEF StoreResult, Heard
      <4> QED
        BY <1>1, <3>3, <4>1 DEF StoreResult, StoredStatus, TypeOK
    <3>4. ASSUME UNCHANGED target PROVE FALSE
      BY <1>1, <3>4
    <3>5. ASSUME NEW r \in Requests, Look(r) \/ CreateFindsRow(r) \/ Start(r) PROVE FALSE
      BY <3>4, <3>5 DEF Look, CreateFindsRow, Start, rows
    <3>6. ASSUME NEW r \in Requests, NEW d \in Clients,
                 RunCommand(r, d) \/ InitFails(r, d) \/ Transfer(r, d)
          PROVE  FALSE
      BY <3>4, <3>6 DEF RunCommand, InitFails, Transfer, StreamAll, StreamBreaks, TimesOut,
                        GetsResult, rows
    <3>7. ASSUME NEW d \in Clients, ClientFails(d) \/ ClientVerifies(d) \/ HandOver(d)
          PROVE  FALSE
      BY <3>4, <3>7 DEF ClientFails, ClientVerifies, HandOver, Answer, rows
    <3>8. CASE Cancel \/ Restart \/ UNCHANGED vars
      BY <3>4, <3>8 DEF Cancel, Restart, vars, rows
    <3> QED
      BY <1>1, <3>1, <3>2, <3>3, <3>5, <3>6, <3>7, <3>8 DEF Next, Post, Execute, ClientStep
  <2>3. target'[c] = TargetStatus(r, c)
    BY <2>2 DEF Finish, FinishWritten
  <2>4. work[r][c] \notin {"none", "ok"}
    BY <1>1, <2>3 DEF TargetStatus
  <2>5. work[r][c] = "failed"
    BY <2>2, <2>4 DEF Finish, AllAnswered, Targets
  <2>6. box[r][c] = "empty"
    BY <1>1, <2>1, <2>5 DEF Heard
  <2> QED
    BY <2>5, <2>6 DEF Sent
<1>2. TypeOK /\ Said /\ Heard /\ [Next]_vars
        => [\A c \in Clients : target[c] = "SUCCESS" /\ target'[c] # "SUCCESS"
              => \E r \in Requests : Sent(r, c) /\ box[r][c] = "empty"]_vars
  BY <1>1
<1> QED
  BY <1>2, TypeInit, TypeNext, OneInit, OneNext, SaidInit, SaidNext, WaitsInit, WaitsNext,
     HeardInit, HeardNext, PTL DEF Spec, SuccessIsKept

-----------------------------------------------------------------------------
(* Summaries.  An execution has all of the targets or none of them, so what *)
(* its summary counts is what its transaction writes.                       *)

AllOrNone == \A r \in Requests : Targets(r) \in {{}, Clients}

LEMMA AllOrNoneInit == Init => AllOrNone
BY DEF Init, AllOrNone, Targets, NoWork

LEMMA AllOrNoneNext == TypeOK /\ AllOrNone /\ [Next]_vars => AllOrNone'
<1> SUFFICES ASSUME TypeOK, AllOrNone, [Next]_vars PROVE AllOrNone'
  OBVIOUS
<1>1. ASSUME UNCHANGED work PROVE AllOrNone'
  BY <1>1 DEF AllOrNone, Targets
<1>2. ASSUME NEW r \in Requests, NEW w, w \in {[c \in Clients |-> "queued"], NoWork},
             work' = [work EXCEPT ![r] = w]
      PROVE  AllOrNone'
  <2>1. work'[r] = w /\ \A q \in Requests \ {r} : work'[q] = work[q]
    BY <1>2 DEF TypeOK
  <2>2. Targets(r)' \in {{}, Clients}
    BY <1>2, <2>1 DEF Targets, NoWork
  <2>3. \A q \in Requests \ {r} : Targets(q)' = Targets(q)
    BY <2>1 DEF Targets
  <2> QED
    BY <2>2, <2>3 DEF AllOrNone
<1>3. ASSUME NEW r \in Requests, NEW c \in Clients, NEW s \in WorkSteps,
             work[r][c] # "none", s # "none", Moves(r, c, s)
      PROVE  AllOrNone'
  <2>1. \A q \in Requests : Targets(q)' = Targets(q)
    BY <1>3, MovesValue DEF Targets
  <2> QED
    BY <2>1 DEF AllOrNone
<1>4. ASSUME NEW r \in Requests, Post(r) PROVE AllOrNone'
  <2>1. CASE Create(r)
    BY <2>1, <1>2 DEF Create
  <2>2. CASE ~ Create(r)
    BY <1>4, <2>2, <1>1, <1>2 DEF Post, Look, CreateFindsRow, FoundTargets
  <2> QED
    BY <2>1, <2>2
<1>5. ASSUME NEW r \in Requests, Execute(r) PROVE AllOrNone'
  <2>1. CASE Start(r) \/ Finish(r)
    BY <2>1, <1>1 DEF Start, Finish
  <2>2. CASE ~ Start(r) /\ ~ Finish(r)
    <3>1. PICK c \in Clients, s \in WorkSteps :
            work[r][c] # "none" /\ s # "none" /\ Moves(r, c, s)
      BY <1>5, <2>2, ExecuteMoves
    <3> QED
      BY <3>1, <1>3
  <2> QED
    BY <2>1, <2>2
<1>6. ASSUME NEW c \in Clients, ClientStep(c) PROVE AllOrNone'
  BY <1>6, <1>1 DEF ClientStep, ClientFails, ClientVerifies, Answer, StoreResult, HandOver
<1>7. CASE Cancel \/ Restart \/ UNCHANGED vars
  BY <1>7, <1>1 DEF Cancel, Restart, vars
<1> QED
  BY <1>4, <1>5, <1>6, <1>7 DEF Next

(* Only the transaction of an execution ends its fan-out.                   *)
LEMMA OnlyFinishEnds ==
  ASSUME TypeOK, Next, NEW r \in Requests, exec[r] = "fanout", exec'[r] = "done"
  PROVE  Finish(r)
<1>1. ASSUME NEW q \in Requests, Post(q) PROVE exec'[r] = "fanout" \/ exec'[r] = "start"
  BY <1>1 DEF Post, Look, Create, CreateFindsRow, TypeOK
<1>2. ASSUME NEW q \in Requests, Execute(q), ~ Finish(r) PROVE exec'[r] # "done"
  <2>1. CASE Start(q)
    BY <2>1 DEF Start, TypeOK
  <2>2. CASE Finish(q)
    BY <1>2, <2>2 DEF Finish, TypeOK
  <2>3. CASE ~ Start(q) /\ ~ Finish(q)
    <3>1. UNCHANGED exec
      BY <1>2, <2>3 DEF Execute, RunCommand, InitFails, InitReady, Transfer, StreamAll,
                        StreamBreaks, TimesOut, GetsResult
    <3> QED
      BY <3>1
  <2> QED
    BY <2>1, <2>2, <2>3
<1>3. ASSUME NEW c \in Clients, ClientStep(c) PROVE UNCHANGED exec
  BY <1>3 DEF ClientStep, ClientFails, ClientVerifies, Answer, StoreResult, HandOver
<1>4. Cancel => UNCHANGED exec
  BY DEF Cancel
<1>5. Restart => exec'[r] = "dead"
  BY DEF Restart
<1> QED
  BY <1>1, <1>2, <1>3, <1>4, <1>5 DEF Next

(* For any number of targets and of requests with one id: a SUCCESS of an   *)
(* execution leaves no known target behind, a FAILED leaves none that       *)
(* succeeded.                                                               *)
THEOREM SummaryIsFaithful == Spec => SummaryIsTrue
<1> DEFINE Faithful == \A r \in Requests :
      exec[r] = "fanout" /\ exec'[r] = "done" /\ Targets(r) # {}
        => /\ action' = "SUCCESS" => \A c \in Clients : target'[c] \in {"SUCCESS", "none"}
           /\ action' = "FAILED"  => \A c \in Clients : target'[c] \in {"FAILED", "none"}
<1>1. TypeOK /\ AllOrNone /\ [Next]_vars => [Faithful]_vars
  <2> SUFFICES ASSUME TypeOK, AllOrNone, Next, NEW r \in Requests,
                      exec[r] = "fanout", exec'[r] = "done", Targets(r) # {}
               PROVE  /\ action' = "SUCCESS" =>
                           \A c \in Clients : target'[c] \in {"SUCCESS", "none"}
                      /\ action' = "FAILED" =>
                           \A c \in Clients : target'[c] \in {"FAILED", "none"}
    OBVIOUS
  <2>1. Finish(r)
    BY OnlyFinishEnds
  <2> DEFINE ok == {c \in Targets(r) : work[r][c] = "ok"}
  <2>2. /\ action' = Summary(r) /\ AllAnswered(r)
        /\ \A c \in Clients : target'[c] = TargetStatus(r, c)
    BY <2>1 DEF Finish, FinishWritten
  <2>3. Targets(r) = Clients
    BY DEF AllOrNone
  <2>4. ASSUME NEW c \in Clients
        PROVE  target'[c] = IF target[c] = "none" THEN "none"
                            ELSE IF c \in ok THEN "SUCCESS" ELSE "FAILED"
    <3>1. work[r][c] # "none" /\ (c \in ok <=> work[r][c] = "ok")
      BY <2>3, <2>4 DEF Targets
    <3>2. TargetStatus(r, c) = IF target[c] = "none" THEN "none"
                               ELSE IF work[r][c] = "ok" THEN "SUCCESS" ELSE "FAILED"
      BY <3>1 DEF TargetStatus
    <3> HIDE DEF ok
    <3> QED
      BY <2>2, <2>4, <3>1, <3>2
  <2>5. ok # {} => action' # "FAILED"
    BY <2>2 DEF Summary
  <2>6. ok # Targets(r) => action' # "SUCCESS"
    BY <2>2 DEF Summary
  <2> QED
    BY <2>3, <2>4, <2>5, <2>6
<1> QED
  BY <1>1, TypeInit, TypeNext, AllOrNoneInit, AllOrNoneNext, PTL DEF Spec, SummaryIsTrue

-----------------------------------------------------------------------------
(***************************************************************************)
(* ClientUpdate.                                                           *)
(***************************************************************************)

(* What ClientUpdate assumes of packages, names and bounds.                 *)
LEMMA PackageBounds ==
  ASSUME U!PackagesAssumption, U!NamesAssumption, U!BoundsAssumption
  PROVE  /\ PackageOf \in [Actions -> Packages]
         /\ OperationOf \in [Actions -> {"UPDATE_CLIENT", "DEPLOY_PACKAGE", "SEND_FILE"}]
         /\ Contents \in [Packages -> {"sound", "invalid", "mislabelled"}]
         /\ U!NoFile \notin Actions
         /\ Packages \cap {"first", "unknown", "none", "nothing"} = {}
         /\ Chunks \in Nat \ {0} /\ LocksOpenFiles \in BOOLEAN /\ MaxFaults \in Nat
BY DEF U!PackagesAssumption, U!NamesAssumption, U!BoundsAssumption

-----------------------------------------------------------------------------
(* Types.  A tree is nothing, or a part or the whole of a version.          *)

RealTrees == [of : U!Versions, whole : BOOLEAN] \cup {U!NoTree}
Failures  == {"none", "APPLICATION_START_FAILED", "INVALID_PACKAGE",
              "DEPENDENCY_INSTALL_FAILED", "VERSION_INVALID"}
Results   == {"none", "COMPLETED", "UPDATE_FAILED", "rolled back", "ROLLBACK"}
Processes == [at : U!Steps, old : U!Versions \cup {"none"}, failure : Failures, result : Results]

FilesTyped ==
  /\ transfer \in [Actions -> {"new", "open", "staged", "failed"}]
  /\ received \in [Actions -> 0 .. Chunks]
  /\ part \in [Packages -> Actions \cup {U!NoFile}]
  /\ final \in [U!Places \X Packages -> Actions \cup {U!NoFile}]
  /\ current \in Packages \cup {U!NoFile}
InstallTyped ==
  /\ app \in RealTrees /\ history \in [U!Versions -> RealTrees]
  /\ agents \subseteq U!Versions \X (Actions \cup {"logon"})
UpdaterTyped == updater \in [Actions -> Processes]
PastTyped ==
  /\ faults \in 0 .. MaxFaults
  /\ alone \subseteq Actions /\ before \in [Actions -> RealTrees]
Typed == FilesTyped /\ InstallTyped /\ UpdaterTyped /\ PastTyped

LEMMA TypedIsTyped == Typed => U!TypeOK
<1>1. RealTrees \subseteq U!Trees
  <2>1. U!NoTree \in U!Trees
    BY DEF U!NoTree, U!Trees
  <2>2. [of : U!Versions, whole : BOOLEAN] \subseteq U!Trees
    BY DEF U!Trees
  <2> QED
    BY <2>1, <2>2 DEF RealTrees
<1>2. SUFFICES ASSUME Typed PROVE U!TypeOK
  OBVIOUS
<1>3. app \in U!Trees /\ history \in [U!Versions -> U!Trees] /\ before \in [Actions -> U!Trees]
  BY <1>1, <1>2 DEF Typed, InstallTyped, PastTyped
<1> QED
  BY <1>2, <1>3 DEF Typed, FilesTyped, InstallTyped, UpdaterTyped, PastTyped, U!TypeOK,
                    Processes, Failures, Results

LEMMA TreeFacts ==
  ASSUME U!BoundsAssumption, U!NamesAssumption, U!PackagesAssumption
  PROVE  /\ \A v \in U!Versions : U!Tree(v) \in RealTrees /\ U!Tree(v) # U!NoTree
    /\ \A t \in RealTrees \ {U!NoTree} :
         /\ t.of \in U!Versions /\ t.whole \in BOOLEAN
         /\ U!Part(t) \in RealTrees /\ U!Part(t) # U!NoTree /\ ~ U!Part(t).whole
    /\ U!NoTree \in RealTrees /\ "none" \notin U!Versions /\ U!NoTree.whole = FALSE
    /\ Packages \subseteq U!Versions /\ "unknown" \in U!Versions /\ "first" \in U!Versions
<1>1. /\ "none" \notin U!Versions /\ "nothing" \notin U!Versions
      /\ Packages \subseteq U!Versions /\ "unknown" \in U!Versions /\ "first" \in U!Versions
  BY PackageBounds DEF U!Versions
<1>2. \A v \in U!Versions : U!Tree(v) \in RealTrees /\ U!Tree(v) # U!NoTree
  BY <1>1 DEF U!Tree, RealTrees, U!NoTree
<1>3. ASSUME NEW t \in RealTrees \ {U!NoTree}
      PROVE  /\ t.of \in U!Versions /\ t.whole \in BOOLEAN
             /\ U!Part(t) \in RealTrees /\ U!Part(t) # U!NoTree /\ ~ U!Part(t).whole
  <2>1. t \in [of : U!Versions, whole : BOOLEAN]
    BY <1>3 DEF RealTrees
  <2>2. U!Part(t) \in [of : U!Versions, whole : BOOLEAN] /\ U!Part(t).of = t.of /\ ~ U!Part(t).whole
    BY <2>1 DEF U!Part
  <2>3. t.of # "nothing" /\ U!NoTree.of = "nothing"
    BY <1>1, <2>1 DEF U!NoTree
  <2>4. U!Part(t) # U!NoTree
    BY <2>2, <2>3
  <2> QED
    BY <2>1, <2>2, <2>4 DEF RealTrees
<1> QED
  BY <1>1, <1>2, <1>3 DEF RealTrees, U!NoTree

(* What the steps of an updater need of it most often.                      *)
LEMMA VersionFacts ==
  ASSUME U!BoundsAssumption, U!NamesAssumption, U!PackagesAssumption
  PROVE  /\ U!NoTree \in RealTrees /\ U!Tree("first") \in RealTrees
         /\ "none" \notin U!Versions /\ "first" \in U!Versions /\ Packages \subseteq U!Versions
<1>1. "none" \notin U!Versions /\ "first" \in U!Versions /\ Packages \subseteq U!Versions
  BY PackageBounds DEF U!Versions
<1> QED
  BY <1>1 DEF RealTrees, U!Tree

(* What a step does to the process of one updater.                          *)
Becomes(u, at, old, failure, outcome) ==
  /\ updater' \in [Actions -> Processes]
  /\ updater'[u].at = at /\ updater'[u].old = old
  /\ updater'[u].failure = failure /\ updater'[u].result = outcome
  /\ \A v \in Actions \ {u} : updater'[v] = updater[v]

LEMMA Sets ==
  ASSUME UpdaterTyped, NEW u \in Actions, NEW r \in Processes, updater' = [updater EXCEPT ![u] = r]
  PROVE  Becomes(u, r.at, r.old, r.failure, r.result)
BY DEF UpdaterTyped, Becomes

LEMMA GoesSets ==
  ASSUME UpdaterTyped, NEW u \in Actions, NEW step \in U!Steps, U!Goes(u, step)
  PROVE  Becomes(u, step, updater[u].old, updater[u].failure, updater[u].result)
<1> DEFINE r == [updater[u] EXCEPT !.at = step]
<1>1. updater[u] \in Processes /\ updater' = [updater EXCEPT ![u] = r]
  BY DEF U!Goes, UpdaterTyped
<1>2. /\ r \in Processes /\ r.at = step /\ r.old = updater[u].old
      /\ r.failure = updater[u].failure /\ r.result = updater[u].result
  BY <1>1 DEF Processes
<1> HIDE DEF r
<1>3. Becomes(u, r.at, r.old, r.failure, r.result)
  BY <1>1, <1>2, Sets
<1> QED
  BY <1>2, <1>3

LEMMA FailsSets ==
  ASSUME UpdaterTyped, NEW u \in Actions, NEW failure \in Failures, U!Fails(u, failure)
  PROVE  /\ U!HasBackup(u) =>
              Becomes(u, "clear for rollback", updater[u].old, failure, updater[u].result)
         /\ ~ U!HasBackup(u) => Becomes(u, "done", updater[u].old, failure, "UPDATE_FAILED")
<1> DEFINE b == U!HasBackup(u)
           r == [updater[u] EXCEPT !.failure = failure,
                                   !.at      = IF b THEN "clear for rollback" ELSE "done",
                                   !.result  = IF b THEN @ ELSE "UPDATE_FAILED"]
<1>1. updater[u] \in Processes /\ updater' = [updater EXCEPT ![u] = r]
  BY DEF U!Fails, UpdaterTyped
<1>2. /\ r \in Processes /\ r.old = updater[u].old /\ r.failure = failure
      /\ b => r.at = "clear for rollback" /\ r.result = updater[u].result
      /\ ~ b => r.at = "done" /\ r.result = "UPDATE_FAILED"
  <2> HIDE DEF b
  <2> QED
    BY <1>1 DEF Processes, U!Steps, Results
<1> HIDE DEF b, r
<1>3. Becomes(u, r.at, r.old, r.failure, r.result)
  BY <1>1, <1>2, Sets
<1> QED
  BY <1>2, <1>3 DEF b

LEMMA RollbackFailsSets ==
  ASSUME UpdaterTyped, NEW u \in Actions, U!RollbackFails(u)
  PROVE  Becomes(u, "done", updater[u].old, updater[u].failure, "ROLLBACK")
<1> DEFINE r == [updater[u] EXCEPT !.at = "done", !.result = "ROLLBACK"]
<1>1. updater[u] \in Processes /\ updater' = [updater EXCEPT ![u] = r]
  BY DEF U!RollbackFails, UpdaterTyped
<1>2. /\ r \in Processes /\ r.at = "done" /\ r.old = updater[u].old
      /\ r.failure = updater[u].failure /\ r.result = "ROLLBACK"
  BY <1>1 DEF Processes, U!Steps, Results
<1> HIDE DEF r
<1>3. Becomes(u, r.at, r.old, r.failure, r.result)
  BY <1>1, <1>2, Sets
<1> QED
  BY <1>2, <1>3
-----------------------------------------------------------------------------
(* An updater that no other one overlaps.  Progress says, step by step,     *)
(* where the tree of before is, in app/ or in its backup.                   *)

Forward  == {"validate", "stop", "clear backup", "backup", "clear app", "replace",
             "dependencies", "start", "verify"}
Saved    == {"clear app", "replace", "dependencies", "start", "verify"}
Backward == {"clear for rollback", "roll back", "restart"}

(* The backup has a name once the package is valid.                         *)
Named(u) == updater[u].at \in (Forward \ {"validate"}) \cup Backward
              => updater[u].old \in U!Versions

Progress(u) == LET s == updater[u] IN
  /\ s.at \in Forward => s.failure = "none"
  /\ s.at # "done" => s.result = "none" /\ s.failure # "INVALID_PACKAGE"
  /\ s.at = "validate" => s.old = "none"
  /\ s.at \in {"validate", "stop", "clear backup", "backup", "clear app"} => app = before[u]
  /\ s.at = "backup" => history[s.old] = U!NoTree
  /\ s.at \in Saved => history[s.old] = before[u] /\ before[u] # U!NoTree
  /\ s.at = "replace" => app = U!NoTree
  /\ s.at \in {"dependencies", "start", "verify"} => app = U!Tree(PackageOf[u])
  /\ s.at = "verify" => <<PackageOf[u], u>> \in agents
  /\ s.at \in Backward =>
       /\ history[s.old] # U!NoTree
       /\ s.failure \in {"DEPENDENCY_INSTALL_FAILED", "VERSION_INVALID"}
            => history[s.old] = before[u]
  /\ s.at = "roll back" => app = U!NoTree
  /\ s.at = "restart" => app = history[s.old]

(* Only a copy or a removal that fails leaves a part of a tree.             *)
Unbroken(t) == t = U!NoTree \/ t.whole
FaultsBreak == faults = 0 => Unbroken(app) /\ \A v \in U!Versions : Unbroken(history[v])

(* An updater is spawned once, by the end of its transfer.                  *)
Spawned == \A a \in Actions :
  /\ updater[a].at # "none" => transfer[a] \notin {"new", "open"}
  /\ updater[a].at = "none" => updater[a] = U!NotRun /\ a \notin alone
Sole == \A u \in alone \cap U!Active : U!Active = {u}

(* Where open files are locked, the .part file of a package is the one its  *)
(* only open transfer writes.                                               *)
OwnPart == LocksOpenFiles => \A a \in Actions : transfer[a] = "open" => part[PackageOf[a]] = a

Inv == /\ Typed /\ OwnPart /\ U!StagedIsVerified
       /\ (\A u \in Actions : Named(u))
       /\ Spawned /\ Sole /\ FaultsBreak /\ \A u \in alone : Progress(u)

(* What HonestResult asks of the end of one updater.                        *)
Honest(u) ==
  LET end == updater'[u] IN
  /\ end.result = "COMPLETED" =>
       /\ app' = U!Tree(PackageOf[u]) /\ Contents[PackageOf[u]] = "sound"
       /\ <<PackageOf[u], u>> \in agents'
  /\ end.failure = "INVALID_PACKAGE" => UNCHANGED U!install /\ end.result = "UPDATE_FAILED"
  /\ \/ end.failure \in {"DEPENDENCY_INSTALL_FAILED", "VERSION_INVALID"}
     \/ end.failure = "APPLICATION_START_FAILED" /\ U!BackupIsWhole(u)'
     => \/ end.result = "rolled back" /\ app' = before[u] /\ <<before[u].of, u>> \in agents'
        \/ end.result = "ROLLBACK" /\ faults' > 0

(* What a step of an updater keeps, and what it may end with.               *)
Good(u) ==
  /\ updater[u].at \notin {"none", "done"} /\ updater'[u].at # "none"
  /\ \A v \in Actions \ {u} : updater'[v] = updater[v]
  /\ UpdaterTyped' /\ InstallTyped' /\ faults' \in 0 .. MaxFaults /\ FaultsBreak' /\ Named(u)'
  /\ u \in alone => Progress(u)' /\ (U!Ends(u) => Honest(u))

(* The installation before a step of an updater.                            *)
LEMMA Trusted ==
  ASSUME U!BoundsAssumption, U!NamesAssumption, U!PackagesAssumption,
         Inv, NEW u \in Actions
  PROVE  /\ UpdaterTyped /\ InstallTyped /\ FaultsBreak
         /\ app \in RealTrees /\ \A v \in U!Versions : history[v] \in RealTrees
         /\ faults \in Nat /\ MaxFaults \in Nat /\ faults <= MaxFaults /\ faults \in 0 .. MaxFaults
         /\ Named(u) /\ before[u] \in RealTrees /\ (u \in alone => Progress(u))
         /\ updater[u] \in Processes /\ updater[u].old \in U!Versions \cup {"none"}
         /\ PackageOf[u] \in U!Versions /\ PackageOf[u] \in Packages
<1>1. updater[u] \in Processes
  BY DEF Inv, Typed, UpdaterTyped
<1>2. updater[u].old \in U!Versions \cup {"none"}
  BY <1>1 DEF Processes
<1>3. PackageOf[u] \in Packages
  BY PackageBounds
<1>4. "none" \notin U!Versions /\ Packages \subseteq U!Versions
  BY VersionFacts
<1>5. /\ InstallTyped /\ UpdaterTyped /\ FaultsBreak /\ Named(u)
      /\ u \in alone => Progress(u)
  BY DEF Inv, Typed
<1>6. /\ app \in RealTrees /\ \A v \in U!Versions : history[v] \in RealTrees
      /\ before[u] \in RealTrees /\ faults \in 0 .. MaxFaults
  BY DEF Inv, Typed, InstallTyped, PastTyped
<1>7. faults \in Nat /\ MaxFaults \in Nat /\ faults <= MaxFaults
  BY <1>6, PackageBounds
<1> QED
  BY <1>1, <1>2, <1>3, <1>4, <1>5, <1>6, <1>7
     DEF Inv, Typed, InstallTyped, PastTyped

(* A step that leaves the trees and the agents alone.                       *)
LEMMA SameInstall ==
  ASSUME U!BoundsAssumption, U!NamesAssumption, U!PackagesAssumption,
         Inv, UNCHANGED U!install, faults' \in 0 .. MaxFaults, faults' >= faults
  PROVE  InstallTyped' /\ FaultsBreak'
<1>1. InstallTyped'
  BY DEF Inv, Typed, InstallTyped, U!install
<1>2. faults \in Nat
  BY PackageBounds DEF Inv, Typed, PastTyped
<1>3. FaultsBreak'
  BY <1>2, PackageBounds DEF Inv, FaultsBreak, U!install
<1> QED
  BY <1>1, <1>3

LEMMA ValidateGood ==
  ASSUME U!BoundsAssumption, U!NamesAssumption, U!PackagesAssumption,
         Inv, NEW u \in Actions, U!Validate(u)
  PROVE  Good(u)
<1>0. /\ updater[u].at = "validate" /\ UNCHANGED <<U!install, faults, before, alone>>
      /\ faults \in 0 .. MaxFaults
  BY Trusted DEF U!Validate, U!past
<1>1. InstallTyped' /\ FaultsBreak'
  BY <1>0, Trusted, SameInstall
<1>2. ASSUME NEW f \in {"APPLICATION_START_FAILED", "INVALID_PACKAGE"}, U!Fails(u, f) PROVE Good(u)
  <2>1. ~ U!HasBackup(u) => Becomes(u, "done", updater[u].old, f, "UPDATE_FAILED")
    BY <1>2, Trusted, FailsSets DEF Failures
  <2>2. U!HasBackup(u) => Becomes(u, "clear for rollback", updater[u].old, f, updater[u].result)
    BY <1>2, Trusted, FailsSets DEF Failures
  <2>3. u \in alone => updater[u].old = "none" /\ ~ U!HasBackup(u)
    BY <1>0, Trusted DEF Progress, U!HasBackup
  <2>4. u \in alone => Progress(u)'
    BY <2>1, <2>3 DEF Progress, Becomes, Forward, Saved, Backward
  <2>5. u \in alone => Honest(u)
    BY <1>0, <1>2, <2>1, <2>3 DEF Honest, Becomes, U!BackupIsWhole
  <2>6. /\ updater'[u].at # "none" /\ UpdaterTyped'
        /\ \A v \in Actions \ {u} : updater'[v] = updater[v]
    BY <2>1, <2>2 DEF Becomes, UpdaterTyped
  <2>7. Named(u)'
    BY <2>1, <2>2, Trusted DEF Becomes, U!HasBackup, Named, Forward, Backward
  <2> QED
    BY <1>0, <1>1, <2>4, <2>5, <2>6, <2>7 DEF Good
<1>3. ASSUME NEW old \in U!Installed,
             updater' = [updater EXCEPT ![u].at = "stop", ![u].old = old]
      PROVE  Good(u)
  <2>1. old \in U!Versions
    BY Trusted, TreeFacts DEF U!Installed, RealTrees, U!NoTree
  <2> DEFINE r == [updater[u] EXCEPT !.at = "stop", !.old = old]
  <2>2. /\ r \in Processes /\ r.at = "stop" /\ r.old = old
        /\ r.failure = updater[u].failure /\ r.result = updater[u].result
    BY <2>1, Trusted DEF Processes, U!Steps
  <2>3. updater' = [updater EXCEPT ![u] = r]
    BY <1>3
  <2> HIDE DEF r
  <2>4. Becomes(u, r.at, r.old, r.failure, r.result)
    BY <2>2, <2>3, Trusted, Sets
  <2>5. Becomes(u, "stop", old, updater[u].failure, updater[u].result)
    BY <2>2, <2>4
  <2>6. u \in alone => Progress(u)'
    BY <1>0, <2>1, <2>5, Trusted DEF Progress, Becomes, Forward, Saved, Backward, U!install
  <2> QED
    BY <1>0, <1>1, <2>1, <2>5, <2>6 DEF Good, Becomes, UpdaterTyped, U!Ends, Named
<1> QED
  BY <1>2, <1>3 DEF U!Validate

(* A step that ends nothing and only has to make progress.                  *)
LEMMA GoesOn ==
  ASSUME Inv, NEW u \in Actions, NEW at \in U!Steps \ {"none", "done"},
         NEW failure \in Failures, NEW old \in U!Versions, NEW outcome,
         updater[u].at \notin {"none", "done"},
         Becomes(u, at, old, failure, outcome),
         InstallTyped', faults' \in 0 .. MaxFaults, FaultsBreak',
         u \in alone => Progress(u)'
  PROVE  Good(u)
BY DEF Good, Becomes, UpdaterTyped, U!Ends, Named

LEMMA StopGood ==
  ASSUME U!BoundsAssumption, U!NamesAssumption, U!PackagesAssumption,
         Inv, NEW u \in Actions, U!StopClient(u)
  PROVE  Good(u)
<1>0. /\ updater[u].at = "stop" /\ UNCHANGED <<app, history, before>>
      /\ agents' \in {{}, agents} /\ faults' \in {faults, faults + 1}
      /\ faults' # faults => faults < MaxFaults
  BY DEF U!StopClient, U!past
<1>1. Becomes(u, "clear backup", updater[u].old, updater[u].failure, updater[u].result)
  BY Trusted, GoesSets DEF U!StopClient, U!Steps
<1>2. faults' \in 0 .. MaxFaults /\ faults' >= faults
  BY <1>0, Trusted
<1>3. InstallTyped' /\ FaultsBreak'
  BY <1>0, <1>2, Trusted DEF InstallTyped, FaultsBreak
<1>4. u \in alone => Progress(u)'
  BY <1>0, <1>1, Trusted DEF Progress, Becomes, Forward, Saved, Backward
<1>5. updater[u].failure \in Failures /\ updater[u].old \in U!Versions
  BY <1>0, Trusted DEF Processes, Named, Forward, Backward
<1> QED
  BY <1>0, <1>1, <1>2, <1>3, <1>4, <1>5, GoesOn DEF U!Steps

LEMMA ClearBackupGood ==
  ASSUME U!BoundsAssumption, U!NamesAssumption, U!PackagesAssumption,
         Inv, NEW u \in Actions, U!ClearBackup(u)
  PROVE  Good(u)
<1>0. /\ updater[u].at = "clear backup" /\ UNCHANGED <<app, agents, faults, before>>
      /\ history' = [history EXCEPT ![updater[u].old] = U!NoTree]
  BY DEF U!ClearBackup, U!past
<1> faults' \in 0 .. MaxFaults
  BY <1>0, Trusted
<1>1. Becomes(u, "backup", updater[u].old, updater[u].failure, updater[u].result)
  BY Trusted, GoesSets DEF U!ClearBackup, U!Steps
<1>2. InstallTyped'
  BY <1>0, TreeFacts, Trusted DEF InstallTyped
<1>3. FaultsBreak'
  BY <1>0, Trusted DEF FaultsBreak, Unbroken, InstallTyped
<1>4. u \in alone => Progress(u)'
  <2>1. updater[u].old \in U!Versions => history'[updater[u].old] = U!NoTree
    BY <1>0, Trusted DEF InstallTyped
  <2> QED
    BY <1>0, <1>1, <2>1, Trusted DEF Named, Progress, Becomes, Forward, Saved, Backward
<1>5. updater[u].failure \in Failures /\ updater[u].old \in U!Versions
  BY <1>0, Trusted DEF Processes, Named, Forward, Backward
<1> QED
  BY <1>0, <1>1, <1>2, <1>3, <1>4, <1>5, GoesOn DEF U!Steps

LEMMA BackupGood ==
  ASSUME U!BoundsAssumption, U!NamesAssumption, U!PackagesAssumption,
         Inv, NEW u \in Actions, U!Backup(u)
  PROVE  Good(u)
<1>0. /\ updater[u].at = "backup" /\ UNCHANGED <<app, agents, faults, before>>
      /\ app # U!NoTree /\ history' = [history EXCEPT ![updater[u].old] = app]
  BY DEF U!Backup, U!past
<1> faults' \in 0 .. MaxFaults
  BY <1>0, Trusted
<1>1. Becomes(u, "clear app", updater[u].old, updater[u].failure, updater[u].result)
  BY Trusted, GoesSets DEF U!Backup, U!Steps
<1>2. InstallTyped'
  BY <1>0, Trusted DEF InstallTyped
<1>3. FaultsBreak'
  BY <1>0, Trusted DEF FaultsBreak, Unbroken, InstallTyped
<1>4. u \in alone => Progress(u)'
  <2>1. updater[u].old \in U!Versions => history'[updater[u].old] = app
    BY <1>0, Trusted DEF InstallTyped
  <2>2. Named(u) /\ before[u] \in RealTrees /\ (u \in alone => Progress(u))
    BY Trusted
  <2> QED
    BY <1>0, <1>1, <2>1, <2>2 DEF Named, Progress, Becomes, Forward, Saved, Backward
<1>5. updater[u].failure \in Failures /\ updater[u].old \in U!Versions
  BY <1>0, Trusted DEF Processes, Named, Forward, Backward
<1> QED
  BY <1>0, <1>1, <1>2, <1>3, <1>4, <1>5, GoesOn DEF U!Steps

LEMMA ClearAppGood ==
  ASSUME U!BoundsAssumption, U!NamesAssumption, U!PackagesAssumption,
         Inv, NEW u \in Actions, U!ClearApp(u) \/ U!ClearForRollback(u)
  PROVE  Good(u)
<1>0. UNCHANGED <<history, agents, faults, before>> /\ app' = U!NoTree
  BY DEF U!ClearApp, U!ClearForRollback, U!past
<1> faults' \in 0 .. MaxFaults
  BY <1>0, Trusted
<1>1. InstallTyped'
  <2>1. U!NoTree \in RealTrees /\ InstallTyped
    BY VersionFacts, Trusted
  <2> QED
    BY <1>0, <2>1 DEF InstallTyped
<1>2. FaultsBreak'
  BY <1>0, Trusted DEF FaultsBreak, Unbroken
<1>3. updater[u].failure \in Failures /\ updater[u].old \in U!Versions
  BY Trusted DEF Processes, Named, Forward, Backward, U!ClearApp, U!ClearForRollback
<1>4. CASE U!ClearApp(u)
  <2>1. updater[u].at = "clear app"
    BY <1>4 DEF U!ClearApp
  <2>2. Becomes(u, "replace", updater[u].old, updater[u].failure, updater[u].result)
    BY <1>4, Trusted, GoesSets DEF U!ClearApp, U!Steps
  <2>3. u \in alone => Progress(u)'
    BY <1>0, <2>1, <2>2, Trusted DEF Progress, Becomes, Forward, Saved, Backward
  <2> QED
    BY <1>0, <1>1, <1>2, <1>3, <2>1, <2>2, <2>3, GoesOn DEF U!Steps
<1>5. CASE U!ClearForRollback(u)
  <2>1. updater[u].at = "clear for rollback"
    BY <1>5 DEF U!ClearForRollback
  <2>2. Becomes(u, "roll back", updater[u].old, updater[u].failure, updater[u].result)
    BY <1>5, Trusted, GoesSets DEF U!ClearForRollback, U!Steps
  <2>3. u \in alone => Progress(u)'
    BY <1>0, <2>1, <2>2, Trusted DEF Progress, Becomes, Forward, Saved, Backward
  <2> QED
    BY <1>0, <1>1, <1>2, <1>3, <2>1, <2>2, <2>3, GoesOn DEF U!Steps
<1> QED
  BY <1>4, <1>5

LEMMA ReplaceGood ==
  ASSUME U!BoundsAssumption, U!NamesAssumption, U!PackagesAssumption,
         Inv, NEW u \in Actions, U!Replace(u)
  PROVE  Good(u)
<1>0. /\ updater[u].at = "replace" /\ UNCHANGED <<history, agents, faults, before>>
      /\ app' = U!Tree(PackageOf[u]) /\ faults' \in 0 .. MaxFaults
  BY Trusted DEF U!Replace, U!past
<1>1. Becomes(u, "dependencies", updater[u].old, updater[u].failure, updater[u].result)
  BY Trusted, GoesSets DEF U!Replace, U!Steps
<1>2. InstallTyped'
  BY <1>0, TreeFacts, Trusted DEF InstallTyped
<1>3. FaultsBreak'
  BY <1>0, Trusted DEF FaultsBreak, Unbroken, U!Tree
<1>4. u \in alone => Progress(u)'
  BY <1>0, <1>1, Trusted DEF Progress, Becomes, Forward, Saved, Backward
<1>5. updater[u].failure \in Failures /\ updater[u].old \in U!Versions
  BY <1>0, Trusted DEF Processes, Named, Forward, Backward
<1> QED
  BY <1>0, <1>1, <1>2, <1>3, <1>4, <1>5, GoesOn DEF U!Steps

LEMMA StartGood ==
  ASSUME U!BoundsAssumption, U!NamesAssumption, U!PackagesAssumption,
         Inv, NEW u \in Actions, U!Start(u)
  PROVE  Good(u)
<1>0. /\ updater[u].at = "start" /\ UNCHANGED <<app, history, faults, before>>
      /\ app # U!NoTree /\ agents' = agents \cup {<<app.of, u>>} /\ faults' \in 0 .. MaxFaults
  BY Trusted DEF U!Start, U!Launched, U!past
<1>1. Becomes(u, "verify", updater[u].old, updater[u].failure, updater[u].result)
  BY Trusted, GoesSets DEF U!Start, U!Steps
<1>2. app.of \in U!Versions
  BY <1>0, Trusted, TreeFacts
<1>3. InstallTyped'
  BY <1>0, <1>2, Trusted DEF InstallTyped
<1>4. FaultsBreak'
  BY <1>0, Trusted DEF FaultsBreak
<1>5. u \in alone => Progress(u)'
  <2>1. app = U!Tree(PackageOf[u]) => <<PackageOf[u], u>> \in agents'
    BY <1>0 DEF U!Tree
  <2> QED
    BY <1>0, <1>1, <2>1, Trusted DEF Progress, Becomes, Forward, Saved, Backward
<1>6. updater[u].failure \in Failures /\ updater[u].old \in U!Versions
  BY <1>0, Trusted DEF Processes, Named, Forward, Backward
<1> QED
  BY <1>0, <1>1, <1>3, <1>4, <1>5, <1>6, GoesOn DEF U!Steps

(* A step that fails rolls back, if there is a backup to roll back to.      *)
LEMMA FailsWell ==
  ASSUME U!BoundsAssumption, U!NamesAssumption, U!PackagesAssumption,
         Inv, NEW u \in Actions,
         NEW f \in {"APPLICATION_START_FAILED", "DEPENDENCY_INSTALL_FAILED", "VERSION_INVALID"},
         U!Fails(u, f), updater[u].at \notin {"none", "done"},
         InstallTyped', faults' \in 0 .. MaxFaults, FaultsBreak', UNCHANGED before,
         u \in alone /\ U!HasBackup(u) =>
            /\ history'[updater[u].old] # U!NoTree
            /\ f # "APPLICATION_START_FAILED" => history'[updater[u].old] = before[u],
         u \in alone /\ ~ U!HasBackup(u) =>
            /\ f = "APPLICATION_START_FAILED"
            /\ updater[u].old = "none" \/ history'[updater[u].old] # before[u]
               \/ before[u] = U!NoTree
  PROVE  Good(u)
<1>1. CASE U!HasBackup(u)
  <2>1. Becomes(u, "clear for rollback", updater[u].old, f, updater[u].result)
    BY <1>1, Trusted, FailsSets DEF Failures
  <2>2. updater[u].old \in U!Versions
    BY <1>1, Trusted DEF U!HasBackup
  <2>3. u \in alone => Progress(u)'
    BY <1>1, <2>1, <2>2, Trusted DEF Progress, Becomes, Forward, Saved, Backward
  <2>4. "clear for rollback" \in U!Steps \ {"none", "done"}
    BY DEF U!Steps
  <2>5. f \in Failures
    BY DEF Failures
  <2> QED
    BY <2>1, <2>2, <2>3, <2>4, <2>5, GoesOn
<1>2. CASE ~ U!HasBackup(u)
  <2>1. Becomes(u, "done", updater[u].old, f, "UPDATE_FAILED")
    BY <1>2, Trusted, FailsSets DEF Failures
  <2>2. u \in alone => Progress(u)'
    BY <2>1 DEF Progress, Becomes, Forward, Saved, Backward
  <2>3. u \in alone => Honest(u)
    BY <1>2, <2>1 DEF Honest, Becomes, U!BackupIsWhole
  <2> QED
    BY <2>1, <2>2, <2>3 DEF Good, Becomes, UpdaterTyped, Named, Forward, Backward
<1> QED
  BY <1>1, <1>2

(* The backup of an updater that has one is saved.                          *)
LEMMA BackedUp ==
  ASSUME U!BoundsAssumption, U!NamesAssumption, U!PackagesAssumption,
         Inv, NEW u \in alone, updater[u].at \in Saved
  PROVE  /\ U!HasBackup(u) /\ history[updater[u].old] = before[u]
         /\ history[updater[u].old] # U!NoTree
<1>1. u \in Actions /\ Progress(u)
  BY DEF Inv, Typed, PastTyped
<1>2. updater[u].old \in U!Versions
  BY <1>1 DEF Inv, Named, Saved, Forward
<1>3. "none" \notin U!Versions /\ U!NoTree \in RealTrees
  BY VersionFacts
<1> QED
  BY <1>1, <1>2, <1>3 DEF Progress, U!HasBackup

LEMMA BackupFailsGood ==
  ASSUME U!BoundsAssumption, U!NamesAssumption, U!PackagesAssumption,
         Inv, NEW u \in Actions, U!BackupFails(u)
  PROVE  Good(u)
<1>0. updater[u].at = "backup" /\ UNCHANGED <<app, agents, before, alone>>
  BY DEF U!BackupFails, U!past
<1>1. CASE /\ app # U!NoTree /\ history[updater[u].old] = U!NoTree /\ U!Fault
           /\ history' = [history EXCEPT ![updater[u].old] = U!Part(app)]
           /\ updater' = [updater EXCEPT ![u].failure = "APPLICATION_START_FAILED",
                                         ![u].at = "clear for rollback"]
  <2>0. U!Fault
    BY <1>1
  <2>1. faults' \in 0 .. MaxFaults /\ faults' # 0
    BY <2>0, Trusted DEF U!Fault
  <2>2. U!Part(app) \in RealTrees /\ U!Part(app) # U!NoTree
    BY <1>1, Trusted, TreeFacts
  <2>3. InstallTyped' /\ FaultsBreak'
    BY <1>0, <1>1, <2>1, <2>2, Trusted DEF InstallTyped, FaultsBreak
  <2> DEFINE r == [updater[u] EXCEPT !.failure = "APPLICATION_START_FAILED",
                                     !.at = "clear for rollback"]
  <2>4. /\ r \in Processes /\ r.at = "clear for rollback" /\ r.old = updater[u].old
        /\ r.failure = "APPLICATION_START_FAILED" /\ r.result = updater[u].result
    BY Trusted DEF Processes, U!Steps, Failures
  <2>5. updater' = [updater EXCEPT ![u] = r]
    BY <1>1
  <2> HIDE DEF r
  <2>6. Becomes(u, r.at, r.old, r.failure, r.result)
    BY <2>4, <2>5, Trusted, Sets
  <2>7. Becomes(u, "clear for rollback", updater[u].old, "APPLICATION_START_FAILED",
                updater[u].result)
    BY <2>4, <2>6
  <2>8. updater[u].old \in U!Versions /\ history'[updater[u].old] = U!Part(app)
    BY <1>0, <1>1, Trusted DEF InstallTyped, Named, Forward
  <2>9. u \in alone => Progress(u)'
    BY <1>0, <2>2, <2>7, <2>8, Trusted DEF Progress, Becomes, Forward, Saved, Backward
  <2> QED
    BY <1>0, <2>1, <2>3, <2>7, <2>8, <2>9, GoesOn DEF U!Steps, Failures
<1>2. CASE /\ IF app # U!NoTree /\ history[updater[u].old] = U!NoTree THEN U!Fault
                                                                  ELSE UNCHANGED faults
           /\ U!Fails(u, "APPLICATION_START_FAILED") /\ UNCHANGED history
  <2>1. faults' \in 0 .. MaxFaults /\ faults' >= faults
    BY <1>2, Trusted DEF U!Fault
  <2>2. InstallTyped' /\ FaultsBreak'
    BY <1>0, <1>2, <2>1, SameInstall DEF U!install
  <2>3. u \in alone => history[updater[u].old] = U!NoTree
    BY <1>0, Trusted DEF Progress
  <2>4. u \in alone => ~ U!HasBackup(u)
    BY <2>3 DEF U!HasBackup
  <2>5. u \in alone => history'[updater[u].old] # before[u] \/ before[u] = U!NoTree
    BY <1>2, <2>3
  <2> QED
    BY <1>0, <1>2, <2>1, <2>2, <2>4, <2>5, FailsWell
<1> QED
  BY <1>1, <1>2 DEF U!BackupFails

LEMMA ReplaceFailsGood ==
  ASSUME U!BoundsAssumption, U!NamesAssumption, U!PackagesAssumption,
         Inv, NEW u \in Actions, U!ReplaceFails(u)
  PROVE  Good(u)
<1>0. /\ updater[u].at = "replace" /\ UNCHANGED <<history, agents, before>>
      /\ U!Fails(u, "APPLICATION_START_FAILED")
  BY DEF U!ReplaceFails, U!past
<1>1. InstallTyped' /\ faults' \in 0 .. MaxFaults /\ FaultsBreak'
  <2>1. CASE app = U!NoTree
    <3>1. faults' \in 0 .. MaxFaults /\ faults' # 0
      BY <2>1, Trusted DEF U!ReplaceFails, U!Fault
    <3>2. app' \in RealTrees
      BY <2>1, Trusted, TreeFacts DEF U!ReplaceFails
    <3> QED
      BY <1>0, <3>1, <3>2, Trusted DEF InstallTyped, FaultsBreak
  <2>2. CASE app # U!NoTree
    BY <1>0, <2>2, Trusted, SameInstall DEF U!ReplaceFails, U!install
  <2> QED
    BY <2>1, <2>2
<1>2. u \in alone => U!HasBackup(u) /\ history[updater[u].old] # U!NoTree
  BY <1>0, BackedUp DEF Saved
<1> QED
  BY <1>0, <1>1, <1>2, FailsWell

LEMMA DependenciesGood ==
  ASSUME U!BoundsAssumption, U!NamesAssumption, U!PackagesAssumption,
         Inv, NEW u \in Actions, U!InstallDependencies(u)
  PROVE  Good(u)
<1>0. updater[u].at = "dependencies" /\ UNCHANGED <<U!install, before>>
  BY DEF U!InstallDependencies, U!past
<1>1. CASE U!Goes(u, "start") /\ UNCHANGED faults
  <2>1. Becomes(u, "start", updater[u].old, updater[u].failure, updater[u].result)
    BY <1>1, Trusted, GoesSets DEF U!Steps
  <2>2. InstallTyped' /\ FaultsBreak' /\ faults' \in 0 .. MaxFaults
    BY <1>0, <1>1, Trusted, SameInstall
  <2>3. u \in alone => Progress(u)'
    BY <1>0, <2>1, Trusted DEF Progress, Becomes, Forward, Saved, Backward, U!install
  <2>4. updater[u].failure \in Failures /\ updater[u].old \in U!Versions
    BY <1>0, Trusted DEF Processes, Named, Forward, Backward
  <2> QED
    BY <1>0, <2>1, <2>2, <2>3, <2>4, GoesOn DEF U!Steps
<1>2. CASE U!Fault /\ U!Fails(u, "DEPENDENCY_INSTALL_FAILED")
  <2>1. faults' \in 0 .. MaxFaults /\ faults' >= faults
    BY <1>2, Trusted DEF U!Fault
  <2>2. InstallTyped' /\ FaultsBreak'
    BY <1>0, <2>1, SameInstall
  <2>3. u \in alone => /\ U!HasBackup(u) /\ history'[updater[u].old] # U!NoTree
                       /\ history'[updater[u].old] = before[u]
    BY <1>0, BackedUp DEF Saved, U!install
  <2> QED
    BY <1>0, <1>2, <2>1, <2>2, <2>3, FailsWell
<1> QED
  BY <1>1, <1>2 DEF U!InstallDependencies

LEMMA StartFailsGood ==
  ASSUME U!BoundsAssumption, U!NamesAssumption, U!PackagesAssumption,
         Inv, NEW u \in Actions, U!StartFails(u)
  PROVE  Good(u)
<1>0. /\ updater[u].at = "start" /\ UNCHANGED <<U!install, before>>
      /\ U!Fails(u, "APPLICATION_START_FAILED")
  BY DEF U!StartFails, U!past
<1>1. faults' \in 0 .. MaxFaults /\ faults' >= faults
  BY Trusted DEF U!StartFails, U!Fault
<1>2. InstallTyped' /\ FaultsBreak'
  BY <1>0, <1>1, SameInstall
<1>3. u \in alone => U!HasBackup(u) /\ history'[updater[u].old] # U!NoTree
  BY <1>0, BackedUp DEF Saved, U!install
<1> QED
  BY <1>0, <1>1, <1>2, <1>3, FailsWell

LEMMA VerifyGood ==
  ASSUME U!BoundsAssumption, U!NamesAssumption, U!PackagesAssumption,
         Inv, NEW u \in Actions, U!Verify(u)
  PROVE  Good(u)
<1>0. /\ updater[u].at = "verify" /\ UNCHANGED <<U!install, before, faults>>
      /\ faults' \in 0 .. MaxFaults
  BY Trusted DEF U!Verify, U!past
<1>1. InstallTyped' /\ FaultsBreak'
  BY <1>0, Trusted, SameInstall
<1>2. CASE /\ app.whole => U!Verified(u)
           /\ updater' = [updater EXCEPT ![u].at = "done", ![u].result = "COMPLETED"]
  <2> DEFINE r == [updater[u] EXCEPT !.at = "done", !.result = "COMPLETED"]
  <2>1. /\ r \in Processes /\ r.at = "done" /\ r.old = updater[u].old
        /\ r.failure = updater[u].failure /\ r.result = "COMPLETED"
    BY Trusted DEF Processes, U!Steps, Results
  <2>2. updater' = [updater EXCEPT ![u] = r]
    BY <1>2
  <2> HIDE DEF r
  <2>3. Becomes(u, r.at, r.old, r.failure, r.result)
    BY <2>1, <2>2, Trusted, Sets
  <2>4. Becomes(u, "done", updater[u].old, updater[u].failure, "COMPLETED")
    BY <2>1, <2>3
  <2>5. u \in alone => Progress(u)'
    BY <2>4 DEF Progress, Becomes, Forward, Saved, Backward
  <2>6. u \in alone => /\ app = U!Tree(PackageOf[u]) /\ updater[u].failure = "none"
                       /\ <<PackageOf[u], u>> \in agents
    BY <1>0, Trusted DEF Progress, Forward
  <2>7. u \in alone => app.whole
    BY <2>6 DEF U!Tree
  <2>8. u \in alone => Contents[PackageOf[u]] = "sound"
    BY <1>2, <2>7 DEF U!Verified
  <2>9. u \in alone => Honest(u)
    BY <1>0, <2>4, <2>6, <2>8 DEF Honest, Becomes, U!install
  <2> QED
    BY <1>0, <1>1, <2>4, <2>5, <2>9
       DEF Good, Becomes, UpdaterTyped, Named, Forward, Backward
<1>3. CASE app # U!NoTree /\ ~ (app.whole /\ U!Verified(u)) /\ U!Fails(u, "VERSION_INVALID")
  <2>1. u \in alone => /\ U!HasBackup(u) /\ history'[updater[u].old] # U!NoTree
                       /\ history'[updater[u].old] = before[u]
    BY <1>0, BackedUp DEF Saved, U!install
  <2> QED
    BY <1>0, <1>1, <1>3, <2>1, FailsWell
<1> QED
  BY <1>2, <1>3 DEF U!Verify

LEMMA ClearFailsGood ==
  ASSUME U!BoundsAssumption, U!NamesAssumption, U!PackagesAssumption,
         Inv, NEW u \in Actions, U!ClearFails(u)
  PROVE  Good(u)
<1>0. U!Fault /\ UNCHANGED <<agents, before>>
  BY DEF U!ClearFails, U!past
<1>1. faults' \in 0 .. MaxFaults /\ faults' # 0
  BY <1>0, Trusted DEF U!Fault
<1>2. CASE /\ updater[u].at = "clear backup" /\ history[updater[u].old] # U!NoTree
           /\ history' = [history EXCEPT ![updater[u].old] = U!Part(@)] /\ UNCHANGED app
           /\ U!Fails(u, "APPLICATION_START_FAILED")
  <2>1. InstallTyped'
    <3>1. history' \in [U!Versions -> RealTrees]
      <4>1. CASE updater[u].old \in U!Versions
        <5>1. U!Part(history[updater[u].old]) \in RealTrees
          BY <1>2, <4>1, Trusted, TreeFacts
        <5> QED
          BY <1>2, <5>1, Trusted DEF InstallTyped
      <4>2. CASE updater[u].old \notin U!Versions
        BY <1>2, <4>2, Trusted DEF InstallTyped
      <4> QED
        BY <4>1, <4>2
    <3> QED
      BY <1>0, <1>2, <3>1, Trusted DEF InstallTyped
  <2>2. FaultsBreak'
    BY <1>1 DEF FaultsBreak
  <2>3. updater[u].old \in U!Versions
    BY <1>2, Trusted DEF Named, Forward
  <2>4. u \in alone => U!HasBackup(u)
    <3>1. "none" \notin U!Versions
      BY VersionFacts
    <3> QED
      BY <1>2, <2>3, <3>1 DEF U!HasBackup
  <2>5. u \in alone => history'[updater[u].old] = U!Part(history[updater[u].old])
    BY <1>2, <2>3, Trusted DEF InstallTyped
  <2>6. u \in alone => history'[updater[u].old] # U!NoTree
    BY <1>2, <2>3, <2>5, Trusted, TreeFacts
  <2> QED
    BY <1>0, <1>1, <1>2, <2>1, <2>2, <2>4, <2>6, FailsWell
<1>3. CASE updater[u].at \in {"clear app", "clear for rollback"} /\ app # U!NoTree
           /\ app' = U!Part(app) /\ UNCHANGED history
  <2>1. app' \in RealTrees
    BY <1>3, Trusted, TreeFacts
  <2>2. InstallTyped' /\ FaultsBreak'
    BY <1>0, <1>1, <1>3, <2>1, Trusted DEF InstallTyped, FaultsBreak
  <2>3. CASE updater[u].at = "clear app" /\ U!Fails(u, "APPLICATION_START_FAILED")
    <3>1. u \in alone => U!HasBackup(u) /\ history'[updater[u].old] # U!NoTree
      BY <1>3, <2>3, BackedUp DEF Saved
    <3> QED
      BY <1>0, <1>1, <2>2, <2>3, <3>1, FailsWell
  <2>4. CASE updater[u].at = "clear for rollback" /\ U!RollbackFails(u)
    <3>1. Becomes(u, "done", updater[u].old, updater[u].failure, "ROLLBACK")
      BY <2>4, Trusted, RollbackFailsSets
    <3>2. u \in alone => Progress(u)'
      BY <3>1 DEF Progress, Becomes, Forward, Saved, Backward
    <3>3. u \in alone => updater[u].failure # "INVALID_PACKAGE"
      BY <2>4, Trusted DEF Progress
    <3>4. faults' > 0
      BY <1>1
    <3>5. u \in alone => Honest(u)
      BY <3>1, <3>3, <3>4 DEF Honest, Becomes
    <3> QED
      BY <1>1, <2>2, <2>4, <3>1, <3>2, <3>5
         DEF Good, Becomes, UpdaterTyped, Named, Forward, Backward
  <2>5. \/ updater[u].at = "clear app" /\ U!Fails(u, "APPLICATION_START_FAILED")
        \/ updater[u].at = "clear for rollback" /\ U!RollbackFails(u)
    BY <1>3 DEF U!ClearFails
  <2> QED
    BY <2>3, <2>4, <2>5
<1> QED
  BY <1>2, <1>3 DEF U!ClearFails

LEMMA RollBackGood ==
  ASSUME U!BoundsAssumption, U!NamesAssumption, U!PackagesAssumption,
         Inv, NEW u \in Actions, U!RollBack(u)
  PROVE  Good(u)
<1>0. /\ updater[u].at = "roll back" /\ UNCHANGED <<history, agents, faults, before>>
  BY DEF U!RollBack, U!past
<1>1. faults' \in 0 .. MaxFaults /\ faults' >= faults
  <2>1. faults \in 0 .. MaxFaults /\ faults \in Nat
    BY Trusted
  <2>2. faults' = faults
    BY <1>0
  <2> QED
    BY <2>1, <2>2
<1>2. u \in alone => /\ app = U!NoTree /\ history[updater[u].old] # U!NoTree
  BY <1>0, Trusted DEF Progress, Backward
<1>3. CASE /\ app = U!NoTree /\ history[updater[u].old] # U!NoTree
           /\ app' = history[updater[u].old] /\ U!Goes(u, "restart")
  <2>1. Becomes(u, "restart", updater[u].old, updater[u].failure, updater[u].result)
    BY <1>3, Trusted, GoesSets DEF U!Steps
  <2>2. updater[u].old \in U!Versions
    BY <1>0, Trusted DEF Named, Backward
  <2>3. InstallTyped' /\ FaultsBreak'
    BY <1>0, <1>3, <2>2, Trusted DEF InstallTyped, FaultsBreak
  <2>4. u \in alone => Progress(u)'
    BY <1>0, <1>3, <2>1, Trusted DEF Progress, Becomes, Forward, Saved, Backward
  <2>5. updater[u].failure \in Failures /\ updater[u].old \in U!Versions
    BY <1>0, Trusted DEF Processes, Named, Forward, Backward
  <2> QED
    BY <1>0, <1>1, <2>1, <2>3, <2>4, <2>5, GoesOn DEF U!Steps
<1>4. CASE (app # U!NoTree \/ history[updater[u].old] = U!NoTree) /\ UNCHANGED app /\ U!RollbackFails(u)
  <2>1. u \notin alone
    BY <1>2, <1>4
  <2>2. InstallTyped' /\ FaultsBreak'
    BY <1>0, <1>1, <1>4, SameInstall DEF U!install
  <2>3. Becomes(u, "done", updater[u].old, updater[u].failure, "ROLLBACK")
    BY <1>4, Trusted, RollbackFailsSets
  <2> QED
    BY <1>0, <1>1, <2>1, <2>2, <2>3
       DEF Good, Becomes, UpdaterTyped, Named, Forward, Backward
<1> QED
  BY <1>3, <1>4 DEF U!RollBack

LEMMA RestartGood ==
  ASSUME U!BoundsAssumption, U!NamesAssumption, U!PackagesAssumption,
         Inv, NEW u \in Actions, U!Restart(u)
  PROVE  Good(u)
<1>0. updater[u].at = "restart" /\ UNCHANGED <<app, history, before>>
  BY DEF U!Restart, U!past
<1>1. u \in alone => /\ app = history[updater[u].old] /\ app # U!NoTree
                     /\ updater[u].result = "none" /\ updater[u].failure # "INVALID_PACKAGE"
                     /\ updater[u].failure \in {"DEPENDENCY_INSTALL_FAILED", "VERSION_INVALID"}
                          => app = before[u]
  BY <1>0, Trusted DEF Progress, Backward
<1>2. CASE /\ app # U!NoTree /\ U!Launched(u) /\ UNCHANGED faults
           /\ updater' = [updater EXCEPT ![u].at = "done", ![u].result = "rolled back"]
  <2> DEFINE r == [updater[u] EXCEPT !.at = "done", !.result = "rolled back"]
  <2>1. /\ r \in Processes /\ r.at = "done" /\ r.old = updater[u].old
        /\ r.failure = updater[u].failure /\ r.result = "rolled back"
    BY Trusted DEF Processes, U!Steps, Results
  <2>2. updater' = [updater EXCEPT ![u] = r]
    BY <1>2
  <2> HIDE DEF r
  <2>3. Becomes(u, r.at, r.old, r.failure, r.result)
    BY <2>1, <2>2, Trusted, Sets
  <2>4. Becomes(u, "done", updater[u].old, updater[u].failure, "rolled back")
    BY <2>1, <2>3
  <2>5. app.of \in U!Versions /\ agents' = agents \cup {<<app.of, u>>}
    BY <1>2, Trusted, TreeFacts DEF U!Launched
  <2>6. InstallTyped' /\ faults' \in 0 .. MaxFaults /\ FaultsBreak'
    <3>1. UNCHANGED <<app, history, faults>>
      BY <1>0, <1>2
    <3>2. InstallTyped'
      BY <2>5, <3>1, Trusted DEF InstallTyped
    <3>3. FaultsBreak'
      BY <3>1, Trusted DEF FaultsBreak
    <3> QED
      BY <3>1, <3>2, <3>3, Trusted
  <2>7. u \in alone => Progress(u)'
    BY <2>4 DEF Progress, Becomes, Forward, Saved, Backward
  <2>8. u \in alone => Honest(u)
    BY <1>0, <1>1, <2>4, <2>5 DEF Honest, Becomes, U!BackupIsWhole
  <2> QED
    BY <1>0, <2>4, <2>6, <2>7, <2>8
       DEF Good, Becomes, UpdaterTyped, Named, Forward, Backward
<1>3. CASE /\ IF app.whole THEN U!Fault ELSE UNCHANGED faults
           /\ U!RollbackFails(u) /\ UNCHANGED agents
  <2>1. faults' \in 0 .. MaxFaults /\ faults' >= faults
    BY <1>3, Trusted DEF U!Fault
  <2>2. InstallTyped' /\ FaultsBreak'
    BY <1>0, <1>3, <2>1, SameInstall DEF U!install
  <2>3. Becomes(u, "done", updater[u].old, updater[u].failure, "ROLLBACK")
    BY <1>3, Trusted, RollbackFailsSets
  <2>4. u \in alone => Progress(u)'
    BY <2>3 DEF Progress, Becomes, Forward, Saved, Backward
  <2>5. u \in alone => faults' > 0
    BY <1>1, <1>3, Trusted DEF FaultsBreak, Unbroken, U!Fault
  <2>6. u \in alone => Honest(u)
    BY <1>1, <2>3, <2>5 DEF Honest, Becomes
  <2> QED
    BY <1>0, <2>1, <2>2, <2>3, <2>4, <2>6
       DEF Good, Becomes, UpdaterTyped, Named, Forward, Backward
<1> QED
  BY <1>2, <1>3 DEF U!Restart

LEMMA UpdateGood ==
  ASSUME U!BoundsAssumption, U!NamesAssumption, U!PackagesAssumption,
         Inv, NEW u \in Actions, U!Update(u)
  PROVE  Good(u)
BY ValidateGood, StopGood, ClearBackupGood, BackupGood, BackupFailsGood, ClearFailsGood,
   ClearAppGood, ReplaceGood, ReplaceFailsGood, DependenciesGood, StartGood, StartFailsGood,
   VerifyGood, RollBackGood, RestartGood DEF U!Update

(* The rest of the invariant, over a step of an updater.                    *)
LEMMA UpdateFiles ==
  ASSUME Inv, NEW u \in Actions, U!Update(u)
  PROVE  /\ UNCHANGED <<received, part, final, current, U!past>>
         /\ \/ UNCHANGED transfer
            \/ transfer' = [a \in Actions |-> IF transfer[a] = "open" THEN "failed" ELSE transfer[a]]
<1>1. CASE U!StopClient(u)
  <2>1. PICK left \in {{}, agents} :
          transfer' = [a \in Actions |-> IF left = {} /\ transfer[a] = "open"
                                        THEN "failed" ELSE transfer[a]]
    BY <1>1 DEF U!StopClient
  <2>2. CASE left = {}
    BY <1>1, <2>1, <2>2 DEF U!StopClient
  <2>3. CASE left # {}
    <3>1. transfer' = transfer
      BY <2>1, <2>3 DEF Inv, Typed, FilesTyped
    <3> QED
      BY <1>1, <3>1 DEF U!StopClient
  <2> QED
    BY <2>2, <2>3
<1>2. CASE ~ U!StopClient(u)
  BY <1>2
     DEF U!Update, U!Validate, U!ClearBackup, U!Backup, U!BackupFails, U!ClearFails,
         U!ClearApp,
              U!Replace, U!ReplaceFails, U!InstallDependencies, U!Start, U!StartFails, U!Verify,
              U!ClearForRollback, U!RollBack, U!Restart, U!files
<1> QED
  BY <1>1, <1>2

LEMMA UpdateInv ==
  ASSUME U!BoundsAssumption, U!NamesAssumption, U!PackagesAssumption,
         Inv, NEW u \in Actions, U!Update(u)
  PROVE  Inv'
<1>1. Good(u)
  BY UpdateGood
<1>2. UNCHANGED <<received, part, final, current, alone, before>>
  BY UpdateFiles DEF U!past
<1>3. /\ transfer' \in [Actions -> {"new", "open", "staged", "failed"}]
      /\ \A a \in Actions : /\ transfer'[a] = "open" => transfer[a] = "open"
                            /\ transfer'[a] = "new" => transfer[a] = "new"
  BY UpdateFiles DEF Inv, Typed, FilesTyped
<1>4. Typed'
  BY <1>1, <1>2, <1>3 DEF Inv, Typed, FilesTyped, PastTyped, Good
<1>5. OwnPart' /\ U!StagedIsVerified'
  BY <1>2, <1>3 DEF Inv, OwnPart, U!StagedIsVerified, U!Complete
<1>6. \A v \in Actions \ {u} : updater'[v] = updater[v]
  BY <1>1 DEF Good
<1>7. \A v \in Actions : Named(v)'
  BY <1>1, <1>6 DEF Inv, Named, Good
<1>8. Spawned'
  BY <1>1, <1>2, <1>3, <1>6 DEF Inv, Spawned, Good
<1>9. u \in U!Active /\ U!Active' \subseteq U!Active
  BY <1>1, <1>6 DEF U!Active, Good
<1>10. Sole'
  BY <1>2, <1>9 DEF Inv, Sole
<1>11. ASSUME NEW v \in alone PROVE Progress(v)'
  <2>1. CASE v = u
    BY <1>1, <1>11, <2>1 DEF Good
  <2>2. CASE v # u
    <3>1. v \in Actions
      BY <1>11 DEF Inv, Typed, PastTyped
    <3>2. updater[v].at = "done"
      <4>1. v \notin U!Active
        BY <1>9, <1>11, <2>2 DEF Inv, Sole
      <4> QED
        BY <1>11, <3>1, <4>1 DEF U!Active, Inv, Spawned
    <3>3. updater'[v].at = "done"
      BY <1>6, <2>2, <3>1, <3>2
    <3> QED
      BY <3>3 DEF Progress, Forward, Saved, Backward
  <2> QED
    BY <2>1, <2>2
<1>12. FaultsBreak' /\ \A v \in alone' : Progress(v)'
  BY <1>1, <1>2, <1>11 DEF Good
<1> QED
  BY <1>4, <1>5, <1>7, <1>8, <1>10, <1>12 DEF Inv

-----------------------------------------------------------------------------
(* The invariant.                                                           *)

LEMMA InvInit ==
  ASSUME U!BoundsAssumption, U!NamesAssumption, U!PackagesAssumption
  PROVE  U!Init => Inv
<1> SUFFICES ASSUME U!Init PROVE Inv
  OBVIOUS
<1>1. U!NotRun \in Processes /\ U!NotRun.at = "none"
  BY DEF U!NotRun, Processes, U!Steps, Failures, Results
<1>2. Typed
  <2>1. FilesTyped
    BY PackageBounds DEF U!Init, FilesTyped
  <2>2. InstallTyped
    <3>1. U!NoTree \in RealTrees /\ U!Tree("first") \in RealTrees /\ "first" \in U!Versions
      BY VersionFacts
    <3> QED
      BY <3>1 DEF U!Init, InstallTyped, U!FirstAgent
  <2>3. UpdaterTyped
    BY <1>1 DEF U!Init, UpdaterTyped
  <2>4. PastTyped
    <3>1. U!NoTree \in RealTrees
      BY VersionFacts
    <3>2. 0 \in 0 .. MaxFaults
      BY PackageBounds
    <3> QED
      BY <3>1, <3>2 DEF U!Init, PastTyped
  <2> QED
    BY <2>1, <2>2, <2>3, <2>4 DEF Typed
<1>3. OwnPart /\ U!StagedIsVerified
  BY DEF U!Init, OwnPart, U!StagedIsVerified
<1>4. \A u \in Actions : Named(u)
  BY <1>1 DEF U!Init, Named, Forward, Backward
<1>5. Spawned /\ Sole
  BY <1>1 DEF U!Init, Spawned, Sole
<1>6. FaultsBreak /\ \A u \in alone : Progress(u)
  BY DEF U!Init, FaultsBreak, Unbroken, U!Tree
<1> QED
  BY <1>2, <1>3, <1>4, <1>5, <1>6 DEF Inv

(* A step of a transfer that spawns no updater.                             *)
LEMMA TransferInv ==
  ASSUME U!BoundsAssumption, U!NamesAssumption, U!PackagesAssumption,
         Inv, UNCHANGED <<U!install, updater, U!past>>, FilesTyped',
         faults' \in 0 .. MaxFaults, faults' >= faults,
         OwnPart', U!StagedIsVerified',
         \A a \in Actions : transfer'[a] \in {"new", "open"} => transfer[a] \in {"new", "open"}
  PROVE  Inv'
<1>1. InstallTyped' /\ FaultsBreak'
  BY SameInstall
<1>2. Typed'
  BY <1>1 DEF Inv, Typed, UpdaterTyped, PastTyped, U!past
<1>3. (\A u \in Actions : Named(u))' /\ Spawned' /\ Sole'
  BY DEF Inv, Named, Spawned, Sole, U!Active, U!past
<1>4. (\A u \in alone : Progress(u))'
  <2>1. UNCHANGED <<app, history, agents, updater, alone, before>>
    BY DEF U!install, U!past
  <2>2. \A u \in alone : Progress(u)
    BY DEF Inv
  <2> SUFFICES ASSUME NEW u \in alone PROVE Progress(u)'
    BY <2>1
  <2>3. Progress(u)
    BY <2>2
  <2> QED
    BY <2>1, <2>3 DEF Progress
<1> QED
  BY <1>1, <1>2, <1>3, <1>4 DEF Inv

LEMMA DeployInv ==
  ASSUME U!BoundsAssumption, U!NamesAssumption, U!PackagesAssumption,
         Inv, NEW a \in Actions, U!DeployInit(a)
  PROVE  Inv'
<1>0. /\ UNCHANGED <<received, final, current, U!install, updater, faults, U!past>>
      /\ transfer[a] = "new" /\ PackageOf[a] \in Packages
      /\ transfer \in [Actions -> {"new", "open", "staged", "failed"}]
      /\ part \in [Packages -> Actions \cup {U!NoFile}]
  BY PackageBounds DEF U!DeployInit, Inv, Typed, FilesTyped
<1>1. /\ U!Refused(a) => /\ transfer' = [transfer EXCEPT ![a] = "failed"] /\ UNCHANGED part
      /\ ~ U!Refused(a) => /\ transfer' = [transfer EXCEPT ![a] = "open"]
                         /\ part' = [part EXCEPT ![PackageOf[a]] = a]
  BY DEF U!DeployInit
<1>2. FilesTyped'
  BY <1>0, <1>1 DEF Inv, Typed, FilesTyped
<1>3. OwnPart'
  <2>1. SUFFICES ASSUME LocksOpenFiles, NEW b \in Actions, transfer'[b] = "open"
                 PROVE  part'[PackageOf[b]] = b
    BY DEF OwnPart
  <2>2. CASE U!Refused(a)
    BY <1>0, <1>1, <2>1, <2>2 DEF Inv, OwnPart
  <2>3. CASE ~ U!Refused(a) /\ b = a
    BY <1>0, <1>1, <2>3
  <2>4. CASE ~ U!Refused(a) /\ b # a
    <3>1. transfer[b] = "open" /\ part[PackageOf[b]] = b
      BY <1>0, <1>1, <2>1, <2>4 DEF Inv, OwnPart
    <3>2. PackageOf[b] # PackageOf[a]
      BY <2>1, <2>4, <3>1, PackageBounds DEF U!Refused, U!IsOpen
    <3> QED
      BY <1>0, <1>1, <2>4, <3>1, <3>2, PackageBounds
  <2> QED
    BY <2>2, <2>3, <2>4
<1>4. U!StagedIsVerified'
  BY <1>0 DEF Inv, U!StagedIsVerified, U!Complete
<1>5. faults' \in 0 .. MaxFaults /\ faults' >= faults
  <2>1. faults \in 0 .. MaxFaults /\ faults \in Nat
    BY Trusted
  <2>2. faults' = faults
    BY <1>0
  <2> QED
    BY <2>1, <2>2
<1>6. \A b \in Actions : transfer'[b] \in {"new", "open"} => transfer[b] \in {"new", "open"}
  BY <1>0, <1>1
<1> QED
  BY <1>0, <1>2, <1>3, <1>4, <1>5, <1>6, TransferInv

LEMMA ChunkInv ==
  ASSUME U!BoundsAssumption, U!NamesAssumption, U!PackagesAssumption,
         Inv, NEW a \in Actions, U!Chunk(a)
  PROVE  Inv'
<1>0. /\ UNCHANGED <<transfer, part, final, current, U!install, updater, faults, U!past>>
      /\ received' = [received EXCEPT ![a] = @ + 1] /\ received[a] < Chunks - 1
  BY DEF U!Chunk, U!More
<1>1. Chunks \in Nat /\ received \in [Actions -> 0 .. Chunks]
  BY PackageBounds DEF Inv, Typed, FilesTyped
<1>2. received[a] \in 0 .. Chunks /\ received[a] # Chunks
  BY <1>0, <1>1
<1>3. received[a] + 1 \in 0 .. Chunks
  BY <1>0, <1>1, <1>2
<1>4. FilesTyped'
  BY <1>0, <1>1, <1>3 DEF Inv, Typed, FilesTyped
<1>5. OwnPart'
  BY <1>0 DEF Inv, OwnPart
<1>6. U!StagedIsVerified'
  <2>1. \A f \in Actions : received[f] = Chunks => received'[f] = Chunks
    BY <1>0, <1>1, <1>2
  <2> QED
    BY <1>0, <2>1 DEF Inv, U!StagedIsVerified, U!Complete, Typed, FilesTyped
<1>7. faults' \in 0 .. MaxFaults /\ faults' >= faults
  <2>1. faults \in 0 .. MaxFaults /\ faults \in Nat
    BY Trusted
  <2>2. faults' = faults
    BY <1>0
  <2> QED
    BY <2>1, <2>2
<1> QED
  BY <1>0, <1>4, <1>5, <1>6, <1>7, TransferInv

LEMMA ChunkFailsInv ==
  ASSUME U!BoundsAssumption, U!NamesAssumption, U!PackagesAssumption,
         Inv, NEW a \in Actions, U!ChunkFails(a)
  PROVE  Inv'
<1>0. /\ UNCHANGED <<received, final, current, U!install, updater, U!past>>
      /\ transfer[a] = "open" /\ U!Fault /\ PackageOf[a] \in Packages
      /\ transfer' = [transfer EXCEPT ![a] = "failed"]
      /\ transfer \in [Actions -> {"new", "open", "staged", "failed"}]
      /\ part \in [Packages -> Actions \cup {U!NoFile}]
  BY PackageBounds DEF U!ChunkFails, Inv, Typed, FilesTyped
<1>1. /\ part' \in [Packages -> Actions \cup {U!NoFile}]
      /\ \A p \in Packages \ {PackageOf[a]} : part'[p] = part[p]
  BY <1>0 DEF U!ChunkFails, U!Unlinked
<1>2. FilesTyped'
  BY <1>0, <1>1 DEF Inv, Typed, FilesTyped
<1>3. OwnPart'
  <2>1. SUFFICES ASSUME LocksOpenFiles, NEW b \in Actions, transfer'[b] = "open"
                 PROVE  part'[PackageOf[b]] = b
    BY DEF OwnPart
  <2>2. b # a /\ transfer[b] = "open"
    BY <1>0, <2>1
  <2>3. PackageOf[b] # PackageOf[a]
    BY <1>0, <2>1, <2>2 DEF Inv, OwnPart
  <2> QED
    BY <1>1, <2>1, <2>2, <2>3, PackageBounds DEF Inv, OwnPart
<1>4. U!StagedIsVerified'
  BY <1>0 DEF Inv, U!StagedIsVerified, U!Complete
<1>5. faults' \in 0 .. MaxFaults /\ faults' >= faults
  <2>1. faults \in 0 .. MaxFaults /\ faults \in Nat /\ MaxFaults \in Nat
    BY Trusted
  <2> QED
    BY <1>0, <2>1 DEF U!Fault
<1>6. \A b \in Actions : transfer'[b] \in {"new", "open"} => transfer[b] \in {"new", "open"}
  BY <1>0
<1> QED
  BY <1>0, <1>2, <1>3, <1>4, <1>5, <1>6, TransferInv

(* The last chunk: an open transfer ends, and what it moves is its own.     *)
LEMMA LastChunkFiles ==
  ASSUME U!BoundsAssumption, U!NamesAssumption, U!PackagesAssumption,
         Inv, NEW a \in Actions, U!LastChunk(a)
  PROVE  /\ FilesTyped' /\ OwnPart' /\ U!StagedIsVerified'
         /\ transfer[a] = "open" /\ transfer'[a] \in {"staged", "failed"}
         /\ \A b \in Actions \ {a} : transfer'[b] = transfer[b]
<1>0. /\ transfer[a] = "open" /\ received' = [received EXCEPT ![a] = Chunks]
      /\ part' = [part EXCEPT ![PackageOf[a]] = U!NoFile]
      /\ PackageOf[a] \in Packages /\ Chunks \in Nat
      /\ transfer \in [Actions -> {"new", "open", "staged", "failed"}]
      /\ part \in [Packages -> Actions \cup {U!NoFile}]
      /\ received \in [Actions -> 0 .. Chunks]
      /\ final \in [U!Places \X Packages -> Actions \cup {U!NoFile}]
      /\ current \in Packages \cup {U!NoFile}
  BY PackageBounds DEF U!LastChunk, Inv, Typed, FilesTyped
<1>1. PICK end \in {"staged", "failed"} : transfer' = [transfer EXCEPT ![a] = end]
  <2>1. CASE U!Moved(a) = U!NoFile
    BY <2>1 DEF U!LastChunk
  <2>2. CASE U!Moved(a) # U!NoFile
    BY <2>2 DEF U!LastChunk
  <2> QED
    BY <2>1, <2>2
<1>2. U!Destination(a) \in U!Places \X Packages
  BY <1>0 DEF U!Destination, U!Places
<1>3. U!Moved(a) \in Actions \cup {U!NoFile}
  BY <1>0 DEF U!Moved
<1>4. \/ UNCHANGED <<final, current>>
      \/ /\ U!Moved(a) # U!NoFile /\ final' = [final EXCEPT ![U!Destination(a)] = U!Moved(a)]
         /\ current' \in {PackageOf[a], current}
  BY DEF U!LastChunk
<1>5. FilesTyped'
  <2>1. /\ transfer' \in [Actions -> {"new", "open", "staged", "failed"}]
        /\ received' \in [Actions -> 0 .. Chunks]
        /\ part' \in [Packages -> Actions \cup {U!NoFile}]
    BY <1>0, <1>1
  <2>2. final' \in [U!Places \X Packages -> Actions \cup {U!NoFile}]
    BY <1>0, <1>2, <1>3, <1>4
  <2>3. current' \in Packages \cup {U!NoFile}
    BY <1>0, <1>4
  <2> QED
    BY <2>1, <2>2, <2>3 DEF FilesTyped
<1>6. OwnPart'
  <2>1. SUFFICES ASSUME LocksOpenFiles, NEW b \in Actions, transfer'[b] = "open"
                 PROVE  part'[PackageOf[b]] = b
    BY DEF OwnPart
  <2>2. b # a /\ transfer[b] = "open"
    BY <1>0, <1>1, <2>1
  <2>3. PackageOf[b] # PackageOf[a]
    BY <1>0, <2>1, <2>2 DEF Inv, OwnPart
  <2> QED
    BY <1>0, <2>1, <2>2, <2>3, PackageBounds DEF Inv, OwnPart
<1>7. U!StagedIsVerified'
  <2>1. SUFFICES ASSUME LocksOpenFiles, NEW d \in U!Places \X Packages, final'[d] # U!NoFile
                 PROVE  received'[final'[d]] = Chunks
    BY DEF U!StagedIsVerified, U!Complete
  <2>2. U!Moved(a) = a
    BY <1>0, <2>1 DEF Inv, OwnPart, U!Moved
  <2>3. final'[d] = a \/ final'[d] = final[d]
    BY <1>0, <1>2, <1>4, <2>2
  <2>4. CASE final'[d] = a
    BY <1>0, <2>4
  <2>5. CASE final'[d] = final[d]
    <3>1. received[final[d]] = Chunks /\ final[d] \in Actions
      BY <1>0, <2>1, <2>5 DEF Inv, U!StagedIsVerified, U!Complete
    <3> QED
      BY <1>0, <2>5, <3>1
  <2> QED
    BY <2>3, <2>4, <2>5
<1> QED
  BY <1>0, <1>1, <1>5, <1>6, <1>7

LEMMA SpawnInv ==
  ASSUME U!BoundsAssumption, U!NamesAssumption, U!PackagesAssumption,
         Inv, NEW a \in Actions, U!Spawn(a), UNCHANGED <<U!install, faults>>,
         FilesTyped', OwnPart', U!StagedIsVerified',
         transfer[a] = "open", transfer'[a] \in {"staged", "failed"},
         \A b \in Actions \ {a} : transfer'[b] = transfer[b]
  PROVE  Inv'
<1>1. /\ updater[a] = U!NotRun /\ a \notin alone /\ updater[a].at = "none"
  BY DEF Inv, Spawned
<1>2. Becomes(a, "validate", "none", "none", "none")
  <2>1. U!Goes(a, "validate")
    BY DEF U!Spawn, U!Goes
  <2>2. Becomes(a, "validate", updater[a].old, updater[a].failure, updater[a].result)
    BY <2>1, Trusted, GoesSets DEF U!Steps
  <2> QED
    BY <1>1, <2>2 DEF U!NotRun
<1>3. /\ alone' = IF U!Active = {} THEN alone \cup {a} ELSE alone \ U!Active
      /\ before' = [before EXCEPT ![a] = app]
  BY DEF U!Spawn
<1>4. /\ before' \in [Actions -> RealTrees] /\ before'[a] = app
      /\ \A b \in Actions \ {a} : before'[b] = before[b]
      /\ alone \subseteq Actions /\ alone' \subseteq alone \cup {a}
  BY <1>3, Trusted DEF Inv, Typed, PastTyped
<1>5. InstallTyped' /\ FaultsBreak' /\ faults' \in 0 .. MaxFaults
  <2>1. faults \in 0 .. MaxFaults /\ faults \in Nat
    BY Trusted
  <2>2. faults' \in 0 .. MaxFaults /\ faults' >= faults
    BY <2>1
  <2> QED
    BY <2>2, SameInstall
<1>6. Typed'
  BY <1>2, <1>4, <1>5 DEF Typed, UpdaterTyped, PastTyped, Becomes
<1>7. \A u \in Actions : Named(u)'
  BY <1>2 DEF Inv, Named, Becomes, Forward, Backward
<1>8. Spawned'
  BY <1>2, <1>4 DEF Inv, Spawned, Becomes
<1>9. U!Active' = U!Active \cup {a}
  BY <1>1, <1>2 DEF U!Active, Becomes
<1>10. Sole'
  <2>1. CASE U!Active = {}
    BY <1>9, <2>1 DEF Sole
  <2>2. CASE U!Active # {}
    <3>1. alone' \cap U!Active' = {}
      BY <1>1, <1>3, <1>9, <2>2
    <3> QED
      BY <3>1 DEF Sole
  <2> QED
    BY <2>1, <2>2
<1>11. ASSUME NEW u \in alone' PROVE Progress(u)'
  <2>1. CASE u = a
    BY <1>2, <1>4, <2>1 DEF Progress, Becomes, Forward, Saved, Backward, U!install
  <2>2. CASE u # a
    <3>1. u \in alone /\ u \in Actions /\ updater'[u] = updater[u] /\ before'[u] = before[u]
      BY <1>2, <1>4, <1>11, <2>2 DEF Becomes
    <3>2. Progress(u) /\ U!install' = U!install
      BY <3>1 DEF Inv
    <3>3. app' = app /\ history' = history /\ agents' = agents
      BY <3>2 DEF U!install
    <3> QED
      BY <3>1, <3>2, <3>3 DEF Progress
  <2> QED
    BY <2>1, <2>2
<1> QED
  BY <1>5, <1>6, <1>7, <1>8, <1>10, <1>11 DEF Inv

LEMMA LastChunkInv ==
  ASSUME U!BoundsAssumption, U!NamesAssumption, U!PackagesAssumption,
         Inv, NEW a \in Actions, U!LastChunk(a)
  PROVE  Inv'
<1>1. UNCHANGED <<U!install, faults>>
  BY DEF U!LastChunk
<1>2. CASE U!Spawn(a)
  BY <1>1, <1>2, LastChunkFiles, SpawnInv
<1>3. CASE UNCHANGED <<updater, U!past>>
  <2>1. faults' \in 0 .. MaxFaults /\ faults' >= faults
    <3>1. faults \in 0 .. MaxFaults /\ faults \in Nat
      BY Trusted
    <3> QED
      BY <1>1, <3>1
  <2>2. \A b \in Actions : transfer'[b] \in {"new", "open"} => transfer[b] \in {"new", "open"}
    BY LastChunkFiles
  <2> QED
    BY <1>1, <1>3, <2>1, <2>2, LastChunkFiles, TransferInv
<1>4. U!Spawn(a) \/ UNCHANGED <<updater, U!past>>
  <2>1. CASE U!Moved(a) = U!NoFile
    BY <2>1 DEF U!LastChunk
  <2>2. CASE U!Moved(a) # U!NoFile
    BY <2>2 DEF U!LastChunk
  <2> QED
    BY <2>1, <2>2
<1> QED
  BY <1>2, <1>3, <1>4

LEMMA InvNext ==
  ASSUME U!BoundsAssumption, U!NamesAssumption, U!PackagesAssumption
  PROVE  Inv /\ [U!Next]_(U!vars) => Inv'
<1> SUFFICES ASSUME Inv, [U!Next]_(U!vars) PROVE Inv'
  OBVIOUS
<1>1. CASE U!Next
  BY <1>1, DeployInv, ChunkInv, ChunkFailsInv, LastChunkInv, UpdateInv DEF U!Next
<1>2. CASE UNCHANGED U!vars
  <2>1. faults' \in 0 .. MaxFaults /\ faults' >= faults
    <3>1. faults \in 0 .. MaxFaults /\ faults \in Nat
      BY PackageBounds DEF Inv, Typed, PastTyped
    <3>2. faults' = faults
      BY <1>2 DEF U!vars
    <3> QED
      BY <3>1, <3>2
  <2>2. UNCHANGED <<U!files, U!install, updater, U!past>>
    BY <1>2 DEF U!vars
  <2>3. FilesTyped' /\ OwnPart' /\ U!StagedIsVerified'
    BY <2>2 DEF Inv, Typed, FilesTyped, OwnPart, U!StagedIsVerified, U!Complete, U!files
  <2>4. UNCHANGED transfer
    BY <2>2 DEF U!files
  <2> QED
    BY <2>1, <2>2, <2>3, <2>4, TransferInv
<1> QED
  BY <1>1, <1>2

THEOREM UpdateInvariant ==
  ASSUME U!BoundsAssumption, U!NamesAssumption, U!PackagesAssumption
  PROVE  U!Spec => []Inv
BY InvInit, InvNext, PTL DEF U!Spec

(* Every variable stays in its domain.                                      *)
THEOREM UpdateTypeCorrect ==
  ASSUME U!BoundsAssumption, U!NamesAssumption, U!PackagesAssumption
  PROVE  U!Spec => []U!TypeOK
<1>1. Inv => U!TypeOK
  BY TypedIsTyped DEF Inv
<1> QED
  BY <1>1, UpdateInvariant, PTL

(* For any number of overlapping transfers of one package: where open files *)
(* are locked, a file under its final name is the whole package.            *)
THEOREM StagedFilesAreWhole ==
  ASSUME U!BoundsAssumption, U!NamesAssumption, U!PackagesAssumption
  PROVE  U!Spec => []U!StagedIsVerified
<1>1. Inv => U!StagedIsVerified
  BY DEF Inv
<1> QED
  BY <1>1, UpdateInvariant, PTL

(* For any number of updaters and faults: what the result of an updater     *)
(* that no other one overlapped says is so.                                 *)
THEOREM ResultsAreHonest ==
  ASSUME U!BoundsAssumption, U!NamesAssumption, U!PackagesAssumption
  PROVE  U!Spec => U!HonestResult
<1>1. Inv /\ [U!Next]_(U!vars) => [\A u \in alone' : U!Ends(u) => Honest(u)]_(U!vars)
  <2> SUFFICES ASSUME Inv, U!Next, NEW u \in alone', U!Ends(u) PROVE Honest(u)
    OBVIOUS
  <2>1. Inv'
    BY InvNext
  <2>2. u \in Actions
    BY <2>1 DEF Inv, Typed, PastTyped
  <2>3. updater'[u] # updater[u] /\ updater'[u].at = "done"
    BY DEF U!Ends
  <2>4. PICK a \in Actions :
          U!DeployInit(a) \/ U!Chunk(a) \/ U!ChunkFails(a) \/ U!LastChunk(a) \/ U!Update(a)
    BY DEF U!Next
  <2>5. CASE U!DeployInit(a) \/ U!Chunk(a) \/ U!ChunkFails(a)
    BY <2>3, <2>5 DEF U!DeployInit, U!Chunk, U!ChunkFails
  <2>6. CASE U!LastChunk(a)
    <3>1. U!Spawn(a)
      BY <2>3, <2>6 DEF U!LastChunk
    <3>2. U!Goes(a, "validate")
      BY <3>1 DEF U!Spawn, U!Goes
    <3>3. Becomes(a, "validate", updater[a].old, updater[a].failure, updater[a].result)
      BY <3>2, Trusted, GoesSets DEF U!Steps
    <3> QED
      BY <2>2, <2>3, <3>3 DEF Becomes
  <2>7. CASE U!Update(a)
    <3>1. Good(a) /\ UNCHANGED alone
      BY <2>7, UpdateGood, UpdateFiles DEF U!past
    <3>2. u = a
      BY <2>2, <2>3, <3>1 DEF Good
    <3> QED
      BY <3>1, <3>2 DEF Good
  <2> QED
    BY <2>4, <2>5, <2>6, <2>7
<1> QED
  BY <1>1, UpdateInvariant, PTL DEF U!Spec, U!HonestResult, Honest
=============================================================================
