-------------------------- MODULE ActionLifecycle --------------------------
(***************************************************************************)
(* The life of one remote action: POST /api/actions with an action id (an  *)
(* idempotency key) in server/api_server.py, its row and target rows in    *)
(* the database, its execution in server_components/action_service.py, and *)
(* the package transfers that wait for an asynchronous PACKAGE_RESULT.     *)
(*                                                                         *)
(* Several requests carry the same action id.  Each may end up with an     *)
(* execution of its own, named after the request.  A step is one database  *)
(* transaction, one exchange with a client, or one use of a result queue.  *)
(***************************************************************************)
EXTENDS FiniteSets

CONSTANTS
  Clients,    (* the targets of the action *)
  Requests,   (* the requests that carry its id; also names executions *)
  Kinds,      (* the kinds of action that occur *)
  NoOne       (* not a request *)

Command == "command"   (* one command and its answer, client after client *)
Package == "package"   (* DEPLOY_PACKAGE and SEND_FILE: streamed to all at once *)
Update  == "update"    (* UPDATE_CLIENT: streamed, answered by STAGED *)

ASSUME ClientsAssumption  == Clients # {} /\ IsFiniteSet(Clients)
ASSUME RequestsAssumption == NoOne \notin Requests
ASSUME KindsAssumption    == Kinds \subseteq {Command, Package, Update} /\ Kinds # {}

Terminal   == {"SUCCESS", "PARTIAL_SUCCESS", "FAILED", "CANCELLED"}
Cancelable == {"PENDING", "RUNNING"}    \* DISPATCHED, ACKNOWLEDGED: never set
Verdicts   == {"SUCCESS", "FAILED", "STAGED"}

VARIABLES
  kind,       (* the type of the action *)
  (* the database *)
  action,     (* the status of its row, or none *)
  target,     (* the status of each target's row; none: the client is unknown *)
  (* the server's threads *)
  request,    (* POST /api/actions: idle, absent, done *)
  exec,       (* execute_action: none, start, fanout, done, dead *)
  work,       (* what an execution does with a target: none when it has no  *)
              (* such target, queued, streaming, waiting, ok, failed        *)
  waiter,     (* the execution that waits for a client's result, or NoOne *)
  box,        (* the queue of a wait: empty, or the first result put *)
  reader,     (* a PACKAGE_RESULT that is stored and not yet handed over *)
  (* the clients and the network *)
  session,    (* the package session of a client: none, open, full *)
  result,     (* a PACKAGE_RESULT on its way, or none *)
  (* history *)
  said        (* what a client answered, for the properties *)

rows    == <<action, target>>
waits   == <<waiter, box>>
network == <<session, result, said>>
vars    == <<kind, rows, request, exec, work, waits, reader, network>>

Streamed == kind # Command
NoWork   == [c \in Clients |-> "none"]
Targets(r) == {c \in Clients : work[r][c] # "none"}

Init ==
  /\ kind \in Kinds
  /\ action = "none"
  /\ target = [c \in Clients |-> "none"]
  /\ request = [r \in Requests |-> "idle"]
  /\ exec    = [r \in Requests |-> "none"]
  /\ work    = [r \in Requests |-> NoWork]
  /\ waiter  = [c \in Clients |-> NoOne]
  /\ box     = [r \in Requests |-> [c \in Clients |-> "empty"]]
  /\ reader  = [c \in Clients |-> "none"]
  /\ session = [c \in Clients |-> "none"]
  /\ result  = [c \in Clients |-> "none"]
  /\ said    = [c \in Clients |-> "none"]

-----------------------------------------------------------------------------
(* POST /api/actions.  The row is looked up first, and again by             *)
(* create_action; two inserts of one id collide on its unique key.          *)

Look(r) ==
  /\ request[r] = "idle"
  /\ request' = [request EXCEPT ![r] = IF action = "none" THEN "absent" ELSE "done"]
  /\ UNCHANGED <<kind, rows, exec, work, waits, reader, network>>

Create(r) ==
  /\ request[r] = "absent" /\ action = "none"
  /\ action' = "PENDING"
  /\ \E known \in SUBSET Clients :       \* the targets that have a row in clients
        target' = [c \in Clients |-> IF c \in known THEN "PENDING" ELSE "none"]
  /\ request' = [request EXCEPT ![r] = "done"]
  /\ exec' = [exec EXCEPT ![r] = "start"]
  /\ work' = [work EXCEPT ![r] = [c \in Clients |-> "queued"]]
  /\ UNCHANGED <<kind, waits, reader, network>>

(* The row that create_action finds is returned without its targets.        *)
FoundTargets_All == [c \in Clients |-> "queued"]   \* mutant
FoundTargets == NoWork

(* A row that appeared since Look is executed (again) if it is still        *)
(* PENDING; the request ends here if it is not, or if its insert collides.  *)
CreateFindsRow(r) ==
  /\ request[r] = "absent" /\ action # "none"
  /\ request' = [request EXCEPT ![r] = "done"]
  /\ \/ /\ action = "PENDING"
        /\ exec' = [exec EXCEPT ![r] = "start"]
        /\ work' = [work EXCEPT ![r] = FoundTargets]
     \/ UNCHANGED <<exec, work>>
  /\ UNCHANGED <<kind, rows, waits, reader, network>>

-----------------------------------------------------------------------------
(* execute_action.  The first update is unconditional.  With no target, the *)
(* thread pool of a streamed action refuses its size and the thread dies.   *)

Start(r) ==
  /\ exec[r] = "start"
  /\ action' = "RUNNING"
  /\ exec' = [exec EXCEPT ![r] = IF Streamed /\ Targets(r) = {} THEN "dead" ELSE "fanout"]
  /\ UNCHANGED <<kind, target, request, work, waits, reader, network>>

Working(r, c, step) == exec[r] = "fanout" /\ work[r][c] = step
Moves(r, c, step)   == work' = [work EXCEPT ![r][c] = step]

(* The sequential loop: one client at a time, in an order of no interest.   *)
(* A client that is unknown, not connected or refuses yields an error.      *)
RunCommand(r, c) ==
  /\ ~ Streamed /\ Working(r, c, "queued")
  /\ \/ /\ target[c] # "none"
        /\ Moves(r, c, "ok")
        /\ said' = [said EXCEPT ![c] = "SUCCESS"]
     \/ Moves(r, c, "failed") /\ UNCHANGED said
  /\ UNCHANGED <<kind, rows, request, exec, waits, reader, session, result>>

(* deploy_package_to_client.  DEPLOY_PACKAGE_INIT fails, or opens a session *)
(* on the client; then the row is marked and a result queue registered.     *)
InitFails(r, c) ==
  /\ Streamed /\ Working(r, c, "queued")
  /\ Moves(r, c, "failed")
  /\ UNCHANGED <<kind, rows, request, exec, waits, reader, network>>

InitReady(r, c) ==
  /\ Streamed /\ Working(r, c, "queued") /\ target[c] # "none"
  /\ Moves(r, c, "streaming")
  /\ target' = [target EXCEPT ![c] = "RUNNING"]
  /\ session' = [session EXCEPT ![c] = "open"]
  /\ waiter' = [waiter EXCEPT ![c] = r]
  /\ box' = [box EXCEPT ![r][c] = "empty"]
  /\ UNCHANGED <<kind, action, request, exec, reader, result, said>>

StreamAll(r, c) ==
  /\ Working(r, c, "streaming")
  /\ Moves(r, c, "waiting")
  /\ session' = [session EXCEPT ![c] = IF @ = "open" THEN "full" ELSE @]
  /\ UNCHANGED <<kind, rows, request, exec, waits, reader, result, said>>

Unregister_NotAfterError(r, c) ==                  \* mutant
  waiter' = [waiter EXCEPT ![c] = IF box[r][c] = "empty" THEN @ ELSE NoOne]
Unregister(r, c) == waiter' = [waiter EXCEPT ![c] = NoOne]

(* A send that fails, and the watchdog of the wait.                         *)
StreamBreaks(r, c) ==
  /\ Working(r, c, "streaming")
  /\ Moves(r, c, "failed")
  /\ Unregister(r, c)
  /\ UNCHANGED <<kind, rows, request, exec, box, reader, network>>

Expires_Never(r, c) == FALSE                       \* mutant
Expires(r, c) == box[r][c] = "empty"

TimesOut(r, c) ==
  /\ Working(r, c, "waiting") /\ Expires(r, c)
  /\ Moves(r, c, "failed")
  /\ Unregister(r, c)
  /\ UNCHANGED <<kind, rows, request, exec, box, reader, network>>

Deployed_OrStaged(v) == v # "FAILED"               \* mutant
Deployed(v) == v = "SUCCESS"

GetsResult(r, c) ==
  /\ Working(r, c, "waiting") /\ box[r][c] # "empty"
  /\ Moves(r, c, IF Deployed(box[r][c]) THEN "ok" ELSE "failed")
  /\ Unregister(r, c)
  /\ UNCHANGED <<kind, rows, request, exec, box, reader, network>>

(* The summary and its single transaction: the action, then its targets.    *)
Summary(r) ==
  LET ok == {c \in Targets(r) : work[r][c] = "ok"}
  IN  CASE ok = Targets(r) -> "SUCCESS"
        [] ok # Targets(r) /\ ok = {} -> "FAILED"
        [] OTHER -> "PARTIAL_SUCCESS"

TargetStatus(r, c) ==
  IF target[c] = "none" \/ work[r][c] = "none" THEN target[c]
  ELSE IF work[r][c] = "ok" THEN "SUCCESS" ELSE "FAILED"

AllAnswered(r) == \A c \in Targets(r) : work[r][c] \in {"ok", "failed"}

FinishWritten_NoTargets(r) ==                      \* mutant
  action' = Summary(r) /\ UNCHANGED target
FinishWritten(r) ==
  /\ action' = Summary(r)
  /\ target' = [c \in Clients |-> TargetStatus(r, c)]

Finish(r) ==
  /\ exec[r] = "fanout" /\ AllAnswered(r)
  /\ FinishWritten(r)
  /\ exec' = [exec EXCEPT ![r] = "done"]
  /\ UNCHANGED <<kind, request, work, waits, reader, network>>

(* POST /api/actions/<id>/cancel: the row changes, no thread is told.       *)
Cancel ==
  /\ action \in Cancelable
  /\ action' = "CANCELLED"
  /\ UNCHANGED <<kind, target, request, exec, work, waits, reader, network>>

-----------------------------------------------------------------------------
(* The client and the reader thread of its connection.  A client that is    *)
(* lost is one that never answers; a session that failed answers FAILED.    *)

Answer(c, v) ==
  /\ result[c] = "none"
  /\ session' = [session EXCEPT ![c] = "none"]
  /\ result' = [result EXCEPT ![c] = v]
  /\ said' = [said EXCEPT ![c] = v]
  /\ UNCHANGED <<kind, rows, request, exec, work, waits, reader>>

ClientFails(c)    == session[c] # "none" /\ Answer(c, "FAILED")
ClientVerifies(c) == session[c] = "full"
                     /\ Answer(c, IF kind = Update THEN "STAGED" ELSE "SUCCESS")

(* handle_package_result: first the row, then the queue, if there is one.   *)
StoredStatus(v) == IF v = "SUCCESS" THEN "SUCCESS" ELSE "FAILED"

StoreResult(c) ==
  /\ result[c] # "none" /\ reader[c] = "none"
  /\ target' = [target EXCEPT ![c] = IF @ = "none" THEN @ ELSE StoredStatus(result[c])]
  /\ reader' = [reader EXCEPT ![c] = result[c]]
  /\ result' = [result EXCEPT ![c] = "none"]
  /\ UNCHANGED <<kind, action, request, exec, work, waits, session, said>>

HandOver(c) ==
  /\ reader[c] # "none"
  /\ reader' = [reader EXCEPT ![c] = "none"]
  /\ LET r == waiter[c] IN
     IF r # NoOne /\ box[r][c] = "empty"
     THEN box' = [box EXCEPT ![r][c] = reader[c]] ELSE UNCHANGED box
  /\ UNCHANGED <<kind, rows, request, exec, work, waiter, network>>

(* The server stops and is started again: the rows remain, nothing resumes. *)
Alive(r) == request[r] = "absent" \/ exec[r] \in {"start", "fanout"}

Restart ==
  /\ \E r \in Requests : Alive(r)
  /\ request' = [r \in Requests |-> IF request[r] = "absent" THEN "done" ELSE request[r]]
  /\ exec' = [r \in Requests |-> IF exec[r] \in {"start", "fanout"} THEN "dead" ELSE exec[r]]
  /\ waiter' = [c \in Clients |-> NoOne]
  /\ reader' = [c \in Clients |-> "none"]
  /\ result' = [c \in Clients |-> "none"]
  /\ session' = [c \in Clients |-> "none"]
  /\ UNCHANGED <<kind, rows, work, box, said>>

-----------------------------------------------------------------------------
Post(r) == Look(r) \/ Create(r) \/ CreateFindsRow(r)

Transfer(r, c) == StreamAll(r, c) \/ StreamBreaks(r, c) \/ TimesOut(r, c) \/ GetsResult(r, c)

Execute(r) ==
  \/ Start(r) \/ Finish(r)
  \/ \E c \in Clients :
        RunCommand(r, c) \/ InitFails(r, c) \/ InitReady(r, c) \/ Transfer(r, c)

ClientStep(c) == ClientFails(c) \/ ClientVerifies(c) \/ StoreResult(c) \/ HandOver(c)

Next ==
  \/ \E r \in Requests : Post(r) \/ Execute(r)
  \/ \E c \in Clients : ClientStep(c)
  \/ Cancel \/ Restart

(* A started server thread runs on: a send returns or fails, a wait has a   *)
(* timeout.  Nothing is asked of the clients or of the network.             *)
Fairness == \A r \in Requests : WF_vars(Execute(r))

Spec == Init /\ [][Next]_vars /\ Fairness

-----------------------------------------------------------------------------
(* The variables stay in their domains. *)
TypeOK ==
  /\ kind \in Kinds
  /\ action \in {"none", "PENDING", "RUNNING"} \cup Terminal
  /\ target \in [Clients -> {"none", "PENDING", "RUNNING", "SUCCESS", "FAILED"}]
  /\ request \in [Requests -> {"idle", "absent", "done"}]
  /\ exec \in [Requests -> {"none", "start", "fanout", "done", "dead"}]
  /\ work \in [Requests -> [Clients ->
                {"none", "queued", "streaming", "waiting", "ok", "failed"}]]
  /\ waiter \in [Clients -> Requests \cup {NoOne}]
  /\ box \in [Requests -> [Clients -> Verdicts \cup {"empty"}]]
  /\ reader \in [Clients -> Verdicts \cup {"none"}]
  /\ session \in [Clients -> {"none", "open", "full"}]
  /\ result \in [Clients -> Verdicts \cup {"none"}]
  /\ said \in [Clients -> Verdicts \cup {"none"}]

(* However many requests carry the id, and whatever they find, at most one  *)
(* execution ever sends a target its command or its package.                *)
Sent(r, c) == work[r][c] \notin {"none", "queued"}
DispatchedOnce ==
  \A c \in Clients, r, s \in Requests : Sent(r, c) /\ Sent(s, c) => r = s

(* A target's row says SUCCESS only if that client itself said so: neither  *)
(* the reader thread, nor the worker, nor the final transaction turns a     *)
(* staged update, a timeout or another client's answer into a success.      *)
SuccessIsReported ==
  \A c \in Clients : target[c] = "SUCCESS" => said[c] = "SUCCESS"

(* A result queue is registered exactly while its transfer is under way, on *)
(* every way out of deploy_package_to_client.                               *)
WaitersHaveWorkers ==
  \A c \in Clients, r \in Requests :
    waiter[c] = r <=> exec[r] = "fanout" /\ work[r][c] \in {"streaming", "waiting"}

(* The reader thread and the worker judge a result independently and agree: *)
(* a success that the reader stored is overturned only by a worker whose    *)
(* wait ended without that result.                                          *)
SuccessIsKept ==
  [][\A c \in Clients : target[c] = "SUCCESS" /\ target'[c] # "SUCCESS"
        => \E r \in Requests : Sent(r, c) /\ box[r][c] = "empty"]_vars

(* When an execution of its targets is over, the status of the action is    *)
(* the summary of the target rows it leaves: a SUCCESS leaves no known      *)
(* target behind, a FAILED leaves none that succeeded.                      *)
SummaryIsTrue ==
  [][\A r \in Requests : exec[r] = "fanout" /\ exec'[r] = "done" /\ Targets(r) # {}
        => /\ action' = "SUCCESS" => \A c \in Clients : target'[c] \in {"SUCCESS", "none"}
           /\ action' = "FAILED"  => \A c \in Clients : target'[c] \in {"FAILED", "none"}]_vars

(* An action that was created comes to rest in a terminal status, although  *)
(* clients may be silent, unless the thread that executes it has died.      *)
ActionSettles ==
  <>[](action \in Terminal \cup {"none"} \/ \E r \in Requests : exec[r] = "dead")

-----------------------------------------------------------------------------
(* What the documents promise and the code does not do. *)

(* CANCELLED is an end of the lifecycle.  cancel_action tells no thread,    *)
(* and execute_action overwrites the status without looking.                *)
CancelledIsFinal == [][action = "CANCELLED" => action' = "CANCELLED"]_vars

(* The summary of an execution is the last word on the action.  Only an     *)
(* execution started by a replayed request, which has no targets, comes     *)
(* after it, and makes the row RUNNING and then SUCCESS.                    *)
ReplayIsIdempotent ==
  [][(action \in {"SUCCESS", "PARTIAL_SUCCESS", "FAILED"}) => action' = action]_vars
=============================================================================
