--------------------------- MODULE TelemetrySync ---------------------------
(***************************************************************************)
(* Telemetry sync: SyncManager of client/app/sync_manager.py, which keeps  *)
(* every closed activity window on disk and sends it until the server      *)
(* acknowledges it, and handle_telemetry_sync with merge_telemetry_delta   *)
(* on the server.                                                          *)
(*                                                                         *)
(* Every session of the client with the server has a manager of its own,   *)
(* with its own lock, workers and events.  The workers of an earlier       *)
(* manager are not stopped: the function they send with uses the socket    *)
(* variable of the client, which by then holds the next socket.  All       *)
(* managers share the files.                                               *)
(***************************************************************************)
EXTENDS Naturals, Sequences

CONSTANTS
  Windows,      (* activity windows *)
  MaxSessions,  (* sessions in the life of the model (bound) *)
  MaxAttempts,  (* max_retries + 1 *)
  NoWindow      (* not a window *)

ASSUME SessionsAssumption == MaxSessions \in Nat \ {0}
ASSUME AttemptsAssumption == MaxAttempts \in Nat \ {0}
ASSUME WindowsAssumption  == NoWindow \notin Windows

Sessions == 1 .. MaxSessions
Answers  == {"ack", "nack"}
Frames   == [window : Windows, status : Answers]

VARIABLES
  (* the client's disk *)
  pending,    (* sync_pending/<window>.json *)
  completed,  (* completed.json; its cut to the last 500 is left out *)
  (* the client *)
  session,    (* the last session, 0 before the first *)
  link,       (* its connection: down, up, registered *)
  toRetry,    (* the files that retry_pending has listed and not yet read *)
  enqueuing,  (* the window past the check of _enqueue_payload, or NoWindow *)
  worker,     (* _send_with_retries: none, send, wait, sleep, mark, unlink, done, dead *)
  attempt,    (* its attempt, from 1 *)
  event,      (* its event is set *)
  answer,     (* _ack_results: none, ack, nack *)
  (* the connections and the server *)
  uplink,     (* TELEMETRY_SYNC frames on the way, by connection *)
  downlink,   (* SYNC_ACK and SYNC_NACK frames on the way *)
  server,     (* its end: none, register, first, reading, closed; see below *)
  rows,       (* telemetry_activity_windows: how many rows a window has *)
  (* history *)
  acked       (* an ACK was delivered to the worker *)

files   == <<pending, completed>>
threads == <<worker, attempt, event, answer, acked>>
net     == <<uplink, downlink, server>>
vars    == <<files, session, link, toRetry, enqueuing, threads, net, rows>>

Active == {"send", "wait", "sleep"}     \* in the loop, with an event registered

Init ==
  /\ pending = {} /\ completed = {}
  /\ session = 0 /\ link = "down"
  /\ toRetry = {}
  /\ enqueuing = NoWindow
  /\ worker  = [s \in Sessions |-> [w \in Windows |-> "none"]]
  /\ attempt = [s \in Sessions |-> [w \in Windows |-> 1]]
  /\ event   = [s \in Sessions |-> [w \in Windows |-> FALSE]]
  /\ answer  = [s \in Sessions |-> [w \in Windows |-> "none"]]
  /\ acked   = [s \in Sessions |-> [w \in Windows |-> FALSE]]
  /\ uplink   = [s \in Sessions |-> << >>]
  /\ downlink = [s \in Sessions |-> << >>]
  /\ server   = [s \in Sessions |-> "none"]
  /\ rows = [w \in Windows |-> 0]

(* The last session of the model is a calm one, for the liveness property:  *)
(* it is not lost, an answer that comes is in time, the database works, and *)
(* it begins when the workers of earlier sessions have ended.               *)
Calm == session = MaxSessions
Ended(s) == \A w \in Windows : worker[s][w] \in {"none", "done", "dead"}

-----------------------------------------------------------------------------
(* Sessions. *)

(* The thread that runs retry_pending is the one that reconnects. *)
Connect ==
  /\ link = "down" /\ session < MaxSessions
  /\ toRetry = {} /\ enqueuing = NoWindow
  /\ session + 1 = MaxSessions => \A s \in 1 .. session : Ended(s) /\ uplink[s] = << >>
  /\ session' = session + 1
  /\ link' = "up"
  /\ server' = [server EXCEPT ![session + 1] = "register"]
  /\ UNCHANGED <<files, toRetry, enqueuing, threads, uplink, downlink, rows>>

(* The server has registered the connection. *)
InRegistry(s) == server[s] \in {"first", "reading"}

(* REGISTERED: retry_pending lists the files. *)
ListPending_OnlyFirst == IF session = 1 THEN pending ELSE {}   \* mutant
ListPending == pending

Registered ==
  /\ link = "up" /\ InRegistry(session)
  /\ link' = "registered"
  /\ toRetry' = ListPending
  /\ UNCHANGED <<files, session, enqueuing, threads, net, rows>>

(* The connection is lost; what the server has sent and the client has not  *)
(* read is lost with it.                                                    *)
Disconnect ==
  /\ link # "down" /\ ~ Calm
  /\ link' = "down"
  /\ downlink' = [downlink EXCEPT ![session] = << >>]
  /\ UNCHANGED <<files, session, toRetry, enqueuing, threads, uplink, server, rows>>

(* The client process dies.  Its files remain. *)
Crash ==
  /\ session > 0 /\ ~ Calm
  /\ link' = "down"
  /\ toRetry' = {}
  /\ enqueuing' = NoWindow
  /\ downlink' = [downlink EXCEPT ![session] = << >>]
  /\ worker' = [s \in Sessions |-> [w \in Windows |->
                  IF worker[s][w] \in {"none", "done"} THEN worker[s][w] ELSE "dead"]]
  /\ UNCHANGED <<files, session, attempt, event, answer, acked, uplink, server, rows>>

-----------------------------------------------------------------------------
(* _enqueue_payload.  The lock is that of one manager: another manager may  *)
(* complete the window between the check and the write.                     *)

StartWorker(s, w) ==
  worker' = [worker EXCEPT ![s][w] = IF @ = "none" THEN "send" ELSE @]

(* handle_window_closed: a new window, which is neither completed nor known *)
(* to any worker.                                                           *)
CloseWindow(w) ==
  /\ link = "registered" /\ enqueuing = NoWindow
  /\ w \notin pending \cup completed /\ rows[w] = 0
  /\ pending' = pending \cup {w}
  /\ StartWorker(session, w)
  /\ UNCHANGED <<completed, session, link, toRetry, enqueuing, attempt, event,
                 answer, acked, net, rows>>

Retry(w) ==
  /\ w \in toRetry /\ enqueuing = NoWindow
  /\ toRetry' = toRetry \ {w}
  /\ enqueuing' = IF w \in pending \ completed THEN w ELSE NoWindow
  /\ UNCHANGED <<files, session, link, threads, net, rows>>

Enqueue ==
  /\ enqueuing # NoWindow
  /\ pending' = pending \cup {enqueuing}
  /\ StartWorker(session, enqueuing)
  /\ enqueuing' = NoWindow
  /\ UNCHANGED <<completed, session, link, toRetry, attempt, event, answer,
                 acked, net, rows>>

-----------------------------------------------------------------------------
(* _send_with_retries.                                                      *)

At(s, w, step)   == worker[s][w] = step
Goes(s, w, step) == worker' = [worker EXCEPT ![s][w] = step]

(* The result of the attempt before is dropped, its event is not cleared.   *)
(* A send on a lost connection raises, which is logged.                     *)
Send(s, w) ==
  /\ At(s, w, "send")
  /\ answer' = [answer EXCEPT ![s][w] = "none"]
  /\ uplink' = IF link = "down" THEN uplink
               ELSE [uplink EXCEPT ![session] = Append(@, w)]
  /\ Goes(s, w, "wait")
  /\ UNCHANGED <<files, session, link, toRetry, enqueuing, attempt, event,
                 acked, downlink, server, rows>>

Accepted_AnyAnswer(a) == a # "none"                \* mutant
Accepted(a) == a = "ack"

MoreAttempts(s, w) == attempt[s][w] < MaxAttempts

GiveUpOrSleep(s, w) == Goes(s, w, IF MoreAttempts(s, w) THEN "sleep" ELSE "done")

(* event.wait returns at once when the event is set, whatever set it. *)
WakeUp(s, w) ==
  /\ At(s, w, "wait") /\ event[s][w]
  /\ IF Accepted(answer[s][w]) THEN Goes(s, w, "mark") ELSE GiveUpOrSleep(s, w)
  /\ UNCHANGED <<files, session, link, toRetry, enqueuing, attempt, event,
                 answer, acked, net, rows>>

(* The frame of a window, or an answer to it, is on its way. *)
Answerable(s, w) ==
  \/ \E i \in DOMAIN uplink[s] : uplink[s][i] = w
  \/ \E i \in DOMAIN downlink[s] : downlink[s][i].window = w

TimeOut(s, w) ==
  /\ At(s, w, "wait") /\ ~ event[s][w]
  /\ Calm /\ s = session => ~ Answerable(s, w)
  /\ GiveUpOrSleep(s, w)
  /\ UNCHANGED <<files, session, link, toRetry, enqueuing, attempt, event,
                 answer, acked, net, rows>>

NextAttempt(s, w) ==
  /\ At(s, w, "sleep")
  /\ attempt' = [attempt EXCEPT ![s][w] = @ + 1]
  /\ Goes(s, w, "send")
  /\ UNCHANGED <<files, session, link, toRetry, enqueuing, event, answer,
                 acked, net, rows>>

(* _mark_completed: completed.json, then the file of the window. *)
MarkCompleted(s, w) ==
  /\ At(s, w, "mark")
  /\ completed' = completed \cup {w}
  /\ Goes(s, w, "unlink")
  /\ UNCHANGED <<pending, session, link, toRetry, enqueuing, attempt, event,
                 answer, acked, net, rows>>

Unlink(s, w) ==
  /\ At(s, w, "unlink")
  /\ pending' = pending \ {w}
  /\ Goes(s, w, "done")
  /\ UNCHANGED <<completed, session, link, toRetry, enqueuing, attempt, event,
                 answer, acked, net, rows>>

(* handle_ack, called by the receive loop of the session on its manager.    *)
HandleAck ==
  /\ link # "down" /\ downlink[session] # << >>
  /\ downlink' = [downlink EXCEPT ![session] = Tail(@)]
  /\ LET s == session
         w == Head(downlink[s]).window
         a == Head(downlink[s]).status
     IN  IF worker[s][w] \in Active
         THEN /\ event'  = [event EXCEPT ![s][w] = TRUE]
              /\ answer' = [answer EXCEPT ![s][w] = a]
              /\ acked'  = [acked EXCEPT ![s][w] = @ \/ a = "ack"]
         ELSE UNCHANGED <<event, answer, acked>>
  /\ UNCHANGED <<files, session, link, toRetry, enqueuing, worker, attempt, uplink, server, rows>>

-----------------------------------------------------------------------------
(* The server.  The accept loop serves one connection after the other: the  *)
(* first frame has to be REGISTER, which a worker of an earlier session can *)
(* forestall; the frame that follows is read by the loop itself, which      *)
(* drops it unless it is a request of settings; then the reader starts.     *)

Earlier(s) == {t \in Sessions : t < s /\ server[t] \in {"register", "first"}}

Accept(s) ==
  /\ server[s] = "register" /\ Earlier(s) = {}
  /\ server' = [server EXCEPT ![s] = "first"]
  /\ UNCHANGED <<files, session, link, toRetry, enqueuing, threads, uplink, downlink, rows>>

Reject(s) ==
  /\ server[s] = "register" /\ Earlier(s) = {}
  /\ ~ (Calm /\ s = session)
  /\ server' = [server EXCEPT ![s] = "closed"]
  /\ UNCHANGED <<files, session, link, toRetry, enqueuing, threads, uplink, downlink, rows>>

(* The frame that the loop reads is another one, or one of ours. *)
StartReader(s) ==
  /\ server[s] = "first"
  /\ server' = [server EXCEPT ![s] = "reading"]
  /\ \/ UNCHANGED uplink
     \/ uplink[s] # << >> /\ uplink' = [uplink EXCEPT ![s] = Tail(@)]
  /\ UNCHANGED <<files, session, link, toRetry, enqueuing, threads, downlink, rows>>

(* A reader goes on with the frames it has after the client has left.  It   *)
(* answers on the connection that the registry has for the device by then.  *)
(* The merge is one transaction, and the row lock of the device puts two    *)
(* merges of one window in order.  The unique key of the table, which would *)
(* refuse a second row, is left out: the lookup alone has to do.            *)

Deduplicates_Never(w) == FALSE                     \* mutant
Deduplicates(w) == rows[w] > 0

Reply(w, a) ==
  downlink' = IF session > 0 /\ InRegistry(session) /\ link # "down"
              THEN [downlink EXCEPT ![session] = Append(@, [window |-> w, status |-> a])]
              ELSE downlink

Receive(s) ==
  /\ server[s] = "reading" /\ uplink[s] # << >>
  /\ uplink' = [uplink EXCEPT ![s] = Tail(@)]
  /\ UNCHANGED <<files, session, link, toRetry, enqueuing, threads, server>>

Merge(s) ==
  /\ Receive(s)
  /\ LET w == Head(uplink[s]) IN
     /\ rows' = [rows EXCEPT ![w] = IF Deduplicates(w) THEN @ ELSE @ + 1]
     /\ Reply(w, "ack")

(* The database is down or refuses, and the transaction is rolled back. *)
Refuse(s) ==
  /\ Receive(s) /\ ~ Calm
  /\ Reply(Head(uplink[s]), "nack")
  /\ UNCHANGED rows

(* What the client had sent is lost with its connection. *)
LoseFrames(s) ==
  /\ uplink[s] # << >> /\ (s # session \/ link = "down" \/ server[s] = "closed")
  /\ uplink' = [uplink EXCEPT ![s] = << >>]
  /\ UNCHANGED <<files, session, link, toRetry, enqueuing, threads, downlink, server, rows>>

-----------------------------------------------------------------------------
WorkerStep(s, w) ==
  \/ Send(s, w) \/ WakeUp(s, w) \/ TimeOut(s, w) \/ NextAttempt(s, w)
  \/ MarkCompleted(s, w) \/ Unlink(s, w)

RetryPending == \E w \in Windows : Retry(w)
Session == Connect \/ Registered \/ RetryPending \/ Enqueue \/ HandleAck
Server(s) == Merge(s) \/ Refuse(s)
Handshake(s) == Accept(s) \/ Reject(s) \/ StartReader(s)

Next ==
  \/ Session \/ Disconnect \/ Crash
  \/ \E w \in Windows : CloseWindow(w)
  \/ \E s \in Sessions :
        Handshake(s) \/ Server(s) \/ LoseFrames(s) \/ \E w \in Windows : WorkerStep(s, w)

(* Threads run, and the server reads what it is sent.  No session has to    *)
(* last, and no window has to close.                                        *)
Fairness ==
  /\ WF_vars(Registered) /\ WF_vars(RetryPending) /\ WF_vars(Enqueue)
  /\ WF_vars(HandleAck)
  /\ \A s \in Sessions :
       /\ WF_vars(Handshake(s)) /\ WF_vars(Server(s))
       /\ \A w \in Windows : WF_vars(WorkerStep(s, w))

Spec == Init /\ [][Next]_vars /\ Fairness

-----------------------------------------------------------------------------
(* The variables stay in their domains. *)
TypeOK ==
  /\ pending \subseteq Windows /\ completed \subseteq Windows
  /\ session \in 0 .. MaxSessions
  /\ link \in {"down", "up", "registered"}
  /\ toRetry \subseteq Windows
  /\ enqueuing \in Windows \cup {NoWindow}
  /\ worker \in [Sessions -> [Windows ->
                  {"none", "send", "wait", "sleep", "mark", "unlink", "done", "dead"}]]
  /\ attempt \in [Sessions -> [Windows -> 1 .. MaxAttempts]]
  /\ event \in [Sessions -> [Windows -> BOOLEAN]]
  /\ answer \in [Sessions -> [Windows -> Answers \cup {"none"}]]
  /\ acked \in [Sessions -> [Windows -> BOOLEAN]]
  /\ server \in [Sessions -> {"none", "register", "first", "reading", "closed"}]
  /\ uplink \in [Sessions -> Seq(Windows)]
  /\ downlink \in [Sessions -> Seq(Frames)]
  /\ rows \in [Windows -> Nat]

(* However often a window is sent, by whichever manager and connection, the *)
(* server has one row of it.                                                *)
StoredOnce == \A w \in Windows : rows[w] <= 1

(* The client drops its copy of a window only when the server has it: the   *)
(* model implements the promise of TelemetryDelivery.                       *)
Stored   == {w \in Windows : rows[w] > 0}
Delivery == INSTANCE TelemetryDelivery WITH kept <- pending, stored <- Stored
ImplementsDelivery == Delivery!Spec

(* In a session that lasts, with a database that works and no worker of an  *)
(* earlier session left, every window left over is sent and acknowledged.   *)
LastSessionDelivers ==
  \A w \in Windows : (session = MaxSessions /\ w \in pending) ~> (w \in completed)

-----------------------------------------------------------------------------
(* What the documents promise and the code does not do. *)

(* An ACK that handle_ack has delivered to a worker completes the window.   *)
(* The event of the worker is never cleared: after a NACK or a late answer, *)
(* no later attempt waits, and the next one throws its ACK away.            *)
AckedWorkerCompletes ==
  [][\A s \in Sessions, w \in Windows :
        worker[s][w] = "wait" /\ worker'[s][w] = "done" => ~ acked[s][w]]_vars
=============================================================================
