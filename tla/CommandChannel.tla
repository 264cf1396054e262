--------------------------- MODULE CommandChannel ---------------------------
(***************************************************************************)
(* The commands the server sends to one device and the answers it waits    *)
(* for: execute_client_command and its wrappers, the reader that routes    *)
(* RESPONSE frames, and the two views of a device the server derives from  *)
(* the answers (device_isolation_status and client_quarantine_status), all *)
(* in server/server_components/server_lib.py; and the device as far as it  *)
(* carries out commands (client/app/client.py).                            *)
(*                                                                         *)
(* Calls are the server's threads (REST requests, actions, the menu); each *)
(* makes one call.  A connection is a number, never reused; an entry of    *)
(* the registry is the dict of the code, named after the connection that   *)
(* created it, and each registration puts a socket and a queue of its own  *)
(* into it.  The handshake, the agent roles and what follows a loss are in *)
(* ClientRegistry.                                                         *)
(***************************************************************************)
EXTENDS Naturals, Sequences

CONSTANTS
  MaxCalls,   (* calls, numbered in the order in which they begin (bound)   *)
  MaxConns,   (* connections of the device in the life of the model (bound) *)
  Ops         (* the wrappers that occur                                    *)

ASSUME BoundsAssumption == MaxConns \in Nat /\ MaxCalls \in Nat

Calls   == 1 .. MaxCalls
Conns   == 1 .. MaxConns
NoConn  == 0
AnyConn == Conns \cup {NoConn}

(* The wrappers of execute_client_command, and the command on the wire.     *)
(* "command" is a quarantine sent by POST .../commands or an action, which  *)
(* does not go through quarantine_client.                                   *)
Requests == {"screenshot", "neighbourhood", "flows", "passive"}
AllOps   == Requests \cup
            {"quarantine", "release", "isolate", "disconnect", "command"}
Name(op) == IF op = "command" THEN "quarantine" ELSE op

ASSUME OpsAssumption == Ops \subseteq AllOps

(* Commands the client hands to a thread of their own. *)
Background == {"screenshot", "neighbourhood"}

Windows == {1, 2}   \* of a flow query: two are enough to tell them apart

VARIABLES
  (* the device and the network *)
  link,       (* the client's end: none, up, silent (lost unseen), gone     *)
  commands,   (* frames on their way to the client, per connection          *)
  workers,    (* threads of the client that will answer                     *)
  answers,    (* RESPONSE frames on their way to the server                 *)
  isolated,   (* the device has lost its network to ISOLATE_DEVICE          *)
  (* the server *)
  sock,       (* the server's end: none, open, closed                       *)
  client,     (* the entry registered for the device, or NoConn             *)
  entry,      (* the fields of an entry that steps depend on                *)
  queue,      (* client["responses"], one per registration                  *)
  reader,     (* the reader thread of a connection                          *)
  call,       (* the threads in execute_client_command                      *)
  isolation,  (* device_isolation_status                                    *)
  quarantine, (* client_quarantine_status has an entry                      *)
  (* history, read only by the properties *)
  heard       (* calls whose command the client has carried out             *)

world    == <<link, commands, workers, answers, isolated>>
registry == <<sock, client, entry, queue>>
views    == <<isolation, quarantine>>
vars     == <<world, registry, reader, call, views, heard>>

Refused  == "SCREENSHOT"
Frame(k) == [name |-> Name(call[k].op), call |-> k]
Frames   == [name : {Name(op) : op \in Ops}, call : Calls]
Answers  == [name : {Name(op) : op \in Ops} \cup {Refused}, call : Calls, good : BOOLEAN]

(* The sentinel that remove_client queues. *)
Disconnected == [name |-> "DISCONNECTED"]

Idle    == [step |-> "idle", op |-> "none", entry |-> NoConn, conn |-> NoConn,
            marked |-> NoConn, queue |-> NoConn, window |-> 0,
            outcome |-> "none", answer |-> Disconnected, status |-> "none"]
Reading == [step |-> "reading", entry |-> NoConn, frame |-> Disconnected]

Init ==
  /\ link     = [c \in Conns |-> "none"]
  /\ commands = [c \in Conns |-> << >>]
  /\ answers  = [c \in Conns |-> << >>]
  /\ workers  = {}
  /\ isolated = FALSE
  /\ sock     = [c \in Conns |-> "none"]
  /\ client   = NoConn
  /\ entry    = [c \in Conns |-> [conn |-> c, expected |-> FALSE, reason |-> FALSE]]
  /\ queue    = [c \in Conns |-> << >>]
  /\ reader   = [c \in Conns |-> [Reading EXCEPT !.step = "none"]]
  /\ call     = [k \in Calls |-> Idle]
  /\ isolation  = "NOT_REQUESTED"
  /\ quarantine = FALSE
  /\ heard = {}

-----------------------------------------------------------------------------
(* The registry, as far as commands see it.                                 *)

(* register_client of a service agent, with the handshake before it and the *)
(* reader started after it.  A known device keeps its dict, and with it     *)
(* disconnect_expected; socket and queue are replaced.                      *)
Register(c) ==
  /\ link[c] = "none" /\ \A d \in Conns : d < c => link[d] \in {"silent", "gone"}
  /\ ~ isolated
  /\ link' = [link EXCEPT ![c] = "up"]
  /\ sock' = [sock EXCEPT ![c] = "open"]
  /\ reader' = [reader EXCEPT ![c] = Reading]
  /\ IF client = NoConn
     THEN client' = c /\ UNCHANGED entry
     ELSE entry' = [entry EXCEPT ![client].conn = c] /\ UNCHANGED client
  /\ UNCHANGED <<commands, workers, answers, isolated, queue, call, views, heard>>

(* remove_client: nothing if the registry has another connection by now.    *)
(* The sentinel goes into the queue the dict has when it is removed; the    *)
(* dict is out of the registry, so no registration can replace the queue.   *)
Remove(c) ==
  IF client # NoConn /\ entry[client].conn = c
  THEN /\ client' = NoConn
       /\ queue' = [queue EXCEPT ![c] = Append(@, Disconnected)]
       /\ sock'  = [sock EXCEPT ![c] = "closed"]
       /\ isolation' = IF entry[client].reason
                       THEN "CONNECTION_LOST_AFTER_ISOLATION" ELSE isolation
  ELSE UNCHANGED <<client, queue, sock, isolation>>

(* receive_client_messages.  The registry is asked whose connection this    *)
(* is, and the queue is looked up in the dict a moment later: by then it    *)
(* may be the queue of the next connection.                                 *)
ReadAnswer(c) ==
  /\ reader[c].step = "reading" /\ sock[c] = "open" /\ answers[c] # << >>
  /\ answers' = [answers EXCEPT ![c] = Tail(@)]
  /\ reader'  = [reader EXCEPT ![c] =
       IF client # NoConn /\ entry[client].conn = c
       THEN [step |-> "putting", entry |-> client, frame |-> Head(answers[c])]
       ELSE @]
  /\ UNCHANGED <<link, commands, workers, isolated, registry, call, views, heard>>

PutAnswer(c) ==
  /\ reader[c].step = "putting"
  /\ LET q == entry[reader[c].entry].conn
     IN  queue' = [queue EXCEPT ![q] = Append(@, reader[c].frame)]
  /\ reader' = [reader EXCEPT ![c] = Reading]
  /\ UNCHANGED <<world, sock, client, entry, call, views, heard>>

(* EOF or an error ends the reader, which removes its connection. *)
ReaderEnds(c) ==
  /\ reader[c].step = "reading"
  /\ sock[c] = "closed" \/ (link[c] = "gone" /\ answers[c] = << >>)
  /\ reader' = [reader EXCEPT ![c].step = "done"]
  /\ Remove(c)
  /\ UNCHANGED <<world, entry, call, quarantine, heard>>

-----------------------------------------------------------------------------
(* The callers.                                                             *)

Begins(k) == call[k] = Idle /\ \A j \in Calls : j < k => call[j] # Idle

(* isolate_client marks the connection before it sends: the two look-ups of *)
(* the dict are one step, an entry replaced between them is "not connected" *)
(* as none is.                                                              *)
MarkIsolation(k) ==
  /\ Begins(k) /\ "isolate" \in Ops
  /\ IF client = NoConn
     THEN /\ call' = [call EXCEPT ![k] = [Idle EXCEPT !.op = "isolate", !.step = "done",
                                            !.outcome = "not_connected"]]
          /\ UNCHANGED <<entry, isolation>>
     ELSE /\ call' = [call EXCEPT ![k] = [Idle EXCEPT !.op = "isolate", !.step = "marked",
                                            !.marked = client]]
          /\ entry' = [entry EXCEPT ![client].expected = TRUE, ![client].reason = TRUE]
          /\ isolation' = "SENT"
  /\ UNCHANGED <<world, sock, client, queue, reader, quarantine, heard>>

(* The look-up of execute_client_command: it keeps the dict, and the socket *)
(* that is in it now.                                                       *)
LookUp(k, op, w) ==
  /\ \/ Begins(k) /\ op # "isolate"
     \/ call[k].step = "marked" /\ op = "isolate"
  /\ w = 0 <=> op # "flows"
  /\ call' = [call EXCEPT ![k] =
       IF client = NoConn
       THEN [@ EXCEPT !.op = op, !.window = w, !.step = "report", !.outcome = "not_connected"]
       ELSE [@ EXCEPT !.op = op, !.window = w, !.step = "send",
                      !.entry = client, !.conn = entry[client].conn]]
  /\ UNCHANGED <<world, registry, reader, views, heard>>

(* Of a DISCONNECT, the flag is set before the send, if the dict is still   *)
(* registered with that socket.                                             *)
ExpectDisconnect(k) ==
  IF call[k].op = "disconnect" /\ client = call[k].entry
     /\ entry[client].conn = call[k].conn
  THEN entry' = [entry EXCEPT ![client].expected = TRUE]
  ELSE UNCHANGED entry

Send(k) ==
  LET c == call[k].conn IN
  /\ call[k].step = "send" /\ sock[c] = "open"
  /\ ExpectDisconnect(k)
  /\ commands' = IF link[c] = "up"
                 THEN [commands EXCEPT ![c] = Append(@, Frame(k))] ELSE commands
  /\ call' = [call EXCEPT ![k].step = "wait"]
  /\ UNCHANGED <<link, workers, answers, isolated, sock, client, queue, reader, views, heard>>

(* execute_client_command returns: its locals are gone. *)
Returned(k, outcome) ==
  [call[k] EXCEPT !.step = "report", !.outcome = outcome,
                  !.entry = NoConn, !.conn = NoConn, !.queue = NoConn]

SendFails(k) ==
  LET c == call[k].conn IN
  /\ call[k].step = "send" /\ (sock[c] = "closed" \/ link[c] = "gone")
  /\ ExpectDisconnect(k)
  /\ Remove(c)
  /\ call' = [call EXCEPT ![k] = Returned(k, "connection_lost")]
  /\ UNCHANGED <<world, reader, quarantine, heard>>

(* The queue to wait on is the one in the dict now, not the one of the      *)
(* connection the command was sent on.                                      *)
AwaitAnswer(k) ==
  /\ call[k].step \in {"wait", "again"}
  /\ call' = [call EXCEPT ![k].step = "get", ![k].queue = entry[call[k].entry].conn]
  /\ UNCHANGED <<world, registry, reader, views, heard>>

(* What a call makes of a frame: the answers of other commands are dropped. *)
Taken_AnyAnswer(k, f) ==                                   \* mutant
  IF f = Disconnected
  THEN Returned(k, "disconnected")
  ELSE [Returned(k, "ok") EXCEPT !.answer = f]
Taken(k, f) ==
  IF f = Disconnected
  THEN Returned(k, "disconnected")
  ELSE IF f.name # Name(call[k].op)
  THEN [call[k] EXCEPT !.step = "again"]
  ELSE [Returned(k, "ok") EXCEPT !.answer = f]

TakeAnswer(k) ==
  LET q == call[k].queue IN
  /\ call[k].step = "get" /\ queue[q] # << >>
  /\ call'  = [call EXCEPT ![k] = Taken(k, Head(queue[q]))]
  /\ queue' = [queue EXCEPT ![q] = Tail(@)]
  /\ UNCHANGED <<world, sock, client, entry, reader, views, heard>>

(* The wait ends: queue.Empty, or the time is up when the loop comes round. *)
TimesOut(k) ==
  /\ \/ call[k].step = "again"
     \/ call[k].step = "get" /\ queue[call[k].queue] = << >>
  /\ call' = [call EXCEPT ![k] = Returned(k, "timed_out")]
  /\ UNCHANGED <<world, registry, reader, views, heard>>

(* What the wrappers make of an outcome.  The three requests for tables are *)
(* alike; a screenshot calls every failure but a timeout "unavailable".     *)
Failure(k) ==
  IF call[k].outcome = "timed_out" THEN "client_timeout"
  ELSE IF call[k].op = "screenshot" \/ call[k].outcome = "not_connected"
       THEN "client_unavailable" ELSE "client_error"

(* A flow answer must be of the window that was asked for. *)
Usable(k) ==
  /\ call[k].answer.good
  /\ call[k].op = "flows" => call[call[k].answer.call].window = call[k].window

(* Screenshots and passive snapshots are stored, and storing can fail. *)
RequestStatus(k) ==
  IF call[k].outcome # "ok" THEN {Failure(k)}
  ELSE IF ~ Usable(k) THEN {"client_error"}
  ELSE IF call[k].op \in {"screenshot", "passive"} THEN {"completed", "storage_error"}
  ELSE {"completed"}

Finish(k, status) == call' = [call EXCEPT ![k].step = "done", ![k].status = status]

ReportRequest(k) ==
  /\ call[k].step = "report" /\ call[k].op \in Requests
  /\ \E status \in RequestStatus(k) : Finish(k, status)
  /\ UNCHANGED <<world, registry, reader, views, heard>>

ReportCommand(k) ==
  /\ call[k].step = "report" /\ call[k].op \in {"disconnect", "command"}
  /\ Finish(k, IF call[k].outcome = "ok" THEN "ok" ELSE "error")
  /\ UNCHANGED <<world, registry, reader, views, heard>>

(* quarantine_client and release_client_quarantine: any answer of that name *)
(* is an acknowledgement, a refusal of the client included.                 *)
Tracked_Always(k) == call[k].op = "quarantine"     \* mutant
Tracked(k) == IF call[k].outcome = "ok" THEN call[k].op = "quarantine" ELSE quarantine

ReportQuarantine(k) ==
  /\ call[k].step = "report" /\ call[k].op \in {"quarantine", "release"}
  /\ quarantine' = Tracked(k)
  /\ Finish(k, IF call[k].outcome = "ok" THEN "ok" ELSE "error")
  /\ UNCHANGED <<world, registry, reader, isolation, heard>>

(* isolate_client.  A failure takes the mark back, if the dict it marked is *)
(* still the one registered.                                                *)
MarkTaken_FromSocket(k) ==                         \* mutant
  IF client # NoConn /\ client = call[k].marked /\ entry[client].conn = client
  THEN [entry EXCEPT ![client].expected = FALSE, ![client].reason = FALSE]
  ELSE entry
MarkTaken(k) ==
  IF client # NoConn /\ client = call[k].marked
  THEN [entry EXCEPT ![client].expected = FALSE, ![client].reason = FALSE]
  ELSE entry

ReportIsolation(k) ==
  /\ call[k].step = "report" /\ call[k].op = "isolate"
  /\ CASE call[k].outcome = "ok" ->
            isolation' = "ACKNOWLEDGED" /\ UNCHANGED entry
       [] call[k].outcome \in {"disconnected", "connection_lost"} ->
            isolation' = "CONNECTION_LOST_AFTER_ISOLATION" /\ UNCHANGED entry
       [] OTHER -> isolation' = "FAILED" /\ entry' = MarkTaken(k)
  /\ Finish(k, IF isolation' = "FAILED" THEN "error" ELSE "ok")
  /\ UNCHANGED <<world, sock, client, queue, reader, quarantine, heard>>

-----------------------------------------------------------------------------
(* The client.  Its loop takes one frame at a time; screenshots and         *)
(* neighbourhood reports are answered by threads.                           *)

AnswerOf(f, good) == [name |-> f.name, call |-> f.call, good |-> good]

StartWorker(c) ==
  /\ link[c] = "up" /\ commands[c] # << >> /\ Head(commands[c]).name \in Background
  /\ workers'  = workers \cup {[conn |-> c, frame |-> Head(commands[c])]}
  /\ commands' = [commands EXCEPT ![c] = Tail(@)]
  /\ UNCHANGED <<link, answers, isolated, registry, reader, call, views, heard>>

(* A client that may not capture refuses under the name the command has in  *)
(* its own table, not the one the server waits for.                         *)
RefuseScreenshot(c) ==
  /\ link[c] = "up" /\ commands[c] # << >> /\ Head(commands[c]).name = "screenshot"
  /\ heard'    = heard \cup {Head(commands[c]).call}
  /\ commands' = [commands EXCEPT ![c] = Tail(@)]
  /\ answers'  = [answers EXCEPT ![c] =
       Append(@, [name |-> Refused, call |-> Head(commands[c]).call, good |-> FALSE])]
  /\ UNCHANGED <<link, workers, isolated, registry, reader, call, views>>

WorkerAnswers(w, good) ==
  /\ w \in workers
  /\ workers' = workers \ {w}
  /\ heard'   = heard \cup {w.frame.call}
  /\ answers' = IF link[w.conn] = "up"
                THEN [answers EXCEPT ![w.conn] = Append(@, AnswerOf(w.frame, good))]
                ELSE answers
  /\ UNCHANGED <<link, commands, isolated, registry, reader, call, views>>

(* The other commands.  An isolation takes the default route away: the      *)
(* answer may be lost with it, without the server seeing anything.  What a  *)
(* quarantine does to the device is in Quarantine.                          *)
CarryOut(c, good) ==
  LET f == Head(commands[c]) IN
  /\ link[c] = "up" /\ commands[c] # << >> /\ f.name \notin Background
  /\ isolated' = (isolated \/ (f.name = "isolate" /\ good))
  /\ heard'    = heard \cup {f.call}
  /\ commands' = [commands EXCEPT ![c] = Tail(@)]
  /\ \/ /\ answers' = [answers EXCEPT ![c] = Append(@, AnswerOf(f, good))]
        /\ link'    = IF f.name = "disconnect" THEN [link EXCEPT ![c] = "gone"] ELSE link
     \/ /\ f.name = "isolate" /\ good
        /\ link' = [link EXCEPT ![c] = "silent"]
        /\ UNCHANGED answers
  /\ UNCHANGED <<workers, registry, reader, call, views>>

(* The client stops or loses its network, seen by the server or not; the    *)
(* commands it has not read are lost.                                       *)
LinkEnds(c) ==
  /\ \/ link[c] = "up" /\ link' = [link EXCEPT ![c] = "silent"]
     \/ link[c] \in {"up", "silent"} /\ link' = [link EXCEPT ![c] = "gone"]
  /\ commands' = [commands EXCEPT ![c] = << >>]
  /\ UNCHANGED << workers, answers, isolated, registry, reader, call, views, heard>>

(* The local administrator restores the network. *)
RestoreNetwork ==
  /\ isolated /\ isolated' = FALSE
  /\ UNCHANGED <<link, commands, workers, answers, registry, reader, call, views, heard>>

Return(k) == ReportRequest(k) \/ ReportCommand(k) \/ ReportQuarantine(k) \/ ReportIsolation(k)

Next ==
  \/ \E c \in Conns : Register(c) \/ ReadAnswer(c) \/ PutAnswer(c) \/ ReaderEnds(c)
                      \/ StartWorker(c) \/ RefuseScreenshot(c) \/ LinkEnds(c)
                      \/ \E good \in BOOLEAN : CarryOut(c, good)
  \/ \E w \in workers, good \in BOOLEAN : WorkerAnswers(w, good)
  \/ \E k \in Calls :
       \/ MarkIsolation(k) \/ Send(k) \/ SendFails(k) \/ AwaitAnswer(k)
       \/ TakeAnswer(k) \/ TimesOut(k) \/ Return(k)
       \/ \E op \in Ops, w \in {0} \cup Windows : LookUp(k, op, w)
  \/ RestoreNetwork

Spec == Init /\ [][Next]_vars

-----------------------------------------------------------------------------
Steps    == {"idle", "marked", "send", "wait", "again", "get", "report", "done"}
Outcomes == {"none", "not_connected", "connection_lost", "disconnected", "timed_out", "ok"}
Statuses == {"none", "ok", "error", "completed", "client_timeout", "client_unavailable",
             "client_error", "storage_error"}
Views    == {"NOT_REQUESTED", "SENT", "ACKNOWLEDGED", "CONNECTION_LOST_AFTER_ISOLATION",
             "FAILED"}
Queued   == Answers \cup {Disconnected}

(* Every variable stays in its domain. *)
TypeOK ==
  /\ link \in [Conns -> {"none", "up", "silent", "gone"}]
  /\ commands \in [Conns -> Seq(Frames)]
  /\ answers  \in [Conns -> Seq(Answers)]
  /\ workers \subseteq [conn : Conns, frame : Frames]
  /\ isolated \in BOOLEAN
  /\ sock \in [Conns -> {"none", "open", "closed"}]
  /\ client \in AnyConn
  /\ entry \in [Conns -> [conn : Conns, expected : BOOLEAN, reason : BOOLEAN]]
  /\ queue \in [Conns -> Seq(Queued)]
  /\ reader \in [Conns -> [step : {"none", "reading", "putting", "done"},
                           entry : AnyConn, frame : Queued]]
  /\ call \in [Calls -> [step : Steps, op : AllOps \cup {"none"}, entry : AnyConn,
                         conn : AnyConn, marked : AnyConn, queue : AnyConn,
                         window : {0} \cup Windows, outcome : Outcomes,
                         answer : Queued, status : Statuses]]
  /\ isolation \in Views
  /\ quarantine \in BOOLEAN
  /\ heard \subseteq Calls

(* A call that has an answer has the client's answer to a command of its    *)
(* own name, that some call sent and the client carried out; no answer      *)
(* serves two calls, and a flow query gets the window it asked for.  Calls  *)
(* share the queue, answers outlive their calls, and a reader may put an    *)
(* answer into the queue of the next connection.                            *)
AnswersAreEarned ==
  \A k \in Calls : call[k].outcome = "ok" =>
    LET f == call[k].answer IN
    /\ f # Disconnected /\ f.call \in heard
    /\ Name(call[f.call].op) = Name(call[k].op)
    /\ call[k].op = "flows" /\ call[k].status = "completed" =>
         call[f.call].window = call[k].window
AnswersServeOnce ==
  \A j, k \in Calls :
    j # k /\ call[j].outcome = "ok" /\ call[k].outcome = "ok" => call[j].answer # call[k].answer
AnswersAreOwn == AnswersAreEarned /\ AnswersServeOnce

(* The server says ACKNOWLEDGED or QUARANTINED only of a device that has    *)
(* carried out, or refused, a command to that effect.                       *)
ViewsAreEarned ==
  /\ isolation = "ACKNOWLEDGED" => \E k \in heard : call[k].op = "isolate"
  /\ quarantine => \E k \in heard : Name(call[k].op) = "quarantine"

(* The loss of a registered connection is kept from the disconnect checks   *)
(* for an isolation only while an isolation of that dict is under way or    *)
(* was not reported as failed: a call that fails takes its mark back,       *)
(* whatever reconnects, and whichever call is answered, in between.         *)
SuppressionIsOwned ==
  client # NoConn /\ entry[client].reason =>
    \E k \in Calls : /\ call[k].op = "isolate" /\ call[k].marked = client
                     /\ call[k].status # "error"

(* "a missing response after the command is sent is a successful transport  *)
(* outcome" (the docstring of isolate_client): the server does not call an  *)
(* isolation FAILED that the device has carried out.                        *)
MissingAnswerIsNoFailure ==
  \A k \in Calls : call[k].op = "isolate" /\ call[k].status = "error" /\ k \in heard
                     => ~ isolated
=============================================================================
