------------------------ MODULE CommandChannel_proofs ------------------------
(***************************************************************************)
(* Proofs about CommandChannel, for any number of calls and connections    *)
(* and any wrappers.  The argument follows a frame from the call that sent *)
(* it to the one that takes its answer: the command of a call keeps its    *)
(* name, an answer on its way is one the client has given, and what a call *)
(* was made for never changes once it has begun.  An answer is in one      *)
(* place: with a worker that has yet to send it, on one connection, in one *)
(* queue, with one reader, or with the call that took it.                  *)
(***************************************************************************)
EXTENDS CommandChannel, TLAPS

\* Frames of commands that were sent, and answers the client has given.
Asked  == {f \in Frames : call[f.call].op \in Ops /\ f.name = Name(call[f.call].op)}
Earned == {f \in Answers : /\ f.call \in heard /\ call[f.call].op \in Ops
                           /\ f.name \in {Refused, Name(call[f.call].op)}}
Held   == Earned \cup {Disconnected}

CallType == [step : Steps, op : AllOps \cup {"none"}, entry : AnyConn, conn : AnyConn,
             marked : AnyConn, queue : AnyConn, window : {0} \cup Windows,
             outcome : Outcomes, answer : Queued, status : Statuses]

\* The parts of the invariant, by the variables they constrain.
LinksTyped == /\ link \in [Conns -> {"none", "up", "silent", "gone"}]
              /\ sock \in [Conns -> {"none", "open", "closed"}]
              /\ client \in AnyConn /\ isolated \in BOOLEAN
              /\ isolation \in Views /\ quarantine \in BOOLEAN /\ heard \subseteq Calls
EntryTyped == entry \in [Conns -> [conn : Conns, expected : BOOLEAN, reason : BOOLEAN]]

CommandsAsked == /\ commands \in [Conns -> Seq(Asked)]
                 /\ workers \subseteq [conn : Conns, frame : Asked]
AnswersEarned == /\ answers \in [Conns -> Seq(Earned)]
                 /\ queue \in [Conns -> Seq(Held)]
ReadersHold   == reader \in [Conns -> [step : {"none", "reading", "putting", "done"},
                                       entry : AnyConn, frame : Held]]
                 /\ \A c \in Conns : reader[c].step = "putting" => reader[c].entry \in Conns

CallTyped == call \in [Calls -> CallType]

\* A call that has begun is for a known wrapper, and knows where it sends.
Steady(r) ==
  /\ r.step # "idle" => r.op \in Ops
  /\ r.step = "marked" => r.op = "isolate" /\ r.window = 0
  /\ r.step \in {"send", "wait", "again", "get"} => r.entry \in Conns /\ r.conn \in Conns
  /\ r.step = "get" => r.queue \in Conns

\* A call that has an answer has one of "earned", of its own name and window.
Answered(r, earned, calls) ==
  /\ r.outcome = "ok" =>
       /\ r.step \in {"report", "done"}
       /\ r.answer \in earned /\ r.answer.name = Name(r.op)
       /\ r.op = "flows" /\ r.status = "completed" => calls[r.answer.call].window = r.window
  /\ r.step \notin {"report", "done"} => r.outcome # "ok" /\ r.status = "none"
  /\ r.status = "completed" => r.outcome = "ok"

CallsAreSteady   == \A k \in Calls : Steady(call[k]) /\ (call[k].step = "idle" => call[k] = Idle)
CallsAreAnswered == \A k \in Calls : Answered(call[k], Earned, call)

Channel == /\ LinksTyped /\ EntryTyped /\ CommandsAsked /\ AnswersEarned /\ ReadersHold
           /\ CallTyped /\ CallsAreSteady /\ CallsAreAnswered

\* The marks of an isolation belong to entries that were registered.
MarksAreOfEntries ==
  /\ client # NoConn => link[client] # "none"
  /\ \A c \in Conns : link[c] = "none" => ~ entry[c].reason

Inv == Channel /\ ViewsAreEarned /\ MarksAreOfEntries /\ SuppressionIsOwned

-----------------------------------------------------------------------------
(* Sequences, and what a step keeps.                                        *)

LEMMA SeqGrows ==
  ASSUME NEW S, NEW T, S \subseteq T, NEW s \in Seq(S)
  PROVE  s \in Seq(T)
  OBVIOUS

LEMMA HeadAndTail ==
  ASSUME NEW S, NEW s \in Seq(S), s # << >>
  PROVE  Head(s) \in S /\ Tail(s) \in Seq(S)
  OBVIOUS

LEMMA Appended ==
  ASSUME NEW S, NEW s \in Seq(S), NEW e \in S
  PROVE  Append(s, e) \in Seq(S)
  OBVIOUS

\* What a call was made for, and what the client has carried out, stays.
Kept ==
  /\ heard \subseteq heard'
  /\ \A k \in Calls : call[k].op # "none" => call'[k].op = call[k].op
                                             /\ call'[k].window = call[k].window

LEMMA FramesKept ==
  ASSUME Kept, OpsAssumption
  PROVE  /\ Asked \subseteq Asked' /\ Earned \subseteq Earned' /\ Held \subseteq Held'
<1>1. "none" \notin Ops
  BY OpsAssumption DEF AllOps, Requests
<1>2. Asked \subseteq Asked'
  BY <1>1 DEF Asked, Kept, Frames
<1>3. Earned \subseteq Earned'
  BY <1>1 DEF Earned, Kept, Answers
<1> QED
  BY <1>2, <1>3 DEF Held

LEMMA InitInv == Init => Inv
<1> SUFFICES ASSUME Init PROVE Inv
  OBVIOUS
<1>1. LinksTyped
  BY DEF Init, LinksTyped, AnyConn, Views
<1>2. EntryTyped
  BY DEF Init, EntryTyped
<1>3. CommandsAsked /\ AnswersEarned
  BY DEF Init, CommandsAsked, AnswersEarned
<1>4. ReadersHold
  BY DEF Init, ReadersHold, Reading, AnyConn, Held
<1>5. CallTyped
  <2>1. Idle \in CallType
    BY DEF Idle, CallType, Steps, AnyConn, Outcomes, Queued, Statuses
  <2> QED
    BY <2>1 DEF Init, CallTyped
<1>6. CallsAreSteady /\ CallsAreAnswered
  BY DEF Init, CallsAreSteady, CallsAreAnswered, Steady, Answered, Idle
<1>7. ViewsAreEarned /\ MarksAreOfEntries /\ SuppressionIsOwned
  BY DEF Init, ViewsAreEarned, MarksAreOfEntries, SuppressionIsOwned
<1> QED
  BY <1>1, <1>2, <1>3, <1>4, <1>5, <1>6, <1>7 DEF Inv, Channel

\* The type invariant follows.
LEMMA ChannelTyped == Channel => TypeOK
<1> SUFFICES ASSUME Channel PROVE TypeOK
  OBVIOUS
<1>1. Asked \subseteq Frames /\ Earned \subseteq Answers /\ Held \subseteq Queued
  BY DEF Asked, Earned, Held, Queued
<1>2. commands \in [Conns -> Seq(Frames)] /\ workers \subseteq [conn : Conns, frame : Frames]
  BY <1>1, SeqGrows DEF Channel, CommandsAsked
<1>3. answers \in [Conns -> Seq(Answers)] /\ queue \in [Conns -> Seq(Queued)]
  BY <1>1, SeqGrows DEF Channel, AnswersEarned
<1>4. reader \in [Conns -> [step : {"none", "reading", "putting", "done"},
                           entry : AnyConn, frame : Queued]]
  BY <1>1 DEF Channel, ReadersHold
<1> QED
  BY <1>2, <1>3, <1>4 DEF Channel, TypeOK, LinksTyped, EntryTyped, CallTyped, CallType

-----------------------------------------------------------------------------
(* Lemmas for the parts of the invariant that a step leaves alone, and for  *)
(* a step of one call.                                                      *)

LEMMA NoneIsNoOp == "none" \notin Ops
  BY OpsAssumption DEF AllOps, Requests

LEMMA IdleTyped == Idle \in CallType
  BY DEF Idle, CallType, Steps, AnyConn, Outcomes, Queued, Statuses

LEMMA ReturnedTyped ==
  ASSUME NEW k \in Calls, call[k] \in CallType, NEW outcome \in Outcomes
  PROVE  Returned(k, outcome) \in CallType
<1>1. "report" \in Steps /\ NoConn \in AnyConn
  BY DEF Steps, AnyConn
<1> QED
  BY <1>1 DEF Returned, CallType

\* The flags of an entry are set, or set back.
LEMMA EntrySet ==
  ASSUME EntryTyped, NEW c \in Conns, NEW b \in BOOLEAN,
         entry' = [entry EXCEPT ![c].expected = b, ![c].reason = b]
  PROVE  EntryTyped'
<1>1. entry[c] \in [conn : Conns, expected : BOOLEAN, reason : BOOLEAN]
  BY DEF EntryTyped
<1>2. [[entry[c] EXCEPT !.expected = b] EXCEPT !.reason = b]
        \in [conn : Conns, expected : BOOLEAN, reason : BOOLEAN]
  BY <1>1
<1>3. entry' = [entry EXCEPT ![c] = [[entry[c] EXCEPT !.expected = b] EXCEPT !.reason = b]]
  BY DEF EntryTyped
<1> QED
  BY <1>2, <1>3 DEF EntryTyped

LEMMA EntryExpected ==
  ASSUME EntryTyped, client # NoConn => client \in Conns, NEW k \in Calls,
         call[k].op = "disconnect" /\ client = call[k].entry => call[k].entry \in Conns,
         ExpectDisconnect(k)
  PROVE  EntryTyped'
<1>1. CASE UNCHANGED entry
  BY <1>1 DEF EntryTyped
<1>2. CASE client \in Conns /\ entry' = [entry EXCEPT ![client].expected = TRUE]
  <2>0. entry[client] \in [conn : Conns, expected : BOOLEAN, reason : BOOLEAN]
    BY <1>2 DEF EntryTyped
  <2>1. [entry[client] EXCEPT !.expected = TRUE] \in [conn : Conns, expected : BOOLEAN, reason : BOOLEAN]
    BY <2>0
  <2>2. entry' = [entry EXCEPT ![client] = [entry[client] EXCEPT !.expected = TRUE]]
    BY <1>2
  <2> QED
    BY <1>2, <2>1, <2>2 DEF EntryTyped
<1> QED
  BY <1>1, <1>2 DEF ExpectDisconnect

LEMMA FramesUntouched ==
  ASSUME Channel, Kept
  PROVE  /\ UNCHANGED <<commands, workers>> => CommandsAsked'
         /\ UNCHANGED <<answers, queue>> => AnswersEarned'
         /\ UNCHANGED reader => ReadersHold'
<1> USE FramesKept, OpsAssumption DEF Channel
<1>1. ASSUME UNCHANGED <<commands, workers>> PROVE CommandsAsked'
  <2>1. commands' \in [Conns -> Seq(Asked')]
    BY <1>1, SeqGrows DEF CommandsAsked
  <2>2. workers' \subseteq [conn : Conns, frame : Asked']
    BY <1>1 DEF CommandsAsked
  <2> QED
    BY <2>1, <2>2 DEF CommandsAsked
<1>2. ASSUME UNCHANGED <<answers, queue>> PROVE AnswersEarned'
  <2>1. answers' \in [Conns -> Seq(Earned')]
    BY <1>2, SeqGrows DEF AnswersEarned
  <2>2. queue' \in [Conns -> Seq(Held')]
    BY <1>2, SeqGrows DEF AnswersEarned
  <2> QED
    BY <2>1, <2>2 DEF AnswersEarned
<1>3. ASSUME UNCHANGED reader PROVE ReadersHold'
  BY <1>3 DEF ReadersHold
<1> QED
  BY <1>1, <1>2, <1>3

\* The calls a step leaves alone keep their answers.
LEMMA CallKept ==
  ASSUME Channel, Kept, NEW k \in Calls, call'[k] = call[k]
  PROVE  /\ Steady(call'[k]) /\ Answered(call'[k], Earned', call')
         /\ call'[k].step = "idle" => call'[k] = Idle
<1>1. Earned \subseteq Earned'
  BY FramesKept, OpsAssumption
<1>2. \A f \in Earned : call'[f.call].window = call[f.call].window
  BY NoneIsNoOp DEF Earned, Answers, Kept
<1> QED
  BY <1>1, <1>2 DEF Channel, CallsAreSteady, CallsAreAnswered, Answered

LEMMA CallsUntouched ==
  ASSUME Channel, Kept, UNCHANGED call
  PROVE  CallTyped' /\ CallsAreSteady' /\ CallsAreAnswered'
<1>1. CallTyped'
  BY DEF Channel, CallTyped
<1> QED
  BY <1>1, CallKept DEF CallsAreSteady, CallsAreAnswered, Steady, Answered

\* One call changes to r.
LEMMA CallChanges ==
  ASSUME Channel, Kept, NEW k \in Calls, NEW r \in CallType, call' = [call EXCEPT ![k] = r],
         r.step # "idle", Steady(r), Answered(r, Earned, call)
  PROVE  CallTyped' /\ CallsAreSteady' /\ CallsAreAnswered'
<1>1. CallTyped'
  BY DEF Channel, CallTyped
<1>2. call'[k] = r /\ \A j \in Calls : j # k => call'[j] = call[j]
  BY DEF Channel, CallTyped
<1>3. Answered(call'[k], Earned', call')
  <2>1. Earned \subseteq Earned'
    BY FramesKept, OpsAssumption
  <2>2. \A f \in Earned : call'[f.call].window = call[f.call].window
    BY NoneIsNoOp DEF Earned, Answers, Kept
  <2> QED
    BY <1>2, <2>1, <2>2 DEF Answered
<1>4. \A j \in Calls : j # k => /\ Steady(call'[j]) /\ Answered(call'[j], Earned', call')
                                /\ call'[j].step = "idle" => call'[j] = Idle
  BY <1>2, CallKept
<1> QED
  BY <1>1, <1>2, <1>3, <1>4 DEF CallsAreSteady, CallsAreAnswered, Steady, Answered

-----------------------------------------------------------------------------
\* No step changes what a call was made for, or forgets what the client did.
LEMMA KeptNext == Channel /\ [Next]_vars => Kept
<1> SUFFICES ASSUME Channel, [Next]_vars PROVE Kept
  OBVIOUS
<1> USE DEF Channel, CallTyped, CallType, Kept
<1>1. ASSUME NEW c \in Conns,
             Register(c) \/ ReadAnswer(c) \/ PutAnswer(c) \/ ReaderEnds(c) \/ StartWorker(c)
               \/ RefuseScreenshot(c) \/ LinkEnds(c) \/ \E good \in BOOLEAN : CarryOut(c, good)
      PROVE  Kept
  BY <1>1 DEF Register, ReadAnswer, PutAnswer, ReaderEnds, StartWorker, RefuseScreenshot,
              LinkEnds, CarryOut
<1>2. ASSUME NEW w \in workers, NEW good \in BOOLEAN, WorkerAnswers(w, good) PROVE Kept
  BY <1>2 DEF WorkerAnswers
<1>3. ASSUME NEW k \in Calls, MarkIsolation(k) PROVE Kept
  BY <1>3 DEF MarkIsolation, Begins, Idle
<1>4. ASSUME NEW k \in Calls, Send(k) \/ SendFails(k) \/ AwaitAnswer(k) \/ TimesOut(k) PROVE Kept
  <2>1. CASE Send(k)
    BY <2>1 DEF Send
  <2>2. CASE SendFails(k)
    BY <2>2 DEF SendFails, Returned
  <2>3. CASE AwaitAnswer(k)
    BY <2>3 DEF AwaitAnswer
  <2>4. CASE TimesOut(k)
    BY <2>4 DEF TimesOut, Returned
  <2> QED
    BY <1>4, <2>1, <2>2, <2>3, <2>4
<1>5. ASSUME NEW k \in Calls, TakeAnswer(k) PROVE Kept
  BY <1>5 DEF TakeAnswer, Taken, Returned
<1>6. ASSUME NEW k \in Calls, Return(k) PROVE Kept
  <2>1. heard' = heard
    BY <1>6 DEF Return, ReportRequest, ReportCommand, ReportQuarantine, ReportIsolation
  <2>2. \E status : Finish(k, status)
    BY <1>6 DEF Return, ReportRequest, ReportCommand, ReportQuarantine, ReportIsolation
  <2> QED
    BY <2>1, <2>2 DEF Finish
<1>7. ASSUME NEW k \in Calls, NEW op \in Ops, NEW w \in {0} \cup Windows, LookUp(k, op, w) PROVE Kept
  <2>1. call[k].op = "none" \/ (call[k].op = op /\ call[k].window = w)
    BY <1>7 DEF LookUp, Begins, Idle, CallsAreSteady, Steady
  <2>2. heard' = heard /\ \A j \in Calls : j # k => call'[j] = call[j]
    BY <1>7 DEF LookUp
  <2>3. call'[k].op = op /\ call'[k].window = w
    BY <1>7 DEF LookUp
  <2> QED
    BY <2>1, <2>2, <2>3
<1>8. CASE RestoreNetwork \/ UNCHANGED vars
  BY <1>8 DEF RestoreNetwork, vars
<1> QED
  BY <1>1, <1>2, <1>3, <1>4, <1>5, <1>6, <1>7, <1>8 DEF Next

\* remove_client keeps the types of what it changes.
LEMMA Removes ==
  ASSUME Channel, Kept, NEW c \in Conns, Remove(c), UNCHANGED <<link, isolated, quarantine, answers>>,
         heard' = heard
  PROVE  LinksTyped' /\ AnswersEarned'
<1>1. Disconnected \in Held /\ Earned \subseteq Earned' /\ Held \subseteq Held'
  BY FramesKept, OpsAssumption DEF Held
<1>2. queue' \in [Conns -> Seq(Held)]
  <2>1. queue \in [Conns -> Seq(Held)] /\ Append(queue[c], Disconnected) \in Seq(Held)
    BY <1>1, Appended DEF Channel, AnswersEarned
  <2>2. queue' = queue \/ queue' = [queue EXCEPT ![c] = Append(queue[c], Disconnected)]
    BY DEF Remove
  <2> QED
    BY <2>1, <2>2
<1>3. queue' \in [Conns -> Seq(Held')] /\ answers' \in [Conns -> Seq(Earned')]
  BY <1>1, <1>2, SeqGrows DEF Channel, AnswersEarned
<1>4. LinksTyped'
  BY DEF Remove, Channel, LinksTyped, Views, AnyConn
<1> QED
  BY <1>3, <1>4 DEF AnswersEarned

\* An answer is added behind the others of its connection.
LEMMA AnswerAdded ==
  ASSUME Channel, Kept, NEW c \in Conns, NEW f \in Earned',
         answers' = [answers EXCEPT ![c] = Append(@, f)] \/ answers' = answers,
         queue' = queue
  PROVE  AnswersEarned'
<1>1. Earned \subseteq Earned' /\ Held \subseteq Held'
  BY FramesKept, OpsAssumption
<1>2. \A d \in Conns : answers[d] \in Seq(Earned')
  BY <1>1, SeqGrows DEF Channel, AnswersEarned
<1>3. Append(answers[c], f) \in Seq(Earned')
  BY <1>2, Appended
<1>4. answers' \in [Conns -> Seq(Earned')]
  BY <1>2, <1>3 DEF Channel, AnswersEarned
<1>5. queue' \in [Conns -> Seq(Held')]
  BY <1>1, SeqGrows DEF Channel, AnswersEarned
<1> QED
  BY <1>4, <1>5 DEF AnswersEarned

\* The client takes the first command.
LEMMA CommandTaken ==
  ASSUME Channel, Kept, NEW c \in Conns, commands[c] # << >>,
         commands' = [commands EXCEPT ![c] = Tail(@)]
  PROVE  /\ Head(commands[c]) \in Asked
         /\ commands' \in [Conns -> Seq(Asked')]
<1>1. Asked \subseteq Asked'
  BY FramesKept, OpsAssumption
<1>2. Head(commands[c]) \in Asked /\ Tail(commands[c]) \in Seq(Asked)
  BY HeadAndTail DEF Channel, CommandsAsked
<1>3. commands' \in [Conns -> Seq(Asked)]
  BY <1>2 DEF Channel, CommandsAsked
<1> QED
  BY <1>1, <1>2, <1>3, SeqGrows

\* What the client answers to a command it was asked is earned.
LEMMA AnswerIsEarned ==
  ASSUME Channel, Kept, NEW f \in Asked, NEW name \in {Refused, f.name}, NEW good \in BOOLEAN,
         f.call \in heard'
  PROVE  [name |-> name, call |-> f.call, good |-> good] \in Earned'
<1>1. /\ f.call \in Calls /\ call'[f.call].op = call[f.call].op
      /\ call[f.call].op \in Ops /\ f.name = Name(call[f.call].op)
  BY NoneIsNoOp DEF Asked, Frames, Kept
<1>2. [name |-> name, call |-> f.call, good |-> good] \in Answers
  BY <1>1 DEF Answers
<1> QED
  BY <1>1, <1>2 DEF Earned

-----------------------------------------------------------------------------
(* The parts of Channel, action by action.                                  *)

\* The registry and the readers.
LEMMA ReadersStep ==
  ASSUME Channel, Kept, NEW c \in Conns,
         Register(c) \/ ReadAnswer(c) \/ PutAnswer(c) \/ ReaderEnds(c)
  PROVE  Channel'
<1>0. Earned \subseteq Earned' /\ Held \subseteq Held' /\ Earned \subseteq Held
  BY FramesKept, OpsAssumption DEF Held
<1>1. CASE Register(c)
  <2>1. LinksTyped'
    BY <1>1 DEF Register, Channel, LinksTyped, AnyConn, views
  <2>2. EntryTyped'
    BY <1>1 DEF Register, Channel, EntryTyped, LinksTyped, AnyConn
  <2>3. ReadersHold'
    <3>1. Reading \in [step : {"none", "reading", "putting", "done"}, entry : AnyConn, frame : Held']
      BY DEF Reading, AnyConn, Held
    <3> QED
      BY <1>0, <1>1, <3>1 DEF Register, Channel, ReadersHold, Reading
  <2> QED
    BY <1>1, <2>1, <2>2, <2>3, FramesUntouched, CallsUntouched DEF Register, Channel
<1>2. CASE ReadAnswer(c)
  <2>1. /\ answers[c] \in Seq(Earned) /\ answers[c] # << >>
        /\ Head(answers[c]) \in Earned /\ Tail(answers[c]) \in Seq(Earned)
    BY <1>2, HeadAndTail DEF ReadAnswer, Channel, AnswersEarned
  <2>2. answers' \in [Conns -> Seq(Earned)] /\ queue' = queue
    BY <1>2, <2>1 DEF ReadAnswer, registry, Channel, AnswersEarned
  <2>3. AnswersEarned'
    BY <1>0, <2>2, SeqGrows DEF Channel, AnswersEarned
  <2>4. ReadersHold'
    <3>1. CASE client # NoConn /\ entry[client].conn = c
      <4> DEFINE r == [step |-> "putting", entry |-> client, frame |-> Head(answers[c])]
      <4>1. client \in Conns
        BY <3>1 DEF Channel, LinksTyped, AnyConn
      <4>2. reader' = [reader EXCEPT ![c] = r]
        BY <1>2, <3>1 DEF ReadAnswer
      <4>3. r \in [step : {"none", "reading", "putting", "done"}, entry : AnyConn, frame : Held']
        BY <1>0, <2>1, <4>1 DEF AnyConn
      <4> QED
        BY <1>0, <4>1, <4>2, <4>3 DEF Channel, ReadersHold
    <3>2. CASE ~ (client # NoConn /\ entry[client].conn = c)
      <4>1. reader' = reader
        BY <1>2, <3>2 DEF ReadAnswer, Channel, ReadersHold
      <4> QED
        BY <4>1, FramesUntouched
    <3> QED
      BY <3>1, <3>2
  <2> QED
    BY <1>2, <2>3, <2>4, FramesUntouched, CallsUntouched
       DEF ReadAnswer, registry, views, Channel, LinksTyped, EntryTyped
<1>3. CASE PutAnswer(c)
  <2>1. reader[c].entry \in Conns /\ reader[c].frame \in Held
    BY <1>3 DEF PutAnswer, Channel, ReadersHold
  <2> DEFINE q == entry[reader[c].entry].conn
  <2>2. q \in Conns
    BY <2>1 DEF Channel, EntryTyped
  <2>3. queue' = [queue EXCEPT ![q] = Append(@, reader[c].frame)]
    BY <1>3 DEF PutAnswer
  <2> HIDE DEF q
  <2>4. Append(queue[q], reader[c].frame) \in Seq(Held)
    BY <2>1, <2>2, Appended DEF Channel, AnswersEarned
  <2>5. queue' \in [Conns -> Seq(Held)] /\ answers' = answers
    BY <1>3, <2>2, <2>3, <2>4 DEF Channel, AnswersEarned, PutAnswer, world
  <2>6. AnswersEarned'
    BY <1>0, <2>5, SeqGrows DEF Channel, AnswersEarned
  <2>7. ReadersHold'
    <3>1. Reading \in [step : {"none", "reading", "putting", "done"}, entry : AnyConn, frame : Held']
      BY DEF Reading, AnyConn, Held
    <3> QED
      BY <1>0, <1>3, <3>1 DEF PutAnswer, Channel, ReadersHold, Reading
  <2> QED
    BY <1>3, <2>6, <2>7, FramesUntouched, CallsUntouched
       DEF PutAnswer, world, views, Channel, LinksTyped, EntryTyped
<1>4. CASE ReaderEnds(c)
  <2>1. LinksTyped' /\ AnswersEarned'
    BY <1>4, Removes DEF ReaderEnds, world
  <2>2. ReadersHold'
    BY <1>0, <1>4 DEF ReaderEnds, Channel, ReadersHold
  <2> QED
    BY <1>4, <2>1, <2>2, FramesUntouched, CallsUntouched DEF ReaderEnds, world, Channel, EntryTyped
<1> QED
  BY <1>1, <1>2, <1>3, <1>4

\* The device.
LEMMA DeviceStep ==
  ASSUME Channel, Kept, NEW c \in Conns,
         StartWorker(c) \/ RefuseScreenshot(c) \/ LinkEnds(c) \/ \E good \in BOOLEAN : CarryOut(c, good)
  PROVE  Channel'
<1>0. Asked \subseteq Asked' /\ Asked \subseteq Frames
  BY FramesKept, OpsAssumption DEF Asked
<1>1. CASE StartWorker(c)
  <2>1. Head(commands[c]) \in Asked /\ commands' \in [Conns -> Seq(Asked')]
    BY <1>1, CommandTaken DEF StartWorker
  <2>2. workers' \subseteq [conn : Conns, frame : Asked']
    BY <1>0, <1>1, <2>1 DEF StartWorker, Channel, CommandsAsked
  <2> QED
    BY <1>1, <2>1, <2>2, FramesUntouched, CallsUntouched
       DEF StartWorker, registry, views, Channel, LinksTyped, EntryTyped, CommandsAsked
<1>2. CASE RefuseScreenshot(c)
  <2> DEFINE f == Head(commands[c])
             a == [name |-> Refused, call |-> f.call, good |-> FALSE]
  <2>1. f \in Asked /\ commands' \in [Conns -> Seq(Asked')]
    BY <1>2, CommandTaken DEF RefuseScreenshot
  <2>2. a \in Earned'
    BY <1>2, <2>1, AnswerIsEarned DEF RefuseScreenshot
  <2>3. answers' = [answers EXCEPT ![c] = Append(@, a)] /\ queue' = queue
    BY <1>2 DEF RefuseScreenshot, registry
  <2> HIDE DEF a
  <2>4. AnswersEarned'
    BY <2>2, <2>3, AnswerAdded
  <2>5. heard' \subseteq Calls
    BY <1>0, <1>2, <2>1 DEF RefuseScreenshot, Channel, LinksTyped, Frames
  <2>6. workers' \subseteq [conn : Conns, frame : Asked']
    BY <1>0, <1>2 DEF RefuseScreenshot, Channel, CommandsAsked
  <2> QED
    BY <1>2, <2>1, <2>4, <2>5, <2>6, FramesUntouched, CallsUntouched
       DEF RefuseScreenshot, registry, views, Channel, LinksTyped, EntryTyped, CommandsAsked
<1>3. CASE LinkEnds(c)
  <2>1. commands' \in [Conns -> Seq(Asked')]
    BY <1>0, <1>3, SeqGrows DEF LinkEnds, Channel, CommandsAsked
  <2>2. workers' \subseteq [conn : Conns, frame : Asked']
    BY <1>0, <1>3 DEF LinkEnds, Channel, CommandsAsked
  <2> QED
    BY <1>3, <2>1, <2>2, FramesUntouched, CallsUntouched
       DEF LinkEnds, registry, views, Channel, LinksTyped, EntryTyped, CommandsAsked
<1>4. ASSUME NEW good \in BOOLEAN, CarryOut(c, good) PROVE Channel'
  <2> DEFINE f == Head(commands[c])
             a == AnswerOf(f, good)
  <2>1. f \in Asked /\ commands' \in [Conns -> Seq(Asked')]
    BY <1>4, CommandTaken DEF CarryOut
  <2>2. a \in Earned'
    BY <1>4, <2>1, AnswerIsEarned DEF CarryOut, AnswerOf
  <2>3. /\ answers' = [answers EXCEPT ![c] = Append(@, a)] \/ answers' = answers
        /\ queue' = queue
    BY <1>4 DEF CarryOut, registry
  <2> HIDE DEF a
  <2>4. AnswersEarned'
    BY <2>2, <2>3, AnswerAdded
  <2>5. heard' \subseteq Calls
    BY <1>0, <1>4, <2>1 DEF CarryOut, Channel, LinksTyped, Frames
  <2>6. workers' \subseteq [conn : Conns, frame : Asked']
    BY <1>0, <1>4 DEF CarryOut, Channel, CommandsAsked
  <2>7. isolated' \in BOOLEAN
    BY <1>4 DEF CarryOut
  <2>8. link' \in [Conns -> {"none", "up", "silent", "gone"}]
    BY <1>4 DEF CarryOut, Channel, LinksTyped
  <2> QED
    BY <1>4, <2>1, <2>4, <2>5, <2>6, <2>7, <2>8, FramesUntouched, CallsUntouched
       DEF CarryOut, registry, views, Channel, LinksTyped, EntryTyped, CommandsAsked
<1> QED
  BY <1>1, <1>2, <1>3, <1>4

LEMMA WorkerStep ==
  ASSUME Channel, Kept, NEW w \in workers, NEW good \in BOOLEAN, WorkerAnswers(w, good)
  PROVE  Channel'
<1> DEFINE a == AnswerOf(w.frame, good)
<1>0. Asked \subseteq Asked' /\ Asked \subseteq Frames
  BY FramesKept, OpsAssumption DEF Asked
<1>1. w.conn \in Conns /\ w.frame \in Asked
  BY DEF Channel, CommandsAsked
<1>2. a \in Earned'
  BY <1>1, AnswerIsEarned DEF WorkerAnswers, AnswerOf
<1>3. /\ answers' = [answers EXCEPT ![w.conn] = Append(@, a)] \/ answers' = answers
      /\ queue' = queue
  BY DEF WorkerAnswers, registry
<1> HIDE DEF a
<1>4. AnswersEarned'
  BY <1>1, <1>2, <1>3, AnswerAdded
<1>5. heard' \subseteq Calls
  BY <1>0, <1>1 DEF WorkerAnswers, Channel, LinksTyped, Frames
<1>6. CommandsAsked'
  <2>1. workers' \subseteq [conn : Conns, frame : Asked']
    BY <1>0 DEF WorkerAnswers, Channel, CommandsAsked
  <2>2. commands' \in [Conns -> Seq(Asked')]
    BY <1>0, SeqGrows DEF WorkerAnswers, Channel, CommandsAsked
  <2> QED
    BY <2>1, <2>2 DEF CommandsAsked
<1> QED
  BY <1>4, <1>5, <1>6, FramesUntouched, CallsUntouched
     DEF WorkerAnswers, registry, views, Channel, LinksTyped, EntryTyped

\* A call begins and sends.
LEMMA SendStep ==
  ASSUME Channel, Kept, NEW k \in Calls,
         \/ MarkIsolation(k) \/ Send(k) \/ SendFails(k)
         \/ \E op \in Ops, w \in {0} \cup Windows : LookUp(k, op, w)
  PROVE  Channel'
<1>0. call[k] \in CallType /\ Steady(call[k]) /\ Answered(call[k], Earned, call)
      /\ client \in AnyConn /\ (client # NoConn => client \in Conns)
  BY DEF Channel, CallTyped, CallsAreSteady, CallsAreAnswered, LinksTyped, AnyConn
<1>1. CASE MarkIsolation(k)
  <2> DEFINE r == IF client = NoConn
                  THEN [Idle EXCEPT !.op = "isolate", !.step = "done", !.outcome = "not_connected"]
                  ELSE [Idle EXCEPT !.op = "isolate", !.step = "marked", !.marked = client]
  <2>1. call' = [call EXCEPT ![k] = r]
    BY <1>1 DEF MarkIsolation
  <2>2. "isolate" \in Ops
    BY <1>1 DEF MarkIsolation
  <2>3. r \in CallType
    <3>1. /\ "isolate" \in AllOps \cup {"none"} /\ client \in AnyConn
          /\ {"done", "marked"} \subseteq Steps /\ "not_connected" \in Outcomes
      BY <1>0 DEF AllOps, Steps, Outcomes
    <3>2. CASE client = NoConn
      BY <3>1, <3>2, IdleTyped DEF CallType
    <3>3. CASE client # NoConn
      BY <3>1, <3>3, IdleTyped DEF CallType
    <3> QED
      BY <3>2, <3>3
  <2>4. r.step # "idle" /\ Steady(r) /\ Answered(r, Earned, call)
    BY <2>2 DEF Idle, Steady, Answered
  <2> HIDE DEF r
  <2>5. CallTyped' /\ CallsAreSteady' /\ CallsAreAnswered'
    BY <2>1, <2>3, <2>4, CallChanges
  <2>6. EntryTyped'
    <3>1. CASE client = NoConn
      BY <1>1, <3>1 DEF MarkIsolation, Channel, EntryTyped
    <3>2. CASE client # NoConn
      <4>1. entry' = [entry EXCEPT ![client].expected = TRUE, ![client].reason = TRUE]
        BY <1>1, <3>2 DEF MarkIsolation
      <4>2. EntryTyped /\ client \in Conns
        BY <1>0, <3>2 DEF Channel
      <4> QED
        BY <4>1, <4>2, EntrySet
    <3> QED
      BY <3>1, <3>2
  <2>7. LinksTyped'
    BY <1>1 DEF MarkIsolation, Channel, LinksTyped, Views, world
  <2> QED
    BY <1>1, <2>5, <2>6, <2>7, FramesUntouched DEF MarkIsolation, world, Channel
<1>2. ASSUME NEW op \in Ops, NEW w \in {0} \cup Windows, LookUp(k, op, w) PROVE Channel'
  <2> DEFINE r == IF client = NoConn
                  THEN [call[k] EXCEPT !.op = op, !.window = w, !.step = "report",
                                       !.outcome = "not_connected"]
                  ELSE [call[k] EXCEPT !.op = op, !.window = w, !.step = "send",
                                       !.entry = client, !.conn = entry[client].conn]
  <2>1. call' = [call EXCEPT ![k] = r]
    BY <1>2 DEF LookUp
  <2>2. op \in AllOps
    BY OpsAssumption
  <2>3. client # NoConn => entry[client].conn \in Conns
    BY <1>0 DEF Channel, EntryTyped
  <2>4. r \in CallType
    <3>1. /\ op \in AllOps \cup {"none"} /\ client \in AnyConn /\ w \in {0} \cup Windows
          /\ {"report", "send"} \subseteq Steps /\ "not_connected" \in Outcomes
          /\ client # NoConn => entry[client].conn \in AnyConn
      BY <1>0, <2>2, <2>3 DEF Steps, Outcomes, AnyConn
    <3>2. CASE client = NoConn
      BY <1>0, <3>1, <3>2 DEF CallType
    <3>3. CASE client # NoConn
      BY <1>0, <3>1, <3>3 DEF CallType
    <3> QED
      BY <3>2, <3>3
  <2>5. call[k].status = "none" /\ call[k].outcome # "ok"
    <3>1. CASE call[k] = Idle
      BY <3>1 DEF Idle
    <3>2. CASE call[k].step = "marked"
      BY <1>0, <3>2 DEF Answered
    <3> QED
      BY <1>2, <3>1, <3>2 DEF LookUp, Begins
  <2>6. r.step # "idle" /\ Steady(r) /\ Answered(r, Earned, call)
    BY <1>0, <2>3, <2>5 DEF Steady, Answered, CallType
  <2> HIDE DEF r
  <2>7. CallTyped' /\ CallsAreSteady' /\ CallsAreAnswered'
    BY <2>1, <2>4, <2>6, CallChanges
  <2> QED
    BY <1>2, <2>7, FramesUntouched DEF LookUp, world, registry, views, Channel, LinksTyped, EntryTyped
<1>3. CASE Send(k)
  <2> DEFINE r == [call[k] EXCEPT !.step = "wait"]
             c == call[k].conn
  <2>1. c \in Conns /\ call[k].op \in Ops
    BY <1>0, <1>3 DEF Send, Steady
  <2>2. call' = [call EXCEPT ![k] = r]
    BY <1>3 DEF Send, Channel, CallTyped
  <2>3. r \in CallType
    BY <1>0 DEF CallType, Steps
  <2>4. r.step # "idle" /\ Steady(r) /\ Answered(r, Earned, call)
    BY <1>0, <1>3 DEF Send, Steady, Answered, CallType
  <2>5. CallTyped' /\ CallsAreSteady' /\ CallsAreAnswered'
    <3> HIDE DEF r
    <3> QED
      BY <2>2, <2>3, <2>4, CallChanges
  <2>6. EntryTyped'
    <3>1. EntryTyped /\ ExpectDisconnect(k) /\ call[k].entry \in Conns
      BY <1>0, <1>3 DEF Send, Channel, Steady
    <3> QED
      BY <1>0, <3>1, EntryExpected
  <2>7. Frame(k) \in Asked
    BY <2>1 DEF Frame, Asked, Frames
  <2>8. commands' \in [Conns -> Seq(Asked)]
    <3>1. commands \in [Conns -> Seq(Asked)] /\ Append(commands[c], Frame(k)) \in Seq(Asked)
      BY <2>1, <2>7, Appended DEF Channel, CommandsAsked
    <3>2. commands' = commands \/ commands' = [commands EXCEPT ![c] = Append(commands[c], Frame(k))]
      BY <1>3 DEF Send
    <3> HIDE DEF c
    <3> QED
      BY <3>1, <3>2
  <2>9. CommandsAsked'
    BY <1>3, <2>8, FramesKept, OpsAssumption, SeqGrows DEF Send, Channel, CommandsAsked
  <2> QED
    BY <1>3, <2>5, <2>6, <2>9, FramesUntouched DEF Send, views, Channel, LinksTyped
<1>4. CASE SendFails(k)
  <2> DEFINE r == Returned(k, "connection_lost")
  <2>1. call[k].conn \in Conns
    BY <1>0, <1>4 DEF SendFails, Steady
  <2>2. LinksTyped' /\ AnswersEarned'
    BY <1>4, <2>1, Removes DEF SendFails, world
  <2>3. EntryTyped'
    <3>1. EntryTyped /\ ExpectDisconnect(k) /\ call[k].entry \in Conns
      BY <1>0, <1>4 DEF SendFails, Channel, Steady
    <3> QED
      BY <1>0, <3>1, EntryExpected
  <2>4. r \in CallType
    BY <1>0 DEF Returned, CallType, Steps, Outcomes, AnyConn
  <2>5. r.step # "idle" /\ Steady(r) /\ Answered(r, Earned, call)
    BY <1>0, <1>4 DEF SendFails, Returned, Steady, Answered, CallType
  <2>6. call' = [call EXCEPT ![k] = r]
    BY <1>4 DEF SendFails
  <2> HIDE DEF r
  <2>7. CallTyped' /\ CallsAreSteady' /\ CallsAreAnswered'
    BY <2>4, <2>5, <2>6, CallChanges
  <2> QED
    BY <1>4, <2>2, <2>3, <2>7, FramesUntouched DEF SendFails, world, Channel
<1> QED
  BY <1>1, <1>2, <1>3, <1>4

\* A call waits, and takes what it finds in the queue or gives up.
LEMMA WaitStep ==
  ASSUME Channel, Kept, NEW k \in Calls, AwaitAnswer(k) \/ TakeAnswer(k) \/ TimesOut(k)
  PROVE  Channel'
<1>0. call[k] \in CallType /\ Steady(call[k]) /\ Answered(call[k], Earned, call)
  BY DEF Channel, CallTyped, CallsAreSteady, CallsAreAnswered
<1>1. CASE AwaitAnswer(k)
  <2> DEFINE r == [call[k] EXCEPT !.step = "get", !.queue = entry[call[k].entry].conn]
  <2>1. entry[call[k].entry].conn \in Conns
    BY <1>0, <1>1 DEF AwaitAnswer, Steady, Channel, EntryTyped
  <2>2. r \in CallType
    BY <1>0, <2>1 DEF CallType, Steps, AnyConn
  <2>3. r.step # "idle" /\ Steady(r) /\ Answered(r, Earned, call)
    BY <1>0, <1>1, <2>1 DEF AwaitAnswer, Steady, Answered, CallType
  <2>4. call' = [call EXCEPT ![k] = r]
    BY <1>1 DEF AwaitAnswer, Channel, CallTyped
  <2> HIDE DEF r
  <2>5. CallTyped' /\ CallsAreSteady' /\ CallsAreAnswered'
    BY <2>2, <2>3, <2>4, CallChanges
  <2> QED
    BY <1>1, <2>5, FramesUntouched DEF AwaitAnswer, world, registry, views, Channel, LinksTyped, EntryTyped
<1>2. CASE TakeAnswer(k)
  <2> DEFINE q == call[k].queue
             f == Head(queue[q])
             r == Taken(k, f)
  <2>1. q \in Conns /\ queue[q] # << >> /\ call[k].op \in Ops
    BY <1>0, <1>2 DEF TakeAnswer, Steady
  <2>2. f \in Held /\ Tail(queue[q]) \in Seq(Held)
    BY <2>1, HeadAndTail DEF Channel, AnswersEarned
  <2>3. f \in Queued
    BY <2>2 DEF Held, Earned, Queued
  <2>4. r \in CallType
    <3>1. "again" \in Steps /\ {"disconnected", "ok"} \subseteq Outcomes
      BY DEF Steps, Outcomes
    <3> HIDE DEF f, q
    <3>2. Returned(k, "disconnected") \in CallType /\ Returned(k, "ok") \in CallType
      BY <1>0, <3>1, ReturnedTyped
    <3>3. [call[k] EXCEPT !.step = "again"] \in CallType
      BY <1>0, <3>1 DEF CallType
    <3>4. [Returned(k, "ok") EXCEPT !.answer = f] \in CallType
      BY <2>3, <3>2 DEF CallType
    <3> QED
      BY <3>2, <3>3, <3>4 DEF Taken
  <2>5. r.step # "idle" /\ Steady(r) /\ Answered(r, Earned, call)
    <3>1. f # Disconnected => f \in Earned
      BY <2>2 DEF Held
    <3>2. call[k].status = "none" /\ call[k].outcome # "ok" /\ call[k].step = "get"
      BY <1>0, <1>2 DEF TakeAnswer, Answered
    <3> HIDE DEF f, q
    <3>3. CASE f = Disconnected
      BY <1>0, <3>2, <3>3 DEF Taken, Returned, Steady, Answered, CallType
    <3>4. CASE f # Disconnected /\ f.name # Name(call[k].op)
      BY <1>0, <3>2, <3>4 DEF Taken, Steady, Answered, CallType
    <3>5. CASE f # Disconnected /\ f.name = Name(call[k].op)
      <4>1. r = [Returned(k, "ok") EXCEPT !.answer = f]
        BY <3>5 DEF Taken
      <4>2. /\ r.answer = f /\ r.step = "report" /\ r.status = "none" /\ r.op = call[k].op
        BY <1>0, <3>2, <4>1 DEF Returned, CallType
      <4> QED
        BY <1>0, <2>1, <3>1, <3>5, <4>2 DEF Steady, Answered
    <3> QED
      BY <3>3, <3>4, <3>5
  <2>6. call' = [call EXCEPT ![k] = r]
    BY <1>2 DEF TakeAnswer
  <2>7. CallTyped' /\ CallsAreSteady' /\ CallsAreAnswered'
    <3> HIDE DEF r
    <3> QED
      BY <2>4, <2>5, <2>6, CallChanges
  <2>8. queue' \in [Conns -> Seq(Held)] /\ answers' = answers
    BY <1>2, <2>1, <2>2 DEF TakeAnswer, world, Channel, AnswersEarned
  <2>9. AnswersEarned'
    BY <2>8, FramesKept, OpsAssumption, SeqGrows DEF Channel, AnswersEarned
  <2> QED
    BY <1>2, <2>7, <2>9, FramesUntouched DEF TakeAnswer, world, views, Channel, LinksTyped, EntryTyped
<1>3. CASE TimesOut(k)
  <2> DEFINE r == Returned(k, "timed_out")
  <2>1. r \in CallType
    BY <1>0 DEF Returned, CallType, Steps, Outcomes, AnyConn
  <2>2. r.step # "idle" /\ Steady(r) /\ Answered(r, Earned, call)
    BY <1>0, <1>3 DEF TimesOut, Returned, Steady, Answered, CallType
  <2>3. call' = [call EXCEPT ![k] = r]
    BY <1>3 DEF TimesOut
  <2> HIDE DEF r
  <2>4. CallTyped' /\ CallsAreSteady' /\ CallsAreAnswered'
    BY <2>1, <2>2, <2>3, CallChanges
  <2> QED
    BY <1>3, <2>4, FramesUntouched DEF TimesOut, world, registry, views, Channel, LinksTyped, EntryTyped
<1> QED
  BY <1>1, <1>2, <1>3

\* A call is finished with a status; only a usable answer completes a request.
LEMMA Finished ==
  ASSUME Channel, Kept, NEW k \in Calls, NEW status \in Statuses,
         call[k].step = "report", Finish(k, status),
         status = "completed" => call[k].outcome = "ok" /\ Usable(k)
  PROVE  CallTyped' /\ CallsAreSteady' /\ CallsAreAnswered'
<1> DEFINE r == [call[k] EXCEPT !.step = "done", !.status = status]
<1>0. call[k] \in CallType /\ Steady(call[k]) /\ Answered(call[k], Earned, call)
  BY DEF Channel, CallTyped, CallsAreSteady, CallsAreAnswered
<1>1. r \in CallType
  BY <1>0 DEF CallType, Steps
<1>2. r.step # "idle" /\ Steady(r) /\ Answered(r, Earned, call)
  BY <1>0 DEF Steady, Answered, CallType, Usable
<1>3. call' = [call EXCEPT ![k] = r]
  BY DEF Finish, Channel, CallTyped
<1> HIDE DEF r
<1> QED
  BY <1>1, <1>2, <1>3, CallChanges

LEMMA ReportStep ==
  ASSUME Channel, Kept, NEW k \in Calls, Return(k)
  PROVE  Channel'
<1>1. CASE ReportRequest(k)
  <2>1. PICK status \in RequestStatus(k) : Finish(k, status)
    BY <1>1 DEF ReportRequest
  <2>2. /\ status \in Statuses
        /\ status = "completed" => call[k].outcome = "ok" /\ Usable(k)
    BY DEF RequestStatus, Statuses, Failure
  <2>3. CallTyped' /\ CallsAreSteady' /\ CallsAreAnswered'
    BY <1>1, <2>1, <2>2, Finished DEF ReportRequest
  <2> QED
    BY <1>1, <2>3, FramesUntouched DEF ReportRequest, world, registry, views, Channel, LinksTyped, EntryTyped
<1>2. CASE ReportCommand(k)
  <2>1. CallTyped' /\ CallsAreSteady' /\ CallsAreAnswered'
    BY <1>2, Finished DEF ReportCommand, Statuses
  <2> QED
    BY <1>2, <2>1, FramesUntouched DEF ReportCommand, world, registry, views, Channel, LinksTyped, EntryTyped
<1>3. CASE ReportQuarantine(k)
  <2>1. CallTyped' /\ CallsAreSteady' /\ CallsAreAnswered'
    BY <1>3, Finished DEF ReportQuarantine, Statuses
  <2>2. quarantine' \in BOOLEAN
    BY <1>3 DEF ReportQuarantine, Tracked, Channel, LinksTyped
  <2> QED
    BY <1>3, <2>1, <2>2, FramesUntouched DEF ReportQuarantine, world, registry, Channel, LinksTyped, EntryTyped
<1>4. CASE ReportIsolation(k)
  <2>1. CallTyped' /\ CallsAreSteady' /\ CallsAreAnswered'
    BY <1>4, Finished DEF ReportIsolation, Statuses
  <2>2. isolation' \in Views
    BY <1>4 DEF ReportIsolation, Views
  <2>3. EntryTyped'
    <3>1. client # NoConn => client \in Conns
      BY DEF Channel, LinksTyped, AnyConn
    <3>2. entry' = entry \/ entry' = MarkTaken(k)
      BY <1>4 DEF ReportIsolation
    <3> QED
      <4>1. CASE UNCHANGED entry
        BY <4>1 DEF Channel, EntryTyped
      <4>2. CASE client \in Conns
                 /\ entry' = [entry EXCEPT ![client].expected = FALSE, ![client].reason = FALSE]
        BY <4>2, EntrySet DEF Channel
      <4> QED
        BY <3>1, <3>2, <4>1, <4>2 DEF MarkTaken
  <2>4. UNCHANGED <<commands, workers, answers, queue, reader>>
    BY <1>4 DEF ReportIsolation, world
  <2>5. LinksTyped'
    BY <1>4, <2>2 DEF ReportIsolation, world, Channel, LinksTyped
  <2> QED
    BY <2>1, <2>3, <2>4, <2>5, FramesUntouched DEF Channel
<1> QED
  BY <1>1, <1>2, <1>3, <1>4 DEF Return

LEMMA ChannelNext == Channel /\ [Next]_vars => Channel'
<1> SUFFICES ASSUME Channel, [Next]_vars PROVE Channel'
  OBVIOUS
<1>1. Kept
  BY KeptNext
<1>2. CASE RestoreNetwork
  BY <1>1, <1>2, FramesUntouched, CallsUntouched
     DEF RestoreNetwork, registry, views, Channel, LinksTyped, EntryTyped
<1>3. CASE UNCHANGED vars
  BY <1>1, <1>3, FramesUntouched, CallsUntouched
     DEF vars, world, registry, views, Channel, LinksTyped, EntryTyped
<1> QED
  BY <1>1, <1>2, <1>3, ReadersStep, DeviceStep, WorkerStep, SendStep, WaitStep, ReportStep DEF Next

-----------------------------------------------------------------------------
(* The views of the server, and the marks of isolations.                    *)

\* An answer of an isolation or a quarantine is of one the client carried out.
LEMMA AnswerHeard ==
  ASSUME Channel, NEW k \in Calls, call[k].outcome = "ok",
         NEW name \in {"isolate", "quarantine"}, Name(call[k].op) = name
  PROVE  \E j \in heard : Name(call[j].op) = name
<1> DEFINE f == call[k].answer
<1>1. f \in Earned /\ f.name = name
  BY DEF Channel, CallsAreAnswered, Answered
<1>2. f.call \in heard /\ f.name = Name(call[f.call].op)
  BY <1>1 DEF Earned, Refused
<1> QED
  BY <1>1, <1>2

LEMMA ViewsNext == Channel /\ ViewsAreEarned /\ [Next]_vars => ViewsAreEarned'
<1> SUFFICES ASSUME Channel, ViewsAreEarned, [Next]_vars PROVE ViewsAreEarned'
  OBVIOUS
<1>1. Kept
  BY KeptNext
<1>2. ASSUME NEW name \in {"isolate", "quarantine"}, \E j \in heard : Name(call[j].op) = name
      PROVE  \E j \in heard' : Name(call'[j].op) = name
  <2>1. PICK j \in heard : Name(call[j].op) = name
    BY <1>2
  <2>2. j \in heard' /\ call'[j].op = call[j].op
    BY <1>1, <2>1 DEF Kept, Name, Channel, LinksTyped
  <2> QED
    BY <2>1, <2>2
<1>3. isolation' # "ACKNOWLEDGED" \/ isolation' = isolation
        \/ \E k \in Calls : call[k].outcome = "ok" /\ call[k].op = "isolate"
  <2>1. ASSUME NEW k \in Calls, Return(k)
        PROVE  isolation' # "ACKNOWLEDGED" \/ isolation' = isolation
                 \/ (call[k].outcome = "ok" /\ call[k].op = "isolate")
    BY <2>1 DEF Return, ReportRequest, ReportCommand, ReportQuarantine, ReportIsolation, views
  <2>2. ASSUME NEW k \in Calls, SendFails(k) \/ MarkIsolation(k)
        PROVE  isolation' # "ACKNOWLEDGED" \/ isolation' = isolation
    BY <2>2 DEF SendFails, Remove, MarkIsolation
  <2>3. ASSUME NEW c \in Conns, ReaderEnds(c)
        PROVE  isolation' # "ACKNOWLEDGED" \/ isolation' = isolation
    BY <2>3 DEF ReaderEnds, Remove
  <2> QED
    BY <2>1, <2>2, <2>3
       DEF Next, vars, views, Register, ReadAnswer, PutAnswer, StartWorker, RefuseScreenshot, LinkEnds,
           CarryOut, WorkerAnswers, LookUp, Send, AwaitAnswer, TakeAnswer, TimesOut, RestoreNetwork
<1>4. ~ quarantine' \/ quarantine' = quarantine
        \/ \E k \in Calls : call[k].outcome = "ok" /\ call[k].op = "quarantine"
  <2>1. ASSUME NEW k \in Calls, Return(k)
        PROVE  ~ quarantine' \/ quarantine' = quarantine
                 \/ (call[k].outcome = "ok" /\ call[k].op = "quarantine")
    BY <2>1 DEF Return, ReportRequest, ReportCommand, ReportQuarantine, ReportIsolation, views, Tracked
  <2> QED
    BY <2>1
       DEF Next, vars, views, Register, ReadAnswer, PutAnswer, ReaderEnds, StartWorker, RefuseScreenshot,
           LinkEnds, CarryOut, WorkerAnswers, MarkIsolation, LookUp, Send, SendFails, AwaitAnswer,
           TakeAnswer, TimesOut, RestoreNetwork
<1>5. isolation' = "ACKNOWLEDGED" => \E j \in heard' : Name(call'[j].op) = "isolate"
  <2>1. \A j : Name(call[j].op) = "isolate" <=> call[j].op = "isolate"
    BY DEF Name
  <2>2. isolation' = "ACKNOWLEDGED" => \E j \in heard : Name(call[j].op) = "isolate"
    BY <1>3, <2>1, AnswerHeard DEF ViewsAreEarned
  <2> QED
    BY <1>2, <2>2
<1>6. quarantine' => \E j \in heard' : Name(call'[j].op) = "quarantine"
  <2>1. quarantine' => \E j \in heard : Name(call[j].op) = "quarantine"
    BY <1>4, AnswerHeard DEF ViewsAreEarned, Name
  <2> QED
    BY <1>2, <2>1
<1>7. \A j : Name(call'[j].op) = "isolate" => call'[j].op = "isolate"
  BY DEF Name
<1> QED
  BY <1>5, <1>6, <1>7 DEF ViewsAreEarned

\* Only an entry that is registered is marked; a new one is not.
LEMMA MarksNext == Channel /\ MarksAreOfEntries /\ [Next]_vars => MarksAreOfEntries'
<1> SUFFICES ASSUME Channel, MarksAreOfEntries, [Next]_vars PROVE MarksAreOfEntries'
  OBVIOUS
<1> USE DEF MarksAreOfEntries
<1>0. /\ link \in [Conns -> {"none", "up", "silent", "gone"}]
      /\ client # NoConn => client \in Conns
      /\ entry \in [Conns -> [conn : Conns, expected : BOOLEAN, reason : BOOLEAN]]
  BY DEF Channel, LinksTyped, EntryTyped, AnyConn
<1>1. ASSUME NEW c \in Conns, Register(c) PROVE MarksAreOfEntries'
  BY <1>0, <1>1 DEF Register
<1>2. ASSUME NEW c \in Conns, ReaderEnds(c) PROVE MarksAreOfEntries'
  BY <1>2 DEF ReaderEnds, Remove, world
<1>3. ASSUME NEW c \in Conns, LinkEnds(c) \/ \E good \in BOOLEAN : CarryOut(c, good)
      PROVE  MarksAreOfEntries'
  <2>1. UNCHANGED <<client, entry>>
    BY <1>3 DEF LinkEnds, CarryOut, registry
  <2>2. \A d \in Conns : link'[d] = "none" <=> link[d] = "none"
    BY <1>0, <1>3 DEF LinkEnds, CarryOut
  <2> QED
    BY <1>0, <2>1, <2>2
<1>4. ASSUME NEW k \in Calls, MarkIsolation(k) \/ Send(k) PROVE MarksAreOfEntries'
  BY <1>0, <1>4 DEF MarkIsolation, Send, ExpectDisconnect, world
<1>5. ASSUME NEW k \in Calls, SendFails(k) PROVE MarksAreOfEntries'
  BY <1>0, <1>5 DEF SendFails, ExpectDisconnect, Remove, world
<1>6. ASSUME NEW k \in Calls, Return(k) PROVE MarksAreOfEntries'
  <2>1. UNCHANGED <<client, link>> /\ (entry' = entry \/ entry' = MarkTaken(k))
    BY <1>6 DEF Return, ReportRequest, ReportCommand, ReportQuarantine, ReportIsolation, world, registry
  <2> QED
    BY <1>0, <2>1 DEF MarkTaken
<1>7. CASE UNCHANGED <<link, client, entry>>
  BY <1>7
<1> QED
  BY <1>1, <1>2, <1>3, <1>4, <1>5, <1>6, <1>7
     DEF Next, vars, world, registry, ReadAnswer, PutAnswer, StartWorker, RefuseScreenshot,
         WorkerAnswers, LookUp, AwaitAnswer, TakeAnswer, TimesOut, RestoreNetwork

\* A call that marked an entry and has not failed.
Owns(k, c) == call[k].op = "isolate" /\ call[k].marked = c /\ call[k].status # "error"

LEMMA SuppressionNext ==
  Channel /\ MarksAreOfEntries /\ SuppressionIsOwned /\ [Next]_vars => SuppressionIsOwned'
<1> SUFFICES ASSUME Channel, MarksAreOfEntries, SuppressionIsOwned, [Next]_vars,
                    client' # NoConn, entry'[client'].reason
             PROVE  \E k \in Calls : Owns(k, client)'
  BY DEF SuppressionIsOwned, Owns
<1>0. /\ client # NoConn => client \in Conns
      /\ entry \in [Conns -> [conn : Conns, expected : BOOLEAN, reason : BOOLEAN]]
      /\ call \in [Calls -> CallType]
  BY DEF Channel, LinksTyped, EntryTyped, CallTyped, AnyConn
<1>1. client # NoConn /\ entry[client].reason => \E k \in Calls : Owns(k, client)
  BY DEF SuppressionIsOwned, Owns
\* An owner stays one unless it fails.
<1>2. ASSUME NEW j \in Calls, NEW c \in Conns, Owns(j, c), call'[j].status # "error",
             call'[j].marked = call[j].marked
      PROVE  Owns(j, c)'
  BY <1>2, KeptNext DEF Owns, Kept
<1>3. ASSUME NEW k \in Calls, MarkIsolation(k) PROVE \E j \in Calls : Owns(j, client)'
  <2>1. client' = client /\ client # NoConn
    BY <1>3 DEF MarkIsolation
  <2>2. call'[k] = [Idle EXCEPT !.op = "isolate", !.step = "marked", !.marked = client]
    BY <1>0, <1>3, <2>1 DEF MarkIsolation
  <2>3. call'[k].op = "isolate" /\ call'[k].marked = client /\ call'[k].status # "error"
    BY <2>2 DEF Idle
  <2> QED
    BY <2>1, <2>3 DEF Owns
<1>4. ASSUME NEW k \in Calls, ReportIsolation(k) PROVE \E j \in Calls : Owns(j, client)'
  <2>1. client' = client /\ client \in Conns
    BY <1>0, <1>4 DEF ReportIsolation
  <2>2. entry[client].reason /\ (isolation' = "FAILED" => client # call[k].marked)
    BY <1>0, <1>4, <2>1 DEF ReportIsolation, MarkTaken
  <2>3. PICK j \in Calls : Owns(j, client)
    BY <1>1, <2>1, <2>2
  <2>4. \A i \in Calls : call'[i].marked = call[i].marked /\ (i # k => call'[i].status = call[i].status)
    BY <1>0, <1>4 DEF ReportIsolation, Finish, CallType
  <2>5. call'[k].status # "error" \/ isolation' = "FAILED"
    BY <1>0, <1>4 DEF ReportIsolation, Finish, CallType
  <2>6. call'[j].status # "error"
    BY <2>2, <2>3, <2>4, <2>5 DEF Owns
  <2> QED
    BY <1>2, <2>1, <2>3, <2>4, <2>6
\* The other steps change no status of an isolation, and no mark.
<1>5. ASSUME \A j \in Calls : Owns(j, client) =>
               call'[j].status # "error" /\ call'[j].marked = call[j].marked,
             client' = client, entry[client].reason
      PROVE  \E j \in Calls : Owns(j, client)'
  BY <1>0, <1>1, <1>2, <1>5
<1>6. ASSUME NEW k \in Calls, ReportRequest(k) \/ ReportCommand(k) \/ ReportQuarantine(k)
      PROVE  \E j \in Calls : Owns(j, client)'
  <2>1. call[k].op # "isolate" /\ client' = client /\ entry' = entry
    BY <1>6 DEF ReportRequest, ReportCommand, ReportQuarantine, Requests, registry
  <2>2. \A j \in Calls : j # k => call'[j] = call[j]
    BY <1>0, <1>6 DEF ReportRequest, ReportCommand, ReportQuarantine, Finish
  <2> QED
    BY <1>5, <2>1, <2>2 DEF Owns
<1>7. ASSUME NEW k \in Calls, Send(k) \/ SendFails(k) PROVE \E j \in Calls : Owns(j, client)'
  <2>1. client' = client /\ entry[client].reason
    BY <1>0, <1>7 DEF Send, SendFails, ExpectDisconnect, Remove
  <2>2. \A j \in Calls : call'[j].status = call[j].status /\ call'[j].marked = call[j].marked
    <3>1. CASE Send(k)
      BY <1>0, <3>1 DEF Send, CallType
    <3>2. CASE SendFails(k)
      BY <1>0, <3>2 DEF SendFails, Returned, CallType
    <3> QED
      BY <1>7, <3>1, <3>2
  <2> QED
    BY <1>5, <2>1, <2>2 DEF Owns
<1>8. ASSUME NEW k \in Calls, NEW op \in Ops, NEW w \in {0} \cup Windows, LookUp(k, op, w)
      PROVE  \E j \in Calls : Owns(j, client)'
  <2>1. client' = client /\ entry' = entry
    BY <1>8 DEF LookUp, registry
  <2>2. \A j \in Calls : call'[j].status = call[j].status /\ call'[j].marked = call[j].marked
    BY <1>0, <1>8 DEF LookUp, CallType
  <2> QED
    BY <1>5, <2>1, <2>2 DEF Owns
<1>9. ASSUME NEW k \in Calls, AwaitAnswer(k) \/ TakeAnswer(k) \/ TimesOut(k)
      PROVE  \E j \in Calls : Owns(j, client)'
  <2>1. client' = client /\ entry' = entry
    BY <1>9 DEF AwaitAnswer, TakeAnswer, TimesOut, registry
  <2>2. \A j \in Calls : call'[j].status = call[j].status /\ call'[j].marked = call[j].marked
    <3>1. CASE AwaitAnswer(k)
      BY <1>0, <3>1 DEF AwaitAnswer, CallType
    <3>2. CASE TakeAnswer(k)
      BY <1>0, <3>2 DEF TakeAnswer, Taken, Returned, CallType
    <3>3. CASE TimesOut(k)
      BY <1>0, <3>3 DEF TimesOut, Returned, CallType
    <3> QED
      BY <1>9, <3>1, <3>2, <3>3
  <2> QED
    BY <1>5, <2>1, <2>2 DEF Owns
<1>10. ASSUME NEW c \in Conns, Register(c) PROVE \E j \in Calls : Owns(j, client)'
  <2>1. call' = call
    BY <1>10 DEF Register
  <2>2. client = NoConn => ~ entry'[client'].reason
    BY <1>10 DEF Register, MarksAreOfEntries
  <2>3. client # NoConn => client' = client /\ entry[client].reason
    BY <1>0, <1>10 DEF Register
  <2> QED
    BY <1>5, <2>1, <2>2, <2>3 DEF Owns
<1>11. ASSUME NEW c \in Conns, ReaderEnds(c) PROVE \E j \in Calls : Owns(j, client)'
  BY <1>5, <1>11 DEF ReaderEnds, Remove, Owns
<1>12. CASE UNCHANGED <<client, entry, call>>
  BY <1>5, <1>12 DEF Owns
<1> QED
  BY <1>3, <1>4, <1>6, <1>7, <1>8, <1>9, <1>10, <1>11, <1>12
     DEF Next, vars, world, registry, Return, ReadAnswer, PutAnswer, StartWorker, RefuseScreenshot,
         LinkEnds, CarryOut, WorkerAnswers, RestoreNetwork

LEMMA Invariant == Spec => []Inv
<1>1. Init => Inv
  BY InitInv
<1>2. Inv /\ [Next]_vars => Inv'
  BY ChannelNext, ViewsNext, MarksNext, SuppressionNext DEF Inv
<1> QED
  BY <1>1, <1>2, PTL DEF Spec

-----------------------------------------------------------------------------
\* Every variable stays in its domain.
THEOREM TypeCorrect == Spec => []TypeOK
<1>1. Inv => TypeOK
  BY ChannelTyped DEF Inv
<1> QED
  BY <1>1, Invariant, PTL

\* For any number of calls that share the queues of any number of
\* connections: a call that has an answer has the client's answer to a
\* command of its own name that some call sent and the client carried out,
\* and a flow query that is completed has the window it asked for.
THEOREM AnswersOfTheClient == Spec => []AnswersAreEarned
<1>1. Inv => AnswersAreEarned
  <2> SUFFICES ASSUME Inv, NEW k \in Calls, call[k].outcome = "ok"
               PROVE  LET f == call[k].answer IN
                      /\ f # Disconnected /\ f.call \in heard
                      /\ Name(call[f.call].op) = Name(call[k].op)
                      /\ call[k].op = "flows" /\ call[k].status = "completed" =>
                           call[f.call].window = call[k].window
    BY DEF AnswersAreEarned
  <2> DEFINE f == call[k].answer
  <2>1. /\ f \in Earned /\ f.name = Name(call[k].op) /\ call[k].op \in Ops
        /\ call[k].op = "flows" /\ call[k].status = "completed" =>
             call[f.call].window = call[k].window
    <3>1. Answered(call[k], Earned, call) /\ Steady(call[k])
      BY DEF Inv, Channel, CallsAreAnswered, CallsAreSteady
    <3> QED
      BY <3>1 DEF Answered, Steady
  <2>2. f \in Answers /\ f.call \in heard /\ f.name \in {Refused, Name(call[f.call].op)}
    BY <2>1 DEF Earned
  <2>3. f.name # Refused /\ f.name # "DISCONNECTED"
    BY <2>1, OpsAssumption DEF Refused, Name, AllOps, Requests
  <2> QED
    BY <2>1, <2>2, <2>3 DEF Disconnected
<1> QED
  BY <1>1, Invariant, PTL

\* The server calls a device isolated or quarantined only if the device has
\* carried out, or refused, a command to that effect.
THEOREM ViewsEarned == Spec => []ViewsAreEarned
<1>1. Inv => ViewsAreEarned
  BY DEF Inv
<1> QED
  BY <1>1, Invariant, PTL

\* A loss is kept from the disconnect checks for an isolation only while one
\* of that entry is under way or was not reported as failed.
THEOREM SuppressionOwned == Spec => []SuppressionIsOwned
<1>1. Inv => SuppressionIsOwned
  BY DEF Inv
<1> QED
  BY <1>1, Invariant, PTL
-----------------------------------------------------------------------------
(* No answer serves two calls.  Where says where the one command of a call, *)
(* or the one answer to it, is: on its way to the client, with a worker, on *)
(* its way back, with a reader, in a queue, or with the call that took it.  *)
(* A step moves it from one place to the next, or loses it.                 *)

IsOf(f, k) == f # Disconnected /\ f.call = k
Within(s, k) == \E n \in DOMAIN s : IsOf(s[n], k)
Distinct(s) == \A m, n \in DOMAIN s : \A k \in Calls : IsOf(s[m], k) /\ IsOf(s[n], k) => m = n

\* The connections that hold a frame of call k, named after the kind of line.
Lines(kind, line, k) == {<<kind, c>> : c \in {d \in Conns : Within(line[d], k)}}

InWorkers(k) == {<<"worker", w>> : w \in {v \in workers : IsOf(v.frame, k)}}
InReaders(k) == {<<"reader", c>> : c \in {d \in Conns : reader[d].step = "putting"
                                                        /\ IsOf(reader[d].frame, k)}}
InCalls(k)   == {<<"call", j>> : j \in {i \in Calls : call[i].outcome = "ok"
                                                      /\ IsOf(call[i].answer, k)}}
InLines(k)   == Lines("command", commands, k) \cup Lines("answer", answers, k)
                \cup Lines("queue", queue, k)
Where(k)     == InLines(k) \cup InWorkers(k) \cup InReaders(k) \cup InCalls(k)

AllDistinct == \A c \in Conns : /\ Distinct(commands[c])
                                /\ Distinct(answers[c]) /\ Distinct(queue[c])
InOnePlace  == \A k \in Calls : \A p, q \in Where(k) : p = q
Unsent      == \A k \in Calls : call[k].step \in {"idle", "marked", "send"} => Where(k) = {}

Once == AllDistinct /\ InOnePlace /\ Unsent

LEMMA TailLeaves ==
  ASSUME NEW S, NEW s \in Seq(S), s # << >>, Distinct(s)
  PROVE  /\ Distinct(Tail(s))
         /\ \A k : Within(Tail(s), k) => Within(s, k)
         /\ \A k \in Calls : IsOf(Head(s), k) => Within(s, k) /\ ~ Within(Tail(s), k)
<1>1. /\ DOMAIN s = 1 .. Len(s) /\ Len(s) \in Nat \ {0}
      /\ DOMAIN Tail(s) = 1 .. (Len(s) - 1)
      /\ \A n \in 1 .. (Len(s) - 1) : Tail(s)[n] = s[n + 1]
      /\ Head(s) = s[1]
  OBVIOUS
<1> DEFINE t == Tail(s)
           h == Head(s)
<1> HIDE DEF t, h
<1>2. /\ DOMAIN s = 1 .. Len(s) /\ Len(s) \in Nat \ {0}
      /\ DOMAIN t = 1 .. (Len(s) - 1)
      /\ \A n \in 1 .. (Len(s) - 1) : t[n] = s[n + 1] /\ n + 1 \in DOMAIN s
      /\ h = s[1] /\ 1 \in DOMAIN s
  BY <1>1 DEF t, h
<1>3. Distinct(t)
  BY <1>2 DEF Distinct
<1>4. \A k : Within(t, k) => Within(s, k)
  BY <1>2 DEF Within
<1>5. ASSUME NEW k \in Calls, IsOf(h, k) PROVE Within(s, k) /\ ~ Within(t, k)
  <2>1. Within(s, k)
    BY <1>2, <1>5 DEF Within
  <2>2. ASSUME NEW n \in DOMAIN t, IsOf(t[n], k) PROVE FALSE
    <3>1. n + 1 \in DOMAIN s /\ IsOf(s[n + 1], k) /\ IsOf(s[1], k) /\ n + 1 # 1
      BY <1>2, <1>5, <2>2
    <3> QED
      BY <1>2, <3>1 DEF Distinct
  <2> QED
    BY <2>1, <2>2 DEF Within
<1> QED
  BY <1>3, <1>4, <1>5 DEF t, h

LEMMA AppendAdds ==
  ASSUME NEW S, NEW s \in Seq(S), NEW f \in S
  PROVE  /\ \A k : Within(Append(s, f), k) <=> Within(s, k) \/ IsOf(f, k)
         /\ Distinct(s) /\ (\A k \in Calls : IsOf(f, k) => ~ Within(s, k)) => Distinct(Append(s, f))
<1> DEFINE t == Append(s, f)
<1>1. /\ DOMAIN s = 1 .. Len(s) /\ Len(s) \in Nat
      /\ DOMAIN t = 1 .. (Len(s) + 1) /\ t[Len(s) + 1] = f
      /\ \A n \in 1 .. Len(s) : t[n] = s[n]
  OBVIOUS
<1> HIDE DEF t
<1>2. DOMAIN t = DOMAIN s \cup {Len(s) + 1} /\ Len(s) + 1 \notin DOMAIN s
      /\ t[Len(s) + 1] = f /\ \A n \in DOMAIN s : t[n] = s[n]
  BY <1>1
<1>3. \A k : Within(t, k) <=> Within(s, k) \/ IsOf(f, k)
  BY <1>2 DEF Within
<1>4. ASSUME Distinct(s), \A k \in Calls : IsOf(f, k) => ~ Within(s, k)
      PROVE  Distinct(t)
  BY <1>2, <1>4 DEF Distinct, Within
<1> QED
  BY <1>3, <1>4 DEF t

\* One frame leaves a line, and one enters it.
AnyFrame == Frames \cup Queued

Loses(kind, line, c, new) ==
  /\ \A d \in Conns : Distinct(new[d])
  /\ \A k : Lines(kind, new, k) \subseteq Lines(kind, line, k)
  /\ \A k \in Calls : IsOf(Head(line[c]), k) =>
       <<kind, c>> \in Lines(kind, line, k) /\ <<kind, c>> \notin Lines(kind, new, k)

Gains(kind, line, c, f, new) ==
  /\ \A d \in Conns : Distinct(new[d])
  /\ \A k : Lines(kind, new, k) \subseteq Lines(kind, line, k) \cup {<<kind, c>>}
  /\ \A k : ~ IsOf(f, k) => Lines(kind, new, k) \subseteq Lines(kind, line, k)

LEMMA LineTaken ==
  ASSUME NEW line \in [Conns -> Seq(AnyFrame)], NEW c \in Conns, line[c] # << >>,
         NEW new, new = [line EXCEPT ![c] = Tail(@)],
         \A d \in Conns : Distinct(line[d]), NEW kind
  PROVE  Loses(kind, line, c, new)
<1>1. /\ Distinct(Tail(line[c])) /\ \A k : Within(Tail(line[c]), k) => Within(line[c], k)
      /\ \A k \in Calls : IsOf(Head(line[c]), k) =>
           Within(line[c], k) /\ ~ Within(Tail(line[c]), k)
  BY TailLeaves
<1>2. new[c] = Tail(line[c]) /\ \A d \in Conns \ {c} : new[d] = line[d]
  OBVIOUS
<1>3. \A d \in Conns : Distinct(new[d])
  BY <1>1, <1>2
<1>4. \A k : \A d \in Conns : Within(new[d], k) => Within(line[d], k)
  BY <1>1, <1>2
<1>5. \A k : Lines(kind, new, k) \subseteq Lines(kind, line, k)
  BY <1>4 DEF Lines
<1>6. ASSUME NEW k \in Calls, IsOf(Head(line[c]), k)
      PROVE  <<kind, c>> \in Lines(kind, line, k) /\ <<kind, c>> \notin Lines(kind, new, k)
  <2>1. Within(line[c], k) /\ ~ Within(new[c], k)
    BY <1>1, <1>2, <1>6
  <2> QED
    BY <2>1 DEF Lines
<1> QED
  BY <1>3, <1>5, <1>6 DEF Loses

LEMMA LineGiven ==
  ASSUME NEW line \in [Conns -> Seq(AnyFrame)], NEW c \in Conns, NEW f \in AnyFrame,
         NEW new, new = [line EXCEPT ![c] = Append(@, f)],
         \A d \in Conns : Distinct(line[d]), NEW kind,
         \A k \in Calls : IsOf(f, k) => <<kind, c>> \notin Lines(kind, line, k)
  PROVE  Gains(kind, line, c, f, new)
<1>1. new[c] = Append(line[c], f) /\ \A d \in Conns \ {c} : new[d] = line[d]
  OBVIOUS
<1>2. \A k \in Calls : IsOf(f, k) => ~ Within(line[c], k)
  BY DEF Lines
<1>3. Distinct(new[c]) /\ \A k : Within(new[c], k) <=> Within(line[c], k) \/ IsOf(f, k)
  BY <1>1, <1>2, AppendAdds
<1>4. \A d \in Conns : Distinct(new[d])
  BY <1>1, <1>3
<1>5. \A k : \A d \in Conns : Within(new[d], k) => Within(line[d], k) \/ (d = c /\ IsOf(f, k))
  BY <1>1, <1>3
<1> QED
  BY <1>4, <1>5 DEF Lines, Gains

\* What a step may do to the places of the frames.
Moved ==
  \A k \in Calls :
    \/ Where(k)' \subseteq Where(k)
    \/ /\ Where(k) # {} \/ (call[k].step = "send" /\ call'[k].step = "wait")
       /\ \E q : Where(k)' \subseteq {q}

LEMMA OnceKept ==
  ASSUME Once, AllDistinct', Moved,
         \A k \in Calls : call'[k].step \in {"idle", "marked", "send"}
                            => call[k].step \in {"idle", "marked", "send"}
  PROVE  Once'
<1>1. ASSUME NEW k \in Calls PROVE \A p, q \in Where(k)' : p = q
  BY DEF Once, InOnePlace, Moved
<1>2. ASSUME NEW k \in Calls, call'[k].step \in {"idle", "marked", "send"} PROVE Where(k)' = {}
  <2>1. call[k].step \in {"idle", "marked", "send"} /\ Where(k) = {}
    BY <1>2 DEF Once, Unsent
  <2> QED
    BY <1>2, <2>1 DEF Moved
<1> QED
  BY <1>1, <1>2 DEF Once, InOnePlace, Unsent

\* One frame moves from p to q, and no other frame moves.
LEMMA FrameMoves ==
  ASSUME InOnePlace, NEW k \in Calls, NEW p, NEW q,
         p \in Where(k), Where(k)' \subseteq (Where(k) \ {p}) \cup {q},
         \A j \in Calls \ {k} : Where(j)' \subseteq Where(j)
  PROVE  Moved
<1>1. Where(k)' \subseteq {q} /\ Where(k) # {}
  BY DEF InOnePlace
<1> QED
  BY <1>1 DEF Moved

LEMMA NothingMoves ==
  ASSUME \A j \in Calls : Where(j)' \subseteq Where(j)
  PROVE  Moved
BY DEF Moved

\* A frame is of one call.
LEMMA OfOneCall ==
  ASSUME NEW f, NEW k, IsOf(f, k)
  PROVE  \A j : IsOf(f, j) => j = k
BY DEF IsOf

LEMMA FrameIsOf ==
  ASSUME NEW f, f \in Frames \/ f \in Answers
  PROVE  f.call \in Calls /\ IsOf(f, f.call)
<1>1. f # Disconnected
  <2>1. Name("none") = "none" /\ \A op \in Ops : Name(op) # "DISCONNECTED"
    BY OpsAssumption DEF Name, AllOps, Requests
  <2> QED
    BY <2>1 DEF Frames, Answers, Disconnected, Refused
<1> QED
  BY <1>1 DEF IsOf, Frames, Answers

\* The kinds tell the places apart, before a step and after it.
LEMMA LineKind ==
  ASSUME NEW kind, NEW line, NEW k
  PROVE  \A e \in Lines(kind, line, k) : e[1] = kind
BY DEF Lines

LEMMA Kinds ==
  ASSUME NEW k
  PROVE  /\ \A e \in InWorkers(k) \cup InWorkers(k)' : e[1] = "worker"
         /\ \A e \in InReaders(k) \cup InReaders(k)' : e[1] = "reader"
         /\ \A e \in InCalls(k) \cup InCalls(k)' : e[1] = "call"
BY DEF InWorkers, InReaders, InCalls

\* The lines hold frames of their types.
LEMMA LineTypes ==
  ASSUME Channel
  PROVE  /\ commands \in [Conns -> Seq(Asked)] /\ Asked \subseteq Frames
         /\ answers \in [Conns -> Seq(Earned)] /\ Earned \subseteq Answers
         /\ queue \in [Conns -> Seq(Held)] /\ Held = Earned \cup {Disconnected}
         /\ {commands, answers, queue} \subseteq [Conns -> Seq(AnyFrame)]
<1>1. /\ commands \in [Conns -> Seq(Asked)] /\ Asked \subseteq Frames
      /\ answers \in [Conns -> Seq(Earned)] /\ Earned \subseteq Answers
      /\ queue \in [Conns -> Seq(Held)] /\ Held = Earned \cup {Disconnected}
  BY DEF Channel, CommandsAsked, AnswersEarned, Asked, Earned, Held
<1>2. Asked \subseteq AnyFrame /\ Earned \subseteq AnyFrame /\ Held \subseteq AnyFrame
  BY <1>1 DEF AnyFrame, Queued
<1>3. commands \in [Conns -> Seq(AnyFrame)] /\ answers \in [Conns -> Seq(AnyFrame)]
  BY <1>1, <1>2, SeqGrows
<1>4. queue \in [Conns -> Seq(AnyFrame)]
  BY <1>1, <1>2, SeqGrows
<1> QED
  BY <1>1, <1>3, <1>4

\* The client's loop takes a command.
LEMMA CommandLeaves ==
  ASSUME Channel, AllDistinct, NEW c \in Conns, commands[c] # << >>,
         commands' = [commands EXCEPT ![c] = Tail(@)]
  PROVE  /\ Loses("command", commands, c, commands')
         /\ Head(commands[c]) \in Frames /\ Head(commands[c]).call \in Calls
         /\ IsOf(Head(commands[c]), Head(commands[c]).call)
<1>1. Head(commands[c]) \in Frames
  BY HeadAndTail, LineTypes
<1>2. Loses("command", commands, c, commands')
  BY LineTypes, LineTaken DEF AllDistinct
<1> QED
  BY <1>1, <1>2, FrameIsOf

LEMMA StartWorkerOnce ==
  ASSUME Channel, Once, NEW c \in Conns, StartWorker(c)
  PROVE  AllDistinct' /\ Moved
<1>1. PICK k \in Calls : IsOf(Head(commands[c]), k)
  BY CommandLeaves DEF StartWorker, Once
<1>2. /\ <<"command", c>> \in Lines("command", commands, k)
      /\ <<"command", c>> \notin Lines("command", commands', k)
      /\ \A j : Lines("command", commands', j) \subseteq Lines("command", commands, j)
      /\ \A d \in Conns : Distinct(commands'[d])
  BY <1>1, CommandLeaves DEF StartWorker, Once, Loses
<1>3. PICK w : /\ workers' = workers \cup {w} /\ w.frame = Head(commands[c])
               /\ UNCHANGED <<answers, queue, reader, call>>
  BY DEF StartWorker, registry
<1>4. \A j : InReaders(j)' = InReaders(j) /\ InCalls(j)' = InCalls(j)
  BY <1>3 DEF InReaders, InCalls
<1>5. \A j : /\ InWorkers(j)' \subseteq InWorkers(j) \cup {<<"worker", w>>}
             /\ j # k => InWorkers(j)' \subseteq InWorkers(j)
  BY <1>1, <1>3 DEF InWorkers, IsOf
<1>6. AllDistinct'
  BY <1>2, <1>3 DEF Once, AllDistinct
<1>7. <<"command", c>> \in Where(k)
  BY <1>2 DEF Where, InLines
<1>8. Where(k)' \subseteq Where(k) \cup {<<"worker", w>>}
  BY <1>2, <1>3, <1>4, <1>5 DEF Where, InLines
<1>9. <<"command", c>> \notin Where(k)'
  BY <1>2, LineKind, Kinds DEF Where, InLines
<1>10. \A j \in Calls \ {k} : Where(j)' \subseteq Where(j)
  BY <1>2, <1>3, <1>4, <1>5 DEF Where, InLines
<1>11. Where(k)' \subseteq (Where(k) \ {<<"command", c>>}) \cup {<<"worker", w>>}
  BY <1>8, <1>9
<1> QED
  BY <1>6, <1>7, <1>10, <1>11, FrameMoves DEF Once

\* An answer comes into a line, and so does the sentinel of a removal.
LEMMA AnswerEnters ==
  ASSUME Channel, Once, NEW c \in Conns, NEW a \in Answers, NEW k \in Calls, IsOf(a, k),
         answers' = [answers EXCEPT ![c] = Append(@, a)],
         NEW p \in Where(k), p # <<"answer", c>>
  PROVE  Gains("answer", answers, c, a, answers')
<1>1. answers \in [Conns -> Seq(AnyFrame)] /\ a \in AnyFrame
      /\ \A d \in Conns : Distinct(answers[d])
  BY LineTypes DEF Once, AllDistinct, AnyFrame, Queued
<1>2. <<"answer", c>> \notin Lines("answer", answers, k)
  BY DEF Once, InOnePlace, Where, InLines
<1>3. \A j \in Calls : IsOf(a, j) => <<"answer", c>> \notin Lines("answer", answers, j)
  BY <1>2 DEF IsOf
<1> QED
  BY <1>1, <1>3, LineGiven

LEMMA QueueEnters ==
  ASSUME Channel, Once, NEW c \in Conns, NEW f \in Queued,
         queue' = [queue EXCEPT ![c] = Append(@, f)],
         \A k \in Calls : IsOf(f, k) => \E p \in Where(k) : p # <<"queue", c>>
  PROVE  Gains("queue", queue, c, f, queue')
<1>1. queue \in [Conns -> Seq(AnyFrame)] /\ f \in AnyFrame
      /\ \A d \in Conns : Distinct(queue[d])
  BY LineTypes DEF Once, AllDistinct, AnyFrame
<1>2. \A k \in Calls : IsOf(f, k) => <<"queue", c>> \notin Lines("queue", queue, k)
  BY DEF Once, InOnePlace, Where, InLines
<1> QED
  BY <1>1, <1>2, LineGiven

\* The client's loop answers a command itself, refuses it, or carries it out
\* without being able to answer.
LEMMA LoopAnswers ==
  ASSUME Channel, Once, NEW c \in Conns, commands[c] # << >>,
         commands' = [commands EXCEPT ![c] = Tail(@)],
         \/ answers' = answers
         \/ \E a \in Answers : a.call = Head(commands[c]).call
                               /\ answers' = [answers EXCEPT ![c] = Append(@, a)],
         UNCHANGED <<workers, queue, reader, call>>
  PROVE  AllDistinct' /\ Moved
<1>1. PICK k \in Calls : IsOf(Head(commands[c]), k)
  BY CommandLeaves DEF Once
<1>2. /\ <<"command", c>> \in Lines("command", commands, k)
      /\ <<"command", c>> \notin Lines("command", commands', k)
      /\ \A j : Lines("command", commands', j) \subseteq Lines("command", commands, j)
      /\ \A d \in Conns : Distinct(commands'[d])
  BY <1>1, CommandLeaves DEF Once, Loses
<1>3. \A j : InReaders(j)' = InReaders(j) /\ InCalls(j)' = InCalls(j) /\ InWorkers(j)' = InWorkers(j)
  BY DEF InReaders, InCalls, InWorkers
<1>4. <<"command", c>> \in Where(k) /\ <<"command", c>> # <<"answer", c>>
  BY <1>2 DEF Where, InLines
<1>5. /\ \A d \in Conns : Distinct(answers'[d])
      /\ \A j : /\ Lines("answer", answers', j) \subseteq Lines("answer", answers, j) \cup {<<"answer", c>>}
                /\ j # k => Lines("answer", answers', j) \subseteq Lines("answer", answers, j)
  <2>1. CASE answers' = answers
    BY <2>1 DEF Once, AllDistinct
  <2>2. ASSUME NEW a \in Answers, a.call = Head(commands[c]).call,
               answers' = [answers EXCEPT ![c] = Append(@, a)]
        PROVE  /\ \A d \in Conns : Distinct(answers'[d])
               /\ \A j : /\ Lines("answer", answers', j)
                              \subseteq Lines("answer", answers, j) \cup {<<"answer", c>>}
                         /\ j # k => Lines("answer", answers', j) \subseteq Lines("answer", answers, j)
    <3>1. IsOf(a, k) /\ \A j : j # k => ~ IsOf(a, j)
      BY <1>1, <2>2, FrameIsOf DEF IsOf
    <3>2. Gains("answer", answers, c, a, answers')
      BY <1>4, <2>2, <3>1, AnswerEnters
    <3> QED
      BY <3>1, <3>2 DEF Gains
  <2> QED
    BY <2>1, <2>2
<1>6. AllDistinct'
  BY <1>2, <1>5 DEF Once, AllDistinct
<1>7. Where(k)' \subseteq Where(k) \cup {<<"answer", c>>}
  <2>1. InLines(k)' \subseteq InLines(k) \cup {<<"answer", c>>}
    BY <1>2, <1>5 DEF InLines
  <2> QED
    BY <1>3, <2>1 DEF Where
<1>8. <<"command", c>> \notin Where(k)'
  BY <1>2, LineKind, Kinds DEF Where, InLines
<1>9. \A j \in Calls \ {k} : Where(j)' \subseteq Where(j)
  <2>1. \A j \in Calls \ {k} : InLines(j)' \subseteq InLines(j)
    BY <1>2, <1>5 DEF InLines
  <2> QED
    BY <1>3, <2>1 DEF Where
<1>10. Where(k)' \subseteq (Where(k) \ {<<"command", c>>}) \cup {<<"answer", c>>}
  BY <1>7, <1>8
<1> QED
  BY <1>4, <1>6, <1>9, <1>10, FrameMoves DEF Once

LEMMA WorkerOnce ==
  ASSUME Channel, Once, NEW w \in workers, NEW good \in BOOLEAN, WorkerAnswers(w, good)
  PROVE  AllDistinct' /\ Moved
<1>1. w.frame \in Frames /\ w.conn \in Conns
  BY LineTypes DEF Channel, CommandsAsked
<1>2. PICK k \in Calls : k = w.frame.call /\ IsOf(w.frame, k)
  BY <1>1, FrameIsOf
<1>3. PICK c \in Conns : c = w.conn
  BY <1>1
<1>4. AnswerOf(w.frame, good) \in Answers /\ AnswerOf(w.frame, good).call = k
  BY <1>1, <1>2 DEF AnswerOf, Frames, Answers
<1>5. PICK a \in Answers : a = AnswerOf(w.frame, good) /\ a.call = k
  BY <1>4
<1>6. IsOf(a, k) /\ \A j : j # k => ~ IsOf(a, j)
  BY <1>5, FrameIsOf DEF IsOf
<1>7. <<"worker", w>> \in Where(k) /\ <<"worker", w>> # <<"answer", c>>
  BY <1>2 DEF Where, InWorkers
<1>8. workers' = workers \ {w} /\ UNCHANGED <<commands, queue, reader, call>>
  BY DEF WorkerAnswers, registry
<1>9. /\ \A d \in Conns : Distinct(answers'[d])
      /\ \A j : /\ Lines("answer", answers', j) \subseteq Lines("answer", answers, j) \cup {<<"answer", c>>}
                /\ j # k => Lines("answer", answers', j) \subseteq Lines("answer", answers, j)
  <2>1. CASE answers' = answers
    BY <2>1 DEF Once, AllDistinct
  <2>2. CASE answers' = [answers EXCEPT ![c] = Append(@, a)]
    <3>1. Gains("answer", answers, c, a, answers')
      BY <1>6, <1>7, <2>2, AnswerEnters
    <3> QED
      BY <1>6, <3>1 DEF Gains
  <2> QED
    BY <1>3, <1>5, <2>1, <2>2 DEF WorkerAnswers
<1>10. \A j : InReaders(j)' = InReaders(j) /\ InCalls(j)' = InCalls(j) /\ InWorkers(j)' \subseteq InWorkers(j)
  BY <1>8 DEF InReaders, InCalls, InWorkers
<1>11. AllDistinct'
  BY <1>8, <1>9 DEF Once, AllDistinct
<1>12. Where(k)' \subseteq Where(k) \cup {<<"answer", c>>}
  BY <1>8, <1>9, <1>10 DEF Where, InLines
<1>13. <<"worker", w>> \notin Where(k)'
  <2>1. <<"worker", w>> \notin InWorkers(k)'
    BY <1>8 DEF InWorkers
  <2> QED
    BY <2>1, LineKind, Kinds DEF Where, InLines
<1>14. \A j \in Calls \ {k} : Where(j)' \subseteq Where(j)
  BY <1>8, <1>9, <1>10 DEF Where, InLines
<1>15. Where(k)' \subseteq (Where(k) \ {<<"worker", w>>}) \cup {<<"answer", c>>}
  BY <1>12, <1>13
<1> QED
  BY <1>7, <1>11, <1>14, <1>15, FrameMoves DEF Once

\* A reader takes an answer off its connection; it may drop it.
LEMMA ReadOnce ==
  ASSUME Channel, Once, NEW c \in Conns, ReadAnswer(c)
  PROVE  AllDistinct' /\ Moved
<1>1. /\ answers[c] # << >> /\ answers' = [answers EXCEPT ![c] = Tail(@)]
      /\ UNCHANGED <<commands, workers, queue, call>>
      /\ \/ reader' = reader
         \/ \E e : reader' = [reader EXCEPT ![c] = [step |-> "putting", entry |-> e,
                                                    frame |-> Head(answers[c])]]
  BY DEF ReadAnswer, registry, Channel, ReadersHold
<1>2. Head(answers[c]) \in Answers
  BY <1>1, HeadAndTail, LineTypes
<1>3. PICK k \in Calls : IsOf(Head(answers[c]), k)
  BY <1>2, FrameIsOf
<1>4. Loses("answer", answers, c, answers')
  BY <1>1, LineTypes, LineTaken DEF Once, AllDistinct
<1>5. \A j : /\ InReaders(j)' \subseteq InReaders(j) \cup {<<"reader", c>>}
             /\ j # k => InReaders(j)' \subseteq InReaders(j)
  <2>1. reader \in [Conns -> [step : {"none", "reading", "putting", "done"},
                              entry : AnyConn, frame : Held]]
    BY DEF Channel, ReadersHold
  <2> QED
    BY <1>1, <1>3, <2>1 DEF InReaders, IsOf
<1>6. \A j : InCalls(j)' = InCalls(j) /\ InWorkers(j)' = InWorkers(j)
  BY <1>1 DEF InCalls, InWorkers
<1>7. AllDistinct'
  BY <1>1, <1>4 DEF Once, AllDistinct, Loses
<1>8. <<"answer", c>> \in Where(k)
  BY <1>3, <1>4 DEF Where, InLines, Loses
<1>9. Where(k)' \subseteq Where(k) \cup {<<"reader", c>>}
  <2>1. InLines(k)' \subseteq InLines(k)
    BY <1>1, <1>4 DEF InLines, Loses
  <2> QED
    BY <1>5, <1>6, <2>1 DEF Where
<1>10. <<"answer", c>> \notin Where(k)'
  <2>1. <<"answer", c>> \notin Lines("answer", answers', k)
    BY <1>3, <1>4 DEF Loses
  <2> QED
    BY <2>1, LineKind, Kinds DEF Where, InLines
<1>11. \A j \in Calls \ {k} : Where(j)' \subseteq Where(j)
  BY <1>1, <1>4, <1>5, <1>6 DEF Where, InLines, Loses
<1>12. Where(k)' \subseteq (Where(k) \ {<<"answer", c>>}) \cup {<<"reader", c>>}
  BY <1>9, <1>10
<1> QED
  BY <1>7, <1>8, <1>11, <1>12, FrameMoves DEF Once

\* A reader puts an answer into a queue.
LEMMA PutOnce ==
  ASSUME Channel, Once, NEW c \in Conns, PutAnswer(c)
  PROVE  AllDistinct' /\ Moved
<1>1. /\ reader[c].entry \in Conns /\ reader[c].frame \in Held /\ reader[c].step = "putting"
      /\ reader' = [reader EXCEPT ![c] = Reading]
      /\ UNCHANGED <<commands, answers, workers, call>>
  BY DEF PutAnswer, world, Channel, ReadersHold
<1>2. PICK q \in Conns : queue' = [queue EXCEPT ![q] = Append(@, reader[c].frame)]
  <2>1. entry[reader[c].entry].conn \in Conns
    BY <1>1 DEF Channel, EntryTyped
  <2> QED
    BY <2>1 DEF PutAnswer
<1>3. PICK f \in Queued : f = reader[c].frame
  BY <1>1, LineTypes DEF Queued
<1>4. \A j : IsOf(f, j) /\ j \in Calls => <<"reader", c>> \in Where(j)
  BY <1>1, <1>3 DEF Where, InReaders
<1>5. Gains("queue", queue, q, f, queue')
  <2>1. <<"reader", c>> # <<"queue", q>>
    OBVIOUS
  <2> QED
    BY <1>2, <1>3, <1>4, <2>1, QueueEnters
<1>6. \A j : InCalls(j)' = InCalls(j) /\ InWorkers(j)' = InWorkers(j)
  BY <1>1 DEF InCalls, InWorkers
<1>7. \A j : InReaders(j)' \subseteq InReaders(j) /\ <<"reader", c>> \notin InReaders(j)'
  <2>1. Reading.step = "reading"
    BY DEF Reading
  <2>2. reader'[c] = Reading /\ \A d \in Conns \ {c} : reader'[d] = reader[d]
    BY <1>1 DEF Channel, ReadersHold
  <2> QED
    BY <2>1, <2>2 DEF InReaders
<1>8. AllDistinct'
  BY <1>1, <1>5 DEF Once, AllDistinct, Gains
<1>9. \A j : ~ IsOf(f, j) => Where(j)' \subseteq Where(j)
  BY <1>1, <1>5, <1>6, <1>7 DEF Where, InLines, Gains
<1>10. CASE \A j \in Calls : ~ IsOf(f, j)
  BY <1>8, <1>9, <1>10, NothingMoves
<1>11. ASSUME NEW k \in Calls, IsOf(f, k) PROVE AllDistinct' /\ Moved
  <2>1. <<"reader", c>> \in Where(k)
    BY <1>4, <1>11
  <2>2. Where(k)' \subseteq Where(k) \cup {<<"queue", q>>}
    BY <1>1, <1>5, <1>6, <1>7 DEF Where, InLines, Gains
  <2>3. <<"reader", c>> \notin Where(k)'
    BY <1>7, LineKind, Kinds DEF Where, InLines
  <2>4. \A j \in Calls \ {k} : Where(j)' \subseteq Where(j)
    BY <1>9, <1>11 DEF IsOf
  <2>5. Where(k)' \subseteq (Where(k) \ {<<"reader", c>>}) \cup {<<"queue", q>>}
    BY <2>2, <2>3
  <2> QED
    BY <1>8, <2>1, <2>4, <2>5, FrameMoves DEF Once
<1> QED
  BY <1>10, <1>11

\* What a call may take, and where.
LEMMA CallPlace ==
  ASSUME CallTyped, NEW k \in Calls, NEW r, call' = [call EXCEPT ![k] = r]
  PROVE  \A j : /\ r.outcome # "ok" => InCalls(j)' \subseteq InCalls(j)
                /\ InCalls(j)' \subseteq InCalls(j) \cup {<<"call", k>>}
                /\ ~ IsOf(r.answer, j) => InCalls(j)' \subseteq InCalls(j)
<1>1. call'[k] = r /\ \A i \in Calls \ {k} : call'[i] = call[i]
  BY DEF CallTyped
<1> QED
  BY <1>1 DEF InCalls

\* A call takes an answer out of its queue; it may drop it.
LEMMA TakeOnce ==
  ASSUME Channel, Once, NEW k \in Calls, TakeAnswer(k)
  PROVE  AllDistinct' /\ Moved
<1>1. PICK q \in Conns : /\ q = call[k].queue /\ queue[q] # << >>
                         /\ queue' = [queue EXCEPT ![q] = Tail(@)]
                         /\ call' = [call EXCEPT ![k] = Taken(k, Head(queue[q]))]
                         /\ call[k].step = "get"
                         /\ UNCHANGED <<commands, answers, workers, reader>>
  <2>1. call[k].queue \in Conns
    BY DEF TakeAnswer, Channel, CallsAreSteady, Steady
  <2> QED
    BY <2>1 DEF TakeAnswer, world
<1>2. PICK f : f = Head(queue[q]) /\ f \in Queued
  BY <1>1, HeadAndTail, LineTypes DEF Queued
<1>3. PICK r : r = Taken(k, f)
  OBVIOUS
<1>4. Loses("queue", queue, q, queue')
  BY <1>1, LineTypes, LineTaken DEF Once, AllDistinct
<1>5. r.outcome = "ok" => r.answer = f
  <2>1. call[k] \in CallType /\ call[k].outcome # "ok"
    BY <1>1 DEF Channel, CallTyped, CallsAreAnswered, Answered
  <2> QED
    BY <1>3, <2>1 DEF Taken, Returned, CallType
<1>6. \A j : /\ InCalls(j)' \subseteq InCalls(j) \cup {<<"call", k>>}
             /\ ~ IsOf(f, j) => InCalls(j)' \subseteq InCalls(j)
  BY <1>1, <1>2, <1>3, <1>5, CallPlace DEF Channel
<1>7. \A j : InReaders(j)' = InReaders(j) /\ InWorkers(j)' = InWorkers(j)
  BY <1>1 DEF InReaders, InWorkers
<1>8. AllDistinct'
  BY <1>1, <1>4 DEF Once, AllDistinct, Loses
<1>9. \A j : ~ IsOf(f, j) => Where(j)' \subseteq Where(j)
  BY <1>1, <1>4, <1>6, <1>7 DEF Where, InLines, Loses
<1>10. CASE \A j \in Calls : ~ IsOf(f, j)
  BY <1>8, <1>9, <1>10, NothingMoves
<1>11. ASSUME NEW m \in Calls, IsOf(f, m) PROVE AllDistinct' /\ Moved
  <2>1. <<"queue", q>> \in Lines("queue", queue, m) /\ <<"queue", q>> \notin Lines("queue", queue', m)
    BY <1>2, <1>4, <1>11 DEF Loses
  <2>2. <<"queue", q>> \in Where(m)
    BY <2>1 DEF Where, InLines
  <2>3. Where(m)' \subseteq Where(m) \cup {<<"call", k>>}
    BY <1>1, <1>4, <1>6, <1>7 DEF Where, InLines, Loses
  <2>4. <<"queue", q>> \notin Where(m)'
    BY <2>1, LineKind, Kinds DEF Where, InLines
  <2>5. \A j \in Calls \ {m} : Where(j)' \subseteq Where(j)
    BY <1>9, <1>11 DEF IsOf
  <2>6. Where(m)' \subseteq (Where(m) \ {<<"queue", q>>}) \cup {<<"call", k>>}
    BY <2>3, <2>4
  <2> QED
    BY <1>8, <2>2, <2>5, <2>6, FrameMoves DEF Once
<1> QED
  BY <1>10, <1>11

\* The command of a call is sent once, after nothing of it was anywhere.
LEMMA SendOnce ==
  ASSUME Channel, Once, NEW k \in Calls, Send(k)
  PROVE  AllDistinct' /\ Moved
<1>1. PICK c \in Conns : /\ \/ commands' = commands
                            \/ commands' = [commands EXCEPT ![c] = Append(@, Frame(k))]
                         /\ call' = [call EXCEPT ![k].step = "wait"] /\ call[k].step = "send"
                         /\ UNCHANGED <<answers, workers, queue, reader>>
  <2>1. call[k].conn \in Conns
    BY DEF Send, Channel, CallsAreSteady, Steady
  <2> QED
    BY <2>1 DEF Send
<1>2. PICK f \in Frames : f = Frame(k) /\ f.call = k
  BY DEF Frame, Frames, Channel, CallsAreSteady, Steady, Send
<1>3. IsOf(f, k) /\ \A j : j # k => ~ IsOf(f, j)
  BY <1>2, FrameIsOf DEF IsOf
<1>4. Where(k) = {}
  BY <1>1 DEF Once, Unsent
<1>5. /\ \A d \in Conns : Distinct(commands'[d])
      /\ \A j : /\ Lines("command", commands', j)
                     \subseteq Lines("command", commands, j) \cup {<<"command", c>>}
                /\ j # k => Lines("command", commands', j) \subseteq Lines("command", commands, j)
  <2>1. CASE commands' = commands
    BY <2>1 DEF Once, AllDistinct
  <2>2. CASE commands' = [commands EXCEPT ![c] = Append(@, f)]
    <3>1. \A j \in Calls : IsOf(f, j) => <<"command", c>> \notin Lines("command", commands, j)
      BY <1>3, <1>4 DEF Where, InLines
    <3>2. Gains("command", commands, c, f, commands')
      BY <1>2, <2>2, <3>1, LineTypes, LineGiven DEF Once, AllDistinct, AnyFrame
    <3> QED
      BY <1>3, <3>2 DEF Gains
  <2> QED
    BY <1>1, <1>2, <2>1, <2>2
<1>6. call'[k].step = "wait" /\ \A j : InCalls(j)' \subseteq InCalls(j)
  <2>1. call \in [Calls -> CallType] /\ call[k].outcome # "ok"
    BY <1>1 DEF Channel, CallTyped, CallsAreAnswered, Answered
  <2>2. call'[k].step = "wait" /\ call'[k].outcome # "ok"
        /\ \A i \in Calls \ {k} : call'[i] = call[i]
    BY <1>1, <2>1 DEF CallType
  <2> QED
    BY <2>2 DEF InCalls
<1>7. \A j : InReaders(j)' = InReaders(j) /\ InWorkers(j)' = InWorkers(j)
  BY <1>1 DEF InReaders, InWorkers
<1>8. AllDistinct'
  BY <1>1, <1>5 DEF Once, AllDistinct
<1>9. Where(k)' \subseteq Where(k) \cup {<<"command", c>>}
  BY <1>1, <1>5, <1>6, <1>7 DEF Where, InLines
<1>10. \A j \in Calls \ {k} : Where(j)' \subseteq Where(j)
  BY <1>1, <1>5, <1>6, <1>7 DEF Where, InLines
<1>11. Where(k)' \subseteq {<<"command", c>>}
  BY <1>4, <1>9
<1> QED
  BY <1>1, <1>6, <1>8, <1>10, <1>11 DEF Moved

\* The other steps carry no frame: a removal queues the sentinel.
LEMMA RemoveOnce ==
  ASSUME Channel, Once, NEW c \in Conns, Remove(c)
  PROVE  (\A d \in Conns : Distinct(queue'[d]))
         /\ \A j : Lines("queue", queue', j) \subseteq Lines("queue", queue, j)
<1>1. CASE UNCHANGED queue
  BY <1>1 DEF Once, AllDistinct
<1>2. CASE queue' = [queue EXCEPT ![c] = Append(@, Disconnected)]
  <2>1. \A j : ~ IsOf(Disconnected, j)
    BY DEF IsOf
  <2>2. Gains("queue", queue, c, Disconnected, queue')
    BY <1>2, <2>1, QueueEnters DEF Queued
  <2> QED
    BY <2>1, <2>2 DEF Gains
<1> QED
  BY <1>1, <1>2 DEF Remove

LEMMA CallsQuiet ==
  ASSUME Channel, NEW k \in Calls,
         \/ MarkIsolation(k) \/ SendFails(k) \/ AwaitAnswer(k) \/ TimesOut(k) \/ Return(k)
         \/ \E op \in Ops, w \in {0} \cup Windows : LookUp(k, op, w)
  PROVE  \E r \in CallType :
           /\ call' = [call EXCEPT ![k] = r]
           /\ r.outcome # "ok" \/ (r.outcome = call[k].outcome /\ r.answer = call[k].answer)
           /\ r.step \in {"idle", "marked", "send"} => call[k].step \in {"idle", "marked", "send"}
<1>0. call[k] \in CallType /\ Answered(call[k], Earned, call) /\ CallTyped
  BY DEF Channel, CallTyped, CallsAreAnswered
<1>1. call' \in [Calls -> CallType]
  <2>1. Kept /\ [Next]_vars
    <3>1. [Next]_vars
      BY DEF Next
    <3> QED
      BY <3>1, KeptNext
  <2>2. Channel'
    BY <2>1, ChannelNext
  <2> QED
    BY <2>2 DEF Channel, CallTyped
<1>2. \A r : call' = [call EXCEPT ![k] = r] => r = call'[k] /\ r \in CallType
  BY <1>0, <1>1 DEF CallTyped
<1>3. CASE MarkIsolation(k)
  <2>1. call[k].step = "idle"
    BY <1>3 DEF MarkIsolation, Begins, Idle
  <2> QED
    BY <1>2, <1>3, <2>1 DEF MarkIsolation, Idle
<1>4. CASE SendFails(k)
  BY <1>0, <1>2, <1>4 DEF SendFails, Returned, CallType
<1>5. CASE AwaitAnswer(k)
  <2> DEFINE r == [call[k] EXCEPT !.step = "get", !.queue = entry[call[k].entry].conn]
  <2>1. call' = [call EXCEPT ![k] = r]
    BY <1>0, <1>5 DEF AwaitAnswer, CallTyped
  <2>2. r.outcome = call[k].outcome /\ r.answer = call[k].answer /\ r.step = "get"
    BY <1>0 DEF CallType
  <2> HIDE DEF r
  <2> QED
    BY <1>2, <2>1, <2>2
<1>6. CASE TimesOut(k)
  BY <1>0, <1>2, <1>6 DEF TimesOut, Returned, CallType
<1>7. CASE Return(k)
  <2>1. PICK status : call' = [call EXCEPT ![k].step = "done", ![k].status = status]
    BY <1>7 DEF Return, ReportRequest, ReportCommand, ReportQuarantine, ReportIsolation, Finish
  <2> DEFINE r == [call[k] EXCEPT !.step = "done", !.status = status]
  <2>2. call' = [call EXCEPT ![k] = r]
    BY <1>0, <2>1 DEF CallTyped
  <2>3. r.outcome = call[k].outcome /\ r.answer = call[k].answer /\ r.step = "done"
    BY <1>0 DEF CallType
  <2> HIDE DEF r
  <2> QED
    BY <1>2, <2>2, <2>3
<1>8. ASSUME NEW op \in Ops, NEW w \in {0} \cup Windows, LookUp(k, op, w)
      PROVE  \E r \in CallType :
               /\ call' = [call EXCEPT ![k] = r]
               /\ r.outcome # "ok"
               /\ r.step \in {"idle", "marked", "send"} => call[k].step \in {"idle", "marked", "send"}
  <2> DEFINE r == IF client = NoConn
                  THEN [call[k] EXCEPT !.op = op, !.window = w, !.step = "report",
                                       !.outcome = "not_connected"]
                  ELSE [call[k] EXCEPT !.op = op, !.window = w, !.step = "send",
                                       !.entry = client, !.conn = entry[client].conn]
  <2>1. call' = [call EXCEPT ![k] = r]
    BY <1>8 DEF LookUp
  <2>2. call[k].step \in {"idle", "marked"}
    <3>1. call[k] = Idle \/ call[k].step = "marked"
      BY <1>8, Zenon DEF LookUp, Begins
    <3>2. Idle.step = "idle"
      BY DEF Idle
    <3> QED
      BY <3>1, <3>2
  <2>3. call[k].outcome # "ok"
    BY <1>0, <2>2 DEF Answered
  <2>4. r.outcome # "ok"
    BY <1>0, <2>3 DEF CallType
  <2> HIDE DEF r
  <2> QED
    BY <1>2, <2>1, <2>2, <2>4
<1> QED
  BY <1>3, <1>4, <1>5, <1>6, <1>7, <1>8

LEMMA QuietCalls ==
  ASSUME Channel, Once, NEW k \in Calls,
         \/ MarkIsolation(k) \/ SendFails(k) \/ AwaitAnswer(k) \/ TimesOut(k) \/ Return(k)
         \/ \E op \in Ops, w \in {0} \cup Windows : LookUp(k, op, w)
  PROVE  AllDistinct' /\ Moved
<1>1. PICK r \in CallType :
           /\ call' = [call EXCEPT ![k] = r]
           /\ r.outcome # "ok" \/ (r.outcome = call[k].outcome /\ r.answer = call[k].answer)
  BY CallsQuiet
<1>2. \A j : InCalls(j)' \subseteq InCalls(j)
  <2>1. call'[k] = r /\ \A i \in Calls \ {k} : call'[i] = call[i]
    BY <1>1 DEF Channel, CallTyped
  <2> QED
    BY <1>1, <2>1 DEF InCalls
<1>3. UNCHANGED <<commands, answers, workers, reader>>
  BY DEF MarkIsolation, SendFails, AwaitAnswer, TimesOut, Return, LookUp, ReportRequest,
         ReportCommand, ReportQuarantine, ReportIsolation, world, registry
<1>4. (\A d \in Conns : Distinct(queue'[d]))
      /\ \A j : Lines("queue", queue', j) \subseteq Lines("queue", queue, j)
  <2>1. CASE UNCHANGED queue
    BY <2>1 DEF Once, AllDistinct
  <2>2. CASE SendFails(k)
    <3>1. call[k].conn \in Conns /\ Remove(call[k].conn)
      BY <2>2 DEF SendFails, Channel, CallsAreSteady, Steady
    <3> QED
      BY <3>1, RemoveOnce
  <2> QED
    BY <2>1, <2>2 DEF MarkIsolation, AwaitAnswer, TimesOut, Return, LookUp, ReportRequest,
                      ReportCommand, ReportQuarantine, ReportIsolation, registry
<1>5. \A j : InReaders(j)' = InReaders(j) /\ InWorkers(j)' = InWorkers(j)
  BY <1>3 DEF InReaders, InWorkers
<1>6. AllDistinct'
  BY <1>3, <1>4 DEF Once, AllDistinct
<1>7. \A j \in Calls : Where(j)' \subseteq Where(j)
  BY <1>2, <1>3, <1>4, <1>5 DEF Where, InLines
<1> QED
  BY <1>6, <1>7, NothingMoves

LEMMA QuietConns ==
  ASSUME Channel, Once, NEW c \in Conns, Register(c) \/ ReaderEnds(c) \/ LinkEnds(c)
  PROVE  AllDistinct' /\ Moved
<1>1. UNCHANGED <<answers, workers, call>>
  BY DEF Register, ReaderEnds, LinkEnds, world
<1>2. (\A d \in Conns : Distinct(queue'[d]))
      /\ \A j : Lines("queue", queue', j) \subseteq Lines("queue", queue, j)
  <2>1. CASE UNCHANGED queue
    BY <2>1 DEF Once, AllDistinct
  <2>2. CASE ReaderEnds(c)
    BY <2>2, RemoveOnce DEF ReaderEnds
  <2> QED
    BY <2>1, <2>2 DEF Register, LinkEnds, registry
<1>3. (\A d \in Conns : Distinct(commands'[d]))
      /\ \A j : Lines("command", commands', j) \subseteq Lines("command", commands, j)
  <2>1. CASE UNCHANGED commands
    BY <2>1 DEF Once, AllDistinct
  <2>2. CASE commands' = [commands EXCEPT ![c] = << >>]
    <3>1. commands'[c] = << >> /\ \A d \in Conns \ {c} : commands'[d] = commands[d]
      BY <2>2, LineTypes
    <3>2. Distinct(<< >>) /\ \A j : ~ Within(<< >>, j)
      BY DEF Distinct, Within
    <3> QED
      BY <3>1, <3>2 DEF Once, AllDistinct, Lines
  <2> QED
    BY <2>1, <2>2 DEF Register, LinkEnds, ReaderEnds, world
<1>4. \A j : InReaders(j)' \subseteq InReaders(j)
  <2>1. CASE UNCHANGED reader
    BY <2>1 DEF InReaders
  <2>2. ASSUME NEW r, reader' = [reader EXCEPT ![c] = r], r.step # "putting"
        PROVE  \A j : InReaders(j)' \subseteq InReaders(j)
    <3>1. reader'[c] = r /\ \A d \in Conns \ {c} : reader'[d] = reader[d]
      BY <2>2 DEF Channel, ReadersHold
    <3> QED
      BY <2>2, <3>1 DEF InReaders
  <2>3. CASE Register(c)
    <3>1. Reading.step = "reading"
      BY DEF Reading
    <3> QED
      BY <2>2, <2>3, <3>1 DEF Register
  <2>4. CASE ReaderEnds(c)
    <3> DEFINE r == [reader[c] EXCEPT !.step = "done"]
    <3>1. reader' = [reader EXCEPT ![c] = r] /\ r.step = "done"
      BY <2>4 DEF ReaderEnds, Channel, ReadersHold
    <3> HIDE DEF r
    <3> QED
      BY <2>2, <3>1
  <2> QED
    BY <2>1, <2>3, <2>4 DEF LinkEnds
<1>5. \A j : InCalls(j)' = InCalls(j) /\ InWorkers(j)' = InWorkers(j)
  BY <1>1 DEF InCalls, InWorkers
<1>6. AllDistinct'
  BY <1>1, <1>2, <1>3 DEF Once, AllDistinct
<1>7. \A j \in Calls : Where(j)' \subseteq Where(j)
  BY <1>1, <1>2, <1>3, <1>4, <1>5 DEF Where, InLines
<1> QED
  BY <1>6, <1>7, NothingMoves

\* A call does not go back to where nothing of it was sent.
LEMMA StepsOn ==
  ASSUME Channel, [Next]_vars
  PROVE  \A k \in Calls : call'[k].step \in {"idle", "marked", "send"}
                            => call[k].step \in {"idle", "marked", "send"}
<1>0. call \in [Calls -> CallType]
  BY DEF Channel, CallTyped
<1>1. ASSUME NEW k \in Calls, NEW r, call' = [call EXCEPT ![k] = r],
             r.step \in {"idle", "marked", "send"} => call[k].step \in {"idle", "marked", "send"}
      PROVE  \A j \in Calls : call'[j].step \in {"idle", "marked", "send"}
                                => call[j].step \in {"idle", "marked", "send"}
  BY <1>0, <1>1
<1>2. ASSUME NEW k \in Calls,
             \/ MarkIsolation(k) \/ SendFails(k) \/ AwaitAnswer(k) \/ TimesOut(k) \/ Return(k)
             \/ \E op \in Ops, w \in {0} \cup Windows : LookUp(k, op, w)
      PROVE  \E r : /\ call' = [call EXCEPT ![k] = r]
                    /\ r.step \in {"idle", "marked", "send"}
                         => call[k].step \in {"idle", "marked", "send"}
  BY <1>2, CallsQuiet
<1>3. ASSUME NEW k \in Calls, Send(k)
      PROVE  \E r : call' = [call EXCEPT ![k] = r] /\ r.step = "wait"
  <2> DEFINE r == [call[k] EXCEPT !.step = "wait"]
  <2>1. call' = [call EXCEPT ![k] = r] /\ r.step = "wait"
    BY <1>0, <1>3 DEF Send, CallType
  <2> HIDE DEF r
  <2> QED
    BY <2>1
<1>4. ASSUME NEW k \in Calls, TakeAnswer(k)
      PROVE  \E r : call' = [call EXCEPT ![k] = r] /\ r.step \in {"again", "report"}
  <2>1. PICK f : call' = [call EXCEPT ![k] = Taken(k, f)]
    BY <1>4 DEF TakeAnswer
  <2>2. call[k] \in CallType
    BY <1>0
  <2>3. Taken(k, f).step \in {"again", "report"}
    BY <2>2 DEF Taken, Returned, CallType
  <2> QED
    BY <2>1, <2>3
<1>5. CASE UNCHANGED call
  BY <1>5
<1>6. \A k \in Calls : Send(k) \/ TakeAnswer(k) => \E r : call' = [call EXCEPT ![k] = r]
                                                    /\ r.step \notin {"idle", "marked", "send"}
  BY <1>3, <1>4
<1> QED
  BY <1>1, <1>2, <1>5, <1>6
     DEF Next, vars, Register, ReadAnswer, PutAnswer, ReaderEnds, StartWorker, RefuseScreenshot,
         LinkEnds, CarryOut, WorkerAnswers, RestoreNetwork

LEMMA OnceInit == Init => Once
<1> SUFFICES ASSUME Init PROVE Once
  OBVIOUS
<1>1. \A c \in Conns : /\ commands[c] = << >> /\ answers[c] = << >> /\ queue[c] = << >>
                       /\ reader[c].step = "none"
  BY DEF Init, Reading
<1>2. Distinct(<< >>) /\ \A j : ~ Within(<< >>, j)
  BY DEF Distinct, Within
<1>3. \A k \in Calls : call[k].outcome = "none"
  BY DEF Init, Idle
<1>4. \A k : Where(k) = {}
  <2>1. workers = {}
    BY DEF Init
  <2> QED
    BY <1>1, <1>2, <1>3, <2>1 DEF Where, InLines, Lines, InWorkers, InReaders, InCalls
<1> QED
  BY <1>1, <1>2, <1>4 DEF Once, AllDistinct, InOnePlace, Unsent

LEMMA OnceNext == Channel /\ Once /\ [Next]_vars => Once'
<1> SUFFICES ASSUME Channel, Once, [Next]_vars PROVE Once'
  OBVIOUS
<1>1. ASSUME NEW c \in Conns PROVE Register(c) \/ ReaderEnds(c) \/ LinkEnds(c) => AllDistinct' /\ Moved
  BY QuietConns
<1>2. ASSUME NEW c \in Conns, NEW good \in BOOLEAN, CarryOut(c, good) PROVE AllDistinct' /\ Moved
  <2>1. Head(commands[c]) \in Frames /\ commands[c] # << >>
    BY <1>2, CommandLeaves DEF CarryOut, Once
  <2>2. AnswerOf(Head(commands[c]), good) \in Answers
        /\ AnswerOf(Head(commands[c]), good).call = Head(commands[c]).call
    BY <2>1 DEF AnswerOf, Frames, Answers
  <2> QED
    BY <1>2, <2>1, <2>2, LoopAnswers DEF CarryOut, registry
<1>3. ASSUME NEW c \in Conns, RefuseScreenshot(c) PROVE AllDistinct' /\ Moved
  <2> DEFINE a == [name |-> Refused, call |-> Head(commands[c]).call, good |-> FALSE]
  <2>1. Head(commands[c]) \in Frames /\ commands[c] # << >>
    BY <1>3, CommandLeaves DEF RefuseScreenshot, Once
  <2>2. a \in Answers /\ a.call = Head(commands[c]).call
    BY <2>1 DEF Frames, Answers
  <2>3. answers' = [answers EXCEPT ![c] = Append(@, a)]
    BY <1>3 DEF RefuseScreenshot
  <2> HIDE DEF a
  <2> QED
    BY <1>3, <2>1, <2>2, <2>3, LoopAnswers DEF RefuseScreenshot, registry
<1>4. CASE UNCHANGED <<commands, workers, answers, queue, reader, call>>
  <2>1. \A j : /\ InWorkers(j)' = InWorkers(j) /\ InReaders(j)' = InReaders(j)
               /\ InCalls(j)' = InCalls(j) /\ InLines(j)' = InLines(j)
    BY <1>4 DEF InWorkers, InReaders, InCalls, InLines
  <2>2. AllDistinct' /\ \A j \in Calls : Where(j)' \subseteq Where(j)
    BY <1>4, <2>1 DEF Once, AllDistinct, Where
  <2> QED
    BY <2>2, NothingMoves, StepsOn, OnceKept
<1>5. CASE Next /\ ~ RestoreNetwork
  <2>1. AllDistinct' /\ Moved
    BY <1>1, <1>2, <1>3, <1>5, ReadOnce, PutOnce, StartWorkerOnce, WorkerOnce, SendOnce,
       TakeOnce, QuietCalls DEF Next
  <2> QED
    BY <2>1, StepsOn, OnceKept
<1>6. RestoreNetwork \/ UNCHANGED vars => UNCHANGED <<commands, workers, answers, queue, reader, call>>
  BY DEF RestoreNetwork, vars, world, registry
<1> QED
  BY <1>4, <1>5, <1>6

\* A call that has an answer has the client's answer to a command of its own
\* name, and no answer serves two calls, for any number of calls that share
\* the queues of any number of connections (the queues of client["responses"]
\* and the reader that may put an answer into the next connection's).
THEOREM AnswersAreTheirOwn == Spec => []AnswersAreOwn
<1>1. Inv /\ Once => AnswersServeOnce
  <2> SUFFICES ASSUME Inv, Once, NEW j \in Calls, NEW k \in Calls, j # k,
                      call[j].outcome = "ok", call[k].outcome = "ok",
                      call[j].answer = call[k].answer
               PROVE  FALSE
    BY DEF AnswersServeOnce
  <2>1. call[k].answer \in Answers
    BY DEF Inv, Channel, CallsAreAnswered, Answered, Earned
  <2>2. PICK m \in Calls : IsOf(call[k].answer, m)
    BY <2>1, FrameIsOf
  <2>3. <<"call", j>> \in Where(m) /\ <<"call", k>> \in Where(m)
    BY <2>2 DEF Where, InCalls
  <2> QED
    BY <2>3 DEF Once, InOnePlace
<1>2. Inv /\ Once /\ [Next]_vars => Once'
  BY OnceNext DEF Inv
<1>3. AnswersAreEarned /\ AnswersServeOnce => AnswersAreOwn
  BY DEF AnswersAreOwn
<1> QED
  BY <1>1, <1>2, <1>3, OnceInit, Invariant, AnswersOfTheClient, PTL DEF Spec
=============================================================================
