----------------------- MODULE TelemetrySync_proofs -----------------------
(***************************************************************************)
(* Proofs about TelemetrySync, for any windows, sessions and attempts:     *)
(* TypeOK, StoredOnce, and that the model implements TelemetryDelivery.    *)
(*                                                                         *)
(* The argument: a window that is anywhere on its way (a frame, a worker   *)
(* in its loop, the window of a file that was read) is kept by the client  *)
(* or stored by the server, and every trace of an ACK (a frame, a result,  *)
(* a worker that marks it, completed.json) means that it is stored.        *)
(***************************************************************************)
EXTENDS TelemetrySync, TLAPS

-----------------------------------------------------------------------------
(* The types. *)

LEMMA Update ==
  ASSUME NEW A, NEW V, NEW f \in [A -> V], NEW a, NEW x \in V
  PROVE  [f EXCEPT ![a] = x] \in [A -> V]
  OBVIOUS

LEMMA UpdateAt ==
  ASSUME NEW A, NEW B, NEW V, NEW f \in [A -> [B -> V]], NEW a, NEW b, NEW x \in V
  PROVE  [f EXCEPT ![a][b] = x] \in [A -> [B -> V]]
  OBVIOUS

LEMMA Queue ==
  ASSUME NEW V, NEW q \in Seq(V), q # << >>
  PROVE  Head(q) \in V /\ Tail(q) \in Seq(V)
  OBVIOUS

LEMMA Queues ==
  ASSUME NEW V
  PROVE  << >> \in Seq(V) /\ \A q \in Seq(V), x \in V : Append(q, x) \in Seq(V)
  OBVIOUS

Steps == {"none", "send", "wait", "sleep", "mark", "unlink", "done", "dead"}
Ends  == {"none", "register", "first", "reading", "closed"}

(* A worker sleeps only if an attempt is left.  A session is needed to have *)
(* a link or a window to enqueue.                                           *)
Sleepers ==
  \A s \in Sessions, w \in Windows : worker[s][w] = "sleep" => attempt[s][w] < MaxAttempts
Linked == link # "down" \/ toRetry # {} \/ enqueuing # NoWindow => session \in Sessions

Typed == TypeOK /\ Sleepers /\ Linked

LEMMA TypeInit == Init => Typed
  <1> SUFFICES ASSUME Init PROVE Typed
    OBVIOUS
  <1>1. uplink \in [Sessions -> Seq(Windows)] /\ downlink \in [Sessions -> Seq(Frames)]
    BY Queues DEF Init
  <1> QED BY <1>1, AttemptsAssumption, SessionsAssumption
          DEF Init, Typed, TypeOK, Sleepers, Linked, Sessions, Answers

LEMMA TypeSession ==
  ASSUME Typed, Connect \/ Registered \/ Disconnect \/ Crash
  PROVE  Typed'
  <1>1. /\ downlink \in [Sessions -> Seq(Frames)] /\ server \in [Sessions -> Ends]
        /\ worker \in [Sessions -> [Windows -> Steps]]
        /\ session \in 0 .. MaxSessions /\ MaxSessions \in Nat
    BY SessionsAssumption DEF Typed, TypeOK, Ends, Steps
  <1>2. CASE Connect
    <2>1. session' \in 0 .. MaxSessions /\ session' \in Sessions
      BY <1>1, <1>2 DEF Connect, Sessions
    <2>2. server' \in [Sessions -> Ends]
      BY <1>1, <1>2, Update DEF Connect, Ends
    <2> QED BY <1>2, <2>1, <2>2 DEF Connect, files, threads, Typed, TypeOK, Sleepers, Linked, Ends
  <1>3. CASE Registered
    <2>1. toRetry' \subseteq Windows /\ link' = "registered"
      BY <1>3 DEF Registered, ListPending, Typed, TypeOK
    <2> QED BY <1>3, <2>1 DEF Registered, files, threads, net, Typed, TypeOK, Sleepers, Linked
  <1>4. CASE Disconnect
    <2>1. downlink' \in [Sessions -> Seq(Frames)]
      BY <1>1, <1>4, Update, Queues DEF Disconnect
    <2> QED BY <1>4, <2>1 DEF Disconnect, files, threads, Typed, TypeOK, Sleepers, Linked
  <1>5. CASE Crash
    <2>1. worker' \in [Sessions -> [Windows -> Steps]]
      BY <1>1, <1>5 DEF Crash, Steps
    <2>2. downlink' \in [Sessions -> Seq(Frames)]
      BY <1>1, <1>5, Update, Queues DEF Crash
    <2>3. Sleepers'
      BY <1>5 DEF Crash, Sleepers
    <2> QED BY <1>5, <2>1, <2>2, <2>3 DEF Crash, files, Steps, Typed, TypeOK, Linked
  <1> QED BY <1>2, <1>3, <1>4, <1>5

LEMMA TypeStart ==
  ASSUME Typed, session \in Sessions, NEW w \in Windows, StartWorker(session, w),
         attempt' = attempt
  PROVE  worker' \in [Sessions -> [Windows -> Steps]] /\ Sleepers'
  <1>1. worker \in [Sessions -> [Windows -> Steps]]
    BY DEF Typed, TypeOK, Steps
  <1>2. (IF worker[session][w] = "none" THEN "send" ELSE worker[session][w]) \in Steps
    BY <1>1 DEF Steps
  <1>3. worker' \in [Sessions -> [Windows -> Steps]]
    BY <1>1, <1>2, UpdateAt DEF StartWorker
  <1> QED BY <1>1, <1>3 DEF StartWorker, Sleepers, Typed

LEMMA TypeEnqueue ==
  ASSUME Typed, NEW w \in Windows, CloseWindow(w) \/ Retry(w) \/ Enqueue
  PROVE  Typed'
  <1>1. CASE CloseWindow(w)
    <2>1. worker' \in [Sessions -> [Windows -> Steps]] /\ Sleepers'
      BY <1>1, TypeStart DEF CloseWindow, Typed, Linked
    <2> QED BY <1>1, <2>1 DEF CloseWindow, net, Steps, Typed, TypeOK, Linked
  <1>2. CASE Retry(w)
    BY <1>2 DEF Retry, files, threads, net, Typed, TypeOK, Sleepers, Linked
  <1>3. CASE Enqueue
    <2>1. enqueuing \in Windows
      BY <1>3 DEF Enqueue, Typed, TypeOK
    <2>2. worker' \in [Sessions -> [Windows -> Steps]] /\ Sleepers'
      BY <1>3, <2>1, TypeStart, WindowsAssumption DEF Enqueue, Typed, Linked
    <2> QED BY <1>3, <2>1, <2>2 DEF Enqueue, net, Steps, Typed, TypeOK, Linked
  <1> QED BY <1>1, <1>2, <1>3

LEMMA TypeGoes ==
  ASSUME Typed, NEW s \in Sessions, NEW w \in Windows, NEW x \in Steps,
         Goes(s, w, x), attempt' = attempt,
         x = "sleep" => attempt[s][w] < MaxAttempts
  PROVE  worker' \in [Sessions -> [Windows -> Steps]] /\ Sleepers'
  <1>1. worker \in [Sessions -> [Windows -> Steps]]
    BY DEF Typed, TypeOK, Steps
  <1>2. worker' \in [Sessions -> [Windows -> Steps]]
    BY <1>1, UpdateAt DEF Goes
  <1>3. ASSUME NEW t \in Sessions, NEW v \in Windows
        PROVE  worker'[t][v] = IF t = s /\ v = w THEN x ELSE worker[t][v]
    BY <1>1 DEF Goes
  <1> QED BY <1>2, <1>3 DEF Sleepers, Typed

LEMMA TypeGiveUp ==
  ASSUME Typed, NEW s \in Sessions, NEW w \in Windows, attempt' = attempt,
         GiveUpOrSleep(s, w)
  PROVE  worker' \in [Sessions -> [Windows -> Steps]] /\ Sleepers'
  <1>1. CASE MoreAttempts(s, w)
    BY <1>1, TypeGoes DEF GiveUpOrSleep, MoreAttempts, Steps
  <1>2. CASE ~ MoreAttempts(s, w)
    BY <1>2, TypeGoes DEF GiveUpOrSleep, Steps
  <1> QED BY <1>1, <1>2

LEMMA TypeWorker ==
  ASSUME Typed, NEW s \in Sessions, NEW w \in Windows, WorkerStep(s, w)
  PROVE  Typed'
  <1>1. CASE Send(s, w)
    <2>1. worker' \in [Sessions -> [Windows -> Steps]] /\ Sleepers'
      BY <1>1, TypeGoes DEF Send, Steps
    <2>2. answer' \in [Sessions -> [Windows -> Answers \cup {"none"}]]
      BY <1>1, UpdateAt DEF Send, Typed, TypeOK
    <2>3. uplink' \in [Sessions -> Seq(Windows)]
      <3>1. uplink \in [Sessions -> Seq(Windows)]
        BY DEF Typed, TypeOK
      <3>2. CASE link = "down"
        BY <1>1, <3>1, <3>2 DEF Send
      <3>3. CASE link # "down"
        <4>1. Append(uplink[session], w) \in Seq(Windows)
          BY <3>1, <3>3, Queues DEF Typed, Linked
        <4> QED BY <1>1, <3>1, <3>3, <4>1, Update DEF Send
      <3> QED BY <3>2, <3>3
    <2> QED BY <1>1, <2>1, <2>2, <2>3 DEF Send, files, Steps, Typed, TypeOK, Linked
  <1>2. CASE WakeUp(s, w)
    <2>1. worker' \in [Sessions -> [Windows -> Steps]] /\ Sleepers'
      BY <1>2, TypeGoes, TypeGiveUp DEF WakeUp, Steps
    <2> QED BY <1>2, <2>1 DEF WakeUp, files, net, Steps, Typed, TypeOK, Linked
  <1>3. CASE TimeOut(s, w)
    <2>1. worker' \in [Sessions -> [Windows -> Steps]] /\ Sleepers'
      BY <1>3, TypeGiveUp DEF TimeOut
    <2> QED BY <1>3, <2>1 DEF TimeOut, files, net, Steps, Typed, TypeOK, Linked
  <1>4. CASE NextAttempt(s, w)
    <2>1. attempt[s][w] \in 1 .. MaxAttempts /\ attempt[s][w] < MaxAttempts
      BY <1>4 DEF NextAttempt, At, Sleepers, Typed, TypeOK
    <2>2. attempt[s][w] + 1 \in 1 .. MaxAttempts
      BY <2>1, AttemptsAssumption
    <2>3. attempt' \in [Sessions -> [Windows -> 1 .. MaxAttempts]]
      BY <1>4, <2>2, UpdateAt DEF NextAttempt, Typed, TypeOK
    <2>4. worker' \in [Sessions -> [Windows -> Steps]]
      BY <1>4, UpdateAt DEF NextAttempt, Goes, Steps, Typed, TypeOK
    <2>5. Sleepers'
      BY <1>4, <2>3, <2>4 DEF NextAttempt, Goes, Sleepers, Typed, TypeOK
    <2> QED BY <1>4, <2>3, <2>4, <2>5
            DEF NextAttempt, files, net, Steps, Typed, TypeOK, Linked
  <1>5. CASE MarkCompleted(s, w)
    <2>1. worker' \in [Sessions -> [Windows -> Steps]] /\ Sleepers'
      BY <1>5, TypeGoes DEF MarkCompleted, Steps
    <2> QED BY <1>5, <2>1 DEF MarkCompleted, net, Steps, Typed, TypeOK, Linked
  <1>6. CASE Unlink(s, w)
    <2>1. worker' \in [Sessions -> [Windows -> Steps]] /\ Sleepers'
      BY <1>6, TypeGoes DEF Unlink, Steps
    <2> QED BY <1>6, <2>1 DEF Unlink, net, Steps, Typed, TypeOK, Linked
  <1> QED BY <1>1, <1>2, <1>3, <1>4, <1>5, <1>6 DEF WorkerStep

LEMMA TypeServer ==
  ASSUME Typed, NEW s \in Sessions, Handshake(s) \/ Server(s) \/ LoseFrames(s)
  PROVE  Typed'
  <1>1. /\ uplink \in [Sessions -> Seq(Windows)] /\ downlink \in [Sessions -> Seq(Frames)]
        /\ server \in [Sessions -> Ends]
    BY DEF Typed, TypeOK, Ends
  <1>2. uplink[s] # << >> => Head(uplink[s]) \in Windows /\ Tail(uplink[s]) \in Seq(Windows)
    BY <1>1, Queue
  <1>3. CASE Handshake(s)
    <2>1. server' \in [Sessions -> Ends]
      BY <1>1, <1>3, Update DEF Handshake, Accept, Reject, StartReader, Ends
    <2>2. uplink' \in [Sessions -> Seq(Windows)]
      BY <1>1, <1>2, <1>3, Update DEF Handshake, Accept, Reject, StartReader
    <2> QED BY <1>3, <2>1, <2>2
            DEF Handshake, Accept, Reject, StartReader, files, threads,
                Typed, TypeOK, Sleepers, Linked, Ends
  <1>4. CASE Server(s)
    <2>1. Receive(s) /\ uplink[s] # << >> /\ Head(uplink[s]) \in Windows
      BY <1>2, <1>4 DEF Server, Merge, Refuse, Receive
    <2>2. uplink' \in [Sessions -> Seq(Windows)]
      BY <1>1, <1>2, <2>1, Update DEF Receive
    <2>3. rows' \in [Windows -> Nat]
      <3>1. rows \in [Windows -> Nat]
        BY DEF Typed, TypeOK
      <3>2. \A w \in Windows : (IF Deduplicates(w) THEN rows[w] ELSE rows[w] + 1) \in Nat
        BY <3>1
      <3> QED BY <1>4, <2>1, <3>1, <3>2, Update DEF Server, Merge, Refuse
    <2>4. ASSUME NEW a \in Answers, Reply(Head(uplink[s]), a)
          PROVE  downlink' \in [Sessions -> Seq(Frames)]
      <3>1. [window |-> Head(uplink[s]), status |-> a] \in Frames
        BY <2>1 DEF Frames
      <3>2. CASE session > 0 /\ InRegistry(session) /\ link # "down"
        <4>1. session \in Sessions
          BY <3>2 DEF Typed, Linked
        <4>2. Append(downlink[session], [window |-> Head(uplink[s]), status |-> a]) \in Seq(Frames)
          BY <1>1, <3>1, <4>1, Queues
        <4> QED BY <1>1, <2>4, <3>2, <4>2, Update DEF Reply
      <3> QED BY <1>1, <2>4, <3>2 DEF Reply
    <2>5. downlink' \in [Sessions -> Seq(Frames)]
      BY <1>4, <2>4 DEF Server, Merge, Refuse, Answers
    <2> QED BY <2>1, <2>2, <2>3, <2>5
            DEF Receive, files, threads, Typed, TypeOK, Sleepers, Linked
  <1>5. CASE LoseFrames(s)
    <2>1. uplink' \in [Sessions -> Seq(Windows)]
      BY <1>1, <1>5, Update, Queues DEF LoseFrames
    <2> QED BY <1>5, <2>1 DEF LoseFrames, files, threads, Typed, TypeOK, Sleepers, Linked
  <1> QED BY <1>3, <1>4, <1>5

LEMMA TypeHandleAck == Typed /\ HandleAck => Typed'
  <1> SUFFICES ASSUME Typed, HandleAck PROVE Typed'
    OBVIOUS
  <1> DEFINE f == Head(downlink[session])
  <1>1. session \in Sessions /\ downlink \in [Sessions -> Seq(Frames)]
    BY DEF HandleAck, Typed, TypeOK, Linked
  <1>2. f \in Frames /\ Tail(downlink[session]) \in Seq(Frames)
    BY <1>1, Queue DEF HandleAck
  <1>3. downlink' \in [Sessions -> Seq(Frames)]
    BY <1>1, <1>2, Update DEF HandleAck
  <1>4. f.window \in Windows /\ f.status \in Answers
    BY <1>2 DEF Frames
  <1>5. /\ event \in [Sessions -> [Windows -> BOOLEAN]]
        /\ answer \in [Sessions -> [Windows -> Answers \cup {"none"}]]
        /\ acked \in [Sessions -> [Windows -> BOOLEAN]]
    BY DEF Typed, TypeOK
  <1>6. CASE worker[session][f.window] \in Active
    <2>1. event' \in [Sessions -> [Windows -> BOOLEAN]]
      <3>1. event' = [event EXCEPT ![session][f.window] = TRUE]
        BY <1>6 DEF HandleAck
      <3> HIDE DEF f
      <3> QED BY <1>5, <3>1, UpdateAt
    <2>2. answer' \in [Sessions -> [Windows -> Answers \cup {"none"}]]
      <3>1. answer' = [answer EXCEPT ![session][f.window] = f.status]
        BY <1>6 DEF HandleAck
      <3>2. f.status \in Answers \cup {"none"}
        BY <1>4
      <3> HIDE DEF f
      <3> QED BY <1>5, <3>1, <3>2, UpdateAt
    <2>3. acked' \in [Sessions -> [Windows -> BOOLEAN]]
      <3> DEFINE b == acked[session][f.window] \/ f.status = "ack"
      <3>1. b \in BOOLEAN
        OBVIOUS
      <3>2. acked' = [acked EXCEPT ![session][f.window] = b]
        BY <1>6 DEF HandleAck
      <3> HIDE DEF b
      <3> QED BY <1>5, <3>1, <3>2, UpdateAt
    <2> QED BY <1>3, <2>1, <2>2, <2>3 DEF HandleAck, files, Typed, TypeOK, Sleepers, Linked
  <1>7. CASE worker[session][f.window] \notin Active
    BY <1>3, <1>7 DEF HandleAck, files, Typed, TypeOK, Sleepers, Linked
  <1> QED BY <1>6, <1>7

LEMMA TypeStep == Typed /\ [Next]_vars => Typed'
  <1> SUFFICES ASSUME Typed, [Next]_vars PROVE Typed'
    OBVIOUS
  <1>1. CASE Next
    <2>1. CASE Enqueue
      <3>1. enqueuing \in Windows
        BY <2>1 DEF Enqueue, Typed, TypeOK
      <3> QED BY <2>1, <3>1, TypeEnqueue
    <2> QED BY <1>1, <2>1, TypeSession, TypeEnqueue, TypeWorker, TypeServer, TypeHandleAck
            DEF Next, Session, RetryPending
  <1>2. CASE UNCHANGED vars
    BY <1>2 DEF vars, files, threads, net, Typed, TypeOK, Sleepers, Linked
  <1> QED BY <1>1, <1>2

(* The variables stay in their domains, whatever the number of sessions and *)
(* attempts; a worker does not start one attempt too many.                  *)
THEOREM TypeCorrect == Spec => []TypeOK
  <1>1. Typed => TypeOK
    BY DEF Typed
  <1> QED BY TypeInit, TypeStep, <1>1, PTL DEF Spec

-----------------------------------------------------------------------------
(* The safety invariant. *)

Safe       == pending \cup Stored
TrueFrames == {f \in Frames : f.status = "ack" => f.window \in Stored}

FramesKept  == \A s \in Sessions : uplink[s] \in Seq(Safe)
AnswersTrue == \A s \in Sessions : downlink[s] \in Seq(TrueFrames)
WorkersKept == \A s \in Sessions, w \in Windows : worker[s][w] \in Active => w \in Safe
AcksTrue    == \A s \in Sessions, w \in Windows :
                 answer[s][w] = "ack" \/ worker[s][w] \in {"mark", "unlink"} => w \in Stored
FilesTrue   == completed \subseteq Stored
EnqueueKept == enqueuing # NoWindow => enqueuing \in Safe

Inv == /\ Typed /\ StoredOnce
       /\ FramesKept /\ AnswersTrue /\ WorkersKept /\ AcksTrue
       /\ FilesTrue /\ EnqueueKept

(* Which steps touch what. *)
LEMMA Touched ==
  ASSUME [Next]_vars
  PROVE  /\ \/ pending' = pending
            \/ \E w \in Windows : CloseWindow(w)
            \/ Enqueue
            \/ \E s \in Sessions, w \in Windows : Unlink(s, w)
         /\ rows' = rows \/ \E s \in Sessions : Merge(s)
         /\ \/ uplink' = uplink
            \/ \E s \in Sessions : StartReader(s) \/ Receive(s) \/ LoseFrames(s)
            \/ \E s \in Sessions, w \in Windows : Send(s, w)
         /\ \/ downlink' = downlink
            \/ Disconnect \/ Crash \/ HandleAck
            \/ \E s \in Sessions : Server(s)
         /\ \/ worker' = worker
            \/ Crash \/ Enqueue
            \/ \E w \in Windows : CloseWindow(w)
            \/ \E s \in Sessions, w \in Windows : WorkerStep(s, w)
         /\ \/ answer' = answer
            \/ HandleAck
            \/ \E s \in Sessions, w \in Windows : Send(s, w)
         /\ \/ completed' = completed
            \/ \E s \in Sessions, w \in Windows : MarkCompleted(s, w)
         /\ \/ enqueuing' = enqueuing \/ enqueuing' = NoWindow
            \/ \E w \in Windows : Retry(w)
  <1> USE DEF files, threads, net
  <1>1. CASE Connect \/ Registered \/ Disconnect \/ Crash
    BY <1>1 DEF Connect, Registered, Disconnect, Crash
  <1>2. CASE RetryPending \/ Enqueue \/ \E w \in Windows : CloseWindow(w)
    BY <1>2 DEF RetryPending, Retry, Enqueue, CloseWindow
  <1>3. CASE HandleAck
    BY <1>3 DEF HandleAck
  <1>4. ASSUME NEW s \in Sessions, NEW w \in Windows, WorkerStep(s, w)
        PROVE  /\ pending' = pending \/ Unlink(s, w)
               /\ rows' = rows /\ downlink' = downlink /\ enqueuing' = enqueuing
               /\ uplink' = uplink \/ Send(s, w)
               /\ answer' = answer \/ Send(s, w)
               /\ completed' = completed \/ MarkCompleted(s, w)
    BY <1>4 DEF WorkerStep, Send, WakeUp, TimeOut, NextAttempt, MarkCompleted, Unlink
  <1>5. ASSUME NEW s \in Sessions, Handshake(s) \/ Server(s) \/ LoseFrames(s)
        PROVE  /\ UNCHANGED <<pending, completed, worker, answer, enqueuing>>
               /\ rows' = rows \/ Merge(s)
               /\ uplink' = uplink \/ StartReader(s) \/ Receive(s) \/ LoseFrames(s)
               /\ downlink' = downlink \/ Server(s)
    BY <1>5 DEF Handshake, Accept, Reject, StartReader, Server, Merge, Refuse, Receive,
                LoseFrames
  <1>6. CASE UNCHANGED vars
    BY <1>6 DEF vars
  <1>7. CASE \E s \in Sessions, w \in Windows : WorkerStep(s, w)
    BY <1>4, <1>7
  <1>8. CASE \E s \in Sessions : Handshake(s) \/ Server(s) \/ LoseFrames(s)
    BY <1>5, <1>8
  <1> QED BY <1>1, <1>2, <1>3, <1>6, <1>7, <1>8 DEF Next, Session

LEMMA Widen ==
  ASSUME NEW S, NEW T, S \subseteq T, NEW q \in Seq(S)
  PROVE  q \in Seq(T)
  OBVIOUS

LEMMA SafeInit == Init => Inv
  <1> SUFFICES ASSUME Init PROVE Inv
    OBVIOUS
  <1>1. FramesKept /\ AnswersTrue
    BY Queues DEF Init, FramesKept, AnswersTrue
  <1>2. Stored = {}
    BY DEF Init, Stored
  <1> QED BY <1>1, <1>2, TypeInit
          DEF Init, Inv, StoredOnce, WorkersKept, AcksTrue, FilesTrue, EnqueueKept, Active

(* What a merge does to the rows. *)
LEMMA Merged ==
  ASSUME Inv, NEW s \in Sessions, Merge(s)
  PROVE  /\ Head(uplink[s]) \in Windows \cap Safe
         /\ Stored' = Stored \cup {Head(uplink[s])}
         /\ StoredOnce'
  <1> DEFINE w == Head(uplink[s])
  <1>1. uplink[s] \in Seq(Windows) /\ uplink[s] \in Seq(Safe) /\ uplink[s] # << >>
    BY DEF Inv, Typed, TypeOK, FramesKept, Merge, Receive
  <1>2. w \in Windows /\ w \in Safe
    BY <1>1, Queue
  <1>3. rows \in [Windows -> Nat]
    BY DEF Inv, Typed, TypeOK
  <1>4. rows' = [rows EXCEPT ![w] = IF rows[w] > 0 THEN rows[w] ELSE rows[w] + 1]
    BY DEF Merge, Deduplicates
  <1> HIDE DEF w
  <1>5. \A v \in Windows : rows'[v] = IF v # w \/ rows[v] > 0 THEN rows[v] ELSE rows[v] + 1
    BY <1>2, <1>3, <1>4
  <1>6. Stored' = Stored \cup {w}
    BY <1>2, <1>3, <1>5 DEF Stored
  <1>7. StoredOnce'
    BY <1>3, <1>5 DEF StoredOnce, Inv
  <1> QED BY <1>2, <1>6, <1>7 DEF w

(* A window that is kept or stored remains so. *)
LEMMA Grows ==
  ASSUME Inv, [Next]_vars
  PROVE  Stored \subseteq Stored' /\ Safe \subseteq Safe' /\ StoredOnce'
  <1>1. Stored \subseteq Stored' /\ StoredOnce'
    <2>1. CASE rows' = rows
      BY <2>1 DEF Stored, StoredOnce, Inv
    <2> QED BY <2>1, Touched, Merged
  <1>2. pending \subseteq pending' \cup Stored
    <2>1. ASSUME NEW s \in Sessions, NEW w \in Windows, Unlink(s, w)
          PROVE  pending \subseteq pending' \cup Stored
      BY <2>1 DEF Unlink, At, AcksTrue, Inv
    <2> QED BY <2>1, Touched DEF CloseWindow, Enqueue
  <1> QED BY <1>1, <1>2 DEF Safe

LEMMA CloseKeeps == ASSUME NEW w \in Windows, CloseWindow(w) PROVE w \in Safe'
  BY DEF CloseWindow, Safe

LEMMA FramesStep == ASSUME Inv, [Next]_vars PROVE FramesKept'
  <1> SUFFICES ASSUME NEW t \in Sessions PROVE uplink'[t] \in Seq(Safe')
    BY DEF FramesKept
  <1>1. uplink[t] \in Seq(Safe')
    BY Grows, Widen DEF Inv, FramesKept
  <1>2. uplink \in [Sessions -> Seq(Windows)]
    BY DEF Inv, Typed, TypeOK
  <1>3. ASSUME NEW s \in Sessions, StartReader(s) \/ Receive(s) \/ LoseFrames(s)
        PROVE  uplink'[t] \in Seq(Safe')
    <2>1. uplink'[t] = uplink[t] \/ uplink'[t] = << >>
          \/ (uplink[t] # << >> /\ uplink'[t] = Tail(uplink[t]))
      BY <1>2, <1>3 DEF StartReader, Receive, LoseFrames
    <2> QED BY <1>1, <2>1, Queue, Queues
  <1>4. ASSUME NEW s \in Sessions, NEW w \in Windows, Send(s, w)
        PROVE  uplink'[t] \in Seq(Safe')
    <2>1. w \in Safe'
      BY <1>4, Grows DEF Send, At, Active, Inv, WorkersKept
    <2>2. uplink'[t] = uplink[t] \/ uplink'[t] = Append(uplink[t], w)
      BY <1>2, <1>4 DEF Send
    <2> QED BY <1>1, <2>1, <2>2, Queues
  <1> QED BY <1>1, <1>3, <1>4, Touched

LEMMA AnswersStep == ASSUME Inv, [Next]_vars PROVE AnswersTrue'
  <1> SUFFICES ASSUME NEW t \in Sessions PROVE downlink'[t] \in Seq(TrueFrames')
    BY DEF AnswersTrue
  <1>1. TrueFrames \subseteq TrueFrames'
    BY Grows DEF TrueFrames
  <1>2. downlink[t] \in Seq(TrueFrames')
    BY <1>1, Widen DEF Inv, AnswersTrue
  <1>3. downlink \in [Sessions -> Seq(Frames)]
    BY DEF Inv, Typed, TypeOK
  <1>4. CASE Disconnect \/ Crash \/ HandleAck
    <2>1. downlink'[t] = downlink[t] \/ downlink'[t] = << >>
          \/ (downlink[t] # << >> /\ downlink'[t] = Tail(downlink[t]))
      BY <1>3, <1>4 DEF Disconnect, Crash, HandleAck
    <2> QED BY <1>2, <2>1, Queue, Queues
  <1>5. ASSUME NEW s \in Sessions, NEW w \in Windows, NEW a \in Answers, Reply(w, a),
               a = "ack" => w \in Stored'
        PROVE  downlink'[t] \in Seq(TrueFrames')
    <2> DEFINE f == [window |-> w, status |-> a]
    <2>1. f \in TrueFrames'
      BY <1>5 DEF TrueFrames, Frames
    <2>2. downlink'[t] = downlink[t] \/ downlink'[t] = Append(downlink[t], f)
      BY <1>3, <1>5 DEF Reply
    <2> QED BY <1>2, <2>1, <2>2, Queues
  <1>6. ASSUME NEW s \in Sessions, Server(s)
        PROVE  downlink'[t] \in Seq(TrueFrames')
    <2>1. uplink[s] \in Seq(Windows) /\ uplink[s] # << >>
      BY <1>6 DEF Inv, Typed, TypeOK, Server, Merge, Refuse, Receive
    <2>2. Head(uplink[s]) \in Windows
      BY <2>1, Queue
    <2>3. CASE Merge(s)
      BY <2>2, <2>3, <1>5, Merged DEF Merge, Answers
    <2>4. CASE Refuse(s)
      BY <2>2, <2>4, <1>5 DEF Refuse, Answers
    <2> QED BY <1>6, <2>3, <2>4 DEF Server
  <1> QED BY <1>2, <1>4, <1>6, Touched

LEMMA WorkersStep == ASSUME Inv, [Next]_vars PROVE WorkersKept'
  <1> SUFFICES ASSUME NEW t \in Sessions, NEW v \in Windows, worker'[t][v] \in Active
               PROVE  v \in Safe'
    BY DEF WorkersKept, Active
  <1>1. worker \in [Sessions -> [Windows -> Steps]]
    BY DEF Inv, Typed, TypeOK, Steps
  <1>2. worker[t][v] \in Active => v \in Safe'
    BY Grows DEF Inv, WorkersKept
  <1>3. CASE Crash
    BY <1>1, <1>2, <1>3 DEF Crash, Active
  <1>4. CASE Enqueue
    <2>1. enqueuing \in Safe'
      BY <1>4, Grows DEF Enqueue, Inv, EnqueueKept
    <2>2. v = enqueuing \/ worker'[t][v] = worker[t][v]
      BY <1>1, <1>4 DEF Enqueue, StartWorker
    <2> QED BY <1>2, <2>1, <2>2
  <1>5. ASSUME NEW w \in Windows, CloseWindow(w) PROVE v \in Safe'
    <2>1. v = w \/ worker'[t][v] = worker[t][v]
      BY <1>1, <1>5 DEF CloseWindow, StartWorker
    <2> QED BY <1>2, <1>5, <2>1, CloseKeeps
  <1>6. ASSUME NEW s \in Sessions, NEW w \in Windows, WorkerStep(s, w) PROVE v \in Safe'
    <2>1. worker'[t][v] = worker[t][v] \/ worker[t][v] \in Active
          \/ worker'[t][v] \in {"unlink", "done"}
      BY <1>1, <1>6 DEF WorkerStep, Send, WakeUp, TimeOut, NextAttempt, MarkCompleted,
                        Unlink, At, Goes, GiveUpOrSleep, Active
    <2> QED BY <1>2, <2>1 DEF Active
  <1> QED BY <1>2, <1>3, <1>4, <1>5, <1>6, Touched

LEMMA AcksStep == ASSUME Inv, [Next]_vars PROVE AcksTrue'
  <1> USE DEF AcksTrue
  <1>1. worker \in [Sessions -> [Windows -> Steps]]
        /\ answer \in [Sessions -> [Windows -> Answers \cup {"none"}]]
    BY DEF Inv, Typed, TypeOK, Steps
  <1>2. ASSUME NEW t \in Sessions, NEW v \in Windows, answer'[t][v] = "ack"
        PROVE  v \in Stored'
    <2>1. answer[t][v] = "ack" => v \in Stored'
      BY Grows DEF Inv
    <2>2. ASSUME NEW s \in Sessions, NEW w \in Windows, Send(s, w) PROVE v \in Stored'
      <3>1. answer'[t][v] \in {answer[t][v], "none"}
        BY <1>1, <2>2 DEF Send
      <3> QED BY <1>2, <2>1, <3>1
    <2>3. CASE HandleAck
      <3> DEFINE f == Head(downlink[session])
      <3>1. session \in Sessions /\ downlink[session] # << >>
        BY <2>3 DEF HandleAck, Inv, Typed, Linked
      <3>2. f \in TrueFrames
        BY <3>1, Queue DEF Inv, AnswersTrue
      <3>3. answer'[t][v] = answer[t][v] \/ (v = f.window /\ answer'[t][v] = f.status)
        BY <1>1, <2>3 DEF HandleAck
      <3> QED BY <1>2, <2>1, <3>2, <3>3, Grows DEF TrueFrames
    <2> QED BY <1>2, <2>1, <2>2, <2>3, Touched
  <1>3. ASSUME NEW t \in Sessions, NEW v \in Windows, worker'[t][v] \in {"mark", "unlink"}
        PROVE  v \in Stored'
    <2>1. worker[t][v] \in {"mark", "unlink"} => v \in Stored'
      BY Grows DEF Inv
    <2>2. CASE Crash
      BY <1>1, <1>3, <2>2 DEF Crash
    <2>3. CASE Enqueue \/ \E w \in Windows : CloseWindow(w)
      <3>1. \E w : StartWorker(session, w)
        BY <2>3 DEF Enqueue, CloseWindow
      <3>2. worker'[t][v] \in {worker[t][v], "send"}
        BY <1>1, <3>1 DEF StartWorker
      <3> QED BY <1>3, <2>1, <3>2
    <2>4. ASSUME NEW s \in Sessions, NEW w \in Windows, WorkerStep(s, w)
          PROVE  v \in Stored'
      <3>1. \/ worker'[t][v] = worker[t][v]
            \/ worker[t][v] = "mark"
            \/ answer[t][v] = "ack"
            \/ worker'[t][v] \in {"wait", "sleep", "send", "done"}
        <4>1. CASE WakeUp(s, w)
          BY <1>1, <4>1 DEF WakeUp, Goes, GiveUpOrSleep, Accepted
        <4>2. CASE MarkCompleted(s, w)
          BY <1>1, <4>2 DEF MarkCompleted, At, Goes
        <4>3. CASE Send(s, w) \/ TimeOut(s, w) \/ NextAttempt(s, w) \/ Unlink(s, w)
          BY <1>1, <4>3 DEF Send, TimeOut, NextAttempt, Unlink, Goes, GiveUpOrSleep
        <4> QED BY <2>4, <4>1, <4>2, <4>3 DEF WorkerStep
      <3>2. answer[t][v] = "ack" => v \in Stored'
        BY Grows DEF Inv
      <3> QED BY <1>3, <2>1, <3>1, <3>2
    <2> QED BY <1>3, <2>1, <2>2, <2>3, <2>4, Touched
  <1> QED BY <1>2, <1>3

LEMMA FilesStep == ASSUME Inv, [Next]_vars PROVE FilesTrue' /\ EnqueueKept'
  <1>1. FilesTrue'
    <2>1. ASSUME NEW s \in Sessions, NEW w \in Windows, MarkCompleted(s, w)
          PROVE  completed' \subseteq Stored'
      BY <2>1, Grows DEF MarkCompleted, At, Inv, AcksTrue, FilesTrue
    <2> QED BY <2>1, Touched, Grows DEF Inv, FilesTrue
  <1>2. EnqueueKept'
    <2>1. ASSUME NEW w \in Windows, Retry(w) PROVE EnqueueKept'
      BY <2>1, Grows DEF Retry, EnqueueKept, Safe
    <2> QED BY <2>1, Touched, Grows DEF Inv, EnqueueKept
  <1> QED BY <1>1, <1>2

LEMMA SafeStep == Inv /\ [Next]_vars => Inv'
  BY TypeStep, Grows, FramesStep, AnswersStep, WorkersStep, AcksStep, FilesStep DEF Inv

LEMMA Invariant == Spec => []Inv
  BY SafeInit, SafeStep, PTL DEF Spec

(* However many managers, connections and attempts there are, and whatever  *)
(* is lost, late or refused, the server has at most one row of a window.    *)
THEOREM RowsAreUnique == Spec => []StoredOnce
  <1>1. Inv => StoredOnce
    BY DEF Inv
  <1> QED BY Invariant, <1>1, PTL

-----------------------------------------------------------------------------
(* The refinement. *)

LEMMA Refines ==
  ASSUME Inv, [Next]_vars
  PROVE  Delivery!Next \/ UNCHANGED <<pending, Stored>>
  <1> USE DEF Delivery!Next, Delivery!Close, Delivery!Store, Delivery!Release, Delivery!Rewrite
  <1>1. CASE pending' = pending
    <2>1. CASE rows' = rows
      BY <1>1, <2>1 DEF Stored
    <2>2. ASSUME NEW s \in Sessions, Merge(s)
          PROVE  Delivery!Next \/ UNCHANGED <<pending, Stored>>
      BY <1>1, <2>2, Merged DEF Safe
    <2> QED BY <2>1, <2>2, Touched
  <1>2. ASSUME NEW w \in Windows, CloseWindow(w) PROVE Delivery!Close(w)
    BY <1>2 DEF CloseWindow, Stored
  <1>3. CASE Enqueue
    <2>1. enqueuing \in Safe /\ pending' = pending \cup {enqueuing} /\ Stored' = Stored
      BY <1>3 DEF Enqueue, Inv, EnqueueKept, Stored
    <2>2. enqueuing \in Windows
      BY <1>3 DEF Enqueue, Inv, Typed, TypeOK
    <2> QED BY <2>1, <2>2 DEF Safe
  <1>4. ASSUME NEW s \in Sessions, NEW w \in Windows, Unlink(s, w)
        PROVE  Delivery!Next \/ UNCHANGED <<pending, Stored>>
    <2>1. w \in Stored /\ pending' = pending \ {w} /\ Stored' = Stored
      BY <1>4 DEF Unlink, At, Inv, AcksTrue, Stored
    <2> QED BY <2>1
  <1> QED BY <1>1, <1>2, <1>3, <1>4, Touched

(* The model implements its promise, for any windows, sessions and          *)
(* attempts: the client keeps a closed window until the server has it.      *)
THEOREM DeliveryIsImplemented == Spec => ImplementsDelivery
  <1>1. Init => Delivery!Init
    BY DEF Init, Delivery!Init, Stored
  <1>2. Inv /\ [Next]_vars => [Delivery!Next]_<<pending, Stored>>
    BY Refines
  <1> QED BY Invariant, <1>1, <1>2, PTL DEF Spec, ImplementsDelivery, Delivery!Spec
=============================================================================
