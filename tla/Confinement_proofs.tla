------------------------- MODULE Confinement_proofs -------------------------
(***************************************************************************)
(* Proofs about the two ways an endpoint is cut off: Quarantine, for every *)
(* bound on the calls and both inbound policies, and, as D,                *)
(* DeviceIsolation, for any programs, sessions, threads and restorations.  *)
(* The two share nothing: each theorem is of the behaviours of one of      *)
(* them, those of DeviceIsolation under its assumption on its constants.   *)
(*                                                                         *)
(* In Quarantine, Holding says what is true in the middle of a call; the   *)
(* four safety properties are proved with it, each strengthened to say     *)
(* what is true while the lock is held.  In DeviceIsolation, Calm says     *)
(* what is true while nothing has failed and no two operations have met:   *)
(* at most one operation is under way, it changes the adapter of its       *)
(* record, and every record saved is of original settings.                 *)
(***************************************************************************)
EXTENDS Quarantine, TLAPS

CONSTANTS Programs, Adapters, Threshold, Span,
          MaxTime, MaxSessions, MaxLaunches, MaxThreads, MaxRestores, MaxFaults
VARIABLES now, faults, session, monitoring, launches, running, scanned, violations,
          adapter, record, status, isolation, restoring, restores, calm

D == INSTANCE DeviceIsolation

\* A call in progress: who holds the lock, what the state is, and what has been
\* done to the firewall.
Holding ==
  /\ step = "idle" <=> Free
  /\ step \in QuarantineSteps => holder = "command" /\ calls \in Timers
  /\ step \in QuarantineSteps \ {"arm"} => state = "QUARANTINE_PENDING"
  /\ step \in {"loopback", "block", "arm"} => "server" \in rules
  /\ step = "arm" => state = "QUARANTINED" /\ outbound = "BLOCK"
  /\ step \in ReleaseSteps => state = "RESTORE_PENDING"
  /\ step = "delete" => outbound = "ALLOW" /\ saved = "none"
  /\ state = "NORMAL" => step = "idle" /\ saved = "none"

Excused == marks \cap {"release_failed", "block_failed", "restarted"} # {}

\* A quarantine keeps the timer of the one before until it has replaced it.
StaysArmed ==
  (/\ step \notin {"arm"} \cup ReleaseSteps
   /\ outbound = "BLOCK" \/ state = "QUARANTINED"
   /\ ~Excused) => Armed

\* A release leaves the rules alone until the policy is open.
StaysManaged ==
  (/\ step \in {"idle", "restore"}
   /\ outbound = "BLOCK"
   /\ marks \cap {"quarantine_failed", "restarted"} = {}) => "server" \in rules

\* The saved policy is the original one when it is needed.
StaysSaved ==
  marks \cap {"released_twice", "overwritten"} = {} =>
    /\ saved \in {"none", Original}
    /\ state = "NORMAL" \/ step \in {"clean", "server", "loopback", "block", "delete"}
         => inbound = Original
    /\ step = "restore" => saved = Original

Typed == TypeOK /\ Holding
Inv == Typed /\ StaysArmed /\ NormalIsOpen /\ StaysManaged /\ StaysSaved

-----------------------------------------------------------------------------
\* Stopping timers, or finishing the one that releases, keeps their type.
LEMMA TimersKept ==
  ASSUME TypeOK
  PROVE  /\ Told \in [Timers -> {"none", "waiting", "expired", "releasing", "done"}]
         /\ Finished \in [Timers -> {"none", "waiting", "expired", "releasing", "done"}]
  BY DEF TypeOK, Told, Finished

LEMMA InitInv == Init => Inv
<1> SUFFICES ASSUME Init PROVE Inv
  OBVIOUS
<1>1. timers \in [Timers -> {"none", "waiting", "expired", "releasing", "done"}]
  BY DEF Init
<1>2. TypeOK
  <2>1. /\ state \in States /\ saved \in Actions \cup {"none"} /\ stop \in BOOLEAN
        /\ holder \in {"nobody", "command", "timer"}
        /\ step \in {"idle"} \cup QuarantineSteps \cup ReleaseSteps
    BY DEF Init, States
  <2>2. rules \subseteq Rules /\ inbound \in Actions /\ outbound \in Actions
    BY OriginalAssumption DEF Init, Actions
  <2>3. calls \in 0..MaxCalls /\ marks \subseteq Marks
    BY MaxCallsAssumption DEF Init
  <2> QED
    BY <1>1, <2>1, <2>2, <2>3 DEF TypeOK
<1>3. Holding
  BY DEF Init, Holding, Free, QuarantineSteps, ReleaseSteps
<1>4. StaysArmed /\ NormalIsOpen /\ StaysManaged /\ StaysSaved
  BY DEF Init, StaysArmed, NormalIsOpen, StaysManaged, StaysSaved
<1> QED
  BY <1>2, <1>3, <1>4 DEF Inv, Typed

\* Every step keeps the types and what is true in the middle of a call.
LEMMA TypedNext == Typed /\ [Next]_vars => Typed'
<1> SUFFICES ASSUME Typed, [Next]_vars PROVE Typed'
  OBVIOUS
<1> USE OriginalAssumption, MaxCallsAssumption, TimersKept
    DEF Typed, TypeOK, Holding, Free, States, QuarantineSteps, ReleaseSteps, Marks,
        Actions, Rules, firewall
<1>1. CASE Quarantine
  BY <1>1 DEF Quarantine, Timers
<1>2. CASE Release
  BY <1>2 DEF Release, StartRelease
<1>3. CASE Restart
  <2>1. timers' \in [Timers -> {"none", "waiting", "expired", "releasing", "done"}]
    BY <1>3 DEF Restart
  <2>2. TypeOK'
    <3>1. calls' \in 0..MaxCalls
      BY <1>3 DEF Restart
    <3>2. /\ state' \in States /\ saved' \in Actions \cup {"none"} /\ stop' \in BOOLEAN
          /\ holder' = "nobody" /\ step' = "idle"
          /\ rules' = rules /\ inbound' = inbound /\ outbound' = outbound
      BY <1>3 DEF Restart, Unlock
    <3>3. marks' \subseteq Marks
      BY <1>3 DEF Restart
    <3> QED
      BY <2>1, <3>1, <3>2, <3>3
  <2>3. Holding'
    BY <1>3 DEF Restart, Unlock
  <2> QED
    BY <2>2, <2>3
<1>4. CASE Clean
  BY <1>4 DEF Clean, QuarantineFails, Unlock
<1>5. CASE AddRule("server", "loopback")
  BY <1>5 DEF AddRule, QuarantineFails, Unlock
<1>6. CASE AddRule("loopback", "block")
  BY <1>6 DEF AddRule, QuarantineFails, Unlock
<1>7. CASE Block
  BY <1>7 DEF Block, QuarantineFails, Unlock, Captured
<1>8. CASE Arm
  BY <1>8 DEF Arm, Unlock, StopWhenArmed, Lasting
<1>9. CASE Restore
  BY <1>9 DEF Restore, ReleaseFails, Unlock, Restored
<1>10. CASE Delete
  BY <1>10 DEF Delete, Released, ReleaseFails, Unlock, Lasting
<1>11. ASSUME NEW t \in Timers, Expire(t) PROVE Typed'
  BY <1>11 DEF Expire
<1>12. ASSUME NEW t \in Timers, FailSafe(t) PROVE Typed'
  BY <1>12 DEF FailSafe, StartRelease
<1>13. CASE UNCHANGED vars
  BY <1>13 DEF vars, manager
<1> QED
  BY <1>1, <1>2, <1>3, <1>4, <1>5, <1>6, <1>7, <1>8, <1>9, <1>10, <1>11, <1>12, <1>13
  DEF Next, Call

-----------------------------------------------------------------------------
\* A timer that waits or has expired is left alone by all but releases, the end
\* of the process and the timer's successor.
LEMMA ArmedNext == Typed /\ StaysArmed /\ [Next]_vars => StaysArmed'
<1> SUFFICES ASSUME Typed, StaysArmed, [Next]_vars PROVE StaysArmed'
  OBVIOUS
<1> USE DEF Typed, TypeOK, Holding, StaysArmed, Excused, Armed, Free, QuarantineSteps,
            ReleaseSteps, firewall
<1>1. CASE Quarantine
  BY <1>1 DEF Quarantine
<1>2. CASE Release
  BY <1>2 DEF Release, StartRelease
<1>3. CASE Restart
  BY <1>3 DEF Restart
<1>4. CASE Clean
  BY <1>4 DEF Clean, QuarantineFails, Unlock
<1>5. CASE AddRule("server", "loopback")
  BY <1>5 DEF AddRule, QuarantineFails, Unlock
<1>6. CASE AddRule("loopback", "block")
  BY <1>6 DEF AddRule, QuarantineFails, Unlock
<1>7. CASE Block
  BY <1>7 DEF Block, QuarantineFails, Unlock
<1>8. CASE Arm
  BY <1>8 DEF Arm, StopWhenArmed, Told
<1>9. CASE Restore
  BY <1>9 DEF Restore, ReleaseFails
<1>10. CASE Delete
  BY <1>10 DEF Delete, Released, ReleaseFails
<1>11. ASSUME NEW t \in Timers, Expire(t) PROVE StaysArmed'
  BY <1>11 DEF Expire
<1>12. ASSUME NEW t \in Timers, FailSafe(t) PROVE StaysArmed'
  BY <1>12 DEF FailSafe, StartRelease
<1>13. CASE UNCHANGED vars
  BY <1>13 DEF vars, manager
<1> QED
  BY <1>1, <1>2, <1>3, <1>4, <1>5, <1>6, <1>7, <1>8, <1>9, <1>10, <1>11, <1>12, <1>13
  DEF Next, Call

\* What the firewall is like: open when NORMAL, with the rule of the server while
\* blocked, and the original inbound policy where nothing overwrote it.
LEMMA FirewallNext ==
  Typed /\ NormalIsOpen /\ StaysManaged /\ StaysSaved /\ [Next]_vars
    => (NormalIsOpen /\ StaysManaged /\ StaysSaved)'
<1> SUFFICES ASSUME Typed, NormalIsOpen, StaysManaged, StaysSaved, [Next]_vars
             PROVE  (NormalIsOpen /\ StaysManaged /\ StaysSaved)'
  OBVIOUS
<1> USE OriginalAssumption
    DEF Typed, TypeOK, Holding, NormalIsOpen, StaysManaged, StaysSaved, Free,
        QuarantineSteps, ReleaseSteps, Actions, Rules, firewall
<1>1. CASE Quarantine
  BY <1>1 DEF Quarantine
<1>2. CASE Release
  BY <1>2 DEF Release, StartRelease
<1>3. CASE Restart
  BY <1>3 DEF Restart, Unlock
<1>4. CASE Clean
  BY <1>4 DEF Clean, QuarantineFails, Unlock
<1>5. CASE AddRule("server", "loopback")
  BY <1>5 DEF AddRule, QuarantineFails, Unlock
<1>6. CASE AddRule("loopback", "block")
  BY <1>6 DEF AddRule, QuarantineFails, Unlock
<1>7. CASE Block
  BY <1>7 DEF Block, QuarantineFails, Unlock, Captured
<1>8. CASE Arm
  BY <1>8 DEF Arm, Unlock, Lasting
<1>9. CASE Restore
  BY <1>9 DEF Restore, ReleaseFails, Unlock, Restored
<1>10. CASE Delete
  BY <1>10 DEF Delete, Released, ReleaseFails, Unlock, Lasting
<1>11. ASSUME NEW t \in Timers, Expire(t)
       PROVE  (NormalIsOpen /\ StaysManaged /\ StaysSaved)'
  BY <1>11 DEF Expire
<1>12. ASSUME NEW t \in Timers, FailSafe(t)
       PROVE  (NormalIsOpen /\ StaysManaged /\ StaysSaved)'
  BY <1>12 DEF FailSafe, StartRelease
<1>13. CASE UNCHANGED vars
  BY <1>13 DEF vars, manager
<1> QED
  BY <1>1, <1>2, <1>3, <1>4, <1>5, <1>6, <1>7, <1>8, <1>9, <1>10, <1>11, <1>12, <1>13
  DEF Next, Call

\* Inv holds in every state of every behaviour.
LEMMA Invariant == Spec => []Inv
<1>1. Inv /\ [Next]_vars => Inv'
  BY TypedNext, ArmedNext, FirewallNext DEF Inv
<1> QED
  BY InitInv, <1>1, PTL DEF Spec

-----------------------------------------------------------------------------
\* Every variable keeps its type, for every bound on the calls.
THEOREM TypeCorrect == Spec => []TypeOK
<1>1. Inv => TypeOK
  BY DEF Inv, Typed
<1> QED
  BY Invariant, <1>1, PTL

\* A blocked endpoint has a timer that will release it, whatever sequence of
\* commands, expiries and failing netsh commands led to it (_start_fail_safe_timer
\* is reached on every path that leaves a new block behind).
THEOREM QuarantineIsArmed == Spec => []BlockedIsArmed
<1>1. Inv => BlockedIsArmed
  BY DEF Inv, Typed, Holding, StaysArmed, BlockedIsArmed, Excused, ReleaseSteps
<1> QED
  BY Invariant, <1>1, PTL

\* A release that reports NORMAL has opened the firewall and left no rule behind.
THEOREM ReleaseIsComplete == Spec => []NormalIsOpen
<1>1. Inv => NormalIsOpen
  BY DEF Inv
<1> QED
  BY Invariant, <1>1, PTL

\* The server's allow rule outlives the block, through releases that fail.
THEOREM ServerStaysReachable == Spec => []ManagementPreserved
<1>1. Inv => ManagementPreserved
  BY DEF Inv, Typed, Holding, StaysManaged, ManagementPreserved
<1> QED
  BY Invariant, <1>1, PTL

\* The inbound policy captured by the only quarantine is the one that returns.
THEOREM PolicyIsRestored == Spec => []InboundRestored
<1>1. Inv => InboundRestored
  BY DEF Inv, StaysSaved, InboundRestored
<1> QED
  BY Invariant, <1>1, PTL

-----------------------------------------------------------------------------
(***************************************************************************)
(* DeviceIsolation.                                                        *)
(***************************************************************************)

(* What DeviceIsolation assumes of its bounds.                              *)
LEMMA IsolationSizes ==
  ASSUME D!SizesAssumption
  PROVE  /\ Threshold \in Nat \ {0} /\ Span \in Nat \ {0}
         /\ {MaxTime, MaxSessions, MaxLaunches, MaxThreads, MaxRestores, MaxFaults} \subseteq Nat
BY DEF D!SizesAssumption

Steps == {"none", "begun", "captured", "saved", "marked", "running", "applied", "failed", "done"}

\* At most one operation is under way.
OneAtATime ==
  /\ \A t, u \in D!InProgress : t = u
  /\ restoring # D!NoRecord => D!InProgress = {}

\* What a thread knows of the adapter of its record.
Knows(t) ==
  LET r == isolation[t].of IN
  /\ ~ D!At(t, "failed")
  /\ isolation[t].pc \in {"captured", "saved", "marked"}
       => r.settings = "original" /\ adapter[r.adapter] = "original"
  /\ isolation[t].pc \in {"saved", "marked", "running", "applied"} => record = r
  /\ D!At(t, "applied") => adapter[r.adapter] = "isolated"

\* Settings are partial while a script of that adapter runs, and only then.
PartialIsRunning ==
  \A a \in Adapters : adapter[a] = "partial" =>
    \E t \in D!Threads : D!At(t, "running") /\ isolation[t].of.adapter = a

\* The records are of original settings, and there is one when an adapter is altered.
RecordIsOriginal ==
  /\ record # D!NoRecord => record.settings = "original"
  /\ D!Altered # {} => record # D!NoRecord
  /\ restoring # D!NoRecord => restoring = record

\* What the status says is so.
StatusIsTrue ==
  /\ status = "ISOLATING" => \E t \in D!Threads : isolation[t].pc \in {"marked", "running", "applied"}
  /\ status = "ISOLATED" => D!Altered # {}
  /\ status = "RESTORING" => restoring # D!NoRecord

Calm ==
  /\ OneAtATime
  /\ \A t \in D!Threads : Knows(t)
  /\ PartialIsRunning /\ RecordIsOriginal /\ StatusIsTrue

IInv == D!TypeOK /\ (calm => Calm)

-----------------------------------------------------------------------------
\* Moving a thread on keeps the type of the threads.
LEMMA BecomesTyped ==
  ASSUME D!TypeOK, NEW t \in D!Threads, NEW pc \in Steps, NEW r \in D!Records \cup {D!NoRecord},
         D!Becomes(t, pc, r), r = D!NoRecord => pc \in {"none", "begun", "done"}
  PROVE  /\ isolation' \in [D!Threads -> [pc : Steps, of : D!Records \cup {D!NoRecord}]]
         /\ \A u \in D!InProgress' : isolation'[u].of = D!NoRecord => D!At(u, "begun")'
  BY DEF D!TypeOK, D!Becomes, Steps, D!InProgress, D!At

\* The conjuncts of TypeOK that speak of the threads.
ThreadsTyped ==
  /\ isolation \in [D!Threads -> [pc : Steps, of : D!Records \cup {D!NoRecord}]]
  /\ \A t \in D!InProgress : isolation[t].of = D!NoRecord => D!At(t, "begun")

\* The other conjuncts.
RestTyped ==
  /\ now \in 0..MaxTime /\ faults \in 0..MaxFaults /\ calm \in BOOLEAN
  /\ session \in 0..MaxSessions /\ monitoring \in BOOLEAN
  /\ launches \in [Programs -> 0..MaxLaunches]
  /\ running \subseteq Programs /\ scanned \subseteq Programs
  /\ violations \subseteq D!Violations
  /\ adapter \in [Adapters -> D!Settings]
  /\ record \in D!Records \cup {D!NoRecord} /\ status \in D!States
  /\ restoring \in D!Records \cup {D!NoRecord} /\ restores \in 0..MaxRestores

LEMMA TypeParts == D!TypeOK <=> ThreadsTyped /\ RestTyped
  BY DEF D!TypeOK, ThreadsTyped, RestTyped, Steps

LEMMA BoundsAreNat ==
  ASSUME D!SizesAssumption
  PROVE  /\ MaxTime \in Nat /\ MaxSessions \in Nat /\ MaxLaunches \in Nat
    /\ MaxThreads \in Nat /\ MaxRestores \in Nat /\ MaxFaults \in Nat
  BY IsolationSizes

LEMMA IsolationInit ==
  ASSUME D!SizesAssumption
  PROVE  D!Init => IInv
<1> SUFFICES ASSUME D!Init PROVE IInv
  OBVIOUS
<1>1. ThreadsTyped
  BY DEF D!Init, ThreadsTyped, D!NotBegun, D!InProgress, D!At, Steps
<1>2. RestTyped
  <2>1. launches \in [Programs -> 0..MaxLaunches]
    BY BoundsAreNat DEF D!Init
  <2>2. adapter \in [Adapters -> D!Settings]
    BY DEF D!Init, D!Settings
  <2>3. calm \in BOOLEAN /\ monitoring \in BOOLEAN
    BY DEF D!Init
  <2>4. now \in 0..MaxTime /\ faults \in 0..MaxFaults /\ session \in 0..MaxSessions /\ restores \in 0..MaxRestores
    BY BoundsAreNat DEF D!Init
  <2>5. /\ running \subseteq Programs /\ scanned \subseteq Programs /\ violations \subseteq D!Violations
        /\ record \in D!Records \cup {D!NoRecord} /\ status \in D!States /\ restoring \in D!Records \cup {D!NoRecord}
    BY DEF D!Init, D!States
  <2> QED
    BY <2>1, <2>2, <2>3, <2>4, <2>5 DEF RestTyped
<1>3. Calm
  BY DEF D!Init, Calm, OneAtATime, Knows, PartialIsRunning, RecordIsOriginal, StatusIsTrue,
         D!NotBegun, D!InProgress, D!At, D!Altered, D!NoRecord
<1> QED
  BY <1>1, <1>2, <1>3, TypeParts DEF IInv

-----------------------------------------------------------------------------
\* A step with or without a fault keeps the types of what counts faults.
LEMMA FaultsTyped ==
  ASSUME D!SizesAssumption,
         RestTyped, D!Fault \/ D!NoFault
  PROVE  faults' \in 0..MaxFaults /\ calm' \in BOOLEAN
<1>1. faults' \in 0..MaxFaults
  BY BoundsAreNat DEF RestTyped, D!Fault, D!NoFault
<1>2. calm' \in BOOLEAN
  <2>1. CASE D!Fault
    BY <2>1 DEF D!Fault
  <2>2. CASE D!NoFault
    BY <2>2 DEF D!NoFault, RestTyped
  <2> QED
    BY <2>1, <2>2
<1> QED
  BY <1>1, <1>2

\* Every step keeps the types.
LEMMA IsolationTypedNext ==
  ASSUME D!SizesAssumption
  PROVE  D!TypeOK /\ [D!Next]_(D!vars) => D!TypeOK'
<1> SUFFICES ASSUME D!TypeOK, [D!Next]_(D!vars) PROVE ThreadsTyped' /\ RestTyped'
  BY TypeParts, PTL
<1>0. ThreadsTyped /\ RestTyped
  BY TypeParts
<1> USE <1>0, BoundsAreNat
<1>1. CASE D!StartSession
  <2>1. ThreadsTyped'
    BY <1>1 DEF D!StartSession, D!device, ThreadsTyped, D!InProgress, D!At
  <2> QED
    BY <1>1, <2>1 DEF D!StartSession, D!device, D!files, RestTyped
<1>2. CASE D!EndSession
  <2>1. ThreadsTyped'
    BY <1>2 DEF D!EndSession, D!device, ThreadsTyped, D!InProgress, D!At
  <2> QED
    BY <1>2, <2>1 DEF D!EndSession, D!device, D!files, RestTyped
<1>3. CASE D!Tick
  <2>1. ThreadsTyped'
    BY <1>3 DEF D!Tick, D!device, ThreadsTyped, D!InProgress, D!At
  <2> QED
    BY <1>3, <2>1 DEF D!Tick, D!device, D!files, RestTyped
<1>4. CASE D!Command
  <2>1. PICK t \in D!Threads : D!Begin(t)
    BY <1>4 DEF D!Command
  <2>2. ThreadsTyped'
    BY <2>1, BecomesTyped DEF D!Begin, ThreadsTyped, Steps
  <2>3. calm' \in BOOLEAN
    BY <2>1 DEF D!Begin, RestTyped
  <2> QED
    BY <1>4, <2>2, <2>3 DEF D!Command, D!monitor, D!files, RestTyped
<1>5. ASSUME NEW p \in Programs, D!Launch(p) PROVE ThreadsTyped' /\ RestTyped'
  <2>1. ThreadsTyped'
    BY <1>5 DEF D!Launch, D!device, ThreadsTyped, D!InProgress, D!At
  <2> QED
    BY <1>5, <2>1 DEF D!Launch, D!device, D!files, RestTyped
<1>6. ASSUME NEW p \in Programs, D!Detect(p) PROVE ThreadsTyped' /\ RestTyped'
  <2>1. ThreadsTyped' /\ calm' \in BOOLEAN
    <3>1. CASE UNCHANGED <<isolation, calm>>
      BY <3>1 DEF ThreadsTyped, RestTyped, D!InProgress, D!At
    <3>2. CASE \E t \in D!Threads : D!Begin(t)
      <4>1. PICK t \in D!Threads : D!Begin(t)
        BY <3>2
      <4>2. ThreadsTyped'
        BY <4>1, BecomesTyped DEF D!Begin, ThreadsTyped, Steps
      <4> QED
        BY <4>1, <4>2 DEF D!Begin, RestTyped
    <3> QED
      BY <1>6, <3>1, <3>2 DEF D!Detect, D!OnEscalation
  <2>2. [program |-> p, at |-> now] \in D!Violations
    BY DEF D!Violations, RestTyped
  <2> QED
    BY <1>6, <2>1, <2>2 DEF D!Detect, D!files, RestTyped
<1>7. ASSUME NEW t \in D!Threads, D!Isolate(t) PROVE ThreadsTyped' /\ RestTyped'
  <2>1. CASE D!Capture(t)
    <3>1. ThreadsTyped'
      <4>1. ASSUME NEW a \in Adapters, D!Becomes(t, "captured", [adapter |-> a, settings |-> adapter[a]])
            PROVE  ThreadsTyped'
        <5>1. [adapter |-> a, settings |-> adapter[a]] \in D!Records
          BY DEF RestTyped, D!Records
        <5>2. [adapter |-> a, settings |-> adapter[a]] # D!NoRecord
          BY DEF RestTyped, D!Settings, D!NoRecord
        <5> QED
          BY <4>1, <5>1, <5>2, BecomesTyped DEF ThreadsTyped, Steps
      <4>2. CASE D!Done(t)
        BY <4>2, BecomesTyped DEF D!Done, ThreadsTyped, Steps
      <4> QED
        BY <2>1, <4>1, <4>2 DEF D!Capture
    <3>4. faults' \in 0..MaxFaults /\ calm' \in BOOLEAN
      BY <2>1, FaultsTyped DEF D!Capture
    <3> QED
      BY <2>1, <3>1, <3>4 DEF D!Capture, D!monitor, D!files, RestTyped
  <2>2. CASE D!Save(t)
    <3>1. isolation[t].of \in D!Records
      BY <2>2 DEF D!Save, ThreadsTyped, D!InProgress, D!At
    <3>2. ThreadsTyped'
      <4>1. CASE D!GoesOn(t, "saved")
        BY <4>1, <3>1, BecomesTyped, <2>2
           DEF D!GoesOn, ThreadsTyped, Steps, D!Save, D!InProgress, D!At
      <4>2. CASE D!Done(t)
        BY <4>2, BecomesTyped DEF D!Done, ThreadsTyped, Steps
      <4> QED
        BY <2>2, <4>1, <4>2 DEF D!Save
    <3>4. faults' \in 0..MaxFaults /\ calm' \in BOOLEAN
      BY <2>2, FaultsTyped DEF D!Save
    <3> QED
      BY <2>2, <3>1, <3>2, <3>4
         DEF D!Save, D!monitor, D!files, RestTyped, D!States, D!NotRecorded
  <2>3. CASE D!MarkIsolating(t)
    <3>1. ThreadsTyped'
      <4>1. CASE D!GoesOn(t, "marked")
        BY <2>3, <4>1, BecomesTyped
           DEF D!MarkIsolating, D!GoesOn, ThreadsTyped, Steps, D!InProgress, D!At
      <4>2. CASE D!Done(t)
        BY <4>2, BecomesTyped DEF D!Done, ThreadsTyped, Steps
      <4> QED
        BY <2>3, <4>1, <4>2 DEF D!MarkIsolating
    <3>2. faults' \in 0..MaxFaults /\ calm' \in BOOLEAN
      BY <2>3, FaultsTyped DEF D!MarkIsolating
    <3> QED
      BY <2>3, <3>1, <3>2 DEF D!MarkIsolating, D!monitor, RestTyped, D!States, D!NotRecorded
  <2>4. CASE D!BeginScript(t)
    <3>1. ThreadsTyped'
      BY <2>4, BecomesTyped
         DEF D!BeginScript, D!GoesOn, ThreadsTyped, Steps, D!InProgress, D!At
    <3>2. adapter' \in [Adapters -> D!Settings]
      BY <2>4 DEF D!BeginScript, D!Weaker, RestTyped, D!Settings
    <3>4. faults' \in 0..MaxFaults /\ calm' \in BOOLEAN
      BY <2>4, FaultsTyped DEF D!BeginScript
    <3> QED
      BY <2>4, <3>1, <3>2, <3>4 DEF D!BeginScript, D!monitor, D!files, RestTyped
  <2>5. CASE D!EndScript(t)
    <3>1. ThreadsTyped'
      BY <2>5, BecomesTyped
         DEF D!EndScript, D!GoesOn, ThreadsTyped, Steps, D!InProgress, D!At
    <3>2. adapter' \in [Adapters -> D!Settings]
      BY <2>5 DEF D!EndScript, RestTyped, D!Settings
    <3>4. faults' \in 0..MaxFaults /\ calm' \in BOOLEAN
      BY <2>5, FaultsTyped DEF D!EndScript
    <3> QED
      BY <2>5, <3>1, <3>2, <3>4 DEF D!EndScript, D!monitor, D!files, RestTyped
  <2>6. CASE D!Conclude(t)
    <3>1. ThreadsTyped'
      BY <2>6, BecomesTyped DEF D!Conclude, D!Done, ThreadsTyped, Steps
    <3>2. faults' \in 0..MaxFaults /\ calm' \in BOOLEAN
      BY <2>6, FaultsTyped DEF D!Conclude
    <3>3. status' \in D!States
      BY <2>6 DEF D!Conclude, D!Outcome, D!NotRecorded, RestTyped, D!States
    <3> QED
      BY <2>6, <3>1, <3>2, <3>3 DEF D!Conclude, D!monitor, RestTyped
  <2> QED
    BY <1>7, <2>1, <2>2, <2>3, <2>4, <2>5, <2>6 DEF D!Isolate
<1>8. CASE D!BeginRestore
  <2>1. ThreadsTyped'
    BY <1>8 DEF D!BeginRestore, ThreadsTyped, D!InProgress, D!At
  <2>2. faults' \in 0..MaxFaults /\ calm' \in BOOLEAN
    <3>1. CASE D!Fault
      BY <3>1, FaultsTyped
    <3>2. CASE UNCHANGED faults /\ calm' = (calm /\ ~ D!Busy)
      BY <3>2 DEF RestTyped
    <3> QED
      BY <1>8, <3>1, <3>2 DEF D!BeginRestore
  <2>3. restoring' \in D!Records \cup {D!NoRecord} /\ status' \in D!States
    BY <1>8 DEF D!BeginRestore, D!NotRecorded, RestTyped, D!States
  <2>4. restores' \in 0..MaxRestores
    BY <1>8 DEF D!BeginRestore, RestTyped
  <2> QED
    BY <1>8, <2>1, <2>2, <2>3, <2>4 DEF D!BeginRestore, D!monitor, RestTyped
<1>9. CASE D!EndRestore
  <2>1. ThreadsTyped'
    BY <1>9 DEF D!EndRestore, ThreadsTyped, D!InProgress, D!At
  <2>2. restoring.settings \in D!Settings
    BY <1>9 DEF D!EndRestore, RestTyped, D!Records
  <2>3. adapter' \in [Adapters -> D!Settings]
    BY <1>9, <2>2 DEF D!EndRestore, RestTyped, D!Settings
  <2>4. faults' \in 0..MaxFaults /\ calm' \in BOOLEAN
    BY <1>9, FaultsTyped DEF D!EndRestore
  <2> QED
    BY <1>9, <2>1, <2>3, <2>4
       DEF D!EndRestore, D!monitor, RestTyped, D!States, D!NotRecorded
<1>10. CASE D!Crash
  <2>1. ThreadsTyped'
    <3>1. isolation' \in [D!Threads -> [pc : Steps, of : D!Records \cup {D!NoRecord}]]
      BY <1>10 DEF D!Crash, ThreadsTyped, Steps
    <3>2. D!InProgress' = {}
      BY <1>10 DEF D!Crash, ThreadsTyped, D!InProgress, D!At
    <3> QED
      BY <3>1, <3>2 DEF ThreadsTyped
  <2>2. faults' \in 0..MaxFaults /\ calm' \in BOOLEAN
    BY <1>10, FaultsTyped DEF D!Crash
  <2> QED
    BY <1>10, <2>1, <2>2 DEF D!Crash, D!files, RestTyped
<1>11. CASE UNCHANGED D!vars
  BY <1>11
     DEF D!vars, D!monitor, D!device, D!files, ThreadsTyped, RestTyped, D!InProgress, D!At
<1> QED
  BY <1>1, <1>2, <1>3, <1>4, <1>5, <1>6, <1>7, <1>8, <1>9, <1>10, <1>11 DEF D!Next

-----------------------------------------------------------------------------
\* A step that leaves the device alone leaves Calm.
LEMMA CalmUntouched ==
  ASSUME Calm, UNCHANGED D!device
  PROVE  Calm'
<1> USE DEF D!device, D!files
<1>1. OneAtATime'
  BY DEF Calm, OneAtATime, D!InProgress, D!At
<1>2. \A t \in D!Threads : Knows(t)'
  BY DEF Calm, Knows, D!At
<1>3. PartialIsRunning'
  BY DEF Calm, PartialIsRunning, D!At
<1>4. RecordIsOriginal' /\ StatusIsTrue'
  BY DEF Calm, RecordIsOriginal, StatusIsTrue, D!Altered
<1> QED
  BY <1>1, <1>2, <1>3, <1>4 DEF Calm

\* A thread that begins while nothing else is under way leaves Calm.
LEMMA CalmBegins ==
  ASSUME ThreadsTyped, Calm, NEW t \in D!Threads, D!Begin(t), calm',
         UNCHANGED <<adapter, D!files, restoring, restores>>
  PROVE  Calm'
<1> USE DEF D!files
<1>1. ~ D!Busy /\ isolation' = [isolation EXCEPT ![t] = [pc |-> "begun", of |-> D!NoRecord]]
  BY DEF D!Begin, D!Becomes
<1>2. OneAtATime'
  BY <1>1 DEF OneAtATime, D!InProgress, D!At, D!Busy, ThreadsTyped
<1>3. \A u \in D!Threads : Knows(u)'
  BY <1>1 DEF Calm, Knows, D!At, ThreadsTyped
<1>4. PartialIsRunning'
  BY <1>1 DEF Calm, PartialIsRunning, D!At, ThreadsTyped, D!Busy, D!InProgress
<1>5. RecordIsOriginal'
  BY <1>1 DEF Calm, RecordIsOriginal, D!Altered
<1>6. StatusIsTrue'
  BY <1>1 DEF Calm, StatusIsTrue, D!Altered, D!Busy, D!InProgress, D!At, ThreadsTyped
<1> QED
  BY <1>2, <1>3, <1>4, <1>5, <1>6 DEF Calm

\* Each step of an isolation that goes well leaves Calm.
LEMMA CalmIsolates ==
  ASSUME ThreadsTyped, RestTyped, Calm, NEW t \in D!Threads, D!Isolate(t), calm'
  PROVE  Calm'
<1> USE DEF ThreadsTyped, Calm, D!At, D!InProgress
<1>1. CASE D!Capture(t)
  <2>1. /\ restoring = D!NoRecord /\ restoring' = D!NoRecord
        /\ \A u \in D!Threads : u # t => isolation[u].pc \in {"none", "done"}
        /\ UNCHANGED <<adapter, record, status>>
    BY <1>1 DEF D!Capture, OneAtATime, D!files
  <2>2. CASE \E a \in Adapters :
               D!HasRoute(a) /\ D!Becomes(t, "captured", [adapter |-> a, settings |-> adapter[a]])
    <3>1. PICK a \in Adapters :
               D!HasRoute(a) /\ D!Becomes(t, "captured", [adapter |-> a, settings |-> adapter[a]])
      BY <2>2
    <3>2. adapter[a] = "original"
      BY <1>1, <2>1, <3>1 DEF D!HasRoute, PartialIsRunning, RestTyped, D!Settings, D!Capture
    <3>3. OneAtATime'
      BY <2>1, <3>1 DEF OneAtATime, D!Becomes
    <3>4. \A u \in D!Threads : Knows(u)'
      BY <2>1, <3>1, <3>2 DEF Knows, D!Becomes
    <3>5. PartialIsRunning'
      BY <1>1, <2>1, <3>1 DEF PartialIsRunning, D!Becomes, D!Capture
    <3>6. RecordIsOriginal' /\ StatusIsTrue'
      BY <1>1, <2>1, <3>1
         DEF RecordIsOriginal, StatusIsTrue, D!Altered, D!Becomes, D!Capture
    <3> QED
      BY <3>3, <3>4, <3>5, <3>6
  <2>3. CASE D!Done(t)
    <3>1. OneAtATime' /\ \A u \in D!Threads : Knows(u)'
      BY <2>1, <2>3 DEF OneAtATime, Knows, D!Done, D!Becomes
    <3>2. PartialIsRunning'
      BY <1>1, <2>1, <2>3 DEF PartialIsRunning, D!Done, D!Becomes, D!Capture
    <3>3. RecordIsOriginal' /\ StatusIsTrue'
      BY <1>1, <2>1, <2>3
         DEF RecordIsOriginal, StatusIsTrue, D!Altered, D!Done, D!Becomes, D!Capture
    <3> QED
      BY <3>1, <3>2, <3>3
  <2> QED
    BY <1>1, <2>2, <2>3 DEF D!Capture, D!Fault
<1>2. CASE D!Save(t)
  <2>1. /\ restoring = D!NoRecord /\ restoring' = D!NoRecord
        /\ \A u \in D!Threads : u # t => isolation[u].pc \in {"none", "done"}
        /\ record' = isolation[t].of /\ status' = "NORMAL" /\ adapter' = adapter
        /\ isolation' = [isolation EXCEPT ![t] = [pc |-> "saved", of |-> isolation[t].of]]
        /\ isolation[t].pc = "captured" /\ isolation[t].of # D!NoRecord
    BY <1>2 DEF D!Save, OneAtATime, D!files, D!Fault, D!GoesOn, D!Becomes
  <2>2. OneAtATime' /\ \A u \in D!Threads : Knows(u)'
    BY <2>1 DEF OneAtATime, Knows
  <2>3. PartialIsRunning'
    BY <2>1 DEF PartialIsRunning
  <2>4. RecordIsOriginal' /\ StatusIsTrue'
    BY <2>1 DEF RecordIsOriginal, StatusIsTrue, D!Altered, Knows
  <2> QED
    BY <2>2, <2>3, <2>4
<1>3. CASE D!MarkIsolating(t)
  <2>1. /\ restoring = D!NoRecord /\ restoring' = D!NoRecord
        /\ \A u \in D!Threads : u # t => isolation[u].pc \in {"none", "done"}
        /\ record' = record /\ status' = "ISOLATING" /\ adapter' = adapter
        /\ isolation' = [isolation EXCEPT ![t] = [pc |-> "marked", of |-> isolation[t].of]]
        /\ isolation[t].pc = "saved"
    BY <1>3 DEF D!MarkIsolating, OneAtATime, D!GoesOn, D!Becomes, D!Fault
  <2>2. OneAtATime' /\ \A u \in D!Threads : Knows(u)'
    BY <2>1 DEF OneAtATime, Knows
  <2>3. PartialIsRunning'
    BY <2>1 DEF PartialIsRunning
  <2>4. RecordIsOriginal' /\ StatusIsTrue'
    BY <2>1 DEF RecordIsOriginal, StatusIsTrue, D!Altered
  <2> QED
    BY <2>2, <2>3, <2>4
<1>4. CASE D!BeginScript(t)
  <2> DEFINE r == isolation[t].of
  <2>1. /\ restoring = D!NoRecord /\ restoring' = D!NoRecord
        /\ \A u \in D!Threads : u # t => isolation[u].pc \in {"none", "done"}
        /\ record' = record /\ status' = status
        /\ adapter' = [adapter EXCEPT ![r.adapter] = D!Weaker(@)]
        /\ isolation' = [isolation EXCEPT ![t] = [pc |-> "running", of |-> r]]
        /\ isolation[t].pc = "marked"
    BY <1>4 DEF D!BeginScript, OneAtATime, D!GoesOn, D!Becomes, D!Fault, D!files
  <2>2. r # D!NoRecord /\ r \in D!Records /\ r.adapter \in Adapters
    BY <2>1 DEF D!Records
  <2>3. OneAtATime' /\ \A u \in D!Threads : Knows(u)'
    BY <2>1 DEF OneAtATime, Knows
  <2>4. PartialIsRunning'
    BY <2>1 DEF PartialIsRunning
  <2>5. RecordIsOriginal'
    BY <2>1, <2>2 DEF RecordIsOriginal, Knows
  <2>6. StatusIsTrue'
    <3>1. r.adapter \in D!Altered'
      BY <2>1, <2>2 DEF D!Altered, RestTyped, D!Weaker
    <3> QED
      BY <2>1, <3>1 DEF StatusIsTrue
  <2> QED
    BY <2>3, <2>4, <2>5, <2>6
<1>5. CASE D!EndScript(t)
  <2> DEFINE r == isolation[t].of
  <2>1. /\ restoring = D!NoRecord /\ restoring' = D!NoRecord
        /\ \A u \in D!Threads : u # t => isolation[u].pc \in {"none", "done"}
        /\ record' = record /\ status' = status
        /\ adapter' = [adapter EXCEPT ![r.adapter] = "isolated"]
        /\ isolation' = [isolation EXCEPT ![t] = [pc |-> "applied", of |-> r]]
        /\ isolation[t].pc = "running"
    BY <1>5 DEF D!EndScript, OneAtATime, D!GoesOn, D!Becomes, D!Fault, D!files
  <2>2. r # D!NoRecord /\ r \in D!Records /\ r.adapter \in Adapters
    BY <2>1 DEF D!Records
  <2>3. OneAtATime' /\ \A u \in D!Threads : Knows(u)'
    BY <2>1, <2>2 DEF OneAtATime, Knows, RestTyped
  <2>4. PartialIsRunning'
    BY <2>1, <2>2 DEF PartialIsRunning, RestTyped
  <2>5. RecordIsOriginal'
    BY <2>1, <2>2 DEF RecordIsOriginal, Knows
  <2>6. StatusIsTrue'
    <3>1. r.adapter \in D!Altered'
      BY <2>1, <2>2 DEF D!Altered, RestTyped
    <3> QED
      BY <2>1, <3>1 DEF StatusIsTrue
  <2> QED
    BY <2>3, <2>4, <2>5, <2>6
<1>6. CASE D!Conclude(t)
  <2>1. /\ restoring = D!NoRecord /\ restoring' = D!NoRecord
        /\ \A u \in D!Threads : u # t => isolation[u].pc \in {"none", "done"}
        /\ record' = record /\ status' = "ISOLATED" /\ adapter' = adapter
        /\ isolation' = [isolation EXCEPT ![t] = [pc |-> "done", of |-> D!NoRecord]]
        /\ isolation[t].pc = "applied"
    BY <1>6 DEF D!Conclude, D!Outcome, OneAtATime, D!Done, D!Becomes, Knows, D!Fault
  <2>2. isolation[t].of \in D!Records /\ isolation[t].of.adapter \in Adapters
    BY <2>1 DEF D!Records
  <2>3. OneAtATime' /\ \A u \in D!Threads : Knows(u)'
    BY <2>1 DEF OneAtATime, Knows
  <2>4. PartialIsRunning'
    BY <2>1 DEF PartialIsRunning
  <2>5. RecordIsOriginal' /\ StatusIsTrue'
    BY <2>1, <2>2 DEF RecordIsOriginal, StatusIsTrue, D!Altered, Knows
  <2> QED
    BY <2>3, <2>4, <2>5
<1> QED
  BY <1>1, <1>2, <1>3, <1>4, <1>5, <1>6 DEF D!Isolate

\* A restoration that goes well leaves Calm.
LEMMA CalmRestores ==
  ASSUME ThreadsTyped, RestTyped, Calm, D!BeginRestore \/ D!EndRestore, calm'
  PROVE  Calm'
<1> USE DEF ThreadsTyped, Calm, D!At, D!InProgress
<1>1. CASE D!BeginRestore
  <2>1. /\ ~ D!Busy /\ restoring' = record /\ status' = "RESTORING" /\ record # D!NoRecord
        /\ UNCHANGED <<adapter, record, isolation>>
    BY <1>1 DEF D!BeginRestore, D!Fault
  <2>2. OneAtATime' /\ \A u \in D!Threads : Knows(u)'
    BY <2>1 DEF OneAtATime, Knows, D!Busy
  <2>3. PartialIsRunning' /\ RecordIsOriginal' /\ StatusIsTrue'
    BY <2>1 DEF PartialIsRunning, RecordIsOriginal, StatusIsTrue, D!Altered
  <2> QED
    BY <2>2, <2>3
<1>2. CASE D!EndRestore
  <2>1. /\ restoring # D!NoRecord /\ restoring' = D!NoRecord /\ restoring = record
        /\ adapter' = [adapter EXCEPT ![restoring.adapter] = restoring.settings]
        /\ status' = "RESTORED" /\ UNCHANGED <<record, isolation>>
        /\ restoring.settings = "original"
    BY <1>2 DEF D!EndRestore, RecordIsOriginal, D!Fault
  <2>2. \A u \in D!Threads : isolation[u].pc \in {"none", "done"}
    BY <2>1 DEF OneAtATime
  <2>3. OneAtATime' /\ \A u \in D!Threads : Knows(u)'
    BY <2>1, <2>2 DEF OneAtATime, Knows
  <2>4. PartialIsRunning'
    BY <2>1, <2>2 DEF PartialIsRunning, RestTyped
  <2>5. RecordIsOriginal' /\ StatusIsTrue'
    BY <2>1 DEF RecordIsOriginal, StatusIsTrue, D!Altered, RestTyped
  <2> QED
    BY <2>3, <2>4, <2>5
<1> QED
  BY <1>1, <1>2

\* IInv is inductive.
LEMMA InvNext ==
  ASSUME D!SizesAssumption
  PROVE  IInv /\ [D!Next]_(D!vars) => IInv'
<1> SUFFICES ASSUME IInv, [D!Next]_(D!vars), calm' PROVE Calm'
  BY IsolationTypedNext DEF IInv
<1>1. ThreadsTyped /\ RestTyped
  BY TypeParts DEF IInv
<1>2. calm /\ Calm
  <2>1. calm
    BY DEF D!Next, D!vars, D!StartSession, D!EndSession, D!Tick, D!Command, D!Launch,
       D!Detect, D!Isolate, D!Begin,
           D!OnEscalation, D!Capture, D!Save, D!MarkIsolating, D!BeginScript, D!EndScript, D!Conclude,
           D!BeginRestore, D!EndRestore, D!Crash, D!Fault, D!NoFault
  <2> QED
    BY <2>1 DEF IInv
<1>3. CASE D!StartSession \/ D!EndSession \/ D!Tick \/ \E p \in Programs : D!Launch(p)
  BY <1>2, <1>3, CalmUntouched DEF D!StartSession, D!EndSession, D!Tick, D!Launch
<1>4. CASE D!Command
  BY <1>1, <1>2, <1>4, CalmBegins DEF D!Command
<1>5. ASSUME NEW p \in Programs, D!Detect(p) PROVE Calm'
  <2>1. CASE UNCHANGED <<isolation, calm>>
    BY <1>2, <1>5, <2>1, CalmUntouched DEF D!Detect, D!device
  <2>2. CASE \E t \in D!Threads : D!Begin(t)
    BY <1>1, <1>2, <1>5, <2>2, CalmBegins DEF D!Detect
  <2> QED
    BY <1>5, <2>1, <2>2 DEF D!Detect, D!OnEscalation
<1>6. ASSUME NEW t \in D!Threads, D!Isolate(t) PROVE Calm'
  BY <1>1, <1>2, <1>6, CalmIsolates
<1>7. CASE D!BeginRestore \/ D!EndRestore
  BY <1>1, <1>2, <1>7, CalmRestores
<1>8. ~ D!Crash
  BY DEF D!Crash, D!Fault
<1>9. CASE UNCHANGED D!vars
  BY <1>2, <1>9, CalmUntouched DEF D!vars
<1> QED
  BY <1>3, <1>4, <1>5, <1>6, <1>7, <1>8, <1>9 DEF D!Next

LEMMA IsolationInvariant ==
  ASSUME D!SizesAssumption
  PROVE  D!Spec => []IInv
<1>1. D!Init => IInv
  BY IsolationInit
<1>2. IInv /\ [D!Next]_(D!vars) => IInv'
  BY InvNext
<1> QED
  BY <1>1, <1>2, PTL DEF D!Spec

-----------------------------------------------------------------------------
\* Every variable stays in its domain, and a thread that changes an adapter
\* holds the record of it.
THEOREM IsolationTypeCorrect ==
  ASSUME D!SizesAssumption
  PROVE  D!Spec => []D!TypeOK
<1>1. IInv => D!TypeOK
  BY DEF IInv
<1> QED
  BY <1>1, IsolationInvariant, PTL

\* A device with one adapter can be restored from its record: for any number
\* of programs, sessions, isolations and restorations, while nothing fails
\* and no two operations meet, an altered adapter has its original settings
\* in the record.
THEOREM OriginalIsRecoverable ==
  ASSUME D!SizesAssumption,
         \A a, b \in Adapters : a = b
  PROVE  D!Spec => []D!AlteredIsRecoverable
<1>1. IInv => D!AlteredIsRecoverable
  <2> SUFFICES ASSUME IInv, calm, NEW a \in D!Altered
               PROVE  record = [adapter |-> a, settings |-> "original"]
    BY DEF D!AlteredIsRecoverable
  <2>1. record # D!NoRecord /\ record.settings = "original"
    BY DEF IInv, Calm, RecordIsOriginal
  <2>2. record \in D!Records
    BY <2>1 DEF IInv, D!TypeOK
  <2>3. record.adapter = a
    BY <2>2 DEF D!Records, D!Altered
  <2> QED
    BY <2>1, <2>2, <2>3 DEF D!Records
<1> QED
  BY <1>1, IsolationInvariant, PTL

\* An escalation is skipped only on a device that is altered or on which an
\* operation is under way, for any number of adapters.
THEOREM SkipsAreJustified ==
  ASSUME D!SizesAssumption
  PROVE  D!Spec => []D!SkipIsJustified
<1>1. IInv => D!SkipIsJustified
  BY DEF IInv, Calm, StatusIsTrue, D!SkipIsJustified, D!Skipped, D!Busy, D!InProgress, D!At
<1> QED
  BY <1>1, IsolationInvariant, PTL
=============================================================================
