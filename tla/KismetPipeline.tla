--------------------------- MODULE KismetPipeline ---------------------------
(***************************************************************************)
(* The Kismet captures of the server: the daemon writes packets to one log *)
(* at a time, the interval processor turns the packets of a ten-minute     *)
(* interval into predictions and a manifest, the rotator closes a log and  *)
(* opens the next, and the cleanup and the retention script remove         *)
(* captures.  Commands run in processes of their own (the ten-minute       *)
(* cycle, an operator's shell) that share the files and nothing else.      *)
(*                                                                         *)
(* Time is counted in intervals.  "fresh" are the captures modified within *)
(* the last 120 seconds; the fifteen minutes of the retention script's     *)
(* grace imply that a capture is not fresh.  A packet stands for the       *)
(* observations of one window.  A predictions file is not modelled: what   *)
(* counts is the prediction database.                                      *)
(***************************************************************************)
EXTENDS Naturals, FiniteSets

CONSTANTS
    Workers,             \* the processes that run commands
    MaxTime,             \* bound: intervals
    MaxCaptures,         \* bound: logs Kismet opens
    PacketsPerInterval,  \* bound: packets heard in an interval
    MaxFaults            \* bound: failed requests, reads and models, crashes

ASSUME SizesAssumption ==
    /\ MaxTime \in Nat \ {0}
    /\ MaxCaptures \in Nat \ {0}
    /\ PacketsPerInterval \in Nat
    /\ MaxFaults \in Nat

Intervals == 1..MaxTime
Captures == 1..MaxCaptures
NoCapture == 0
Packets == [at : Intervals, n : 1..PacketsPerInterval]

Least(S) == CHOOSE x \in S : \A y \in S : x <= y

VARIABLES
    now,       \* the interval of the clock
    open,      \* the log Kismet writes, or NoCapture
    made,      \* how many logs were opened: captures are numbered in that order
    packets,   \* what each capture holds; kept for a removed one
    exists,    \* the capture files on disk
    sidecar,   \* captures with a journal beside them
    fresh,     \* captures modified less than 120 seconds ago
    manifest,  \* the manifest of each interval
    stored,    \* packets whose prediction is in the database
    job,       \* what each process is doing
    faults

disk == <<open, made, packets, exists, sidecar, fresh>>
results == <<manifest, stored>>
vars == <<now, disk, results, job, faults>>

NoManifest == [status |-> "NONE", safe |-> FALSE, failed |-> {},
               read |-> [c \in {} |-> {}]]
Status(i) == manifest[i].status

\* No command runs; the same fields serve every command.
Idle == [pc |-> "idle", cycle |-> FALSE, force |-> FALSE, active |-> FALSE,
         todo |-> {}, on |-> {}, failed |-> {}, read |-> [c \in {} |-> {}]]

Init ==
    /\ now = 1 /\ open = 1 /\ made = 1
    /\ packets = [c \in Captures |-> {}]
    /\ exists = {1} /\ sidecar = {1} /\ fresh = {1}
    /\ manifest = [i \in Intervals |-> NoManifest]
    /\ stored = {}
    /\ job = [w \in Workers |-> Idle]
    /\ faults = 0

Fault == faults < MaxFaults /\ faults' = faults + 1
NoFault == UNCHANGED faults
At(w, pc) == job[w].pc = pc
Becomes(w, j) == job' = [job EXCEPT ![w] = j]

-----------------------------------------------------------------------------
(* The Kismet daemon and the clock *)

Opened(c) ==
    /\ open' = c /\ made' = c
    /\ exists' = exists \cup {c}
    /\ sidecar' = sidecar \cup {c}
    /\ fresh' = fresh \cup {c}
    /\ UNCHANGED packets

Closed ==
    /\ open' = NoCapture
    /\ sidecar' = sidecar \ {open}
    /\ fresh' = fresh \cup {open}
    /\ UNCHANGED <<made, packets, exists>>

Packet(p) ==
    /\ open # NoCapture
    /\ p.at = now
    /\ \A c \in Captures : p \notin packets[c]
    /\ packets' = [packets EXCEPT ![open] = @ \cup {p}]
    /\ fresh' = fresh \cup {open}
    /\ UNCHANGED <<now, open, made, exists, sidecar, results, job, faults>>

\* 120 seconds without a write.
Settle(c) ==
    /\ c \in fresh
    /\ fresh' = fresh \ {c}
    /\ UNCHANGED <<now, open, made, packets, exists, sidecar, results, job, faults>>

Tick ==
    /\ now < MaxTime
    /\ now' = now + 1
    /\ UNCHANGED <<disk, results, job, faults>>

KismetStarts ==
    /\ open = NoCapture /\ made < MaxCaptures
    /\ Opened(made + 1)
    /\ UNCHANGED <<now, results, job, faults>>

\* The daemon dies with its log open: the journal stays.
KismetDies ==
    /\ open # NoCapture /\ Fault
    /\ open' = NoCapture
    /\ UNCHANGED <<now, made, packets, exists, sidecar, fresh, results, job>>

-----------------------------------------------------------------------------
(* What a process reads from the disk *)

In(c, i) == {p \in packets[c] : p.at = i}

Overlaps(c, i) == \E p, q \in packets[c] : p.at <= i /\ i <= q.at

FindCaptures(i) == {c \in exists : Overlaps(c, i)}

\* mutant
IsCaptureActive_ByTime(c) == c \in exists /\ c \in fresh

\* is_capture_active of the processor: no request to Kismet is made.
IsCaptureActive(c) == c \in exists /\ (c \in sidecar \/ c \in fresh)

\* is_file_active_in_kismet of the rotator: without an answer of Kismet the
\* journal and the time of the last write decide.
IsFileActive(c, answered) ==
    (answered /\ c = open) \/ c \in sidecar \/ c \in fresh

\* The closed intervals of the last "lookback" that have no completed manifest.
Unfinished(lookback, margin) ==
    {i \in Intervals : /\ i + margin < now
                       /\ now - i <= lookback
                       /\ Status(i) # "COMPLETED"}

-----------------------------------------------------------------------------
(* Commands: run-cycle, rotate-log, process-interval and retry-interval,    *)
(* process-completed, cleanup-captures --execute, and the retention script  *)

Begin(w, j) ==
    /\ At(w, "idle") /\ Becomes(w, j)
    /\ UNCHANGED <<now, disk, results, faults>>

RunCycle(w) == Begin(w, [Idle EXCEPT !.pc = "query", !.cycle = TRUE])
RotateLog(w) == Begin(w, [Idle EXCEPT !.pc = "query"])

\* An operator may name any interval that has begun, the current one too.
ProcessInterval(w) ==
    \E i \in 1..now, force \in BOOLEAN :
        Begin(w, [Idle EXCEPT !.pc = "choose", !.todo = {i}, !.force = force])

\* The margin of 120 seconds may exclude the interval that has just ended.
ProcessCompleted(w) ==
    \E margin \in {0, 1} :
        /\ Unfinished(MaxTime, margin) # {}
        /\ Begin(w, [Idle EXCEPT !.pc = "choose",
                                 !.todo = Unfinished(MaxTime, margin)])

CleanupCaptures(w) == Begin(w, [Idle EXCEPT !.pc = "index"])

\* The newest capture is the active target: the order of the last writes is
\* the order in which the logs were opened.
PruneExpired(w) ==
    LET older == {c \in exists : \E d \in exists : c < d}
    IN older # {} /\ Begin(w, [Idle EXCEPT !.pc = "prune", !.on = older])

\* The process is killed, or a request or a write raises and main() ends it.
Aborts(w) ==
    /\ ~At(w, "idle") /\ Fault
    /\ Becomes(w, Idle)
    /\ UNCHANGED <<now, disk, results>>

-----------------------------------------------------------------------------
(* Rotation *)

\* The cycle goes on whether the rotation succeeded or not; it looks back one
\* interval, without a margin.
RotationEnds(w) ==
    Becomes(w, IF job[w].cycle
               THEN [job[w] EXCEPT !.pc = "choose", !.on = {},
                                   !.todo = Unfinished(1, 0)]
               ELSE Idle)

QueryActive(w) ==
    /\ At(w, "query")
    /\ \/ /\ open # NoCapture /\ NoFault
          /\ Becomes(w, [job[w] EXCEPT !.pc = "stop", !.on = {open}])
       \/ /\ open = NoCapture /\ NoFault
          /\ RotationEnds(w)
       \/ Fault /\ RotationEnds(w)
    /\ UNCHANGED <<now, disk, results>>

StopLog(w) ==
    /\ At(w, "stop")
    /\ \/ /\ open \in job[w].on /\ NoFault
          /\ Closed
          /\ Becomes(w, [job[w] EXCEPT !.pc = "start", !.on = {}])
       \/ /\ open \notin job[w].on /\ NoFault
          /\ RotationEnds(w) /\ UNCHANGED disk
       \/ Fault /\ RotationEnds(w) /\ UNCHANGED disk
    /\ UNCHANGED <<now, results>>

\* Kismet refuses a second log, and here one past the bound.
StartLog(w) ==
    /\ At(w, "start")
    /\ \/ open = NoCapture /\ made < MaxCaptures /\ Opened(made + 1) /\ NoFault
       \/ /\ open # NoCapture \/ made = MaxCaptures
          /\ UNCHANGED disk /\ NoFault
       \/ Fault /\ UNCHANGED disk
    /\ RotationEnds(w)
    /\ UNCHANGED <<now, results>>

-----------------------------------------------------------------------------
(* Processing one interval *)

\* What follows the last interval: the cycle cleans up, unless its cleanup is
\* a dry run.
ProcessingEnds(w) ==
    \/ job[w].cycle /\ Becomes(w, [Idle EXCEPT !.pc = "index"])
    \/ Becomes(w, Idle)

Next1(w) == [job[w] EXCEPT !.pc = "choose", !.todo = @ \ {Least(@)}, !.on = {},
                           !.active = FALSE, !.failed = {}, !.read = [c \in {} |-> {}]]

\* A forced command has one interval, so "force" has no further use.
Found(w, S) == [job[w] EXCEPT !.pc = "extract", !.on = S, !.force = FALSE]

\* The oldest interval first.  A completed one is left as it is unless forced;
\* a capture that cannot be read is passed over.
Choose(w) ==
    /\ At(w, "choose")
    /\ \/ job[w].todo = {} /\ ProcessingEnds(w) /\ NoFault
       \/ /\ job[w].todo # {}
          /\ LET i == Least(job[w].todo) IN
             \/ /\ Status(i) = "COMPLETED" /\ ~job[w].force /\ NoFault
                /\ Becomes(w, Next1(w))
             \/ /\ Status(i) # "COMPLETED" \/ job[w].force
                /\ \/ NoFault /\ Becomes(w, Found(w, FindCaptures(i)))
                   \/ Fault /\ \E c \in FindCaptures(i) :
                         Becomes(w, Found(w, FindCaptures(i) \ {c}))
    /\ UNCHANGED <<now, disk, results>>

\* A capture that fails to open yields no observation, and no error.
Extract(w) ==
    /\ At(w, "extract")
    /\ LET j == job[w]
           i == Least(j.todo)
           Got(failed) ==
               [j EXCEPT !.pc = "predict",
                         !.active = \E c \in j.on : IsCaptureActive(c),
                         !.failed = failed,
                         !.read = [c \in j.on |-> IF c \in failed THEN {} ELSE In(c, i)]]
       IN \/ NoFault /\ Becomes(w, Got(j.on \ exists))
          \/ Fault /\ \E c \in j.on : Becomes(w, Got((j.on \ exists) \cup {c}))
    /\ UNCHANGED <<now, disk, results>>

Written(w, status, safe) ==
    manifest' = [manifest EXCEPT ![Least(job[w].todo)] =
        [status |-> status, safe |-> safe,
         failed |-> job[w].failed, read |-> job[w].read]]

ModelFails(w) ==
    /\ At(w, "predict") /\ Fault
    /\ Written(w, "FAILED", FALSE)
    /\ Becomes(w, Next1(w))
    /\ UNCHANGED <<now, disk, stored>>

\* mutant
Persist_Replaces(w) ==
    /\ At(w, "predict")
    /\ stored' = {p \in stored : p.at # Least(job[w].todo)}
                    \cup UNION {job[w].read[c] : c \in job[w].on}
    /\ Becomes(w, [job[w] EXCEPT !.pc = "manifest"])
    /\ UNCHANGED <<now, disk, manifest, faults>>

\* An upsert by window: what is stored stays.
Persist(w) ==
    /\ At(w, "predict")
    /\ stored' = stored \cup UNION {job[w].read[c] : c \in job[w].on}
    /\ Becomes(w, [job[w] EXCEPT !.pc = "manifest"])
    /\ UNCHANGED <<now, disk, manifest, faults>>

WriteManifest(w) ==
    /\ At(w, "manifest")
    /\ Written(w, "COMPLETED", ~job[w].active /\ job[w].on # {})
    /\ Becomes(w, Next1(w))
    /\ UNCHANGED <<now, disk, stored, faults>>

-----------------------------------------------------------------------------
(* Removing captures *)

Removed(c) ==
    /\ exists' = exists \ {c}
    /\ sidecar' = sidecar \ {c}
    /\ fresh' = fresh \ {c}
    /\ UNCHANGED <<open, made, packets>>

\* The intervals whose manifest names the capture.
Naming(c) == {i \in Intervals : c \in DOMAIN manifest[i].read}

\* The manifests are read once, before the first capture is looked at; the
\* flag "safe" is read and not used.
Verified(c) ==
    /\ Naming(c) # {}
    /\ \A i \in Naming(c) : Status(i) = "COMPLETED"

\* The command goes through the captures S, and ends with the last.
Removing(w, pc, S) ==
    Becomes(w, IF S = {} THEN Idle ELSE [Idle EXCEPT !.pc = pc, !.on = S])

Index(w) ==
    /\ At(w, "index")
    /\ Removing(w, "clean", {c \in exists : Verified(c)})
    /\ UNCHANGED <<now, disk, results, faults>>

Passed(w) == Removing(w, job[w].pc, job[w].on \ {Least(job[w].on)})

\* The age of the last packet, looked at next in the code, says no more than
\* the time of the last write.  A file that cannot be removed stays.
Clean(w) ==
    /\ At(w, "clean")
    /\ LET c == Least(job[w].on) IN
       \/ IsFileActive(c, TRUE) /\ UNCHANGED disk /\ NoFault
       \/ ~IsFileActive(c, TRUE) /\ Removed(c) /\ NoFault
       \/ ~IsFileActive(c, FALSE) /\ Removed(c) /\ Fault
       \/ Fault /\ UNCHANGED disk
    /\ Passed(w)
    /\ UNCHANGED <<now, results>>

\* mutant
Prune_NoSidecar(w) ==
    /\ At(w, "prune")
    /\ LET c == Least(job[w].on) IN
       \/ c \in exists /\ c \notin fresh /\ Removed(c)
       \/ UNCHANGED disk
    /\ Passed(w)
    /\ UNCHANGED <<now, results, faults>>

\* Whether a capture is past its retention or the disk is full is left open,
\* and so is a hold marker, which only keeps a capture.
Prune(w) ==
    /\ At(w, "prune")
    /\ LET c == Least(job[w].on) IN
       \/ c \in exists /\ c \notin fresh /\ c \notin sidecar /\ Removed(c)
       \/ UNCHANGED disk
    /\ Passed(w)
    /\ UNCHANGED <<now, results, faults>>

-----------------------------------------------------------------------------
Command(w) ==
    \/ RunCycle(w) \/ RotateLog(w) \/ ProcessInterval(w) \/ ProcessCompleted(w)
    \/ CleanupCaptures(w) \/ PruneExpired(w)

Step(w) ==
    \/ QueryActive(w) \/ StopLog(w) \/ StartLog(w)
    \/ Choose(w) \/ Extract(w) \/ ModelFails(w) \/ Persist(w) \/ WriteManifest(w)
    \/ Index(w) \/ Clean(w) \/ Prune(w) \/ Aborts(w)

Kismet ==
    \/ \E p \in Packets : Packet(p)
    \/ \E c \in Captures : Settle(c)
    \/ Tick \/ KismetStarts \/ KismetDies

Next == Kismet \/ \E w \in Workers : Command(w) \/ Step(w)

Spec == Init /\ [][Next]_vars

-----------------------------------------------------------------------------
(* Properties *)

Reads == UNION {[S -> SUBSET Packets] : S \in SUBSET Captures}

\* The type invariant: the state of the disk, of the results and of every
\* command; a log that is written exists and has a journal, and the captures
\* a step works on are ones Kismet has opened.
TypeOK ==
    /\ now \in Intervals
    /\ made \in Captures
    /\ open \in {NoCapture} \cup (exists \cap sidecar)
    /\ packets \in [Captures -> SUBSET Packets]
    /\ exists \subseteq 1..made /\ sidecar \subseteq exists /\ fresh \subseteq exists
    /\ \A i \in Intervals :
        /\ Status(i) \in {"NONE", "COMPLETED", "FAILED"}
        /\ manifest[i].safe \in BOOLEAN
        /\ manifest[i].failed \subseteq DOMAIN manifest[i].read
        /\ manifest[i].read \in Reads
    /\ stored \subseteq Packets
    /\ \A w \in Workers :
        /\ job[w].pc \in {"idle", "query", "stop", "start", "choose", "extract",
                          "predict", "manifest", "index", "clean", "prune"}
        /\ {job[w].cycle, job[w].force, job[w].active} \subseteq BOOLEAN
        /\ job[w].todo \subseteq 1..now
        /\ job[w].on \subseteq 1..made
        /\ job[w].failed \subseteq DOMAIN job[w].read
        /\ job[w].read \in Reads
    /\ faults \in 0..MaxFaults

\* A completed manifest promises results: every observation it counts has its
\* prediction in the database, whatever crashed, was repeated by force or ran
\* beside it (the database is written before the manifest is replaced).
ExtractedIsStored ==
    \A i \in Intervals :
        Status(i) = "COMPLETED" =>
            \A c \in DOMAIN manifest[i].read : manifest[i].read[c] \subseteq stored

\* What "safe_for_raw_cleanup" means: of a capture a safe manifest names, and
\* that could be read, no packet of the interval is left without a prediction,
\* and none can be written to it any more.
SafeIsWhole ==
    \A i \in Intervals : manifest[i].safe =>
        \A c \in DOMAIN manifest[i].read \ manifest[i].failed :
            /\ In(c, i) \subseteq stored
            /\ c # open

\* Neither the cleanup nor the retention script removes the log Kismet writes,
\* nor one whose journal shows that it was not closed, Kismet answering or not.
ActiveIsKept ==
    [][\A c \in exists \ exists' : c # open /\ c \notin sidecar]_vars

\* What the cleanup claims to verify: when it removes a capture, all packets
\* in it fall within completed intervals.
CleanedIsCovered ==
    [][\A c \in exists \ exists' :
            (\E w \in Workers : At(w, "clean") /\ job'[w] # job[w]) =>
                \A p \in packets[c] : Status(p.at) = "COMPLETED"]_vars

-----------------------------------------------------------------------------
=============================================================================
