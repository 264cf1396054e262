-------------------------- MODULE DeviceIsolation --------------------------
(***************************************************************************)
(* Device isolation on the client.  The process monitor of a session ends  *)
(* forbidden processes and counts the violations of the last minutes; at   *)
(* the threshold it starts a thread that isolates the device, as does a    *)
(* command of the server.  The network state manager saves the settings of *)
(* the adapter that owns the default route, then takes its address, route, *)
(* DNS and IPv6 away with a script; an administrator at the device can     *)
(* restore the saved settings.  The record and the status are files, so    *)
(* they survive the client.                                                *)
(*                                                                         *)
(* The settings of an adapter are "original", "partial" (changed, but with *)
(* a default route still) or "isolated" (no default route).                *)
(***************************************************************************)
EXTENDS Naturals, FiniteSets

CONSTANTS
    Programs,      \* the forbidden programs
    Adapters,
    Threshold,     \* violations that escalate
    Span,          \* the seconds in which they count, in scans
    MaxTime,       \* bound: scans
    MaxSessions,   \* bound: sessions, each with a monitor of its own
    MaxLaunches,   \* bound: launches of a program
    MaxThreads,    \* bound: isolations that begin
    MaxRestores,   \* bound: restorations
    MaxFaults      \* bound: failed commands and writes, crashes

ASSUME SizesAssumption ==
    /\ Threshold \in Nat \ {0} /\ Span \in Nat \ {0}
    /\ {MaxTime, MaxSessions, MaxLaunches, MaxThreads, MaxRestores, MaxFaults} \subseteq Nat
ASSUME AdaptersAssumption == Adapters # {}

Threads == 1..MaxThreads
Settings == {"original", "partial", "isolated"}
Records == [adapter : Adapters, settings : Settings]
NoRecord == [settings |-> "none"]
States == {"NONE", "NORMAL", "ISOLATING", "ISOLATED", "RESTORING", "RESTORED", "ISOLATION_FAILED"}
Violations == [program : Programs, at : 0..MaxTime]

VARIABLES
    now,
    faults,
    \* the monitor
    session,
    monitoring,
    launches,     \* how often each program was launched
    running,      \* the programs that run
    scanned,      \* the programs inspected in the present scan
    violations,   \* the history of the monitor
    \* the device
    adapter,      \* the settings of each adapter
    record,       \* state.json
    status,       \* status.json
    isolation,    \* the threads in isolate_static_ip
    restoring,    \* the record restore_network works with, or NoRecord
    restores,
    calm          \* nothing failed and no two operations met

monitor == <<session, monitoring, launches, running, scanned, violations>>
files == <<record, status>>
device == <<adapter, files, isolation, restoring, restores>>
vars == <<now, faults, monitor, device, calm>>

NotBegun == [pc |-> "none", of |-> NoRecord]

Init ==
    /\ now = 0 /\ faults = 0 /\ calm = TRUE
    /\ session = 0 /\ monitoring = FALSE
    /\ launches = [p \in Programs |-> 0] /\ running = {}
    /\ scanned = {} /\ violations = {}
    /\ adapter = [a \in Adapters |-> "original"]
    /\ record = NoRecord /\ status = "NONE"
    /\ isolation = [t \in Threads |-> NotBegun]
    /\ restoring = NoRecord /\ restores = 0

Fault == faults < MaxFaults /\ faults' = faults + 1 /\ calm' = FALSE
NoFault == UNCHANGED <<faults, calm>>

At(t, pc) == isolation[t].pc = pc
InProgress == {t \in Threads : ~ At(t, "none") /\ ~ At(t, "done")}
Busy == InProgress # {} \/ restoring # NoRecord

\* Thread t goes on to pc with the record r.
Becomes(t, pc, r) == isolation' = [isolation EXCEPT ![t] = [pc |-> pc, of |-> r]]
GoesOn(t, pc) == Becomes(t, pc, isolation[t].of)
Done(t) == Becomes(t, "done", NoRecord)

-----------------------------------------------------------------------------
(* The monitor and its tracker. *)

StartSession ==
    /\ ~ monitoring /\ session < MaxSessions
    /\ session' = session + 1 /\ monitoring' = TRUE
    /\ violations' = {}
    /\ UNCHANGED <<now, faults, launches, running, scanned, device, calm>>

EndSession ==
    /\ monitoring /\ monitoring' = FALSE
    /\ UNCHANGED <<now, faults, session, launches, running, scanned, violations, device, calm>>

\* The next scan.
Tick ==
    /\ now < MaxTime
    /\ now' = now + 1 /\ scanned' = {}
    /\ UNCHANGED <<faults, session, monitoring, launches, running, violations, device, calm>>

Launch(p) ==
    /\ p \notin running /\ launches[p] < MaxLaunches
    /\ running' = running \cup {p} /\ launches' = [launches EXCEPT ![p] = @ + 1]
    /\ UNCHANGED <<now, faults, session, monitoring, scanned, violations, device, calm>>

Matching(p, history) == {v \in history : v.program = p /\ v.at + Span >= now}
Escalated(p, history) == Cardinality(Matching(p, history)) >= Threshold

\* A thread begins; it is not alone when another operation is under way.
Begin(t) ==
    /\ At(t, "none") /\ \A u \in Threads : u < t => ~ At(u, "none")
    /\ Becomes(t, "begun", NoRecord)
    /\ calm' = (calm /\ ~ Busy)

\* _on_escalation_isolate
Skipped == status \in {"ISOLATING", "ISOLATED", "RESTORING"}
OnEscalation ==
    \/ Skipped /\ UNCHANGED <<isolation, calm>>
    \/ ~ Skipped /\ \E t \in Threads : Begin(t)

\* A violation: the process is ended, or it resists; both count.
Detect(p) ==
    /\ monitoring /\ p \in running /\ p \notin scanned
    /\ scanned' = scanned \cup {p}
    /\ violations' = violations \cup {[program |-> p, at |-> now]}
    /\ running' \in {running, running \ {p}}
    /\ IF Escalated(p, violations') THEN OnEscalation ELSE UNCHANGED <<isolation, calm>>
    /\ UNCHANGED <<now, faults, session, monitoring, launches, adapter, files, restoring, restores>>

\* ISOLATE_DEVICE: the loop of the session runs one command at a time.
Command ==
    /\ monitoring
    /\ \E t \in Threads : Begin(t)
    /\ UNCHANGED <<now, faults, monitor, adapter, files, restoring, restores>>

-----------------------------------------------------------------------------
(* isolate_static_ip *)

HasRoute(a) == adapter[a] # "isolated"

\* record_lifecycle_state fails, in the status file or in the audit file after it.
NotRecorded(s) == status' \in {status, s}

Capture_AnyAdapter(t) ==    \* mutant
    /\ At(t, "begun")
    /\ \E a \in Adapters : Becomes(t, "captured", [adapter |-> a, settings |-> adapter[a]]) /\ NoFault
    /\ UNCHANGED <<now, monitor, adapter, files, restoring, restores>>

\* get_interface_state: without a default route it fails.
Capture(t) ==
    /\ At(t, "begun")
    /\ \/ \E a \in Adapters :
            HasRoute(a) /\ Becomes(t, "captured", [adapter |-> a, settings |-> adapter[a]]) /\ NoFault
       \/ (\A a \in Adapters : ~ HasRoute(a)) /\ Done(t) /\ NoFault
       \/ Fault /\ Done(t)
    /\ UNCHANGED <<now, monitor, adapter, files, restoring, restores>>

\* save_current_configuration: state.json, then the status.
Save(t) ==
    /\ At(t, "captured")
    /\ \/ record' = isolation[t].of /\ status' = "NORMAL" /\ GoesOn(t, "saved") /\ NoFault
       \/ Fault /\ Done(t) /\ UNCHANGED files
       \/ Fault /\ Done(t) /\ record' = isolation[t].of /\ NotRecorded("NORMAL")
    /\ UNCHANGED <<now, monitor, adapter, restoring, restores>>

MarkIsolating(t) ==
    /\ At(t, "saved")
    /\ \/ status' = "ISOLATING" /\ GoesOn(t, "marked") /\ NoFault
       \/ Fault /\ NotRecorded("ISOLATING") /\ Done(t)
    /\ UNCHANGED <<now, monitor, adapter, record, restoring, restores>>

\* The script takes IPv6, DHCP and DNS away, then the addresses and the route.
Weaker(s) == IF s = "original" THEN "partial" ELSE s
BeginScript(t) ==
    LET a == isolation[t].of.adapter
    IN  /\ At(t, "marked")
        /\ \/ adapter' = [adapter EXCEPT ![a] = Weaker(@)] /\ GoesOn(t, "running") /\ NoFault
           \/ Fault /\ UNCHANGED adapter /\ GoesOn(t, "failed")
        /\ UNCHANGED <<now, monitor, files, restoring, restores>>

EndScript(t) ==
    LET a == isolation[t].of.adapter
    IN  /\ At(t, "running")
        /\ \/ adapter' = [adapter EXCEPT ![a] = "isolated"] /\ GoesOn(t, "applied") /\ NoFault
           \/ Fault /\ adapter' \in {adapter, [adapter EXCEPT ![a] = "isolated"]} /\ GoesOn(t, "failed")
        /\ UNCHANGED <<now, monitor, files, restoring, restores>>

Outcome(t) == IF At(t, "applied") THEN "ISOLATED" ELSE "ISOLATION_FAILED"
Conclude(t) ==
    /\ At(t, "applied") \/ At(t, "failed")
    /\ \/ status' = Outcome(t) /\ NoFault
       \/ Fault /\ NotRecorded(Outcome(t))
    /\ Done(t)
    /\ UNCHANGED <<now, monitor, adapter, record, restoring, restores>>

-----------------------------------------------------------------------------
(* restore_network, in a process of the administrator. *)

BeginRestore ==
    /\ restoring = NoRecord /\ record # NoRecord /\ restores < MaxRestores
    /\ restores' = restores + 1
    /\ \/ /\ restoring' = record /\ status' = "RESTORING"
          /\ calm' = (calm /\ ~ Busy) /\ UNCHANGED faults
       \/ Fault /\ NotRecorded("RESTORING") /\ UNCHANGED restoring
    /\ UNCHANGED <<now, monitor, adapter, record, isolation>>

EndRestore_Silent ==    \* mutant
    /\ restoring # NoRecord /\ restoring' = NoRecord
    /\ adapter' = [adapter EXCEPT ![restoring.adapter] = restoring.settings] /\ NoFault
    /\ UNCHANGED <<now, monitor, files, isolation, restores>>

\* A script that fails may have removed the addresses and the route before.
EndRestore ==
    LET a == restoring.adapter
    IN  /\ restoring # NoRecord /\ restoring' = NoRecord
        /\ \/ /\ adapter' = [adapter EXCEPT ![a] = restoring.settings]
              /\ status' = "RESTORED" /\ NoFault
           \/ /\ Fault /\ adapter' = [adapter EXCEPT ![a] = restoring.settings]
              /\ NotRecorded("RESTORED")
           \/ /\ Fault /\ adapter' \in {adapter, [adapter EXCEPT ![a] = "isolated"]}
              /\ status' = "ISOLATED"
        /\ UNCHANGED <<now, monitor, record, isolation, restores>>

\* The client dies with its threads.
Crash ==
    /\ Fault
    /\ monitoring' = FALSE
    /\ isolation' = [t \in Threads |-> IF t \in InProgress THEN [pc |-> "done", of |-> NoRecord]
                                                           ELSE isolation[t]]
    /\ UNCHANGED <<now, session, launches, running, scanned, violations, adapter, files,
                   restoring, restores>>

Isolate(t) ==
    Capture(t) \/ Save(t) \/ MarkIsolating(t) \/ BeginScript(t) \/ EndScript(t) \/ Conclude(t)

Next ==
    \/ StartSession \/ EndSession \/ Tick \/ Command
    \/ \E p \in Programs : Launch(p) \/ Detect(p)
    \/ \E t \in Threads : Isolate(t)
    \/ BeginRestore \/ EndRestore \/ Crash

Spec == Init /\ [][Next]_vars

-----------------------------------------------------------------------------
(* Properties. *)

\* Every variable stays in its domain, and a thread that changes an adapter
\* holds the record of it.
TypeOK ==
    /\ now \in 0..MaxTime /\ faults \in 0..MaxFaults /\ calm \in BOOLEAN
    /\ session \in 0..MaxSessions /\ monitoring \in BOOLEAN
    /\ launches \in [Programs -> 0..MaxLaunches]
    /\ running \subseteq Programs /\ scanned \subseteq Programs
    /\ violations \subseteq Violations
    /\ adapter \in [Adapters -> Settings]
    /\ record \in Records \cup {NoRecord} /\ status \in States
    /\ isolation \in [Threads ->
           [pc : {"none", "begun", "captured", "saved", "marked", "running",
                  "applied", "failed", "done"},
            of : Records \cup {NoRecord}]]
    /\ \A t \in InProgress : isolation[t].of = NoRecord => At(t, "begun")
    /\ restoring \in Records \cup {NoRecord} /\ restores \in 0..MaxRestores

Altered == {a \in Adapters : adapter[a] # "original"}

\* "so an administrator at the device can restore its original
\* configuration": while an adapter is altered, the record is that of its
\* original settings, through repeated isolations, commands to a device that
\* is isolated already, restorations and new sessions -- as long as nothing
\* failed and no two operations met.
AlteredIsRecoverable ==
    calm => \A a \in Altered : record = [adapter |-> a, settings |-> "original"]

\* "skip if already isolating/isolated": an escalation is skipped only on a
\* device that is altered or on which an operation is under way.
SkipIsJustified == calm /\ Skipped => Altered # {} \/ Busy

\* The same whatever fails: a client that dies while it isolates must not
\* leave a status behind that disables the isolation for good.
SkipIsAlwaysJustified == Skipped => Altered # {} \/ Busy

\* "To distinguish between single accidental executions and repeated ...
\* launch attempts": a device is isolated for a program that was launched
\* Threshold times.
EscalatedIsRepeated ==
    [][\A p \in Programs : Detect(p) /\ Escalated(p, violations') => launches[p] >= Threshold]_vars
=============================================================================
