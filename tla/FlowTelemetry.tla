--------------------------- MODULE FlowTelemetry ---------------------------
(***************************************************************************)
(* The flow telemetry of the client: the packet observer hands packets to  *)
(* the flow aggregator, which keeps the conversations in memory and        *)
(* appends the idle ones to the rotating flows.json of the day; every      *)
(* fifteen minutes the activity aggregator sums up the flows last seen in  *)
(* the window that just ended, and an operator asks for the flows behind   *)
(* a window.  All of it is started anew for every session of the client    *)
(* with the server and shares only the files.                              *)
(*                                                                         *)
(* A flow, in memory or on disk, is the set of its packets: its key, its   *)
(* last_seen and its counters follow from them.  A file name is a day of   *)
(* the local clock; the windows use UTC.                                   *)
(***************************************************************************)
EXTENDS Naturals, FiniteSets, Sequences, SequencesExt, FiniteSetsExt

CONSTANTS
    Keys,           \* the conversations: protocol and both endpoints
    MaxPackets,     \* bound: packets that arrive
    MaxTime,        \* bound: the clock
    MaxSessions,    \* bound: sessions of the client
    MaxFaults,      \* bound: failed reads and writes, crashes, threads left behind
    DayLength,
    ZoneShift,      \* local time minus UTC
    WindowLength,   \* interval_seconds of the activity aggregator
    IdleTimeout,    \* idle_timeout_seconds of the flow aggregator
    FileLimit       \* max_bytes of a file, in records

ASSUME SizesAssumption ==
    /\ MaxPackets \in Nat /\ MaxTime \in Nat /\ MaxSessions \in Nat /\ MaxFaults \in Nat
    /\ DayLength \in Nat \ {0} /\ WindowLength \in Nat \ {0}
    /\ IdleTimeout \in Nat \ {0} /\ FileLimit \in Nat \ {0}
    /\ ZoneShift \in Nat /\ ZoneShift <= DayLength

Times == 0..MaxTime
Packets == [id : 1..MaxPackets, key : Keys, at : Times]
Flows == SUBSET Packets
NoPacket == [id |-> 0]
Days == 0..((MaxTime + ZoneShift) \div DayLength)
NoCycle == [session |-> 0]

VARIABLES
    now,
    faults,
    arrived,    \* how many packets have arrived
    \* the session
    session,    \* how many sessions there were
    phase,      \* off, up, registered, stopping, flushing, flushed
    active,     \* the flow table: an empty flow is not in the table
    handling,   \* the packet between its extraction and record_packet, or NoPacket
    sweeping,   \* the keys the holder of the aggregator's lock has yet to finalize
    waiting,    \* since when the activity aggregator waits
    cycle,      \* run_once past the reading of the clock, or NoCycle
    \* the disk
    files,      \* the flows files of each day, oldest first; the last is flows.json
    windows     \* the closed windows and the flows each one counted

memory == <<active, handling, sweeping>>
disk == <<files, windows>>
vars == <<now, faults, arrived, session, phase, memory, waiting, cycle, disk>>

LastSeen(flow) == Max({p.at : p \in flow})
UtcDay(t) == t \div DayLength
LocalDay(t) == (t + ZoneShift) \div DayLength

Init ==
    /\ now = 0 /\ faults = 0 /\ arrived = 0
    /\ session = 0 /\ phase = "off"
    /\ active = [k \in Keys |-> {}] /\ handling = NoPacket /\ sweeping = {}
    /\ waiting = 0 /\ cycle = NoCycle
    /\ files = [d \in Days |-> << {} >>] /\ windows = {}

Fault == faults < MaxFaults /\ faults' = faults + 1
NoFault == UNCHANGED faults

\* Recording a packet takes less than a tick.
Tick ==
    /\ now < MaxTime /\ handling = NoPacket
    /\ now' = now + 1
    /\ UNCHANGED <<faults, arrived, session, phase, memory, waiting, cycle, disk>>

-----------------------------------------------------------------------------
(* The flow aggregator.  Its lock is held while "sweeping" is not empty.   *)

Capturing == phase \in {"up", "registered", "stopping"}
LockFree == sweeping = {}
InTable == {k \in Keys : active[k] # {}}

\* What is kept of a packet: its conversation and the time of the extraction.
Extracted(k) == [id |-> arrived + 1, key |-> k, at |-> now]

\* A packet of the scope.
Observe(k) ==
    /\ Capturing /\ handling = NoPacket /\ arrived < MaxPackets
    /\ arrived' = arrived + 1
    /\ handling' = Extracted(k)
    /\ UNCHANGED <<now, faults, session, phase, active, sweeping, waiting, cycle, disk>>

Updated(flow, packet) == flow \cup {packet}

RecordPacket ==
    /\ handling # NoPacket /\ LockFree
    /\ active' = [active EXCEPT ![handling.key] = Updated(@, handling)]
    /\ handling' = NoPacket
    /\ UNCHANGED <<now, faults, arrived, session, phase, sweeping, waiting, cycle, disk>>

IdleFlows == {k \in InTable : now - LastSeen(active[k]) >= IdleTimeout}

BeginSweep ==
    /\ Capturing \/ phase = "flushing"
    /\ LockFree /\ IdleFlows # {}
    /\ sweeping' = IdleFlows
    /\ UNCHANGED <<now, faults, arrived, session, phase, active, handling, waiting, cycle, disk>>

\* append_many: an oversized flows.json is first rolled to the next number.
Full(file) == Cardinality(file) >= FileLimit
Rolled_Reset(fs) == IF Full(Last(fs)) THEN Front(fs) \o << {} >> ELSE fs   \* mutant
Rolled(fs) == IF Full(Last(fs)) THEN Append(fs, {}) ELSE fs

\* A file that cannot be read counts as empty and is written anew; one that
\* cannot be written after the retries leaves the flow in no place.
Rewritten(d, fs, file) == [files EXCEPT ![d] = Append(Front(fs), file)]
Store(flow) ==
    LET d == LocalDay(now)
        fs == Rolled(files[d])
    IN  \/ NoFault /\ files' = Rewritten(d, fs, Last(fs) \cup {flow})
        \/ Fault /\ files' = Rewritten(d, fs, {flow})
        \/ Fault /\ files' = Rewritten(d, fs, Last(fs))

\* The flow leaves the table before its record is written.
FinalizeFlow(k) ==
    /\ k \in sweeping
    /\ sweeping' = sweeping \ {k}
    /\ active' = [active EXCEPT ![k] = {}]
    /\ Store(active[k])
    /\ UNCHANGED <<now, arrived, session, phase, handling, waiting, cycle, windows>>

-----------------------------------------------------------------------------
(* The activity aggregator. *)

BeginCycle ==
    /\ phase = "registered" /\ cycle = NoCycle
    /\ now >= waiting + WindowLength
    /\ cycle' = [session |-> session, end |-> now, day |-> LocalDay(now)]
    /\ UNCHANGED <<now, faults, arrived, session, phase, memory, waiting, disk>>

InWindow(flow, from, to) == from <= LastSeen(flow) /\ LastSeen(flow) < to
Window(end, flows) ==
    LET from == end - WindowLength
    IN  [from |-> from, to |-> end,
         flows |-> {f \in flows : InWindow(f, from, end)}]

\* A cycle that outlives its session still closes its window.
EndCycle ==
    /\ cycle # NoCycle
    /\ \/ NoFault /\ windows' = windows \cup {Window(cycle.end, Last(files[cycle.day]))}
       \/ Fault /\ windows' = windows \cup {Window(cycle.end, {})}
       \/ Fault /\ UNCHANGED windows
    /\ cycle' = NoCycle
    /\ waiting' = IF cycle.session = session THEN now ELSE waiting
    /\ UNCHANGED <<now, arrived, session, phase, memory, files>>

\* query_flows: what the operator is shown for a window.
Query_ActiveFile(from, to) ==    \* mutant
    {f \in UNION {Last(files[d]) : d \in UtcDay(from)..UtcDay(to) \cap Days} :
        InWindow(f, from, to)}
Query(from, to) ==
    {f \in UNION UNION {Range(files[d]) : d \in UtcDay(from)..UtcDay(to) \cap Days} :
        InWindow(f, from, to)}

-----------------------------------------------------------------------------
(* Sessions. *)

\* What a handler of the previous session has not recorded is recorded in a
\* table nobody sweeps.
StartSession ==
    /\ phase = "off" /\ session < MaxSessions
    /\ session' = session + 1 /\ phase' = "up"
    /\ active' = [k \in Keys |-> {}] /\ handling' = NoPacket
    /\ UNCHANGED <<now, faults, arrived, sweeping, waiting, cycle, disk>>

Register_CloseFirst ==    \* mutant
    /\ phase = "up" /\ phase' = "registered"
    /\ waiting' = IF now < WindowLength THEN 0 ELSE now - WindowLength
    /\ UNCHANGED <<now, faults, arrived, session, memory, cycle, disk>>
Register ==
    /\ phase = "up" /\ phase' = "registered"
    /\ waiting' = now
    /\ UNCHANGED <<now, faults, arrived, session, memory, cycle, disk>>

\* No connection, or a lost one; the activity aggregator is told to stop.
EndSession ==
    /\ phase \in {"up", "registered"} /\ phase' = "stopping"
    /\ UNCHANGED <<now, faults, arrived, session, memory, waiting, cycle, disk>>

\* The observer is waited for, but not for ever.
StopObserver ==
    /\ phase = "stopping" /\ phase' = "flushing"
    /\ IF handling = NoPacket THEN NoFault ELSE Fault
    /\ UNCHANGED <<now, arrived, session, memory, waiting, cycle, disk>>

FlushAll ==
    /\ phase = "flushing" /\ LockFree
    /\ sweeping' = InTable /\ phase' = "flushed"
    /\ UNCHANGED <<now, faults, arrived, session, active, handling, waiting, cycle, disk>>

Stopped ==
    /\ phase = "flushed" /\ LockFree /\ phase' = "off"
    /\ UNCHANGED <<now, faults, arrived, session, memory, waiting, cycle, disk>>

Crash ==
    /\ phase # "off" /\ Fault /\ phase' = "off"
    /\ active' = [k \in Keys |-> {}] /\ handling' = NoPacket /\ sweeping' = {}
    /\ cycle' = NoCycle
    /\ UNCHANGED <<now, arrived, session, waiting, disk>>

Next ==
    \/ Tick
    \/ \E k \in Keys : Observe(k) \/ FinalizeFlow(k)
    \/ RecordPacket \/ BeginSweep
    \/ BeginCycle \/ EndCycle
    \/ StartSession \/ Register \/ EndSession
    \/ StopObserver \/ FlushAll \/ Stopped \/ Crash

Spec == Init /\ [][Next]_vars

-----------------------------------------------------------------------------
(* Properties. *)

\* Every variable stays in its domain; a flow holds packets of its key only.
TypeOK ==
    /\ now \in Times /\ faults \in 0..MaxFaults /\ arrived \in 0..MaxPackets
    /\ session \in 0..MaxSessions
    /\ phase \in {"off", "up", "registered", "stopping", "flushing", "flushed"}
    /\ active \in [Keys -> Flows] /\ \A k \in Keys : \A p \in active[k] : p.key = k
    /\ handling \in Packets \cup {NoPacket}
    /\ sweeping \subseteq InTable
    /\ waiting \in Times
    /\ cycle \in [session : 1..MaxSessions, end : Times, day : Days] \cup {NoCycle}
    /\ files \in [Days -> Seq(SUBSET (Flows \ {{}}))]
    /\ \A d \in Days : files[d] # << >>
    /\ windows \subseteq [from : Times, to : Times, flows : SUBSET (Flows \ {{}})]

Ids(flow) == {p.id : p \in flow}
Holding(file, i) == {f \in file : i \in Ids(f)}
Places(i) ==
    UNION {UNION {{<<d, n, f>> : f \in Holding(files[d][n], i)} : n \in DOMAIN files[d]} :
        d \in Days}

\* A packet is counted once: it is in one flow of the table or of one file
\* at most, across sweeps, flushes, rotations, midnight and sessions; and when
\* no read, write or process failed and no thread was left behind, it is in
\* exactly one.
PacketsAreKept ==
    \A i \in 1..arrived :
        LET places == Cardinality(Places(i))
                      + Cardinality({k \in Keys : i \in Ids(active[k])})
                      + (IF handling.id = i THEN 1 ELSE 0)
        IN  places <= 1 /\ (faults = 0 => places = 1)

\* No flow adds to the activity of two windows, whatever sessions end and
\* begin in between: the server adds the windows of a device up.
CountedOnce ==
    \A v, w \in windows : v # w => v.flows \cap w.flows = {}

\* The flows behind a window: what the summary counted, query_flows finds,
\* although it was rolled to another file or the day has changed since.
SummaryIsQueryable ==
    faults = 0 => \A w \in windows : w.flows \subseteq Query(w.from, w.to)

\* "consume flows.json since last window": a stored flow of a closed window
\* was counted by it.
StoredIsCounted ==
    faults = 0 => \A w \in windows : Query(w.from, w.to) \subseteq w.flows
=============================================================================
