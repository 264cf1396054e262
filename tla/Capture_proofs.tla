--------------------------- MODULE Capture_proofs ---------------------------
(***************************************************************************)
(* Proofs about the two pipelines from captured packets to files and rows: *)
(* FlowTelemetry, for any conversations, packets, sessions, faults and     *)
(* sizes, and, as K, KismetPipeline, for any number of processes,          *)
(* intervals, captures, packets and faults.  Each theorem is of the        *)
(* behaviours of one of them; the clock, the faults and their bounds have  *)
(* the same names in both and no other meaning in common.                  *)
(*                                                                         *)
(* In FlowTelemetry, a packet is in one place, the windows are intervals   *)
(* that do not meet, and the files of a day only grow.  In KismetPipeline, *)
(* what a manifest promises is prepared by the process that will write it, *)
(* so the invariant says, of every process and each of its steps, what it  *)
(* has read, what of it is in the database, and that what it read of a     *)
(* capture that was not active is all that will ever be in it: a log that  *)
(* is not open is never opened again.                                      *)
(***************************************************************************)
EXTENDS FlowTelemetry, TLAPS, FiniteSetTheorems, SequenceTheorems,
        WellFoundedInduction

CONSTANTS Workers, MaxCaptures, PacketsPerInterval
VARIABLES open, made, packets, exists, sidecar, fresh, manifest, stored, job

K == INSTANCE KismetPipeline

-----------------------------------------------------------------------------
(* Days and times.                                                          *)

LEMMA DaysGrow ==
  ASSUME NEW a \in Nat, NEW b \in Nat, a <= b, NEW d \in Nat \ {0}
  PROVE  a \div d \in Nat /\ b \div d \in Nat /\ a \div d <= b \div d
OBVIOUS

LEMMA LocalDays ==
  ASSUME NEW t \in Times
  PROVE  LocalDay(t) \in Days
<1>1. t \in Nat /\ t <= MaxTime /\ MaxTime \in Nat /\ ZoneShift \in Nat /\ DayLength \in Nat \ {0}
  BY SizesAssumption DEF Times
<1>2. t + ZoneShift \in Nat /\ MaxTime + ZoneShift \in Nat /\ t + ZoneShift <= MaxTime + ZoneShift
  BY <1>1
<1>3. /\ (t + ZoneShift) \div DayLength \in Nat /\ (MaxTime + ZoneShift) \div DayLength \in Nat
      /\ (t + ZoneShift) \div DayLength <= (MaxTime + ZoneShift) \div DayLength
  BY <1>1, <1>2, DaysGrow
<1> QED
  BY <1>3 DEF LocalDay, Days

LEMMA GreatestOf ==
  ASSUME NEW N \in Nat, NEW T \in SUBSET (0 .. N), T # {}
  PROVE  Max(T) \in T
<1> DEFINE R == {ss \in Nat \X Nat : ss[1] < ss[2]}
           U == {N - x : x \in T}
<1>1. OpToRel(<, Nat) = R
  BY Zenon DEF OpToRel
<1>2. IsWellFoundedOn(R, Nat)
  BY <1>1, NatLessThanWellFounded, Zenon
<1>3. \A x, y \in Nat : y < x => <<y, x>> \in R
  OBVIOUS
<1>4. U \subseteq Nat /\ U # {}
  <2>1. \A x \in T : N - x \in Nat
    OBVIOUS
  <2>2. PICK x \in T : TRUE
    OBVIOUS
  <2>3. N - x \in U
    OBVIOUS
  <2> QED
    BY <2>1, <2>3
<1>5. \A x, y \in T : N - x \in U /\ (~ (N - y < N - x) => x >= y)
  OBVIOUS
<1>6. \A u \in U : \E x \in T : u = N - x
  OBVIOUS
<1> HIDE DEF R, U
<1>7. PICK u \in U : \A w \in U : ~ (<<w, u>> \in R)
  BY <1>2, <1>4, WFMin
<1>8. PICK x \in T : u = N - x
  BY <1>6
<1>9. \A y \in T : x >= y
  BY <1>3, <1>4, <1>5, <1>7, <1>8
<1> QED
  BY <1>9 DEF Max

LEMMA LastSeenIn ==
  ASSUME NEW flow \in Flows \ {{}}
  PROVE  LastSeen(flow) \in Times
<1>1. {p.at : p \in flow} \subseteq 0 .. MaxTime /\ {p.at : p \in flow} # {}
  BY DEF Flows, Packets, Times
<1> QED
  BY <1>1, GreatestOf, SizesAssumption DEF LastSeen, Times

-----------------------------------------------------------------------------
(* What append_many makes of the files of a day.                            *)

NewFiles(fs, file) == Append(Front(Rolled(fs)), file)

Appended(X, fs, file, new, m) ==
  /\ new \in Seq(X) /\ new # << >>
  /\ DOMAIN new = 1 .. m /\ m \in 1 .. m /\ DOMAIN fs \subseteq 1 .. m
  /\ new[m] = file
  /\ \A n \in 1 .. m : n # m => n \in DOMAIN fs /\ new[n] = fs[n]
  /\ Last(Rolled(fs)) = IF m \in DOMAIN fs THEN fs[m] ELSE {}

LEMMA FilesOfDay ==
  ASSUME NEW X, {} \in X, NEW fs \in Seq(X), fs # << >>
  PROVE  /\ Last(Rolled(fs)) \in X
         /\ \A file \in X : \E m \in Nat : Appended(X, fs, file, NewFiles(fs, file), m)
<1> DEFINE r == Rolled(fs)
<1>0. r = fs \/ r = Append(fs, {})
  BY DEF Rolled
<1> HIDE DEF r
<1>1. Len(fs) \in Nat \ {0} /\ DOMAIN fs = 1 .. Len(fs) /\ \A n \in 1 .. Len(fs) : fs[n] \in X
  OBVIOUS
<1>2. /\ r \in Seq(X) /\ Len(r) \in {Len(fs), Len(fs) + 1}
      /\ \A n \in 1 .. Len(fs) : r[n] = fs[n]
      /\ Len(r) = Len(fs) + 1 => r[Len(r)] = {}
  <2>1. CASE r = fs
    <3>1. r \in Seq(X) /\ Len(r) = Len(fs) /\ \A n \in 1 .. Len(fs) : r[n] = fs[n]
      BY <2>1
    <3>2. \A m \in Nat : m # m + 1
      OBVIOUS
    <3>3. Len(fs) # Len(fs) + 1
      BY <1>1, <3>2
    <3> QED
      BY <3>1, <3>3
  <2>2. CASE r = Append(fs, {})
    BY <1>1, <2>2
  <2> QED
    BY <1>0, <2>1, <2>2
<1>3. Len(r) \in Nat \ {0} /\ \A n \in 1 .. Len(r) : r[n] \in X
  BY <1>1, <1>2
<1>4. Last(r) = r[Len(r)]
  BY DEF Last
<1>5. Last(r) = (IF Len(r) = Len(fs) THEN fs[Len(fs)] ELSE {})
  <2>1. CASE Len(r) = Len(fs)
    <3>1. Len(fs) \in 1 .. Len(fs)
      BY <1>1
    <3>2. r[Len(fs)] = fs[Len(fs)]
      BY <1>2, <3>1
    <3> QED
      BY <1>4, <2>1, <3>2
  <2>2. CASE Len(r) # Len(fs)
    BY <1>2, <1>4, <2>2
  <2> QED
    BY <2>1, <2>2
<1>6. Last(r) \in X
  BY <1>1, <1>5
<1> DEFINE front == Front(r)
<1>7. /\ front \in Seq(X) /\ Len(front) = Len(r) - 1
      /\ \A n \in 1 .. (Len(r) - 1) : front[n] = r[n]
  <2>1. front = SubSeq(r, 1, Len(r) - 1)
    BY DEF Front
  <2> HIDE DEF front
  <2>2. 1 \in Int /\ Len(r) - 1 \in Int /\ \A n \in 1 .. (Len(r) - 1) : r[n] \in X
    BY <1>3
  <2>3. /\ front \in Seq(X) /\ Len(front) = IF 1 <= Len(r) - 1 THEN Len(r) - 1 - 1 + 1 ELSE 0
        /\ \A n \in 1 .. (Len(r) - 1 - 1 + 1) : front[n] = r[1 + n - 1]
    BY <2>1, <2>2, SubSeqProperties
  <2>4. Len(front) = Len(r) - 1
    <3>1. \A m \in Nat \ {0} : (IF 1 <= m - 1 THEN m - 1 - 1 + 1 ELSE 0) = m - 1
      OBVIOUS
    <3> QED
      BY <1>3, <2>3, <3>1
  <2>5. \A n \in 1 .. (Len(r) - 1) : n \in 1 .. (Len(r) - 1 - 1 + 1) /\ 1 + n - 1 = n
    BY <1>3
  <2> QED
    BY <2>3, <2>4, <2>5
<1> HIDE DEF front
<1>8. SUFFICES ASSUME NEW file \in X
               PROVE  \E m \in Nat : Appended(X, fs, file, NewFiles(fs, file), m)
  BY <1>6 DEF r
<1> DEFINE new == Append(front, file)
<1>9. PICK m \in Nat \ {0} : m = Len(r)
  BY <1>3
<1>10. /\ new \in Seq(X) /\ Len(new) = m /\ new # << >> /\ new[m] = file
       /\ \A n \in 1 .. (m - 1) : new[n] = front[n]
       /\ DOMAIN new = 1 .. m
  BY <1>7, <1>9
<1> HIDE DEF new
<1>11. PICK l \in Nat \ {0} : l = Len(fs)
  BY <1>1
<1>12. m \in {l, l + 1} /\ DOMAIN fs = 1 .. l
  BY <1>1, <1>2, <1>9, <1>11
<1>13. \A n \in 1 .. m : n # m => n \in 1 .. (m - 1) /\ n \in 1 .. l
  BY <1>12
<1>14. \A n \in 1 .. m : n # m => n \in DOMAIN fs /\ new[n] = fs[n]
  <2> SUFFICES ASSUME NEW n \in 1 .. m, n # m PROVE n \in DOMAIN fs /\ new[n] = fs[n]
    OBVIOUS
  <2>1. n \in 1 .. (m - 1) /\ n \in 1 .. l
    BY <1>13
  <2>2. new[n] = front[n] /\ front[n] = r[n] /\ r[n] = fs[n]
    BY <1>2, <1>7, <1>9, <1>10, <1>11, <2>1
  <2> QED
    BY <1>12, <2>1, <2>2
<1>15. Last(r) = IF m \in DOMAIN fs THEN fs[m] ELSE {}
  <2>1. m \in 1 .. l <=> m = l
    BY <1>12
  <2> QED
    BY <1>5, <1>9, <1>11, <1>12, <2>1
<1>16. m \in 1 .. m /\ DOMAIN fs \subseteq 1 .. m
  BY <1>12
<1>17. new = NewFiles(fs, file)
  BY DEF new, front, r, NewFiles
<1> QED
  BY <1>10, <1>14, <1>15, <1>16, <1>17 DEF Appended, r
-----------------------------------------------------------------------------
(* Types, and what every phase of a session has.                            *)

Files == SUBSET (Flows \ {{}})

Sessions ==
  /\ phase = "off" => sweeping = {}
  /\ phase # "off" => session >= 1
  /\ waiting <= now
  /\ cycle # NoCycle =>
       /\ cycle.session <= session /\ cycle.end <= now /\ cycle.end >= WindowLength
       /\ cycle.day = LocalDay(cycle.end)

Sound == TypeOK /\ Sessions

(* What a stored flow makes of the files: it joins the last file of a day,  *)
(* and unless something failed nothing that was there is gone.              *)
Filed(d, m, flow) ==
  /\ \A e \in Days \ {d} : files'[e] = files[e]
  /\ files' \in [Days -> Seq(Files)] /\ \A e \in Days : files'[e] # << >>
  /\ DOMAIN files[d] \subseteq DOMAIN files'[d] /\ m \in DOMAIN files'[d]
  /\ \A n \in DOMAIN files'[d] : \A f \in files'[d][n] :
       (n \in DOMAIN files[d] /\ f \in files[d][n]) \/ (n = m /\ f = flow)
  /\ faults' \in 0 .. MaxFaults /\ faults' >= faults
  /\ faults' = 0 => /\ flow \in files'[d][m]
                    /\ \A n \in DOMAIN files[d] : files[d][n] \subseteq files'[d][n]

LEMMA StoreFiles ==
  ASSUME TypeOK, NEW flow \in Flows \ {{}}, Store(flow)
  PROVE  \E d \in Days, m \in Nat : Filed(d, m, flow)
<1>1. PICK d \in Days : d = LocalDay(now)
  BY LocalDays DEF TypeOK
<1>2. PICK fs \in Seq(Files) : fs = files[d] /\ fs # << >>
  BY DEF TypeOK, Files
<1> DEFINE last == Last(Rolled(fs))
<1>3. {} \in Files /\ flow \in Flows \ {{}} /\ faults \in 0 .. MaxFaults /\ MaxFaults \in Nat
  BY SizesAssumption DEF Files, TypeOK
<1>4. last \in Files
  BY <1>2, <1>3, FilesOfDay
<1>5. PICK file \in {last \cup {flow}, {flow}, last} :
        /\ files' = [files EXCEPT ![d] = NewFiles(fs, file)]
        /\ \/ faults' = faults /\ file = last \cup {flow}
           \/ faults < MaxFaults /\ faults' = faults + 1
  <2>1. CASE faults' = faults /\ files' = Rewritten(d, Rolled(fs), last \cup {flow})
    BY <2>1 DEF Rewritten, NewFiles
  <2>2. CASE Fault /\ files' = Rewritten(d, Rolled(fs), {flow})
    BY <2>2 DEF Rewritten, NewFiles, Fault
  <2>3. CASE Fault /\ files' = Rewritten(d, Rolled(fs), last)
    BY <2>3 DEF Rewritten, NewFiles, Fault
  <2>4. \/ faults' = faults /\ files' = Rewritten(d, Rolled(fs), last \cup {flow})
        \/ Fault /\ files' = Rewritten(d, Rolled(fs), {flow})
        \/ Fault /\ files' = Rewritten(d, Rolled(fs), last)
    BY <1>1, <1>2 DEF Store, NoFault
  <2> QED
    BY <2>1, <2>2, <2>3, <2>4
<1>6. file \in Files
  <2> HIDE DEF last
  <2> QED
    BY <1>3, <1>4, <1>5 DEF Files
<1>7. PICK new : new = NewFiles(fs, file)
  OBVIOUS
<1>11. PICK m \in Nat : Appended(Files, fs, file, new, m)
  BY <1>2, <1>3, <1>6, <1>7, FilesOfDay
<1> HIDE DEF last
<1>8. files \in [Days -> Seq(Files)] /\ \A e \in Days : files[e] # << >>
  BY DEF TypeOK, Files
<1>9. files' = [files EXCEPT ![d] = new]
  BY <1>5, <1>7
<1>10. /\ files' \in [Days -> Seq(Files)] /\ files'[d] = new
       /\ \A e \in Days \ {d} : files'[e] = files[e]
       /\ \A e \in Days : files'[e] # << >>
  BY <1>8, <1>9, <1>11 DEF Appended
<1>12. DOMAIN fs \subseteq DOMAIN new /\ m \in DOMAIN new /\ new[m] = file
  BY <1>11 DEF Appended
<1>13. \A n \in DOMAIN new : n # m => n \in DOMAIN fs /\ new[n] = fs[n]
  BY <1>11 DEF Appended
<1>14. last = IF m \in DOMAIN fs THEN fs[m] ELSE {}
  BY <1>11 DEF Appended, last
<1>15. \A n \in DOMAIN new : \A f \in new[n] :
         (n \in DOMAIN fs /\ f \in fs[n]) \/ (n = m /\ f = flow)
  <2> SUFFICES ASSUME NEW n \in DOMAIN new, NEW f \in new[n]
               PROVE  (n \in DOMAIN fs /\ f \in fs[n]) \/ (n = m /\ f = flow)
    OBVIOUS
  <2>1. CASE n # m
    BY <1>13, <2>1
  <2>2. CASE n = m
    <3>1. f \in last \/ f = flow
      BY <1>5, <1>12, <2>2
    <3> QED
      BY <1>14, <2>2, <3>1
  <2> QED
    BY <2>1, <2>2
<1>16. faults' \in 0 .. MaxFaults /\ faults' >= faults /\ (faults' = 0 => file = last \cup {flow})
  BY <1>3, <1>5
<1>17. ASSUME faults' = 0
       PROVE  flow \in new[m] /\ \A n \in DOMAIN fs : fs[n] \subseteq new[n]
  <2>1. new[m] = last \cup {flow}
    BY <1>12, <1>16, <1>17
  <2>2. ASSUME NEW n \in DOMAIN fs PROVE fs[n] \subseteq new[n]
    <3>1. CASE n = m
      BY <1>14, <2>1, <2>2, <3>1
    <3>2. CASE n # m
      BY <1>12, <1>13, <2>2, <3>2
    <3> QED
      BY <3>1, <3>2
  <2> QED
    BY <2>1, <2>2
<1>18. Filed(d, m, flow)
  BY <1>2, <1>10, <1>12, <1>15, <1>16, <1>17 DEF Filed
<1> QED
  BY <1>18

(* The flow that is finalized.                                              *)
LEMMA FinalizeFiles ==
  ASSUME TypeOK, NEW k \in Keys, FinalizeFlow(k)
  PROVE  /\ active[k] \in Flows \ {{}}
         /\ \E d \in Days, m \in Nat : Filed(d, m, active[k])
         /\ active'[k] = {} /\ \A j \in Keys \ {k} : active'[j] = active[j]
         /\ active' \in [Keys -> Flows] /\ sweeping' = sweeping \ {k}
<1>1. k \in sweeping /\ active[k] \in Flows \ {{}}
  BY DEF FinalizeFlow, TypeOK, InTable
<1>2. \E d \in Days, m \in Nat : Filed(d, m, active[k])
  BY <1>1, StoreFiles DEF FinalizeFlow
<1>3. {} \in Flows
  BY DEF Flows
<1> QED
  BY <1>1, <1>2, <1>3 DEF FinalizeFlow, TypeOK

(* The numbers of a state of the right types.                               *)
LEMMA Numbers ==
  ASSUME TypeOK
  PROVE  /\ now \in Nat /\ MaxTime \in Nat /\ now <= MaxTime
         /\ faults \in Nat /\ MaxFaults \in Nat /\ faults <= MaxFaults
         /\ arrived \in Nat /\ MaxPackets \in Nat /\ arrived <= MaxPackets
         /\ session \in Nat /\ MaxSessions \in Nat /\ session <= MaxSessions
         /\ waiting \in Nat /\ WindowLength \in Nat \ {0} /\ LocalDay(now) \in Days
BY SizesAssumption, LocalDays DEF TypeOK, Times

(* A step that fails nothing, or one that fails.                            *)
LEMMA FaultTyped ==
  ASSUME TypeOK, Fault \/ NoFault
  PROVE  faults' \in 0 .. MaxFaults /\ faults' >= faults
BY Numbers DEF Fault, NoFault

TableTyped ==
  /\ active \in [Keys -> Flows] /\ \A k \in Keys : \A p \in active[k] : p.key = k
  /\ handling \in Packets \cup {NoPacket} /\ sweeping \subseteq InTable
DiskTyped ==
  /\ files \in [Days -> Seq(Files)] /\ \A d \in Days : files[d] # << >>
  /\ windows \subseteq [from : Times, to : Times, flows : Files]
ClockTyped ==
  /\ now \in Times /\ faults \in 0 .. MaxFaults /\ arrived \in 0 .. MaxPackets
  /\ session \in 0 .. MaxSessions /\ waiting \in Times
  /\ phase \in {"off", "up", "registered", "stopping", "flushing", "flushed"}
CycleTyped ==
  cycle \in [session : 1 .. MaxSessions, end : Times, day : Days] \cup {NoCycle}

LEMMA TypeParts == TypeOK <=> TableTyped /\ DiskTyped /\ ClockTyped /\ CycleTyped
BY DEF TypeOK, TableTyped, DiskTyped, ClockTyped, CycleTyped, Files

LEMMA CycleFacts ==
  ASSUME CycleTyped, cycle # NoCycle
  PROVE  /\ cycle.session \in 1 .. MaxSessions /\ cycle.end \in Times /\ cycle.day \in Days
         /\ cycle.end \in Nat /\ cycle.session \in Nat
BY SizesAssumption DEF CycleTyped, Times

LEMMA SoundInit == Init => Sound
<1> SUFFICES ASSUME Init PROVE Sound
  OBVIOUS
<1>1. /\ 0 \in Times /\ 0 \in 0 .. MaxFaults /\ 0 \in 0 .. MaxPackets /\ 0 \in 0 .. MaxSessions
      /\ WindowLength \in Nat \ {0}
  BY SizesAssumption DEF Times
<1>2. TableTyped
  BY DEF Init, TableTyped, Flows, InTable
<1>3. DiskTyped
  <2>1. << {} >> \in Seq(Files) /\ << {} >> # << >>
    BY DEF Files
  <2> QED
    BY <2>1 DEF Init, DiskTyped
<1>4. ClockTyped /\ CycleTyped
  BY <1>1 DEF Init, ClockTyped, CycleTyped
<1>5. Sessions
  BY <1>1 DEF Init, Sessions
<1> QED
  BY <1>2, <1>3, <1>4, <1>5, TypeParts DEF Sound

(* Windows are of the times and flows of the model.                         *)
LEMMA WindowTyped ==
  ASSUME NEW end \in Times, end >= WindowLength, NEW flows \in Files
  PROVE  /\ Window(end, flows) \in [from : Times, to : Times, flows : Files]
         /\ Window(end, flows).to = end /\ Window(end, flows).from + WindowLength = end
         /\ Window(end, flows).flows \subseteq flows
         /\ \A f \in Window(end, flows).flows :
              InWindow(f, Window(end, flows).from, Window(end, flows).to)
<1>1. end \in Nat /\ end <= MaxTime /\ MaxTime \in Nat /\ WindowLength \in Nat
  BY SizesAssumption DEF Times
<1> DEFINE from == end - WindowLength
           counted == {f \in flows : InWindow(f, from, end)}
<1>2. from \in Times /\ from + WindowLength = end
  BY <1>1 DEF Times
<1>3. counted \in Files /\ counted \subseteq flows /\ \A f \in counted : InWindow(f, from, end)
  BY DEF Files
<1>4. Window(end, flows) = [from |-> from, to |-> end, flows |-> counted]
  BY DEF Window
<1> HIDE DEF from, counted
<1> QED
  BY <1>2, <1>3, <1>4

LEMMA SoundNext == Sound /\ [Next]_vars => Sound'
<1> SUFFICES ASSUME Sound, [Next]_vars PROVE Sound'
  OBVIOUS
<1> USE DEF Sound
<1>1. TableTyped /\ DiskTyped /\ ClockTyped /\ CycleTyped /\ Sessions /\ TypeOK
  BY TypeParts
<1>0. ASSUME TableTyped', DiskTyped', ClockTyped', CycleTyped', Sessions' PROVE Sound'
  <2>1. TypeOK'
    BY <1>0 DEF TypeOK, TableTyped, DiskTyped, ClockTyped, CycleTyped, Files
  <2> QED
    BY <1>0, <2>1
<1>2. ASSUME UNCHANGED vars PROVE Sound'
  BY <1>1, <1>2 DEF vars, memory, disk, TypeOK, Sessions, InTable
<1>3. ASSUME Tick PROVE Sound'
  <2>1. now + 1 \in Times /\ now \in Nat /\ waiting \in Nat /\ now' = now + 1
    BY <1>1, <1>3, Numbers DEF Tick, Times
  <2>2. TableTyped' /\ DiskTyped' /\ CycleTyped' /\ ClockTyped'
    BY <1>1, <1>3, <2>1
       DEF Tick, memory, disk, TableTyped, DiskTyped, CycleTyped, ClockTyped, InTable
  <2>3. Sessions'
    BY <1>1, <1>3, <2>1, CycleFacts DEF Tick, memory, Sessions
  <2> QED
    BY <2>2, <2>3, <1>0
<1>4. ASSUME NEW k \in Keys, Observe(k) PROVE Sound'
  <2>1. arrived + 1 \in 1 .. MaxPackets /\ arrived' = arrived + 1
    BY <1>1, <1>4, Numbers DEF Observe
  <2>2. handling' \in Packets
    BY <1>1, <1>4, <2>1 DEF Observe, Extracted, Packets, ClockTyped
  <2>3. TableTyped' /\ DiskTyped' /\ CycleTyped'
    BY <1>1, <1>4, <2>2 DEF Observe, disk, TableTyped, DiskTyped, CycleTyped, InTable
  <2>4. ClockTyped' /\ Sessions'
    BY <1>1, <1>4, <2>1 DEF Observe, ClockTyped, Sessions
  <2> QED
    BY <2>3, <2>4, <1>0
<1>5. ASSUME NEW k \in Keys, FinalizeFlow(k) PROVE Sound'
  <2>1. /\ active'[k] = {} /\ \A j \in Keys \ {k} : active'[j] = active[j]
        /\ active' \in [Keys -> Flows] /\ sweeping' = sweeping \ {k}
        /\ \E d \in Days, m \in Nat : Filed(d, m, active[k])
    BY <1>1, <1>5, FinalizeFiles
  <2>2. /\ files' \in [Days -> Seq(Files)] /\ \A d \in Days : files'[d] # << >>
        /\ faults' \in 0 .. MaxFaults
    BY <2>1 DEF Filed
  <2>3. TableTyped'
    <3>1. sweeping' \subseteq InTable'
      BY <1>1, <2>1 DEF TableTyped, InTable
    <3>2. \A j \in Keys : \A p \in active'[j] : p.key = j
      BY <1>1, <2>1 DEF TableTyped
    <3> QED
      BY <1>1, <1>5, <2>1, <3>1, <3>2 DEF TableTyped, FinalizeFlow
  <2>4. DiskTyped' /\ CycleTyped' /\ ClockTyped'
    BY <1>1, <1>5, <2>2 DEF FinalizeFlow, DiskTyped, CycleTyped, ClockTyped
  <2>5. Sessions'
    BY <1>1, <1>5, <2>1 DEF FinalizeFlow, Sessions
  <2> QED
    BY <2>3, <2>4, <2>5, <1>0
<1>6. ASSUME RecordPacket PROVE Sound'
  <2>1. handling \in Packets /\ handling.key \in Keys
    BY <1>1, <1>6 DEF RecordPacket, TableTyped, Packets
  <2>2. PICK k \in Keys : k = handling.key
    BY <2>1
  <2>3. active' = [active EXCEPT ![k] = active[k] \cup {handling}]
    BY <1>6, <2>2 DEF RecordPacket, Updated
  <2>4. /\ active' \in [Keys -> Flows] /\ active'[k] = active[k] \cup {handling}
        /\ \A j \in Keys \ {k} : active'[j] = active[j]
    BY <1>1, <2>1, <2>3 DEF TableTyped, Flows
  <2>5. TableTyped'
    <3>1. sweeping' = {} /\ handling' = NoPacket
      BY <1>6 DEF RecordPacket, LockFree
    <3> QED
      BY <1>1, <2>2, <2>4, <3>1 DEF TableTyped
  <2>6. DiskTyped' /\ CycleTyped' /\ ClockTyped'
    BY <1>1, <1>6 DEF RecordPacket, disk, DiskTyped, CycleTyped, ClockTyped
  <2>7. Sessions'
    BY <1>1, <1>6 DEF RecordPacket, Sessions
  <2> QED
    BY <2>5, <2>6, <2>7, <1>0
<1>7. ASSUME BeginSweep PROVE Sound'
  <2>1. phase # "off" /\ sweeping' = IdleFlows /\ IdleFlows \subseteq InTable
    BY <1>7 DEF BeginSweep, Capturing, IdleFlows
  <2>2. TableTyped' /\ DiskTyped' /\ CycleTyped' /\ ClockTyped'
    BY <1>1, <1>7, <2>1
       DEF BeginSweep, disk, TableTyped, DiskTyped, CycleTyped, ClockTyped, InTable
  <2>3. Sessions'
    BY <1>1, <1>7, <2>1 DEF BeginSweep, Sessions
  <2> QED
    BY <2>2, <2>3, <1>0
<1>8. ASSUME BeginCycle PROVE Sound'
  <2>1. /\ session \in 1 .. MaxSessions /\ now \in Nat /\ now \in Times /\ now >= WindowLength
        /\ LocalDay(now) \in Days /\ session \in Nat
    BY <1>1, <1>8, Numbers DEF BeginCycle, Sessions, ClockTyped
  <2>2. cycle' = [session |-> session, end |-> now, day |-> LocalDay(now)]
    BY <1>8 DEF BeginCycle
  <2>3. TableTyped' /\ DiskTyped' /\ ClockTyped'
    BY <1>1, <1>8 DEF BeginCycle, memory, disk, TableTyped, DiskTyped, ClockTyped, InTable
  <2>4. CycleTyped'
    BY <2>1, <2>2 DEF CycleTyped
  <2>5. UNCHANGED <<now, session, phase, sweeping, waiting>>
    BY <1>8 DEF BeginCycle, memory
  <2>6. Sessions'
    BY <1>1, <2>1, <2>2, <2>5 DEF Sessions, LocalDay
  <2> QED
    BY <2>3, <2>4, <2>6, <1>0
<1>9. ASSUME EndCycle PROVE Sound'
  <2>1. /\ cycle.end \in Times /\ cycle.day \in Days /\ cycle.end >= WindowLength
        /\ cycle' = NoCycle /\ waiting' \in {now, waiting} /\ (Fault \/ NoFault)
        /\ UNCHANGED <<now, arrived, session, phase, memory, files>>
    BY <1>1, <1>9, CycleFacts DEF EndCycle, Sessions
  <2>2. Last(files[cycle.day]) \in Files /\ {} \in Files
    <3>1. PICK fs \in Seq(Files) : fs = files[cycle.day] /\ fs # << >>
      BY <1>1, <2>1 DEF DiskTyped
    <3>2. Last(fs) \in Files
      BY <3>1 DEF Last
    <3> QED
      BY <3>1, <3>2 DEF Files
  <2>3. \A flows \in Files :
          Window(cycle.end, flows) \in [from : Times, to : Times, flows : Files]
    BY <2>1, WindowTyped
  <2>4. windows' \subseteq [from : Times, to : Times, flows : Files]
    BY <1>1, <1>9, <2>2, <2>3 DEF EndCycle, DiskTyped
  <2>5. faults' \in 0 .. MaxFaults
    BY <1>1, <2>1, FaultTyped
  <2>6. TableTyped' /\ DiskTyped' /\ ClockTyped' /\ CycleTyped'
    BY <1>1, <2>1, <2>4, <2>5
       DEF memory, TableTyped, DiskTyped, CycleTyped, ClockTyped, InTable
  <2>7. Sessions'
    BY <1>1, <2>1, Numbers DEF Sessions, memory
  <2> QED
    BY <2>6, <2>7, <1>0
<1>10. ASSUME StartSession PROVE Sound'
  <2>1. /\ session' = session + 1 /\ session + 1 \in 0 .. MaxSessions /\ session \in Nat
        /\ phase = "off" /\ phase' = "up" /\ sweeping = {} /\ sweeping' = {}
        /\ active' = [j \in Keys |-> {}] /\ handling' = NoPacket
        /\ UNCHANGED <<now, faults, arrived, waiting, cycle, disk>>
    BY <1>1, <1>10, Numbers DEF StartSession, Sessions
  <2>2. TableTyped' /\ DiskTyped' /\ CycleTyped' /\ ClockTyped'
    BY <1>1, <2>1
       DEF disk, TableTyped, DiskTyped, CycleTyped, ClockTyped, Flows, InTable
  <2>3. Sessions'
    BY <1>1, <2>1, CycleFacts DEF Sessions
  <2> QED
    BY <2>2, <2>3, <1>0
<1>11. ASSUME Register \/ EndSession \/ StopObserver PROVE Sound'
  <2>1. /\ phase # "off" /\ phase' \in {"registered", "stopping", "flushing"}
        /\ waiting' \in {waiting, now} /\ (Fault \/ NoFault)
        /\ UNCHANGED <<now, arrived, session, memory, cycle, disk>>
    BY <1>11 DEF Register, EndSession, StopObserver, NoFault
  <2>2. faults' \in 0 .. MaxFaults
    BY <1>1, <2>1, FaultTyped
  <2>3. TableTyped' /\ DiskTyped' /\ CycleTyped' /\ ClockTyped'
    BY <1>1, <2>1, <2>2
       DEF memory, disk, TableTyped, DiskTyped, CycleTyped, ClockTyped, InTable
  <2>4. Sessions'
    BY <1>1, <2>1, Numbers DEF Sessions
  <2> QED
    BY <2>3, <2>4, <1>0
<1>12. ASSUME FlushAll PROVE Sound'
  <2>1. TableTyped' /\ DiskTyped' /\ CycleTyped' /\ ClockTyped'
    BY <1>1, <1>12
       DEF FlushAll, disk, TableTyped, DiskTyped, CycleTyped, ClockTyped, InTable
  <2>2. Sessions'
    BY <1>1, <1>12 DEF FlushAll, Sessions
  <2> QED
    BY <2>1, <2>2, <1>0
<1>13. ASSUME Stopped PROVE Sound'
  <2>1. TableTyped' /\ DiskTyped' /\ CycleTyped' /\ ClockTyped'
    BY <1>1, <1>13
       DEF Stopped, memory, disk, TableTyped, DiskTyped, CycleTyped, ClockTyped, InTable
  <2>2. Sessions'
    BY <1>1, <1>13 DEF Stopped, LockFree, memory, Sessions
  <2> QED
    BY <2>1, <2>2, <1>0
<1>14. ASSUME Crash PROVE Sound'
  <2>1. faults' \in 0 .. MaxFaults
    BY <1>1, <1>14, FaultTyped DEF Crash
  <2>2. TableTyped' /\ DiskTyped' /\ CycleTyped' /\ ClockTyped'
    BY <1>1, <1>14, <2>1
       DEF Crash, disk, TableTyped, DiskTyped, CycleTyped, ClockTyped, Flows, InTable
  <2>3. Sessions'
    BY <1>1, <1>14 DEF Crash, Sessions
  <2> QED
    BY <2>2, <2>3, <1>0
<1> QED
  BY <1>2, <1>3, <1>4, <1>5, <1>6, <1>7, <1>8, <1>9, <1>10, <1>11, <1>12, <1>13, <1>14
     DEF Next

(* Every variable stays in its domain.                                      *)
THEOREM TypeCorrect == Spec => []TypeOK
<1>1. Sound => TypeOK
  BY DEF Sound
<1> QED
  BY <1>1, SoundInit, SoundNext, PTL DEF Spec

-----------------------------------------------------------------------------
(* The windows lie apart: each ends before the next begins, since the one   *)
(* being closed ends a whole interval after the last and the next is waited *)
(* for from the later of the two.                                           *)
Apart ==
  /\ \A w \in windows : /\ w.from + WindowLength = w.to /\ w.to <= now
                        /\ \A f \in w.flows : InWindow(f, w.from, w.to)
  /\ \A v, w \in windows : v # w => v.to <= w.from \/ w.to <= v.from
  /\ cycle # NoCycle => \A w \in windows : w.to + WindowLength <= cycle.end
  /\ phase = "registered" =>
       IF cycle = NoCycle THEN \A w \in windows : w.to <= waiting
       ELSE cycle.session # session => cycle.end <= waiting

LEMMA WindowTimes ==
  ASSUME TypeOK, NEW w \in windows
  PROVE  w.to \in Nat /\ w.from \in Nat /\ w.flows \in Files
<1>1. w \in [from : Times, to : Times, flows : Files]
  BY DEF TypeOK, Files
<1>2. w.to \in Times /\ w.from \in Times /\ w.flows \in Files
  BY <1>1
<1> QED
  BY <1>2 DEF Times

LEMMA ApartInit == Init => Apart
BY DEF Init, Apart

(* A step that closes no window.                                            *)
LEMMA ApartKept ==
  ASSUME Sound, Apart, UNCHANGED <<windows, cycle>>,
         now' \in Nat, now <= now',
         phase' = "registered" => phase = "registered" /\ UNCHANGED <<waiting, session>>
  PROVE  Apart'
<1>1. \A w \in windows : w.to <= now'
  BY Numbers, WindowTimes DEF Sound, Apart
<1> QED
  BY <1>1 DEF Apart, InWindow

LEMMA ApartNext == Sound /\ Apart /\ [Next]_vars => Apart'
<1> SUFFICES ASSUME Sound, Apart, [Next]_vars PROVE Apart'
  OBVIOUS
<1>1. TypeOK /\ Sessions /\ now \in Nat /\ WindowLength \in Nat \ {0} /\ waiting \in Nat
  BY Numbers DEF Sound
<1>2. CASE UNCHANGED vars
  BY <1>1, <1>2, ApartKept DEF vars, memory, disk
<1>3. CASE Tick
  BY <1>1, <1>3, ApartKept DEF Tick, memory, disk
<1>4. ASSUME NEW k \in Keys, Observe(k) \/ FinalizeFlow(k) PROVE Apart'
  BY <1>1, <1>4, ApartKept DEF Observe, FinalizeFlow, disk
<1>5. CASE RecordPacket \/ BeginSweep
  BY <1>1, <1>5, ApartKept DEF RecordPacket, BeginSweep, disk
<1>6. CASE EndSession \/ StopObserver
  BY <1>1, <1>6, ApartKept DEF EndSession, StopObserver, disk
<1>7. CASE FlushAll \/ Stopped \/ StartSession
  BY <1>1, <1>7, ApartKept DEF FlushAll, Stopped, StartSession, disk
<1>8. CASE Crash
  <2>1. cycle' = NoCycle /\ phase' = "off" /\ UNCHANGED <<now, windows>>
    BY <1>8 DEF Crash, disk
  <2> QED
    BY <2>1 DEF Apart, InWindow
<1>9. CASE Register
  <2>1. phase' = "registered" /\ waiting' = now /\ UNCHANGED <<now, session, cycle, windows>>
    BY <1>9 DEF Register, disk
  <2>2. cycle # NoCycle => cycle.end <= now
    BY <1>1 DEF Sessions
  <2> QED
    BY <2>1, <2>2 DEF Apart, InWindow
<1>10. CASE BeginCycle
  <2>1. /\ phase = "registered" /\ cycle = NoCycle /\ now >= waiting + WindowLength
        /\ cycle' = [session |-> session, end |-> now, day |-> LocalDay(now)]
        /\ UNCHANGED <<now, session, phase, windows>>
    BY <1>10 DEF BeginCycle, disk
  <2>2. cycle'.end = now /\ cycle'.session = session
    BY <2>1
  <2>3. \A w \in windows : w.to + WindowLength <= now
    <3> SUFFICES ASSUME NEW w \in windows PROVE w.to + WindowLength <= now
      OBVIOUS
    <3>1. w.to <= waiting /\ w.to \in Nat
      BY <1>1, <2>1, WindowTimes DEF Apart
    <3> QED
      BY <1>1, <2>1, <3>1
  <2>4. cycle' # NoCycle
    <3>1. session \in 1 .. MaxSessions
      BY <1>1, <2>1, Numbers DEF Sessions
    <3>2. NoCycle.session = 0
      BY DEF NoCycle
    <3> QED
      BY <2>2, <3>1, <3>2, <1>1, Numbers
  <2> QED
    BY <2>1, <2>2, <2>3, <2>4 DEF Apart, InWindow
<1>11. CASE EndCycle
  <2>1. /\ cycle # NoCycle /\ cycle' = NoCycle
        /\ waiting' = IF cycle.session = session THEN now ELSE waiting
        /\ UNCHANGED <<now, session, phase>>
    BY <1>11 DEF EndCycle
  <2>2. cycle.end \in Times /\ cycle.end \in Nat /\ cycle.end <= now /\ cycle.end >= WindowLength
    BY <1>1, <2>1, CycleFacts, TypeParts DEF Sessions
  <2>3. cycle.day \in Days
    BY <1>1, <2>1, CycleFacts, TypeParts
  <2>4. Last(files[cycle.day]) \in Files /\ {} \in Files
    <3>1. PICK fs \in Seq(Files) : fs = files[cycle.day] /\ fs # << >>
      BY <1>1, <2>3 DEF TypeOK, Files
    <3>2. Last(fs) \in Files
      BY <3>1 DEF Last
    <3> QED
      BY <3>1, <3>2 DEF Files
  <2>5. PICK flows \in Files : windows' \subseteq windows \cup {Window(cycle.end, flows)}
    BY <1>11, <2>4 DEF EndCycle
  <2>6. PICK new : new = Window(cycle.end, flows)
    OBVIOUS
  <2>7. /\ new.to = cycle.end /\ new.from + WindowLength = cycle.end /\ new.from \in Nat
        /\ \A f \in new.flows : InWindow(f, new.from, new.to)
    <3>1. /\ new \in [from : Times, to : Times, flows : Files]
          /\ new.to = cycle.end /\ new.from + WindowLength = cycle.end
          /\ \A f \in new.flows : InWindow(f, new.from, new.to)
      BY <2>2, <2>6, WindowTyped
    <3>2. new.from \in Times
      BY <3>1
    <3> QED
      BY <3>1, <3>2 DEF Times
  <2>8. \A w \in windows : w.to <= new.from
    <3> SUFFICES ASSUME NEW w \in windows PROVE w.to <= new.from
      OBVIOUS
    <3>1. w.to + WindowLength <= cycle.end /\ w.to \in Nat
      BY <1>1, <2>1, WindowTimes DEF Apart
    <3> QED
      BY <1>1, <2>2, <2>7, <3>1
  <2>9. \A w \in windows' : w \in windows \/ w = new
    BY <2>5, <2>6
  <2>10. \A w \in windows' : /\ w.from + WindowLength = w.to /\ w.to <= now
                             /\ \A f \in w.flows : InWindow(f, w.from, w.to)
    BY <2>2, <2>7, <2>9 DEF Apart
  <2>11. \A v, w \in windows' : v # w => v.to <= w.from \/ w.to <= v.from
    BY <2>8, <2>9 DEF Apart
  <2>12. phase = "registered" => \A w \in windows' : w.to <= waiting'
    <3> SUFFICES ASSUME phase = "registered", NEW w \in windows' PROVE w.to <= waiting'
      OBVIOUS
    <3>1. CASE cycle.session = session
      BY <2>1, <2>10, <3>1
    <3>2. CASE cycle.session # session
      <4>1. cycle.end <= waiting /\ waiting' = waiting
        BY <2>1, <3>2 DEF Apart
      <4>2. w.to <= cycle.end
        <5>1. CASE w = new
          BY <2>2, <2>7, <5>1
        <5>2. CASE w \in windows
          <6>1. w.to + WindowLength <= cycle.end /\ w.to \in Nat
            BY <1>1, <2>1, <5>2, WindowTimes DEF Apart
          <6> QED
            BY <1>1, <2>2, <6>1
        <5> QED
          BY <2>9, <5>1, <5>2
      <4>3. w.to \in Nat
        BY <1>1, <2>2, <2>7, <2>9, WindowTimes
      <4> QED
        BY <1>1, <2>2, <4>1, <4>2, <4>3
    <3> QED
      BY <3>1, <3>2
  <2> QED
    BY <2>1, <2>10, <2>11, <2>12 DEF Apart, InWindow
<1> QED
  BY <1>2, <1>3, <1>4, <1>5, <1>6, <1>7, <1>8, <1>9, <1>10, <1>11 DEF Next

LEMMA ApartCounts == Sound /\ Apart => CountedOnce
<1> SUFFICES ASSUME Sound, Apart, NEW v \in windows, NEW w \in windows, v # w,
                    NEW f \in v.flows, f \in w.flows
             PROVE  FALSE
  BY DEF CountedOnce
<1>1. InWindow(f, v.from, v.to) /\ InWindow(f, w.from, w.to)
  BY DEF Apart
<1>2. v.to <= w.from \/ w.to <= v.from
  BY DEF Apart
<1>3. v.to \in Nat /\ v.from \in Nat /\ w.to \in Nat /\ w.from \in Nat /\ v.flows \in Files
  BY WindowTimes DEF Sound
<1>4. LastSeen(f) \in Nat
  BY <1>3, LastSeenIn, SizesAssumption DEF Files, Times
<1> QED
  BY <1>1, <1>2, <1>3, <1>4 DEF InWindow

(* No flow adds to the activity of two windows, whatever sessions end and   *)
(* begin in between.                                                        *)
THEOREM FlowsAreCountedOnce == Spec => []CountedOnce
BY SoundInit, SoundNext, ApartInit, ApartNext, ApartCounts, PTL DEF Spec

-----------------------------------------------------------------------------
(* Where a packet is.  It is in one place at most: one that is being        *)
(* handled is in no flow, and a flow is in the table or in a file.  What    *)
(* has not arrived is nowhere.                                              *)
Tabled(k, i) == i \in Ids(active[k])

AtOnce ==
  \A i \in 1 .. MaxPackets :
    /\ \A p, q \in Places(i) : p = q
    /\ \A k, j \in Keys : Tabled(k, i) /\ Tabled(j, i) => k = j
    /\ \A k \in Keys : Tabled(k, i) => Places(i) = {} /\ handling.id # i
    /\ handling.id = i => Places(i) = {}
    /\ i > arrived => Places(i) = {} /\ handling.id # i /\ \A k \in Keys : ~ Tabled(k, i)

(* While nothing failed, every packet that arrived is in a place, and the   *)
(* phases of the end of a session leave none behind.                        *)
Somewhere(i) == Places(i) # {} \/ handling.id = i \/ \E k \in Keys : Tabled(k, i)

NoneLost ==
  faults = 0 =>
    /\ \A i \in 1 .. arrived : Somewhere(i)
    /\ phase \in {"flushing", "flushed", "off"} => handling = NoPacket
    /\ phase = "flushed" => InTable \subseteq sweeping
    /\ phase = "off" => InTable = {}

LEMMA InPlaces ==
  ASSUME NEW i, NEW d \in Days, NEW n \in DOMAIN files[d], NEW f \in files[d][n], i \in Ids(f)
  PROVE  <<d, n, f>> \in Places(i)
<1>1. f \in Holding(files[d][n], i)
  BY DEF Holding
<1>2. <<d, n, f>> \in UNION {{<<d, l, g>> : g \in Holding(files[d][l], i)} : l \in DOMAIN files[d]}
  BY <1>1
<1> QED
  BY <1>2 DEF Places

LEMMA OfPlaces ==
  ASSUME NEW i, NEW x \in Places(i)
  PROVE  \E d \in Days : \E n \in DOMAIN files[d] : \E f \in files[d][n] :
           x = <<d, n, f>> /\ i \in Ids(f)
<1>1. PICK d \in Days :
        x \in UNION {{<<d, n, f>> : f \in Holding(files[d][n], i)} : n \in DOMAIN files[d]}
  BY DEF Places
<1>2. PICK n \in DOMAIN files[d] : x \in {<<d, n, f>> : f \in Holding(files[d][n], i)}
  BY <1>1
<1> QED
  BY <1>2 DEF Holding

(* A stored flow adds its own place to those of its packets; unless         *)
(* something failed it has that place, and every other packet keeps its.    *)
LEMMA FiledPlaces ==
  ASSUME NEW d \in Days, NEW m, NEW flow, Filed(d, m, flow), NEW i
  PROVE  /\ \A x \in Places(i)' : x \in Places(i) \/ (x = <<d, m, flow>> /\ i \in Ids(flow))
         /\ faults' = 0 /\ i \in Ids(flow) => Places(i)' # {}
         /\ faults' = 0 /\ Places(i) # {} => Places(i)' # {}
<1>1. ASSUME NEW x \in Places(i)'
      PROVE  x \in Places(i) \/ (x = <<d, m, flow>> /\ i \in Ids(flow))
  <2>1. PICK e \in Days : \E n \in DOMAIN files'[e] : \E f \in files'[e][n] :
               x = <<e, n, f>> /\ i \in Ids(f)
    <3>1. PICK e \in Days :
            x \in UNION {{<<e, n, f>> : f \in Holding(files'[e][n], i)} : n \in DOMAIN files'[e]}
      BY <1>1 DEF Places
    <3>2. PICK n \in DOMAIN files'[e] : x \in {<<e, n, f>> : f \in Holding(files'[e][n], i)}
      BY <3>1
    <3> QED
      BY <3>2 DEF Holding
  <2>3. PICK n \in DOMAIN files'[e] : \E f \in files'[e][n] : x = <<e, n, f>> /\ i \in Ids(f)
    BY <2>1
  <2>2. PICK f \in files'[e][n] : x = <<e, n, f>> /\ i \in Ids(f)
    BY <2>3
  <2>4. CASE e # d
    <3>1. files'[e] = files[e]
      BY <2>4 DEF Filed
    <3> QED
      BY <2>2, <3>1, InPlaces
  <2>5. CASE e = d
    <3>1. (n \in DOMAIN files[d] /\ f \in files[d][n]) \/ (n = m /\ f = flow)
      BY <2>2, <2>5 DEF Filed
    <3> QED
      BY <2>2, <2>5, <3>1, InPlaces
  <2> QED
    BY <2>4, <2>5
<1>2. ASSUME NEW e \in Days, NEW n \in DOMAIN files'[e], NEW f \in files'[e][n], i \in Ids(f)
      PROVE  Places(i)' # {}
  <2>1. f \in Holding(files'[e][n], i)
    BY <1>2 DEF Holding
  <2>2. <<e, n, f>> \in
          UNION {{<<e, l, g>> : g \in Holding(files'[e][l], i)} : l \in DOMAIN files'[e]}
    BY <2>1
  <2>3. <<e, n, f>> \in
          UNION {UNION {{<<c, l, g>> : g \in Holding(files'[c][l], i)} : l \in DOMAIN files'[c]} :
              c \in Days}
    BY <2>2
  <2> QED
    BY <2>3 DEF Places, Holding
<1>3. faults' = 0 /\ i \in Ids(flow) => Places(i)' # {}
  BY <1>2 DEF Filed
<1>4. ASSUME faults' = 0, Places(i) # {} PROVE Places(i)' # {}
  <2>1. PICK e \in Days : \E n \in DOMAIN files[e] : \E f \in files[e][n] : i \in Ids(f)
    BY <1>4, OfPlaces
  <2>2. PICK n \in DOMAIN files[e] : \E f \in files[e][n] : i \in Ids(f)
    BY <2>1
  <2>3. PICK f \in files[e][n] : i \in Ids(f)
    BY <2>2
  <2>4. n \in DOMAIN files'[e] /\ f \in files'[e][n]
    <3>1. CASE e = d
      BY <1>4, <2>3, <3>1 DEF Filed
    <3>2. CASE e # d
      BY <2>3, <3>2 DEF Filed
    <3> QED
      BY <3>1, <3>2
  <2> QED
    BY <1>2, <2>3, <2>4
<1> QED
  BY <1>1, <1>3, <1>4

LEMMA KeptInit == Init => AtOnce /\ NoneLost
<1> SUFFICES ASSUME Init PROVE AtOnce /\ NoneLost
  OBVIOUS
<1>1. \A i : Places(i) = {}
  <2> SUFFICES ASSUME NEW i, NEW x \in Places(i) PROVE FALSE
    OBVIOUS
  <2>1. PICK d \in Days : \E n \in DOMAIN files[d] : files[d][n] # {}
    BY OfPlaces
  <2>2. files[d] = << {} >>
    BY DEF Init
  <2> QED
    BY <2>1, <2>2
<1>2. \A k \in Keys : active[k] = {}
  BY DEF Init
<1>3. \A i \in 1 .. MaxPackets : handling.id # i /\ \A k \in Keys : ~ Tabled(k, i)
  BY <1>2, SizesAssumption DEF Init, NoPacket, Tabled, Ids
<1>4. AtOnce
  BY <1>1, <1>3 DEF AtOnce
<1>5. NoneLost
  BY <1>2, SizesAssumption DEF Init, NoneLost, InTable
<1> QED
  BY <1>4, <1>5

(* A step that moves no packet.                                             *)
LEMMA Unmoved ==
  ASSUME AtOnce, NoneLost, UNCHANGED <<arrived, active, handling, files>>,
         faults' = 0 => faults = 0,
         faults' = 0 /\ phase' \in {"flushing", "flushed", "off"} => handling = NoPacket,
         faults' = 0 /\ phase' = "flushed" => InTable \subseteq sweeping',
         faults' = 0 /\ phase' = "off" => InTable = {}
  PROVE  AtOnce' /\ NoneLost'
<1>1. \A i : Places(i)' = Places(i)
  BY DEF Places
<1>2. \A i, k : Tabled(k, i)' = Tabled(k, i)
  BY DEF Tabled, Ids
<1>3. InTable' = InTable
  BY DEF InTable
<1>4. AtOnce'
  BY <1>1, <1>2 DEF AtOnce
<1>5. NoneLost'
  <2>1. \A i : Somewhere(i)' = Somewhere(i)
    BY <1>1, <1>2 DEF Somewhere
  <2> QED
    BY <1>3, <2>1 DEF NoneLost
<1> QED
  BY <1>4, <1>5

LEMMA KeptNext == Sound /\ AtOnce /\ NoneLost /\ [Next]_vars => AtOnce' /\ NoneLost'
<1> SUFFICES ASSUME Sound, AtOnce, NoneLost, [Next]_vars PROVE AtOnce' /\ NoneLost'
  OBVIOUS
<1>1. /\ TypeOK /\ Sessions /\ faults \in Nat /\ arrived \in Nat
      /\ MaxPackets \in Nat /\ arrived <= MaxPackets
  BY Numbers DEF Sound
<1>2. CASE UNCHANGED vars
  BY <1>2, Unmoved DEF vars, memory, disk, NoneLost
<1>3. CASE Tick \/ BeginCycle
  BY <1>3, Unmoved DEF Tick, BeginCycle, memory, disk, NoneLost
<1>4. CASE Register \/ EndSession
  BY <1>4, Unmoved DEF Register, EndSession, memory, disk
<1>5. CASE EndCycle
  <2>1. faults' >= faults /\ UNCHANGED <<arrived, phase, memory, files>>
    BY <1>1, <1>5, FaultTyped DEF EndCycle
  <2>2. faults' = 0 => faults = 0
    BY <1>1, <2>1
  <2> QED
    BY <2>1, <2>2, Unmoved DEF memory, NoneLost
<1>6. CASE StopObserver
  <2>1. /\ phase' = "flushing" /\ UNCHANGED <<arrived, memory, disk>>
        /\ IF handling = NoPacket THEN faults' = faults ELSE faults' = faults + 1
    BY <1>6 DEF StopObserver, NoFault, Fault
  <2>2. faults' = 0 => faults = 0 /\ handling = NoPacket
    BY <1>1, <2>1
  <2> QED
    BY <2>1, <2>2, Unmoved DEF memory, disk
<1>7. CASE BeginSweep
  <2>1. /\ phase' \notin {"flushed", "off"}
        /\ UNCHANGED <<faults, arrived, phase, active, handling, files>>
    BY <1>7 DEF BeginSweep, Capturing, disk
  <2> QED
    BY <2>1, Unmoved DEF NoneLost
<1>8. CASE FlushAll
  <2>1. /\ phase = "flushing" /\ phase' = "flushed" /\ sweeping' = InTable
        /\ UNCHANGED <<faults, arrived, active, handling, files>>
    BY <1>8 DEF FlushAll, disk
  <2> QED
    BY <2>1, Unmoved DEF NoneLost
<1>9. CASE Stopped
  <2>1. /\ phase = "flushed" /\ phase' = "off" /\ sweeping = {}
        /\ UNCHANGED <<faults, arrived, active, handling, files>>
    BY <1>9 DEF Stopped, LockFree, memory, disk
  <2> QED
    BY <2>1, Unmoved DEF NoneLost
<1>10. CASE StartSession \/ Crash
  <2>1. /\ active' = [k \in Keys |-> {}] /\ handling' = NoPacket
        /\ UNCHANGED <<arrived, files>>
        /\ (phase = "off" /\ phase' = "up" /\ faults' = faults) \/ faults' = faults + 1
    BY <1>10 DEF StartSession, Crash, Fault, disk
  <2>2. \A i : Places(i)' = Places(i)
    BY <2>1 DEF Places
  <2>3. \A i, k : k \in Keys => ~ Tabled(k, i)'
    BY <2>1 DEF Tabled, Ids
  <2>4. \A i \in 1 .. MaxPackets : handling'.id # i
    BY <1>1, <2>1 DEF NoPacket
  <2>5. AtOnce'
    BY <2>1, <2>2, <2>3, <2>4 DEF AtOnce
  <2>6. ASSUME faults' = 0 PROVE faults = 0 /\ phase' = "up" /\ handling = NoPacket /\ InTable = {}
    BY <1>1, <2>1, <2>6 DEF NoneLost
  <2>7. ASSUME faults' = 0, NEW i \in 1 .. arrived' PROVE Somewhere(i)'
    <3>1. i \in 1 .. arrived /\ i # 0
      BY <1>1, <2>1, <2>7
    <3>2. Somewhere(i)
      BY <2>6, <2>7, <3>1 DEF NoneLost
    <3>3. \A k \in Keys : active[k] = {}
      BY <2>6, <2>7 DEF InTable
    <3>4. Places(i) # {}
      BY <2>6, <2>7, <3>1, <3>2, <3>3 DEF Somewhere, Tabled, Ids, NoPacket
    <3> QED
      BY <2>2, <3>4 DEF Somewhere
  <2>8. NoneLost'
    BY <2>6, <2>7 DEF NoneLost
  <2> QED
    BY <2>5, <2>8
<1>11. ASSUME NEW k \in Keys, Observe(k) PROVE AtOnce' /\ NoneLost'
  <2>1. /\ arrived' = arrived + 1 /\ arrived + 1 \in 1 .. MaxPackets
        /\ handling = NoPacket /\ handling'.id = arrived + 1
        /\ phase' = phase /\ phase \notin {"flushing", "flushed", "off"}
        /\ UNCHANGED <<faults, active, sweeping, files>>
    BY <1>1, <1>11 DEF Observe, Capturing, Extracted, disk
  <2>2. \A i : Places(i)' = Places(i)
    BY <2>1 DEF Places
  <2>3. \A i, j : Tabled(j, i)' = Tabled(j, i)
    BY <2>1 DEF Tabled, Ids
  <2>4. arrived + 1 > arrived /\ \A i \in 1 .. MaxPackets :
          (i > arrived + 1 => i > arrived) /\ (i > arrived + 1 => i # arrived + 1)
    BY <1>1
  <2>5. Places(arrived + 1) = {} /\ \A j \in Keys : ~ Tabled(j, arrived + 1)
    BY <2>1, <2>4 DEF AtOnce
  <2>6. AtOnce'
    BY <2>1, <2>2, <2>3, <2>4, <2>5 DEF AtOnce
  <2>7. ASSUME faults = 0, NEW i \in 1 .. arrived' PROVE Somewhere(i)'
    <3>1. i \in 1 .. arrived \/ i = arrived + 1
      BY <1>1, <2>1
    <3>2. CASE i = arrived + 1
      BY <2>1, <3>2 DEF Somewhere
    <3>3. CASE i \in 1 .. arrived
      <4>1. Somewhere(i) /\ i # 0
        BY <1>1, <2>7, <3>3 DEF NoneLost
      <4> QED
        BY <2>1, <2>2, <2>3, <4>1 DEF Somewhere, NoPacket
    <3> QED
      BY <3>1, <3>2, <3>3
  <2>8. NoneLost'
    BY <2>1, <2>7 DEF NoneLost
  <2> QED
    BY <2>6, <2>8
<1>12. CASE RecordPacket
  <2>1. /\ handling # NoPacket /\ handling' = NoPacket /\ handling.key \in Keys
        /\ handling.id \in 1 .. MaxPackets
        /\ active' = [active EXCEPT ![handling.key] = @ \cup {handling}]
        /\ UNCHANGED <<faults, arrived, phase, sweeping, files>>
    BY <1>1, <1>12 DEF RecordPacket, Updated, TypeOK, Packets, disk
  <2>2. PICK h \in 1 .. MaxPackets : h = handling.id
    BY <2>1
  <2>3. PICK key \in Keys : key = handling.key
    BY <2>1
  <2>4. active'[key] = active[key] \cup {handling} /\ \A j \in Keys \ {key} : active'[j] = active[j]
    BY <1>1, <2>1, <2>3 DEF TypeOK
  <2>5. \A i : Places(i)' = Places(i)
    BY <2>1 DEF Places
  <2>6. \A i, j : j \in Keys => (Tabled(j, i)' <=> Tabled(j, i) \/ (j = key /\ i = h))
    BY <2>2, <2>4 DEF Tabled, Ids
  <2>7. Places(h) = {} /\ h <= arrived /\ \A j \in Keys : ~ Tabled(j, h)
    BY <1>1, <2>2 DEF AtOnce
  <2>8. \A i \in 1 .. MaxPackets : handling'.id # i
    BY <1>1, <2>1 DEF NoPacket
  <2>9. ~ (h > arrived)
    BY <1>1, <2>7
  <2>10. AtOnce'
    BY <2>1, <2>5, <2>6, <2>7, <2>8, <2>9 DEF AtOnce
  <2>11. ASSUME faults = 0, NEW i \in 1 .. arrived PROVE Somewhere(i)'
    <3>1. Somewhere(i)
      BY <2>11 DEF NoneLost
    <3>2. handling.id = i => Tabled(key, i)'
      BY <2>2, <2>6
    <3> QED
      BY <2>5, <2>6, <3>1, <3>2 DEF Somewhere
  <2>12. faults = 0 => phase \notin {"flushing", "flushed", "off"}
    BY <2>1 DEF NoneLost
  <2> QED
    BY <2>1, <2>10, <2>11, <2>12 DEF NoneLost
<1>13. ASSUME NEW k \in Keys, FinalizeFlow(k) PROVE AtOnce' /\ NoneLost'
  <2>1. /\ k \in sweeping /\ UNCHANGED <<arrived, phase, handling>>
        /\ active'[k] = {} /\ \A j \in Keys \ {k} : active'[j] = active[j]
        /\ sweeping' = sweeping \ {k}
    BY <1>1, <1>13, FinalizeFiles DEF FinalizeFlow
  <2>2. PICK d \in Days, m \in Nat : Filed(d, m, active[k])
    BY <1>1, <1>13, FinalizeFiles
  <2>3. \A i : /\ \A x \in Places(i)' : x \in Places(i) \/ (x = <<d, m, active[k]>> /\ Tabled(k, i))
               /\ faults' = 0 /\ Tabled(k, i) => Places(i)' # {}
               /\ faults' = 0 /\ Places(i) # {} => Places(i)' # {}
    BY <2>2, FiledPlaces DEF Tabled
  <2>4. \A i, j : j \in Keys => (Tabled(j, i)' <=> Tabled(j, i) /\ j # k)
    BY <2>1 DEF Tabled, Ids
  <2>5. faults' = 0 => faults = 0
    BY <1>1, <2>2 DEF Filed
  <2>6. AtOnce'
    <3> SUFFICES ASSUME NEW i \in 1 .. MaxPackets
                 PROVE  /\ \A p, q \in Places(i)' : p = q
                        /\ \A a, j \in Keys : Tabled(a, i)' /\ Tabled(j, i)' => a = j
                        /\ \A a \in Keys : Tabled(a, i)' => Places(i)' = {} /\ handling'.id # i
                        /\ handling'.id = i => Places(i)' = {}
                        /\ i > arrived' =>
                             Places(i)' = {} /\ handling'.id # i /\ \A a \in Keys : ~ Tabled(a, i)'
      BY DEF AtOnce
    <3>1. \A p, q \in Places(i)' : p = q
      BY <2>3 DEF AtOnce
    <3>2. \A a, j \in Keys : Tabled(a, i)' /\ Tabled(j, i)' => a = j
      BY <2>4 DEF AtOnce
    <3>3. \A a \in Keys : Tabled(a, i)' => Places(i)' = {} /\ handling'.id # i
      BY <2>1, <2>3, <2>4 DEF AtOnce
    <3>4. handling'.id = i => Places(i)' = {}
      BY <2>1, <2>3 DEF AtOnce
    <3>5. i > arrived' => Places(i)' = {} /\ handling'.id # i /\ \A a \in Keys : ~ Tabled(a, i)'
      BY <2>1, <2>3, <2>4 DEF AtOnce
    <3> QED
      BY <3>1, <3>2, <3>3, <3>4, <3>5
  <2>7. ASSUME faults' = 0, NEW i \in 1 .. arrived PROVE Somewhere(i)'
    <3>1. Somewhere(i)
      BY <2>5, <2>7 DEF NoneLost
    <3> QED
      BY <2>1, <2>3, <2>4, <2>7, <3>1 DEF Somewhere
  <2>8. InTable' = InTable \ {k} /\ (phase = "off" => sweeping = {})
    BY <1>1, <2>1 DEF InTable, Sessions
  <2>9. NoneLost'
    BY <2>1, <2>5, <2>7, <2>8 DEF NoneLost
  <2> QED
    BY <2>6, <2>9
<1> QED
  BY <1>2, <1>3, <1>4, <1>5, <1>6, <1>7, <1>8, <1>9, <1>10, <1>11, <1>12, <1>13 DEF Next

LEMMA HowMany ==
  ASSUME NEW S, \A p, q \in S : p = q
  PROVE  Cardinality(S) = IF S = {} THEN 0 ELSE 1
<1>1. CASE S = {}
  BY <1>1, FS_EmptySet
<1>2. CASE S # {}
  <2>1. PICK x \in S : TRUE
    BY <1>2
  <2>2. S = {x}
    BY <2>1
  <2> QED
    BY <1>2, <2>2, FS_Singleton
<1> QED
  BY <1>1, <1>2

LEMMA KeptIsKept == Sound /\ AtOnce /\ NoneLost => PacketsAreKept
<1> SUFFICES ASSUME Sound, AtOnce, NoneLost, NEW i \in 1 .. arrived
             PROVE  LET places == Cardinality(Places(i))
                                  + Cardinality({k \in Keys : i \in Ids(active[k])})
                                  + (IF handling.id = i THEN 1 ELSE 0)
                    IN  places <= 1 /\ (faults = 0 => places = 1)
  BY DEF PacketsAreKept
<1> DEFINE T == {k \in Keys : i \in Ids(active[k])}
<1>1. i \in 1 .. MaxPackets
  BY Numbers DEF Sound
<1>2. /\ \A p, q \in Places(i) : p = q
      /\ \A p, q \in T : p = q
      /\ T # {} => Places(i) = {} /\ handling.id # i
      /\ handling.id = i => Places(i) = {}
  BY <1>1 DEF AtOnce, Tabled
<1>3. faults = 0 => Places(i) # {} \/ handling.id = i \/ T # {}
  BY DEF NoneLost, Somewhere, Tabled
<1> HIDE DEF T
<1>4. /\ Cardinality(Places(i)) = IF Places(i) = {} THEN 0 ELSE 1
      /\ Cardinality(T) = IF T = {} THEN 0 ELSE 1
  BY <1>2, HowMany
<1>5. PICK a \in {0, 1}, b \in {0, 1}, c \in {0, 1} :
        /\ a = Cardinality(Places(i)) /\ b = Cardinality(T) /\ c = IF handling.id = i THEN 1 ELSE 0
        /\ b = 1 => a = 0 /\ c = 0
        /\ c = 1 => a = 0
        /\ faults = 0 => a = 1 \/ b = 1 \/ c = 1
  BY <1>2, <1>3, <1>4
<1>6. a + b + c <= 1 /\ (faults = 0 => a + b + c = 1)
  BY <1>5
<1> QED
  BY <1>5, <1>6 DEF T

(* A packet is in one place at most; when nothing failed, in exactly one.   *)
THEOREM PacketsStay == Spec => []PacketsAreKept
BY SoundInit, SoundNext, KeptInit, KeptNext, KeptIsKept, PTL DEF Spec

-----------------------------------------------------------------------------
(* While nothing failed, what a window counted is in a file of the local    *)
(* day at which the window ended: the files of a day only grow.             *)
InFiles(f, d) == \E n \in DOMAIN files[d] : f \in files[d][n]

Stored == faults = 0 => \A w \in windows : \A f \in w.flows : InFiles(f, LocalDay(w.to))

LEMMA StoredInit == Init => Stored
BY DEF Init, Stored

LEMMA StoredNext == Sound /\ Stored /\ [Next]_vars => Stored'
<1> SUFFICES ASSUME Sound, Stored, [Next]_vars PROVE Stored'
  OBVIOUS
<1>1. TypeOK /\ Sessions /\ faults \in Nat
  BY Numbers DEF Sound
<1>2. CASE UNCHANGED <<windows, files>> /\ (faults' = 0 => faults = 0)
  BY <1>2 DEF Stored, InFiles
<1>3. CASE UNCHANGED vars \/ Tick \/ RecordPacket \/ BeginSweep
  BY <1>2, <1>3 DEF vars, Tick, RecordPacket, BeginSweep, disk
<1>4. ASSUME NEW k \in Keys, Observe(k) PROVE Stored'
  BY <1>2, <1>4 DEF Observe, disk
<1>5. CASE BeginCycle \/ StartSession \/ Register \/ EndSession \/ FlushAll \/ Stopped
  BY <1>2, <1>5 DEF BeginCycle, StartSession, Register, EndSession, FlushAll, Stopped, disk
<1>6. CASE StopObserver \/ Crash
  <2>1. faults' >= faults /\ UNCHANGED disk
    BY <1>1, <1>6, FaultTyped DEF StopObserver, Crash
  <2>2. faults' = 0 => faults = 0
    BY <1>1, <2>1
  <2> QED
    BY <1>2, <2>1, <2>2 DEF disk
<1>7. ASSUME NEW k \in Keys, FinalizeFlow(k) PROVE Stored'
  <2>1. PICK d \in Days, m \in Nat : Filed(d, m, active[k])
    BY <1>1, <1>7, FinalizeFiles
  <2>2. faults' = 0 => faults = 0
    BY <1>1, <2>1 DEF Filed
  <2>3. ASSUME faults' = 0, NEW f, NEW e \in Days, InFiles(f, e) PROVE InFiles(f, e)'
    <3>1. CASE e = d
      BY <2>1, <2>3, <3>1 DEF Filed, InFiles
    <3>2. CASE e # d
      BY <2>1, <2>3, <3>2 DEF Filed, InFiles
    <3> QED
      BY <3>1, <3>2
  <2>4. windows' = windows /\ \A w \in windows : LocalDay(w.to) \in Days
    <3>1. \A w \in windows : w.to \in Times
      BY <1>1 DEF TypeOK
    <3> QED
      BY <1>7, <3>1, LocalDays DEF FinalizeFlow
  <2> QED
    BY <2>2, <2>3, <2>4 DEF Stored
<1>8. CASE EndCycle
  <2>1. cycle # NoCycle /\ UNCHANGED files /\ (Fault \/ NoFault)
    BY <1>8 DEF EndCycle
  <2>2. /\ cycle.end \in Times /\ cycle.end >= WindowLength
        /\ cycle.day = LocalDay(cycle.end) /\ cycle.day \in Days
    BY <1>1, <2>1, CycleFacts, TypeParts DEF Sessions
  <2>3. faults' = 0 => faults = 0 /\ NoFault
    BY <1>1, <1>8 DEF EndCycle, Fault, NoFault
  <2>4. PICK fs \in Seq(Files) : fs = files[cycle.day] /\ fs # << >>
    BY <1>1, <2>2 DEF TypeOK, Files
  <2>5. Last(fs) \in Files /\ Len(fs) \in DOMAIN fs /\ Last(fs) = fs[Len(fs)]
    BY <2>4 DEF Last
  <2>6. PICK new : new = Window(cycle.end, Last(fs))
    OBVIOUS
  <2>7. new.to = cycle.end /\ new.flows \subseteq Last(fs)
    BY <2>2, <2>5, <2>6, WindowTyped
  <2>8. faults' = 0 => windows' = windows \cup {new}
    BY <1>1, <1>8, <2>4, <2>6 DEF EndCycle, Fault
  <2>9. \A f \in new.flows : InFiles(f, LocalDay(new.to))
    BY <2>2, <2>4, <2>5, <2>7 DEF InFiles
  <2> QED
    BY <2>1, <2>3, <2>8, <2>9 DEF Stored, InFiles
<1> QED
  BY <1>3, <1>4, <1>5, <1>6, <1>7, <1>8 DEF Next

LEMMA StoredIsFound ==
  ASSUME ZoneShift = 0, Sound, Apart, Stored
  PROVE  SummaryIsQueryable
<1> SUFFICES ASSUME faults = 0, NEW w \in windows, NEW f \in w.flows
             PROVE  f \in Query(w.from, w.to)
  BY DEF SummaryIsQueryable
<1>1. /\ w.to \in Nat /\ w.from \in Nat /\ w.flows \in Files
      /\ WindowLength \in Nat /\ DayLength \in Nat \ {0}
  BY WindowTimes, SizesAssumption DEF Sound
<1>2. w.from + WindowLength = w.to /\ InWindow(f, w.from, w.to) /\ w.to \in Times
  BY DEF Apart, Sound, TypeOK
<1>3. w.from <= w.to
  BY <1>1, <1>2
<1>4. UtcDay(w.from) \in Nat /\ UtcDay(w.to) \in Nat /\ UtcDay(w.from) <= UtcDay(w.to)
  BY <1>1, <1>3, DaysGrow DEF UtcDay
<1>5. LocalDay(w.to) = UtcDay(w.to)
  <2>1. w.to + ZoneShift = w.to
    BY <1>1
  <2> QED
    BY <2>1 DEF LocalDay, UtcDay
<1>6. PICK d \in Days : d = UtcDay(w.to)
  BY <1>2, <1>5, LocalDays
<1>7. d \in UtcDay(w.from)..UtcDay(w.to) \cap Days
  BY <1>4, <1>6
<1>8. PICK n \in DOMAIN files[d] : f \in files[d][n]
  BY <1>5, <1>6 DEF Stored, InFiles
<1>9. files[d][n] \in Range(files[d])
  BY DEF Range
<1>10. f \in UNION UNION {Range(files[e]) : e \in UtcDay(w.from)..UtcDay(w.to) \cap Days}
  BY <1>7, <1>8, <1>9
<1> QED
  BY <1>2, <1>10 DEF Query

(* What a window counted is found again by the query for it, on a client    *)
(* whose local time is UTC: elsewhere it is in the files of the local day,  *)
(* by Stored, and the query looks for it in those of the UTC days.          *)
THEOREM SummaryIsFound ==
  ASSUME ZoneShift = 0
  PROVE  Spec => []SummaryIsQueryable
<1>1. Sound /\ Apart /\ Stored => SummaryIsQueryable
  BY StoredIsFound
<1> QED
  BY <1>1, SoundInit, SoundNext, ApartInit, ApartNext, StoredInit, StoredNext, PTL DEF Spec

(* Whatever the local time is, while nothing failed, the flows that a       *)
(* window counted stay in the files of the local day at which it ended:     *)
(* neither the roll-over of a file nor the next session loses one.          *)
THEOREM CountedIsStored == Spec => []Stored
BY SoundInit, SoundNext, StoredInit, StoredNext, PTL DEF Spec

-----------------------------------------------------------------------------
(***************************************************************************)
(* KismetPipeline.                                                         *)
(***************************************************************************)

(* What KismetPipeline assumes of its sizes.                                *)
LEMMA Bounds ==
  ASSUME K!SizesAssumption
  PROVE  /\ MaxTime \in Nat \ {0} /\ MaxCaptures \in Nat \ {0}
         /\ PacketsPerInterval \in Nat /\ MaxFaults \in Nat
BY DEF K!SizesAssumption

Manifests == [status : {"NONE", "COMPLETED", "FAILED"}, safe : BOOLEAN,
              failed : SUBSET K!Captures, read : K!Reads]

Jobs == [pc : {"idle", "query", "stop", "start", "choose", "extract", "predict",
               "manifest", "index", "clean", "prune"},
         cycle : BOOLEAN, force : BOOLEAN, active : BOOLEAN, todo : SUBSET K!Intervals,
         on : SUBSET K!Captures, failed : SUBSET K!Captures, read : K!Reads]

\* What a process has chosen and read; Bounded holds for the intervals that have
\* begun and the captures that were opened.
Bounded(j) ==
    /\ j.todo \subseteq 1..now
    /\ j.on \subseteq 1..made
    /\ j.failed \subseteq DOMAIN j.read
    /\ j.pc \in {"extract", "predict", "manifest"} => j.todo # {}
    /\ j.pc \in {"predict", "manifest"} => DOMAIN j.read = j.on

Typed ==
    /\ now \in K!Intervals
    /\ made \in K!Captures
    /\ open \in {K!NoCapture} \cup (exists \cap sidecar)
    /\ packets \in [K!Captures -> SUBSET K!Packets]
    /\ exists \subseteq 1..made /\ sidecar \subseteq exists /\ fresh \subseteq exists
    /\ manifest \in [K!Intervals -> Manifests]
    /\ \A i \in K!Intervals : /\ manifest[i].failed \subseteq DOMAIN manifest[i].read
                            /\ DOMAIN manifest[i].read \subseteq 1..made
    /\ stored \subseteq K!Packets
    /\ job \in [Workers -> Jobs]
    /\ \A w \in Workers : Bounded(job[w])
    /\ faults \in 0..MaxFaults

\* The database is written before the manifest.
Persisted(j) ==
    j.pc = "manifest" => \A c \in j.on : j.read[c] \subseteq stored

\* Unless a capture was active, what was read of it is all there is.
ReadWhole(j) ==
    j.pc \in {"predict", "manifest"} /\ ~j.active =>
        \A c \in j.on \ j.failed : c # open /\ j.read[c] = K!In(c, K!Least(j.todo))

Prepared == \A w \in Workers : Persisted(job[w]) /\ ReadWhole(job[w])

Good(j) == Bounded(j) /\ Persisted(j) /\ ReadWhole(j)

Promised == K!ExtractedIsStored /\ K!SafeIsWhole

Inv == Typed /\ Prepared /\ Promised

-----------------------------------------------------------------------------
\* The oldest of some intervals is one of them.
LEMMA LeastOf ==
    ASSUME NEW T \in SUBSET Nat, T # {}
    PROVE  K!Least(T) \in T
<1> DEFINE R == {ss \in Nat \X Nat : ss[1] < ss[2]}
<1>1. OpToRel(<, Nat) = R
    BY Zenon DEF OpToRel
<1>2. IsWellFoundedOn(R, Nat)
    BY <1>1, NatLessThanWellFounded, Zenon
<1>3. \A x, y \in Nat : y < x => <<y, x>> \in R
    OBVIOUS
<1> HIDE DEF R
<1>4. \E x \in T : \A y \in T : ~ (<<y, x>> \in R)
    BY <1>2, WFMin
<1>5. \A x, y \in Nat : ~ (y < x) => x <= y
    OBVIOUS
<1>6. \E x \in T : \A y \in T : x <= y
    BY <1>3, <1>4, <1>5
<1> QED
    BY <1>6 DEF K!Least

\* Functions from captures to packets are readings.
LEMMA Nothing == [c \in {} |-> {}] \in K!Reads /\ DOMAIN [c \in {} |-> {}] = {}
<1> DEFINE f == [c \in {} |-> {}]
<1>1. f \in [{} -> SUBSET K!Packets]
    OBVIOUS
<1>2. {} \in SUBSET K!Captures
    OBVIOUS
<1> HIDE DEF f
<1>3. f \in K!Reads
    BY <1>1, <1>2 DEF K!Reads
<1> QED
    BY <1>3 DEF f

LEMMA Sizes ==
  ASSUME K!SizesAssumption
  PROVE  /\ MaxTime \in Nat \ {0} /\ MaxCaptures \in Nat \ {0} /\ MaxFaults \in Nat
      /\ K!Intervals \subseteq Nat /\ K!Captures \subseteq Nat
      /\ K!NoCapture = 0 /\ 0 \notin K!Captures
BY Bounds DEF K!Intervals, K!Captures, K!NoCapture

LEMMA IdleJob ==
    /\ K!Idle \in Jobs /\ K!Idle.pc = "idle" /\ K!Idle.todo = {} /\ K!Idle.on = {}
    /\ K!Idle.failed = {} /\ DOMAIN K!Idle.read = {} /\ K!Idle.read \in K!Reads
    /\ K!Idle.cycle = FALSE /\ K!Idle.active = FALSE /\ K!Idle.force = FALSE
<1> DEFINE f == [c \in {} |-> {}]
<1>1. f \in K!Reads /\ DOMAIN f = {}
    BY Nothing
<1> HIDE DEF f
<1> QED
    BY <1>1 DEF K!Idle, Jobs, f

LEMMA InitInv ==
  ASSUME K!SizesAssumption
  PROVE  K!Init => Inv
<1> SUFFICES ASSUME K!Init PROVE Inv
    OBVIOUS
<1> USE Sizes
<1>1. \A w \in Workers : job[w] = K!Idle
    BY DEF K!Init
<1>2. job \in [Workers -> Jobs]
    BY IdleJob DEF K!Init
<1>3. \A w \in Workers : Bounded(job[w]) /\ Persisted(job[w]) /\ ReadWhole(job[w])
    BY <1>1, IdleJob DEF Bounded, Persisted, ReadWhole
<1>4. K!NoManifest \in Manifests /\ K!NoManifest.failed = {} /\ K!NoManifest.safe = FALSE
      /\ K!NoManifest.status = "NONE" /\ DOMAIN K!NoManifest.read = {}
    <2> DEFINE f == [c \in {} |-> {}]
    <2>1. f \in K!Reads /\ DOMAIN f = {}
        BY Nothing
    <2> HIDE DEF f
    <2> QED
        BY <2>1 DEF K!NoManifest, Manifests, f
<1>5. manifest \in [K!Intervals -> Manifests] /\ \A i \in K!Intervals : manifest[i] = K!NoManifest
    BY <1>4 DEF K!Init
<1>6. /\ now \in K!Intervals /\ made \in K!Captures /\ open \in {K!NoCapture} \cup (exists \cap sidecar)
      /\ packets \in [K!Captures -> SUBSET K!Packets]
      /\ exists \subseteq 1..made /\ sidecar \subseteq exists /\ fresh \subseteq exists
      /\ stored \subseteq K!Packets /\ faults \in 0..MaxFaults
    BY DEF K!Init, K!Intervals, K!Captures
<1>7. Typed
    BY <1>2, <1>3, <1>4, <1>5, <1>6 DEF Typed
<1>8. Promised
    BY <1>4, <1>5 DEF Promised, K!ExtractedIsStored, K!SafeIsWhole, K!Status
<1> QED
    BY <1>3, <1>7, <1>8 DEF Inv, Prepared

-----------------------------------------------------------------------------
\* What no step undoes, with the types of what the daemon and the commands change
\* on the disk: a capture that is not open keeps its packets and is not opened.
Onward ==
    /\ now' \in K!Intervals /\ now <= now'
    /\ made' \in K!Captures /\ made <= made'
    /\ open' \in {K!NoCapture} \cup (exists' \cap sidecar')
    /\ packets' \in [K!Captures -> SUBSET K!Packets]
    /\ exists' \subseteq 1..made' /\ sidecar' \subseteq exists' /\ fresh' \subseteq exists'
    /\ \A c \in 1..made : c # open => c # open' /\ packets'[c] = packets[c]

LEMMA OpenedOn ==
    ASSUME K!SizesAssumption,
         Typed, open = K!NoCapture, made < MaxCaptures, K!Opened(made + 1), now' = now
    PROVE  Onward
<1> USE Sizes
<1>1. made \in Nat /\ made + 1 \in K!Captures /\ made + 1 \notin 1..made
    BY Bounds DEF Typed, K!Captures
<1>2. open' = made + 1 /\ made' = made + 1 /\ exists' = exists \cup {made + 1}
      /\ sidecar' = sidecar \cup {made + 1} /\ fresh' = fresh \cup {made + 1}
      /\ packets' = packets
    BY DEF K!Opened
<1>3. exists' \subseteq 1..made'
    BY <1>1, <1>2 DEF Typed
<1> QED
    BY <1>1, <1>2, <1>3 DEF Typed, Onward, K!Intervals

LEMMA DiskKept ==
    ASSUME K!SizesAssumption,
         Typed, UNCHANGED K!disk, now' = now
    PROVE  Onward
BY Sizes DEF Typed, Onward, K!disk, K!Intervals, K!Captures

LEMMA RemovedOn ==
    ASSUME K!SizesAssumption,
         Typed, NEW c, K!Removed(c), c \notin sidecar, now' = now
    PROVE  Onward
<1>1. /\ open' = open /\ made' = made /\ packets' = packets
      /\ exists' = exists \ {c} /\ sidecar' = sidecar \ {c} /\ fresh' = fresh \ {c}
    BY DEF K!Removed
<1>2. open' \in {K!NoCapture} \cup (exists' \cap sidecar')
    BY <1>1 DEF Typed
<1>3. now' <= now' /\ made' <= made' /\ now <= now' /\ made <= made'
    BY <1>1, Sizes DEF Typed
<1> QED
    BY <1>1, <1>2, <1>3 DEF Typed, Onward

\* The commands and what they do to the disk.
LEMMA StepOn ==
    ASSUME K!SizesAssumption,
         Typed, [K!Next]_(K!vars)
    PROVE  Onward
<1> USE Sizes
<1>1. ASSUME NEW p \in K!Packets, K!Packet(p) PROVE Onward
    <2>1. packets' \in [K!Captures -> SUBSET K!Packets] /\ \A c \in K!Captures : c # open => packets'[c] = packets[c]
        BY <1>1 DEF K!Packet, Typed
    <2>2. fresh' = fresh \cup {open} /\ open \in exists /\ UNCHANGED <<now, open, made, exists, sidecar>>
        BY <1>1 DEF K!Packet, Typed
    <2>3. 1..made \subseteq K!Captures
        BY Bounds DEF Typed, K!Captures
    <2> QED
        BY <2>1, <2>2, <2>3 DEF Typed, Onward, K!Intervals, K!Captures
<1>2. ASSUME NEW c \in K!Captures, K!Settle(c) PROVE Onward
    BY <1>2 DEF K!Settle, Typed, Onward, K!Intervals, K!Captures
<1>3. CASE K!Tick
    BY <1>3, Bounds DEF K!Tick, K!disk, Typed, Onward, K!Intervals, K!Captures
<1>4. CASE K!KismetStarts
    BY <1>4, OpenedOn DEF K!KismetStarts
<1>5. CASE K!KismetDies
    BY <1>5 DEF K!KismetDies, Typed, Onward, K!Intervals, K!Captures
<1>6. ASSUME NEW w \in Workers, K!Command(w) PROVE Onward
    BY <1>6, DiskKept
       DEF K!Command, K!RunCycle, K!RotateLog, K!ProcessInterval, K!ProcessCompleted,
       K!CleanupCaptures, K!PruneExpired, K!Begin
<1>7. ASSUME NEW w \in Workers, K!StopLog(w) PROVE Onward
    <2>1. CASE UNCHANGED K!disk
        BY <1>7, <2>1, DiskKept DEF K!StopLog
    <2>2. CASE open \in job[w].on /\ K!Closed
        <3>1. open # K!NoCapture
            BY <2>2 DEF Typed, Bounded
        <3> QED
            BY <1>7, <2>2, <3>1
               DEF K!StopLog, K!Closed, Typed, Onward, K!Intervals, K!Captures
    <2> QED
        BY <1>7, <2>1, <2>2 DEF K!StopLog
<1>8. ASSUME NEW w \in Workers, K!StartLog(w) PROVE Onward
    BY <1>8, OpenedOn, DiskKept DEF K!StartLog
<1>9. ASSUME NEW w \in Workers, K!Clean(w) PROVE Onward
    BY <1>9, RemovedOn, DiskKept DEF K!Clean, K!IsFileActive
<1>10. ASSUME NEW w \in Workers, K!Prune(w) PROVE Onward
    BY <1>10, RemovedOn, DiskKept DEF K!Prune
<1>11. ASSUME NEW w \in Workers,
              \/ K!QueryActive(w) \/ K!Choose(w) \/ K!Extract(w) \/ K!ModelFails(w) \/ K!Persist(w)
              \/ K!WriteManifest(w) \/ K!Index(w) \/ K!Aborts(w)
       PROVE  Onward
    BY <1>11, DiskKept
       DEF K!QueryActive, K!Choose, K!Extract, K!ModelFails, K!Persist, K!WriteManifest,
       K!Index, K!Aborts
<1>12. CASE UNCHANGED K!vars
    BY <1>12, DiskKept DEF K!vars
<1> QED
    BY <1>1, <1>2, <1>3, <1>4, <1>5, <1>6, <1>7, <1>8, <1>9, <1>10, <1>11, <1>12
    DEF K!Next, K!Kismet, K!Step
-----------------------------------------------------------------------------
\* A process that does nothing stays good.
LEMMA GoodKept ==
    ASSUME K!SizesAssumption,
         Typed, Onward, stored \subseteq stored', NEW j \in Jobs, Good(j)
    PROVE  Good(j)'
<1> USE Sizes
<1>1. 1..now \subseteq 1..now' /\ 1..made \subseteq 1..made' /\ 1..made \subseteq K!Captures
    BY Bounds DEF Typed, Onward, K!Intervals, K!Captures
<1>2. Bounded(j)'
    BY <1>1 DEF Good, Bounded
<1>3. Persisted(j)'
    BY DEF Good, Persisted
<1>4. ReadWhole(j)'
    BY <1>1 DEF Good, ReadWhole, Bounded, Onward, K!In
<1> QED
    BY <1>2, <1>3, <1>4 DEF Good

\* Outside the processing of an interval there is nothing to prepare.
LEMMA GoodElsewhere ==
    ASSUME NEW j \in Jobs, j.pc \notin {"extract", "predict", "manifest"},
           j.todo \subseteq 1..now', j.on \subseteq 1..made', j.failed \subseteq DOMAIN j.read
    PROVE  Good(j)'
BY DEF Good, Bounded, Persisted, ReadWhole

\* One process moves, to what is a good state of it.
Moves(w) == \E j \in Jobs : job' = [job EXCEPT ![w] = j] /\ Good(j)'

LEMMA MovesElsewhere ==
    ASSUME NEW w, NEW j \in Jobs, job' = [job EXCEPT ![w] = j],
           j.pc \notin {"extract", "predict", "manifest"},
           j.todo \subseteq 1..now', j.on \subseteq 1..made', j.failed \subseteq DOMAIN j.read
    PROVE  Moves(w)
BY GoodElsewhere DEF Moves

LEMMA MovesToIdle ==
    ASSUME NEW w, K!Becomes(w, K!Idle)
    PROVE  Moves(w)
<1>1. K!Idle \in Jobs /\ K!Idle.pc \notin {"extract", "predict", "manifest"}
      /\ K!Idle.todo \subseteq 1..now' /\ K!Idle.on \subseteq 1..made' /\ K!Idle.failed \subseteq DOMAIN K!Idle.read
    BY IdleJob
<1> QED
    BY <1>1, MovesElsewhere DEF K!Becomes

LEMMA Started ==
    ASSUME K!SizesAssumption,
         Typed, Onward, NEW w \in Workers, K!Command(w)
    PROVE  Moves(w)
<1> USE IdleJob, Sizes
<1>1. UNCHANGED <<now, made>> /\ 1..now \subseteq K!Intervals /\ 1..made \subseteq K!Captures
    <2>1. 1..now \subseteq K!Intervals /\ 1..made \subseteq K!Captures
        BY Bounds DEF Typed, K!Intervals, K!Captures
    <2>2. UNCHANGED <<now, made>>
        BY DEF K!Command, K!RunCycle, K!RotateLog, K!ProcessInterval, K!ProcessCompleted,
           K!CleanupCaptures, K!PruneExpired, K!Begin, K!disk
    <2> QED
        BY <2>1, <2>2
<1>2. CASE K!RunCycle(w)
    BY <1>1, <1>2, MovesElsewhere DEF K!RunCycle, K!Begin, K!Becomes, Jobs
<1>3. CASE K!RotateLog(w)
    BY <1>1, <1>3, MovesElsewhere DEF K!RotateLog, K!Begin, K!Becomes, Jobs
<1>4. CASE K!ProcessInterval(w)
    BY <1>1, <1>4, MovesElsewhere DEF K!ProcessInterval, K!Begin, K!Becomes, Jobs
<1>5. CASE K!ProcessCompleted(w)
    <2>1. PICK margin \in {0, 1} :
            K!Becomes(w, [K!Idle EXCEPT !.pc = "choose", !.todo = K!Unfinished(MaxTime, margin)])
        BY <1>5 DEF K!ProcessCompleted, K!Begin
    <2>2. K!Unfinished(MaxTime, margin) \subseteq 1..now
        BY DEF K!Unfinished, K!Intervals, Typed
    <2> QED
        BY <1>1, <2>1, <2>2, MovesElsewhere DEF K!Becomes, Jobs
<1>6. CASE K!CleanupCaptures(w)
    BY <1>1, <1>6, MovesElsewhere DEF K!CleanupCaptures, K!Begin, K!Becomes, Jobs
<1>7. CASE K!PruneExpired(w)
    <2>1. PICK older \in SUBSET exists : K!Becomes(w, [K!Idle EXCEPT !.pc = "prune", !.on = older])
        BY <1>7 DEF K!PruneExpired, K!Begin
    <2>2. older \subseteq 1..made
        BY DEF Typed
    <2> QED
        BY <1>1, <2>1, <2>2, MovesElsewhere DEF K!Becomes, Jobs
<1> QED
    BY <1>2, <1>3, <1>4, <1>5, <1>6, <1>7 DEF K!Command

\* The end of a rotation, of an interval and of a removal.
LEMMA RotationEnded ==
    ASSUME K!SizesAssumption,
         Typed, Onward, NEW w \in Workers, K!RotationEnds(w)
    PROVE  Moves(w)
<1> USE Sizes
<1>1. CASE job[w].cycle
    <2> DEFINE j == [job[w] EXCEPT !.pc = "choose", !.on = {}, !.todo = K!Unfinished(1, 0)]
    <2>1. K!Unfinished(1, 0) \subseteq 1..now /\ K!Unfinished(1, 0) \subseteq K!Intervals
        BY DEF K!Unfinished, K!Intervals, Typed
    <2>2. j \in Jobs /\ j.pc = "choose" /\ j.on = {} /\ j.todo = K!Unfinished(1, 0)
          /\ j.failed \subseteq DOMAIN j.read
        <3>1. job[w] \in Jobs /\ job[w].failed \subseteq DOMAIN job[w].read
            BY DEF Typed, Bounded
        <3>2. K!Unfinished(1, 0) \in SUBSET K!Intervals
            BY <2>1
        <3>3. PICK k, old, S : k = j /\ old = job[w] /\ S = K!Unfinished(1, 0)
            OBVIOUS
        <3>4. k = [old EXCEPT !.pc = "choose", !.on = {}, !.todo = S]
            BY <3>3
        <3> HIDE DEF j
        <3>5. old \in Jobs /\ S \in SUBSET K!Intervals
            BY <3>1, <3>2, <3>3
        <3>6. k \in Jobs /\ k.pc = "choose" /\ k.on = {} /\ k.todo = S
              /\ k.failed = old.failed /\ k.read = old.read
            BY ONLY <3>4, <3>5 DEF Jobs
        <3> QED
            BY <3>1, <3>3, <3>6
    <2>3. 1..now \subseteq 1..now'
        BY DEF Typed, Onward, K!Intervals
    <2>4. job' = [job EXCEPT ![w] = j]
        BY <1>1 DEF K!RotationEnds, K!Becomes
    <2> HIDE DEF j
    <2> QED
        BY <2>1, <2>2, <2>3, <2>4, MovesElsewhere
<1>2. CASE ~job[w].cycle
    BY <1>2, MovesToIdle DEF K!RotationEnds
<1> QED
    BY <1>1, <1>2
LEMMA Rotating ==
    ASSUME K!SizesAssumption,
         Typed, Onward, NEW w \in Workers, K!QueryActive(w) \/ K!StopLog(w) \/ K!StartLog(w)
    PROVE  Moves(w)
<1> USE Sizes
<1>1. CASE K!RotationEnds(w)
    BY <1>1, RotationEnded
<1>2. 1..now \subseteq 1..now' /\ 1..made \subseteq 1..made' /\ 1..made \subseteq K!Captures
    BY Bounds DEF Typed, Onward, K!Intervals, K!Captures
<1>3. job[w] \in Jobs /\ Bounded(job[w])
    BY DEF Typed
<1>4. CASE open # K!NoCapture /\ K!Becomes(w, [job[w] EXCEPT !.pc = "stop", !.on = {open}])
    <2> DEFINE j == [job[w] EXCEPT !.pc = "stop", !.on = {open}]
    <2>1. open \in 1..made
        BY <1>4 DEF Typed
    <2>2. j \in Jobs /\ j.pc = "stop" /\ j.on = {open} /\ j.todo = job[w].todo
          /\ j.failed = job[w].failed /\ j.read = job[w].read
        BY <1>2, <1>3, <2>1 DEF Jobs
    <2>3. job' = [job EXCEPT ![w] = j]
        BY <1>4 DEF K!Becomes
    <2> HIDE DEF j
    <2> QED
        BY <1>2, <1>3, <2>1, <2>2, <2>3, MovesElsewhere DEF Bounded
<1>5. CASE K!Becomes(w, [job[w] EXCEPT !.pc = "start", !.on = {}])
    <2> DEFINE j == [job[w] EXCEPT !.pc = "start", !.on = {}]
    <2>2. j \in Jobs /\ j.pc = "start" /\ j.on = {} /\ j.todo = job[w].todo
          /\ j.failed = job[w].failed /\ j.read = job[w].read
        BY <1>3 DEF Jobs
    <2>3. job' = [job EXCEPT ![w] = j]
        BY <1>5 DEF K!Becomes
    <2> HIDE DEF j
    <2> QED
        BY <1>2, <1>3, <2>2, <2>3, MovesElsewhere DEF Bounded
<1> QED
    BY <1>1, <1>4, <1>5 DEF K!QueryActive, K!StopLog, K!StartLog

-----------------------------------------------------------------------------
\* What comes after an interval.
LEMMA Next1Job ==
    ASSUME NEW j \in Jobs
    PROVE  LET k == [j EXCEPT !.pc = "choose", !.todo = @ \ {K!Least(@)}, !.on = {},
                              !.active = FALSE, !.failed = {}, !.read = [c \in {} |-> {}]]
           IN  /\ k \in Jobs /\ k.pc = "choose" /\ k.on = {} /\ k.todo \subseteq j.todo
               /\ k.failed = {}
<1> DEFINE f == [c \in {} |-> {}]
<1>1. f \in K!Reads
    BY Nothing
<1> HIDE DEF f
<1>2. LET k == [j EXCEPT !.pc = "choose", !.todo = @ \ {K!Least(@)}, !.on = {},
                         !.active = FALSE, !.failed = {}, !.read = f]
      IN  /\ k \in Jobs /\ k.pc = "choose" /\ k.on = {} /\ k.todo \subseteq j.todo
          /\ k.failed = {}
    BY <1>1 DEF Jobs
<1> QED
    BY <1>2 DEF f

LEMMA NextInterval ==
    ASSUME K!SizesAssumption,
         Typed, Onward, NEW w \in Workers, K!Becomes(w, K!Next1(w))
    PROVE  Moves(w)
<1> DEFINE k == K!Next1(w)
<1>1. job[w] \in Jobs /\ Bounded(job[w])
    BY DEF Typed
<1>2. k \in Jobs /\ k.pc = "choose" /\ k.on = {} /\ k.todo \subseteq job[w].todo /\ k.failed = {}
    BY <1>1, Next1Job DEF K!Next1
<1>3. 1..now \subseteq 1..now'
    BY Sizes DEF Typed, Onward, K!Intervals
<1>4. job' = [job EXCEPT ![w] = k]
    BY DEF K!Becomes
<1> HIDE DEF k
<1> QED
    BY <1>1, <1>2, <1>3, <1>4, MovesElsewhere DEF Bounded

LEMMA Chosen ==
    ASSUME K!SizesAssumption,
         Typed, Onward, NEW w \in Workers, K!Choose(w)
    PROVE  Moves(w)
<1> USE Sizes
<1>1. job[w] \in Jobs /\ Bounded(job[w])
    BY DEF Typed
<1>2. 1..now \subseteq 1..now' /\ 1..made \subseteq 1..made' /\ 1..made \subseteq K!Captures
    BY Bounds DEF Typed, Onward, K!Intervals, K!Captures
<1>3. CASE K!ProcessingEnds(w)
    <2> DEFINE j == [K!Idle EXCEPT !.pc = "index"]
    <2>1. j \in Jobs /\ j.pc = "index" /\ j.on = {} /\ j.todo = {} /\ j.failed = {}
        BY IdleJob DEF Jobs
    <2> HIDE DEF j
    <2>2. K!Becomes(w, j) => Moves(w)
        BY <2>1, MovesElsewhere DEF K!Becomes
    <2> QED
        BY <1>3, <2>2, MovesToIdle DEF K!ProcessingEnds, j
<1>4. CASE K!Becomes(w, K!Next1(w))
    BY <1>4, NextInterval
<1>5. ASSUME NEW S \in SUBSET (1..made), job[w].todo # {}, K!Becomes(w, K!Found(w, S))
      PROVE  Moves(w)
    <2> DEFINE j == K!Found(w, S)
    <2>1. j \in Jobs /\ j.pc = "extract" /\ j.on = S /\ j.todo = job[w].todo
          /\ j.failed = job[w].failed /\ j.read = job[w].read
        BY <1>1, <1>2 DEF K!Found, Jobs
    <2>2. job' = [job EXCEPT ![w] = j]
        BY <1>5 DEF K!Becomes
    <2> HIDE DEF j
    <2>3. PICK k \in Jobs : k = j
        BY <2>1
    <2>4. Good(k)'
        BY <1>1, <1>2, <1>5, <2>1, <2>3 DEF Good, Bounded, Persisted, ReadWhole
    <2> QED
        BY <2>2, <2>3, <2>4 DEF Moves
<1>6. \A i, c : K!FindCaptures(i) \subseteq 1..made /\ K!FindCaptures(i) \ {c} \subseteq 1..made
    BY DEF K!FindCaptures, Typed
<1> QED
    BY <1>3, <1>4, <1>5, <1>6 DEF K!Choose

\* What is read of some captures at once.
LEMMA Reading ==
    ASSUME Typed, NEW S \in SUBSET K!Captures, NEW failed, NEW i
    PROVE  LET f == [c \in S |-> IF c \in failed THEN {} ELSE K!In(c, i)]
           IN  f \in K!Reads /\ DOMAIN f = S /\ \A c \in S \ failed : f[c] = K!In(c, i)
<1> DEFINE f == [c \in S |-> IF c \in failed THEN {} ELSE K!In(c, i)]
<1>1. f \in [S -> SUBSET K!Packets]
    BY DEF K!In, Typed
<1>2. DOMAIN f = S /\ \A c \in S \ failed : f[c] = K!In(c, i)
    OBVIOUS
<1> HIDE DEF f
<1>3. f \in K!Reads
    BY <1>1 DEF K!Reads
<1> QED
    BY <1>2, <1>3 DEF f

LEMMA ExtractedByOne ==
    ASSUME K!SizesAssumption,
         Typed, NEW w \in Workers, K!Extract(w)
    PROVE  Moves(w)
<1> USE Sizes
<1> DEFINE j == job[w]
           i == K!Least(j.todo)
           Read(failed) == [c \in j.on |-> IF c \in failed THEN {} ELSE K!In(c, i)]
           Got(failed) == [j EXCEPT !.pc = "predict",
                                    !.active = \E c \in j.on : K!IsCaptureActive(c),
                                    !.failed = failed, !.read = Read(failed)]
<1>1. j \in Jobs /\ Bounded(j) /\ j.pc = "extract"
    BY DEF Typed, K!Extract, K!At
<1>2. 1..made \subseteq K!Captures /\ UNCHANGED K!disk /\ now' = now
    <2>1. 1..made \subseteq K!Captures
        BY Bounds DEF Typed, K!Captures
    <2> QED
        BY <2>1 DEF K!Extract
<1>3. \E failed \in SUBSET j.on : job' = [job EXCEPT ![w] = Got(failed)]
    <2>1. \/ K!Becomes(w, Got(j.on \ exists))
          \/ \E c \in j.on : K!Becomes(w, Got((j.on \ exists) \cup {c}))
        BY DEF K!Extract
    <2>2. \A failed : K!Becomes(w, Got(failed)) => job' = [job EXCEPT ![w] = Got(failed)]
        BY DEF K!Becomes
    <2> HIDE DEF Got
    <2>3. j.on \ exists \in SUBSET j.on /\ \A c \in j.on : (j.on \ exists) \cup {c} \in SUBSET j.on
        OBVIOUS
    <2> QED
        BY <2>1, <2>2, <2>3
<1>4. PICK failed \in SUBSET j.on : job' = [job EXCEPT ![w] = Got(failed)]
    BY <1>3
<1>5. j.on \subseteq K!Captures /\ j.on \subseteq 1..made /\ j.todo # {} /\ j.todo \subseteq 1..now
    BY <1>1, <1>2 DEF Bounded
<1>6. PICK r \in K!Reads : /\ r = Read(failed) /\ DOMAIN r = j.on
                         /\ \A c \in j.on \ failed : r[c] = K!In(c, i)
    <2> HIDE DEF i
    <2>1. Read(failed) \in K!Reads /\ DOMAIN Read(failed) = j.on
          /\ \A c \in j.on \ failed : Read(failed)[c] = K!In(c, i)
        BY <1>5, Reading
    <2> HIDE DEF Read
    <2> QED
        BY <2>1
<1>7. PICK a \in BOOLEAN : a = (\E c \in j.on : K!IsCaptureActive(c))
    OBVIOUS
<1>8. ~a => \A c \in j.on : c # open
    BY <1>5, <1>7 DEF K!IsCaptureActive, Typed
<1>9. PICK k \in Jobs :
         /\ job' = [job EXCEPT ![w] = k]
         /\ k.pc = "predict" /\ k.active = a /\ k.failed = failed /\ k.read = r
         /\ k.on = j.on /\ k.todo = j.todo
    <2> DEFINE k == [j EXCEPT !.pc = "predict", !.active = a, !.failed = failed, !.read = r]
    <2>1. job' = [job EXCEPT ![w] = k]
        BY <1>4, <1>6, <1>7
    <2>2. /\ k \in Jobs /\ k.pc = "predict" /\ k.active = a /\ k.failed = failed /\ k.read = r
          /\ k.on = j.on /\ k.todo = j.todo
        BY <1>1, <1>5, <1>6 DEF Jobs
    <2> HIDE DEF k
    <2> QED
        BY <2>1, <2>2
<1> HIDE DEF Read, Got
<1>12. Bounded(k)'
    BY <1>2, <1>5, <1>6, <1>9 DEF Bounded, K!disk
<1>13. Persisted(k)'
    BY <1>9 DEF Persisted
<1>14. ReadWhole(k)'
    <2>1. SUFFICES ASSUME ~k.active, NEW c \in k.on \ k.failed
                   PROVE  c # open /\ k.read[c] = K!In(c, K!Least(k.todo))
        BY <1>2 DEF ReadWhole, K!disk, K!In
    <2> QED
        BY <1>6, <1>8, <1>9, <2>1
<1> QED
    BY <1>9, <1>12, <1>13, <1>14 DEF Moves, Good

LEMMA Persisting ==
    ASSUME Typed, Prepared, NEW w \in Workers, K!Persist(w)
    PROVE  Moves(w)
<1> DEFINE j == job[w]
<1>1. j \in Jobs /\ Bounded(j) /\ ReadWhole(j) /\ j.pc = "predict"
    BY DEF Typed, Prepared, K!Persist, K!At
<1>2. /\ job' = [job EXCEPT ![w] = [j EXCEPT !.pc = "manifest"]] /\ UNCHANGED K!disk /\ now' = now
      /\ \A c \in j.on : j.read[c] \subseteq stored'
    BY DEF K!Persist, K!Becomes
<1>3. PICK k \in Jobs :
         /\ job' = [job EXCEPT ![w] = k]
         /\ k.pc = "manifest" /\ k.active = j.active /\ k.on = j.on
         /\ k.todo = j.todo /\ k.failed = j.failed /\ k.read = j.read
    <2> DEFINE k == [j EXCEPT !.pc = "manifest"]
    <2>1. job' = [job EXCEPT ![w] = k]
        BY <1>2
    <2>2. /\ k \in Jobs /\ k.pc = "manifest" /\ k.active = j.active /\ k.on = j.on
          /\ k.todo = j.todo /\ k.failed = j.failed /\ k.read = j.read
        BY <1>1 DEF Jobs
    <2> HIDE DEF k
    <2> QED
        BY <2>1, <2>2
<1>4. Bounded(k)'
    BY <1>1, <1>2, <1>3 DEF Bounded, K!disk
<1>5. Persisted(k)'
    BY <1>2, <1>3 DEF Persisted
<1>6. ReadWhole(k)'
    BY <1>1, <1>2, <1>3 DEF ReadWhole, K!disk, K!In
<1> QED
    BY <1>3, <1>4, <1>5, <1>6 DEF Moves, Good

\* The cleanup and the retention script.
LEMMA RemovingMoves ==
    ASSUME NEW w \in Workers, NEW pc \in {"clean", "prune"},
           NEW S, S \subseteq 1..made', S \subseteq K!Captures, K!Removing(w, pc, S)
    PROVE  Moves(w)
<1> DEFINE j == [K!Idle EXCEPT !.pc = pc, !.on = S]
<1>1. CASE S = {}
    BY <1>1, MovesToIdle DEF K!Removing
<1>2. CASE S # {}
    <2>1. j \in Jobs /\ j.pc = pc /\ j.on = S /\ j.todo = {} /\ j.failed = {}
        BY IdleJob DEF Jobs
    <2>2. job' = [job EXCEPT ![w] = j]
        BY <1>2 DEF K!Removing, K!Becomes
    <2> HIDE DEF j
    <2> QED
        BY <2>1, <2>2, MovesElsewhere
<1> QED
    BY <1>1, <1>2

LEMMA RemovalMoves ==
    ASSUME K!SizesAssumption,
         Typed, Onward, NEW w \in Workers, K!Index(w) \/ K!Clean(w) \/ K!Prune(w)
    PROVE  Moves(w)
<1>1. 1..made \subseteq 1..made' /\ 1..made \subseteq K!Captures
    BY Sizes, Bounds DEF Typed, Onward, K!Captures
<1>2. exists \subseteq 1..made /\ job[w].on \subseteq 1..made
    BY DEF Typed, Bounded
<1>3. CASE K!Index(w)
    <2> DEFINE S == {c \in exists : K!Verified(c)}
    <2>1. S \subseteq 1..made /\ K!Removing(w, "clean", S)
        BY <1>2, <1>3 DEF K!Index
    <2> HIDE DEF S
    <2> QED
        BY <1>1, <2>1, RemovingMoves
<1>4. ASSUME K!Passed(w), job[w].pc \in {"clean", "prune"} PROVE Moves(w)
    <2> DEFINE S == job[w].on \ {K!Least(job[w].on)}
    <2>1. S \subseteq 1..made /\ K!Removing(w, job[w].pc, S)
        BY <1>2, <1>4 DEF K!Passed
    <2> HIDE DEF S
    <2> QED
        BY <1>1, <1>4, <2>1, RemovingMoves
<1> QED
    BY <1>3, <1>4 DEF K!Clean, K!Prune, K!At
-----------------------------------------------------------------------------
\* One process moves at a time, and nothing leaves the database.
LEMMA OneMoves ==
    ASSUME K!SizesAssumption,
         Typed, Prepared, Onward, [K!Next]_(K!vars)
    PROVE  UNCHANGED job \/ \E w \in Workers : Moves(w)
<1>1. CASE K!Kismet
    BY <1>1 DEF K!Kismet, K!Packet, K!Settle, K!Tick, K!KismetStarts, K!KismetDies
<1>2. ASSUME NEW w \in Workers, K!Command(w) PROVE Moves(w)
    BY <1>2, Started
<1>3. ASSUME NEW w \in Workers, K!Step(w) PROVE Moves(w)
    <2>1. CASE K!ModelFails(w) \/ K!WriteManifest(w)
        BY <2>1, NextInterval DEF K!ModelFails, K!WriteManifest
    <2>2. CASE K!Aborts(w)
        BY <2>2, MovesToIdle DEF K!Aborts
    <2> QED
        BY <1>3, <2>1, <2>2, Rotating, Chosen, ExtractedByOne, Persisting, RemovalMoves
           DEF K!Step
<1>4. CASE UNCHANGED K!vars
    BY <1>4 DEF K!vars
<1> QED
    BY <1>1, <1>2, <1>3, <1>4 DEF K!Next

LEMMA StoredGrows ==
    ASSUME K!SizesAssumption,
         Typed, [K!Next]_(K!vars)
    PROVE  stored \subseteq stored' /\ stored' \subseteq K!Packets /\ faults' \in 0..MaxFaults
<1> USE Sizes
<1>1. \/ UNCHANGED stored
      \/ \E w \in Workers : job[w].pc = "predict"
                            /\ stored' = stored \cup UNION {job[w].read[c] : c \in job[w].on}
    BY DEF K!Next, K!Kismet, K!Packet, K!Settle, K!Tick, K!KismetStarts, K!KismetDies,
       K!results, K!vars,
       K!Command, K!RunCycle, K!RotateLog, K!ProcessInterval, K!ProcessCompleted, K!CleanupCaptures,
       K!PruneExpired, K!Begin, K!Step, K!QueryActive, K!StopLog, K!StartLog, K!Choose, K!Extract, K!ModelFails,
       K!Persist, K!WriteManifest, K!Index, K!Clean, K!Prune, K!Aborts, K!At
<1>2. UNCHANGED faults \/ (faults < MaxFaults /\ faults' = faults + 1)
    BY DEF K!Next, K!Kismet, K!Packet, K!Settle, K!Tick, K!KismetStarts, K!KismetDies,
       K!Fault, K!NoFault, K!vars,
       K!Command, K!RunCycle, K!RotateLog, K!ProcessInterval, K!ProcessCompleted, K!CleanupCaptures,
       K!PruneExpired, K!Begin, K!Step, K!QueryActive, K!StopLog, K!StartLog, K!Choose, K!Extract, K!ModelFails,
       K!Persist, K!WriteManifest, K!Index, K!Clean, K!Prune, K!Aborts
<1>3. ASSUME NEW w \in Workers, job[w].pc = "predict"
      PROVE  \A c \in job[w].on : job[w].read[c] \subseteq K!Packets
    <2>1. job[w].read \in K!Reads /\ DOMAIN job[w].read = job[w].on
        BY <1>3 DEF Typed, Jobs, Bounded
    <2>2. PICK S \in SUBSET K!Captures : job[w].read \in [S -> SUBSET K!Packets]
        BY <2>1 DEF K!Reads
    <2> QED
        BY <2>1, <2>2
<1>4. stored' \subseteq K!Packets
    BY <1>1, <1>3 DEF Typed
<1> QED
    BY <1>1, <1>2, <1>4 DEF Typed

LEMMA JobsNext ==
    ASSUME K!SizesAssumption,
         Typed, Prepared, Onward, [K!Next]_(K!vars)
    PROVE  job' \in [Workers -> Jobs] /\ \A w \in Workers : Good(job[w])'
<1>1. \A w \in Workers : job[w] \in Jobs /\ Good(job[w])
    BY DEF Typed, Prepared, Good
<1>2. \A j \in Jobs : Good(j) => Good(j)'
    BY GoodKept, StoredGrows
<1>3. ASSUME NEW v \in Workers, job'[v] = job[v] PROVE Good(job[v])'
    <2>1. PICK j \in Jobs : j = job[v]
        BY <1>1
    <2>2. Good(j)'
        BY <1>1, <1>2, <2>1
    <2>3. j = job'[v]
        BY <1>3, <2>1
    <2> QED
        BY <2>2, <2>3
<1>4. CASE UNCHANGED job
    BY <1>3, <1>4 DEF Typed
<1>5. ASSUME NEW w \in Workers, NEW j \in Jobs, job' = [job EXCEPT ![w] = j], Good(j)'
      PROVE  job' \in [Workers -> Jobs] /\ \A v \in Workers : Good(job[v])'
    <2>1. job' \in [Workers -> Jobs]
        BY <1>5 DEF Typed
    <2>2. j = job'[w]
        BY <1>5 DEF Typed
    <2>3. Good(job[w])'
        BY <1>5, <2>2
    <2>4. \A v \in Workers \ {w} : job'[v] = job[v]
        BY <1>5 DEF Typed
    <2> QED
        BY <1>3, <2>1, <2>3, <2>4
<1> QED
    BY <1>4, <1>5, OneMoves DEF Moves

-----------------------------------------------------------------------------
\* What a manifest says of its interval, and may say.
Entered(m) == /\ m \in Manifests
              /\ m.failed \subseteq DOMAIN m.read
              /\ DOMAIN m.read \subseteq 1..made

Kept(i, m) ==
    /\ m.status = "COMPLETED" => \A c \in DOMAIN m.read : m.read[c] \subseteq stored
    /\ m.safe => \A c \in DOMAIN m.read \ m.failed : K!In(c, i) \subseteq stored /\ c # open

Promises(i, m) == Entered(m) /\ Kept(i, m)

LEMMA PromiseKept ==
    ASSUME K!SizesAssumption,
         Typed, Onward, stored \subseteq stored', NEW i, NEW m, Promises(i, m)
    PROVE  Promises(i, m)'
<1>1. 1..made \subseteq 1..made'
    BY Sizes DEF Typed, Onward
<1>2. Entered(m)'
    BY <1>1 DEF Promises, Entered
<1>3. ASSUME NEW c \in DOMAIN m.read, c # open PROVE c # open' /\ K!In(c, i)' = K!In(c, i)
    BY <1>3 DEF Promises, Entered, Onward, K!In
<1>4. Kept(i, m)'
    BY <1>3 DEF Promises, Kept
<1> QED
    BY <1>2, <1>4 DEF Promises

\* A new manifest.
LEMMA PromiseMade ==
    ASSUME K!SizesAssumption,
         Typed, Prepared, NEW w \in Workers, K!ModelFails(w) \/ K!WriteManifest(w)
    PROVE  \E i \in K!Intervals, m \in Manifests :
             manifest' = [manifest EXCEPT ![i] = m] /\ Promises(i, m)
<1> USE Sizes
<1> DEFINE j == job[w]
           i == K!Least(j.todo)
           M(status, safe) == [status |-> status, safe |-> safe,
                               failed |-> j.failed, read |-> j.read]
<1>1. /\ j \in Jobs /\ Bounded(j) /\ Persisted(j) /\ ReadWhole(j)
      /\ j.pc \in {"predict", "manifest"} /\ j.failed \subseteq K!Captures
    BY DEF Typed, Prepared, Jobs, K!ModelFails, K!WriteManifest, K!At
<1>2. i \in K!Intervals
    <2>1. j.todo # {} /\ j.todo \subseteq K!Intervals
        BY <1>1 DEF Bounded, Jobs
    <2>2. i \in j.todo
        BY <2>1, LeastOf
    <2> QED
        BY <2>1, <2>2
<1>3. ASSUME NEW status \in {"COMPLETED", "FAILED"}, NEW safe \in BOOLEAN
      PROVE  Entered(M(status, safe))
    BY <1>1 DEF Entered, Manifests, Jobs, Bounded
<1>4. CASE K!ModelFails(w)
    <2>1. manifest' = [manifest EXCEPT ![i] = M("FAILED", FALSE)]
        BY <1>4 DEF K!ModelFails, K!Written
    <2>2. Kept(i, M("FAILED", FALSE))
        BY DEF Kept
    <2> QED
        BY <1>2, <1>3, <2>1, <2>2 DEF Promises, Entered
<1>5. CASE K!WriteManifest(w)
    <2> DEFINE safe == ~j.active /\ j.on # {}
    <2>1. manifest' = [manifest EXCEPT ![i] = M("COMPLETED", safe)]
        BY <1>5 DEF K!WriteManifest, K!Written
    <2>2. j.pc = "manifest" /\ DOMAIN j.read = j.on
        BY <1>1, <1>5 DEF K!WriteManifest, K!At, Bounded
    <2>3. \A c \in j.on : j.read[c] \subseteq stored
        BY <1>1, <2>2 DEF Persisted
    <2>4. safe => \A c \in j.on \ j.failed : K!In(c, i) \subseteq stored /\ c # open
        BY <1>1, <2>2, <2>3 DEF ReadWhole
    <2>5. Kept(i, M("COMPLETED", safe))
        BY <2>2, <2>3, <2>4 DEF Kept
    <2> QED
        BY <1>2, <1>3, <2>1, <2>5 DEF Promises, Entered
<1> QED
    BY <1>4, <1>5

LEMMA PromisesAre ==
    Typed => (Promised <=> \A i \in K!Intervals : Promises(i, manifest[i]))
BY DEF Typed, Promised, Promises, Entered, Kept, K!ExtractedIsStored, K!SafeIsWhole,
   K!Status

LEMMA ManifestsNext ==
    ASSUME K!SizesAssumption,
         Typed, Prepared, Promised, Onward, [K!Next]_(K!vars)
    PROVE  manifest' \in [K!Intervals -> Manifests]
           /\ \A i \in K!Intervals : Promises(i, manifest[i])'
<1>1. \A i \in K!Intervals : manifest[i] \in Manifests /\ Promises(i, manifest[i])
    BY PromisesAre DEF Typed
<1>2. \A i \in K!Intervals : \A m \in Manifests : Promises(i, m) => Promises(i, m)'
    BY PromiseKept, StoredGrows
<1>3. \/ UNCHANGED manifest
      \/ \E w \in Workers : K!ModelFails(w) \/ K!WriteManifest(w)
    BY DEF K!Next, K!Kismet, K!Packet, K!Settle, K!Tick, K!KismetStarts, K!KismetDies,
       K!results, K!vars,
       K!Command, K!RunCycle, K!RotateLog, K!ProcessInterval, K!ProcessCompleted, K!CleanupCaptures,
       K!PruneExpired, K!Begin, K!Step, K!QueryActive, K!StopLog, K!StartLog, K!Choose, K!Extract,
       K!Persist, K!Index, K!Clean, K!Prune, K!Aborts
<1>4. \/ UNCHANGED manifest
      \/ \E i \in K!Intervals, m \in Manifests :
            manifest' = [manifest EXCEPT ![i] = m] /\ Promises(i, m)
    BY <1>3, PromiseMade
<1>5. manifest' \in [K!Intervals -> Manifests]
    BY <1>4 DEF Typed
<1>6. ASSUME NEW i \in K!Intervals PROVE Promises(i, manifest[i])'
    <2>1. PICK m \in Manifests : m = manifest'[i]
        BY <1>5
    <2>2. Promises(i, m)
        BY <1>1, <1>4, <2>1 DEF Typed
    <2>3. Promises(i, m)'
        BY <1>2, <2>2
    <2> QED
        BY <2>1, <2>3
<1> QED
    BY <1>5, <1>6

LEMMA Invariant ==
  ASSUME K!SizesAssumption
  PROVE  K!Spec => []Inv
<1>1. ASSUME Inv, [K!Next]_(K!vars) PROVE Inv'
    <2>1. Typed /\ Prepared /\ Promised /\ Onward
        BY <1>1, StepOn DEF Inv
    <2>2. job' \in [Workers -> Jobs] /\ \A w \in Workers : Good(job[w])'
        BY <1>1, <2>1, JobsNext
    <2>3. manifest' \in [K!Intervals -> Manifests]
          /\ \A i \in K!Intervals : Promises(i, manifest[i])'
        BY <1>1, <2>1, ManifestsNext
    <2>4. stored' \subseteq K!Packets /\ faults' \in 0..MaxFaults
        BY <1>1, <2>1, StoredGrows
    <2>5. Typed'
        BY <2>1, <2>2, <2>3, <2>4 DEF Typed, Onward, Good, Promises, Entered
    <2>6. Prepared'
        BY <2>2 DEF Prepared, Good
    <2>7. Promised'
        BY <2>3 DEF Promised, Promises, Kept, K!ExtractedIsStored, K!SafeIsWhole, K!Status
    <2> QED
        BY <2>5, <2>6, <2>7 DEF Inv
<1> QED
    BY InitInv, <1>1, PTL DEF K!Spec

-----------------------------------------------------------------------------
\* Every variable keeps its type, for every number of processes, captures,
\* intervals, packets and faults.
THEOREM KismetTypeCorrect ==
  ASSUME K!SizesAssumption
  PROVE  K!Spec => []K!TypeOK
<1>1. Typed => K!TypeOK
    BY DEF Typed, K!TypeOK, Bounded, Jobs, Manifests, K!Status
<1> QED
    BY Invariant, <1>1, PTL DEF Inv

\* A completed manifest counts only observations whose prediction is in the
\* database (the processor stores before it replaces the manifest).
THEOREM CompletedIsBacked ==
  ASSUME K!SizesAssumption
  PROVE  K!Spec => []K!ExtractedIsStored
BY Invariant, PTL DEF Inv, Promised

\* A manifest that says "safe_for_raw_cleanup" is right of every capture that
\* could be read: nothing of the interval is missing and nothing can be added,
\* because none of the captures was active when it was read.
THEOREM SafeIsTrue ==
  ASSUME K!SizesAssumption
  PROVE  K!Spec => []K!SafeIsWhole
BY Invariant, PTL DEF Inv, Promised

\* The log that Kismet writes and a log with a journal beside it are not removed
\* by the cleanup, with or without an answer of Kismet, nor by the retention
\* script.
THEOREM ActiveCapturesStay ==
  ASSUME K!SizesAssumption
  PROVE  K!Spec => K!ActiveIsKept
<1>1. Inv /\ [K!Next]_(K!vars) => [\A c \in exists \ exists' : c # open /\ c \notin sidecar]_(K!vars)
    <2> SUFFICES ASSUME Typed, [K!Next]_(K!vars), NEW c \in exists \ exists'
                 PROVE  c # open /\ c \notin sidecar
        BY DEF Inv
    <2>1. open \in sidecar \/ open \notin exists
        BY Sizes DEF Typed
    <2>2. \A d : K!IsFileActive(c, d) \/ c \notin sidecar
        BY DEF K!IsFileActive
    <2>3. PICK w \in Workers : K!Clean(w) \/ K!Prune(w)
        BY DEF K!Next, K!Kismet, K!Packet, K!Settle, K!Tick, K!KismetStarts,
           K!KismetDies, K!vars, K!disk,
           K!Opened, K!Closed,
           K!Command, K!RunCycle, K!RotateLog, K!ProcessInterval, K!ProcessCompleted, K!CleanupCaptures,
           K!PruneExpired, K!Begin, K!Step, K!QueryActive, K!StopLog, K!StartLog, K!Choose, K!Extract,
           K!ModelFails, K!Persist, K!WriteManifest, K!Index, K!Aborts
    <2>4. c \notin sidecar
        BY <2>2, <2>3 DEF K!Clean, K!Prune, K!Removed, K!disk
    <2> QED
        BY <2>1, <2>4
<1> QED
    BY Invariant, <1>1, PTL DEF K!Spec, K!ActiveIsKept
=============================================================================
