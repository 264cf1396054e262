------------------- MODULE NeighbourhoodCollection_proofs -------------------
(***************************************************************************)
(* Proofs about NeighbourhoodCollection, for any number of clients, any    *)
(* size of the buckets, any number of collections and losses.  The first   *)
(* part is about the buckets as the code computes them: there is no gap    *)
(* between them, and none is larger than it may be.                        *)
(***************************************************************************)
EXTENDS NeighbourhoodCollection, TLAPS, FiniteSetTheorems, SequenceTheorems,
        WellFoundedInduction

(* A set of numbers has a least one. *)
LEMMA Least ==
  ASSUME NEW T \in SUBSET Nat, T # {}
  PROVE  \E x \in T : \A y \in T : x <= y
  <1> DEFINE R == {ss \in Nat \X Nat : ss[1] < ss[2]}
  <1>1. OpToRel(<, Nat) = R
    BY Zenon DEF OpToRel
  <1>2. IsWellFoundedOn(R, Nat)
    BY <1>1, NatLessThanWellFounded, Zenon
  <1>3. \A x, y \in Nat : y < x => <<y, x>> \in R
    OBVIOUS
  <1> HIDE DEF R
  <1>4. \E x \in T : \A y \in T : ~ (<<y, x>> \in R)
    BY <1>2, WFMin
  <1>5. \A x, y \in Nat : ~ (y < x) => x <= y
    OBVIOUS
  <1> QED BY <1>3, <1>4, <1>5

LEMMA DivMod ==
  ASSUME NEW n \in Nat, NEW b \in Nat \ {0}
  PROVE  /\ n \div b \in Nat /\ n % b \in 0..(b - 1)
         /\ n = b * (n \div b) + (n % b)
  OBVIOUS

LEMMA DivStep ==
  ASSUME NEW n \in Nat, NEW b \in Nat \ {0}
  PROVE  (n + 1) \div b <= (n \div b) + 1 /\ 0 \div b = 0
  <1> DEFINE q == n \div b  r == n % b  p == (n + 1) \div b  s == (n + 1) % b
  <1>1. q \in Nat /\ r \in 0..(b - 1) /\ n = b * q + r
    BY DivMod
  <1>2. p \in Nat /\ s \in 0..(b - 1) /\ n + 1 = b * p + s
    <2>1. n + 1 \in Nat
      OBVIOUS
    <2> QED BY <2>1, DivMod
  <1>3. 0 \div b = 0
    OBVIOUS
  <1> HIDE DEF q, r, p, s
  <1>4. p <= q + 1
    <2>1. SUFFICES ASSUME p >= q + 2 PROVE FALSE
      BY <1>1, <1>2
    <2>2. PICK k \in Nat : p = q + 2 + k
      <3>1. p - q - 2 \in Nat /\ p = q + 2 + (p - q - 2)
        BY <1>1, <1>2, <2>1
      <3> QED BY <3>1
    <2>3. b * p = b * q + 2 * b + b * k
      BY <1>1, <2>2
    <2>4. b * k \in Nat /\ b * q \in Nat
      BY <1>1, <2>2
    <2> QED BY <1>1, <1>2, <2>3, <2>4
  <1> QED BY <1>3, <1>4 DEF q, p

Smaller(j, c) == {d \in Targets(j) : d < c}
Rank(j, c) == Cardinality(Smaller(j, c))

LEMMA Finite ==
  ASSUME NEW j, NEW c
  PROVE  /\ IsFiniteSet(Targets(j)) /\ IsFiniteSet(Smaller(j, c)) /\ Rank(j, c) \in Nat
         /\ Targets(j) \subseteq Nat /\ Targets(j) \subseteq Clients
         /\ Bucket(j, c) = 1 + (Rank(j, c) \div BucketSize)
         /\ Bucket(j, c) \in Nat /\ BucketSize \in Nat \ {0}
  <1>1. NumClients \in Nat /\ BucketSize \in Nat \ {0}
    BY SizesAssumption
  <1>2. IsFiniteSet(Clients)
    BY <1>1, FS_Interval DEF Clients
  <1>3. Targets(j) \in SUBSET Clients /\ Smaller(j, c) \in SUBSET Clients
    BY DEF Targets, Smaller
  <1>4. IsFiniteSet(Targets(j)) /\ IsFiniteSet(Smaller(j, c))
    BY <1>2, <1>3, FS_Subset
  <1>5. Rank(j, c) \in Nat
    BY <1>4, FS_CardinalityType DEF Rank
  <1>6. Bucket(j, c) = 1 + (Rank(j, c) \div BucketSize)
    BY DEF Bucket, Rank, Smaller
  <1>7. Rank(j, c) \div BucketSize \in Nat
    BY <1>1, <1>5, DivMod
  <1> QED BY <1>1, <1>3, <1>4, <1>5, <1>6, <1>7 DEF Clients

(* The rank of a target is that of the one before it, and one more. *)
LEMMA Predecessor ==
  ASSUME NEW j, NEW c \in Targets(j)
  PROVE  \/ Rank(j, c) = 0
         \/ \E d \in Targets(j) : d < c /\ Rank(j, c) = Rank(j, d) + 1
  <1>1. CASE Smaller(j, c) = {}
    BY <1>1, FS_EmptySet DEF Rank
  <1>2. CASE Smaller(j, c) # {}
    <2>1. c \in Nat /\ Targets(j) \subseteq Nat
      BY Finite
    <2> DEFINE Gaps == {c - d : d \in Smaller(j, c)}
    <2>2. Gaps \in SUBSET Nat /\ Gaps # {}
      BY <1>2, <2>1 DEF Smaller
    <2>3. PICK g \in Gaps : \A h \in Gaps : g <= h
      BY <2>2, Least
    <2>4. PICK d \in Smaller(j, c) : g = c - d
      BY <2>3
    <2>5. d \in Targets(j) /\ d < c /\ d \in Nat
      BY <2>1, <2>4 DEF Smaller
    <2>6. \A e \in Smaller(j, c) : e <= d
      <3> SUFFICES ASSUME NEW e \in Smaller(j, c) PROVE e <= d
        OBVIOUS
      <3>1. c - e \in Gaps /\ e \in Nat
        BY <2>1 DEF Smaller
      <3>2. c - d <= c - e
        BY <2>3, <2>4, <3>1
      <3> QED BY <2>1, <2>5, <3>1, <3>2
    <2>7. Smaller(j, c) = Smaller(j, d) \cup {d} /\ d \notin Smaller(j, d)
      BY <2>1, <2>4, <2>5, <2>6 DEF Smaller
    <2>8. Rank(j, c) = Rank(j, d) + 1
      BY <2>7, Finite, FS_AddElement DEF Rank
    <2> QED BY <2>5, <2>8
  <1> QED BY <1>1, <1>2

(* There is no gap between buckets: when one is empty, so are those after it. *)
LEMMA NoGap ==
  ASSUME NEW j, NEW b \in Nat, InBucket(j, b + 1) = {}
  PROVE  \A c \in Targets(j) : Bucket(j, c) <= b
  <1> DEFINE Later == {c \in Targets(j) : Bucket(j, c) > b}
  <1>1. SUFFICES ASSUME Later # {} PROVE FALSE
    BY Finite
  <1>2. Later \in SUBSET Nat
    BY Finite
  <1>3. PICK c \in Later : \A d \in Later : c <= d
    BY <1>1, <1>2, Least
  <1>4. c \in Targets(j) /\ Bucket(j, c) > b /\ c \in Nat
    BY <1>2, <1>3
  <1>5. Bucket(j, c) <= b + 1
    <2>1. CASE Rank(j, c) = 0
      BY <2>1, Finite, DivStep
    <2>2. CASE \E d \in Targets(j) : d < c /\ Rank(j, c) = Rank(j, d) + 1
      <3>1. PICK d \in Targets(j) : d < c /\ Rank(j, c) = Rank(j, d) + 1
        BY <2>2
      <3>2. d \in Nat /\ Bucket(j, d) \in Nat
        BY Finite
      <3>3. d \notin Later
        BY <1>3, <1>4, <3>1, <3>2
      <3>4. Bucket(j, d) <= b
        BY <3>2, <3>3
      <3>5. (Rank(j, d) + 1) \div BucketSize <= (Rank(j, d) \div BucketSize) + 1
        BY Finite, DivStep
      <3>6. Rank(j, d) \div BucketSize \in Nat /\ (Rank(j, d) + 1) \div BucketSize \in Nat
        <4>1. Rank(j, d) \in Nat /\ Rank(j, d) + 1 \in Nat /\ BucketSize \in Nat \ {0}
          BY Finite
        <4> QED BY <4>1, DivMod
      <3> QED BY <3>1, <3>4, <3>5, <3>6, Finite
    <2> QED BY <1>4, <2>1, <2>2, Predecessor
  <1>6. Bucket(j, c) = b + 1
    BY <1>4, <1>5, Finite
  <1> QED BY <1>4, <1>6 DEF InBucket

(* A bucket has no more clients than it may have. *)
LEMMA BucketIsBounded ==
  ASSUME NEW j, NEW b
  PROVE  IsFiniteSet(InBucket(j, b)) /\ Cardinality(InBucket(j, b)) <= BucketSize
  <1> DEFINE f == [c \in InBucket(j, b) |-> Rank(j, c) % BucketSize]
  <1>1. BucketSize \in Nat \ {0} /\ Targets(j) \subseteq Nat /\ InBucket(j, b) \subseteq Targets(j)
    BY Finite DEF InBucket
  <1>2. \A c \in InBucket(j, b) : Rank(j, c) % BucketSize \in 0..(BucketSize - 1)
    BY Finite, DivMod
  <1>3. \A c, d \in InBucket(j, b) : c < d => Rank(j, c) < Rank(j, d)
    <2> SUFFICES ASSUME NEW c \in InBucket(j, b), NEW d \in InBucket(j, b), c < d
                 PROVE  Rank(j, c) < Rank(j, d)
      OBVIOUS
    <2>1. Smaller(j, c) \in SUBSET Smaller(j, d) /\ c \in Smaller(j, d) /\ c \notin Smaller(j, c)
      BY <1>1 DEF Smaller
    <2>2. Rank(j, c) <= Rank(j, d) /\ Rank(j, c) # Rank(j, d)
      BY <2>1, Finite, FS_Subset DEF Rank
    <2> QED BY <2>2, Finite
  <1>4. ASSUME NEW c \in InBucket(j, b), NEW d \in InBucket(j, b), f[c] = f[d] PROVE c = d
    <2>1. Bucket(j, c) = Bucket(j, d)
      BY DEF InBucket
    <2>2. Rank(j, c) \div BucketSize = Rank(j, d) \div BucketSize
      <3>1. Rank(j, c) \div BucketSize \in Nat /\ Rank(j, d) \div BucketSize \in Nat
        BY Finite, DivMod
      <3> QED BY <2>1, <3>1, Finite
    <2>3. Rank(j, c) % BucketSize = Rank(j, d) % BucketSize
      BY <1>4
    <2>4. Rank(j, c) = Rank(j, d)
      <3>1. /\ Rank(j, c) = BucketSize * (Rank(j, c) \div BucketSize) + (Rank(j, c) % BucketSize)
            /\ Rank(j, d) = BucketSize * (Rank(j, d) \div BucketSize) + (Rank(j, d) % BucketSize)
        BY Finite, DivMod
      <3> QED BY <2>2, <2>3, <3>1
    <2>5. c \in Nat /\ d \in Nat /\ Rank(j, c) \in Nat /\ Rank(j, d) \in Nat
      BY <1>1, Finite
    <2> QED BY <1>3, <2>4, <2>5
  <1>5. f \in Injection(InBucket(j, b), 0..(BucketSize - 1))
    BY <1>2, <1>4 DEF Injection, IsInjective
  <1>6. IsFiniteSet(0..(BucketSize - 1)) /\ Cardinality(0..(BucketSize - 1)) = BucketSize
    BY <1>1, FS_Interval
  <1> HIDE DEF f
  <1> QED BY <1>5, <1>6, FS_Injection

-----------------------------------------------------------------------------
(* The inductive invariant.                                                 *)

Running == {"start", "next", "bucket", "finalize"}
Final   == {"COMPLETED", "PARTIAL"}

(* The status of a session follows the step of its thread.                  *)
StatusFollows(j) ==
  /\ job[j].step = "none"   => job[j] = NoSession /\ \A c \in Clients : target[j][c] = "none"
  /\ job[j].step = "start"  => job[j].status = "PENDING" /\ job[j].bucket = 0
  /\ job[j].step \in {"next", "bucket", "finalize"} => job[j].status = "RUNNING"
  /\ job[j].step = "done"   => job[j].status \in Final

(* The active collection is the one whose thread runs.                      *)
OneRuns(j) == job[j].step \in Running <=> active = j

(* How far a target is, as the buckets go by.                               *)
ProgressOf(j, c) ==
  LET b == job[j].bucket IN
  CASE job[j].step = "start"  -> target[j][c] = "PENDING"
    [] job[j].step = "next"   -> IF Bucket(j, c) <= b THEN target[j][c] \in Outcomes
                                                      ELSE target[j][c] = "PENDING"
    [] job[j].step = "bucket" -> /\ Bucket(j, c) < b => target[j][c] \in Outcomes
                                 /\ Bucket(j, c) = b => target[j][c] \in Outcomes \cup {"DISPATCHING"}
                                 /\ Bucket(j, c) > b => target[j][c] = "PENDING"
    [] OTHER                  -> target[j][c] \in Outcomes
Progress(j) == \A c \in Targets(j) : ProgressOf(j, c)

(* A request that waits is of the bucket its collection is in.              *)
Awaited ==
  \A r \in Requests : request[r] \in Waiting =>
    job[r[1]].step = "bucket" /\ target[r[1]][r[2]] = "DISPATCHING"

Order == \A j \in Jobs : StatusFollows(j) /\ OneRuns(j) /\ Progress(j)
IInv  == TypeOK /\ Order /\ Awaited

-----------------------------------------------------------------------------
(* Every variable stays in its domain.                                      *)
LEMMA FrameType ==
  ASSUME NEW kind \in Kinds, NEW r \in Requests, NEW good \in BOOLEAN
  PROVE  Frame(kind, r, good) \in Frames
  BY DEF Frame, Frames

LEMMA FramesGrow ==
  ASSUME TypeOK, NEW c \in Clients, NEW f \in Frames
  PROVE  Append(frames[c], f) \in Seq(Frames)
  <1>1. frames[c] \in Seq(Frames)
    BY DEF TypeOK
  <1> QED BY <1>1

(* The sessions, and a step of one of them. *)
Statuses    == {"none", "PENDING", "RUNNING", "COMPLETED", "PARTIAL"}
SessionType == [step : Steps, bucket : Nat, merged : BOOLEAN, status : Statuses]

LEMMA TypeIsOfSessions == TypeOK <=> TypeOK /\ job \in [Jobs -> SessionType]
  BY DEF TypeOK, SessionType, Statuses

LEMMA SessionChanges ==
  ASSUME job \in [Jobs -> SessionType], NEW j \in Jobs, NEW s \in SessionType,
         job' = [job EXCEPT ![j] = s]
  PROVE  job' \in [Jobs -> SessionType]
  OBVIOUS

LEMMA StepAndStatus ==
  ASSUME job \in [Jobs -> SessionType], NEW j \in Jobs, NEW a \in Steps, NEW b \in Statuses,
         job' = [job EXCEPT ![j].step = a, ![j].status = b]
  PROVE  job' \in [Jobs -> SessionType]
  <1>1. job[j] \in SessionType
    OBVIOUS
  <1>2. [[job[j] EXCEPT !.step = a] EXCEPT !.status = b] \in SessionType
    BY <1>1 DEF SessionType
  <1>3. job' = [job EXCEPT ![j] = [[job[j] EXCEPT !.step = a] EXCEPT !.status = b]]
    OBVIOUS
  <1> QED BY <1>2, <1>3, SessionChanges

LEMMA StepAndBucket ==
  ASSUME job \in [Jobs -> SessionType], NEW j \in Jobs, NEW a \in Steps, NEW b \in Nat,
         job' = [job EXCEPT ![j].step = a, ![j].bucket = b]
  PROVE  job' \in [Jobs -> SessionType]
  <1>1. job[j] \in SessionType
    OBVIOUS
  <1>2. [[job[j] EXCEPT !.step = a] EXCEPT !.bucket = b] \in SessionType
    BY <1>1 DEF SessionType
  <1>3. job' = [job EXCEPT ![j] = [[job[j] EXCEPT !.step = a] EXCEPT !.bucket = b]]
    OBVIOUS
  <1> QED BY <1>2, <1>3, SessionChanges

LEMMA StepAndMerged ==
  ASSUME job \in [Jobs -> SessionType], NEW j \in Jobs, NEW a \in Steps, NEW b \in BOOLEAN,
         job' = [job EXCEPT ![j].step = a, ![j].merged = b]
  PROVE  job' \in [Jobs -> SessionType]
  <1>1. job[j] \in SessionType
    OBVIOUS
  <1>2. [[job[j] EXCEPT !.step = a] EXCEPT !.merged = b] \in SessionType
    BY <1>1 DEF SessionType
  <1>3. job' = [job EXCEPT ![j] = [[job[j] EXCEPT !.step = a] EXCEPT !.merged = b]]
    OBVIOUS
  <1> QED BY <1>2, <1>3, SessionChanges

LEMMA TypeInit == Init => TypeOK
  <1> SUFFICES ASSUME Init PROVE TypeOK
    OBVIOUS
  <1>1. 0 \in 0..MaxLosses
    BY BoundsAssumption
  <1>2. \A c \in Clients : << >> \in Seq(Frames)
    OBVIOUS
  <1>3. NoSession \in [step : Steps, bucket : Nat, merged : BOOLEAN,
                       status : {"none", "PENDING", "RUNNING", "COMPLETED", "PARTIAL"}]
    BY DEF NoSession, Steps
  <1> QED BY <1>1, <1>2, <1>3 DEF Init, TypeOK

LEMMA TypeNext == TypeOK /\ [Next]_vars => TypeOK'
  <1> SUFFICES ASSUME TypeOK, [Next]_vars PROVE TypeOK'
    OBVIOUS
  <1>0. job \in [Jobs -> SessionType]
    BY TypeIsOfSessions
  <1> USE DEF TypeOK
  <1>a. ASSUME job' \in [Jobs -> SessionType], active' \in Jobs \cup {NoJob},
               target' \in [Jobs -> [Clients -> {"none", "PENDING", "DISPATCHING"} \cup Outcomes]],
               UNCHANGED <<network, request, stored>>
        PROVE  TypeOK'
    BY <1>a DEF network, SessionType, Statuses
  <1>1. ASSUME NEW j \in Jobs, Start(j) PROVE TypeOK'
    <2>1. "start" \in Steps /\ "PENDING" \in Statuses
      BY DEF Steps, Statuses
    <2>2. job' \in [Jobs -> SessionType]
      BY <1>0, <1>1, <2>1, StepAndStatus DEF Start
    <2>3. target' \in [Jobs -> [Clients -> {"none", "PENDING", "DISPATCHING"} \cup Outcomes]]
      BY <1>1 DEF Start
    <2>4. active' = j /\ UNCHANGED <<network, request, stored>>
      BY <1>1 DEF Start
    <2> QED BY <1>a, <2>2, <2>3, <2>4
  <1>2. ASSUME NEW j \in Jobs, Run(j) PROVE TypeOK'
    <2>1. "next" \in Steps /\ "RUNNING" \in Statuses
      BY DEF Steps, Statuses
    <2>2. job' \in [Jobs -> SessionType]
      BY <1>0, <1>2, <2>1, StepAndStatus DEF Run
    <2> QED BY <1>a, <1>2, <2>2 DEF Run
  <1>3. ASSUME NEW j \in Jobs, NextBucket(j) PROVE TypeOK'
    <2>1. job[j].bucket + 1 \in Nat
      OBVIOUS
    <2>2. job' \in [Jobs -> SessionType]
      <3>1. "bucket" \in Steps
        BY DEF Steps
      <3> QED BY <1>0, <1>3, <2>1, <3>1, StepAndBucket DEF NextBucket
    <2>3. target' \in [Jobs -> [Clients -> {"none", "PENDING", "DISPATCHING"} \cup Outcomes]]
      BY <1>3 DEF NextBucket
    <2>4. UNCHANGED <<network, request, active, stored>>
      BY <1>3 DEF NextBucket
    <2> QED BY <1>a, <2>2, <2>3, <2>4
  <1>4. ASSUME NEW j \in Jobs, EndBucket(j) PROVE TypeOK'
    BY <1>4 DEF EndBucket, network, Steps
  <1>5. ASSUME NEW j \in Jobs, Merge(j) PROVE TypeOK'
    <2>1. PICK merged \in BOOLEAN :
            job' = [job EXCEPT ![j].step = "finalize", ![j].merged = merged]
      BY <1>5 DEF Merge
    <2>2. "finalize" \in Steps
      BY DEF Steps
    <2>3. job' \in [Jobs -> SessionType]
      BY <1>0, <2>1, <2>2, StepAndMerged
    <2>4. UNCHANGED <<network, request, active, target, stored>>
      BY <1>5 DEF Merge
    <2> QED BY <1>a, <2>3, <2>4
  <1>6. ASSUME NEW j \in Jobs, Finalize(j) PROVE TypeOK'
    <2>1. "done" \in Steps /\ Verdict(j) \in Statuses
      BY DEF Steps, Statuses, Verdict
    <2>2. job' \in [Jobs -> SessionType]
      BY <1>0, <1>6, <2>1, StepAndStatus DEF Finalize
    <2>3. active' \in Jobs \cup {NoJob} /\ UNCHANGED <<network, request, target, stored>>
      BY <1>6 DEF Finalize
    <2> QED BY <1>a, <2>2, <2>3
  <1>7. ASSUME NEW j \in Jobs, NEW c \in Clients, RecordResult(j, c) PROVE TypeOK'
    BY <1>7 DEF RecordResult, network, Outcome, Outcomes
  <1>8. ASSUME NEW r \in Requests, Ask(r) PROVE TypeOK'
    BY <1>8 DEF Ask, Waiting, Results
  <1>9. ASSUME NEW r \in Requests, TakeResponse(r) PROVE TypeOK'
    <2>1. r[2] \in Clients
      BY DEF Requests
    <2>2. Tail(queue[r[2]]) \in Seq(Frames)
      BY <1>9, <2>1 DEF TakeResponse
    <2> QED BY <1>9, <2>1, <2>2 DEF TakeResponse, Waiting, Results
  <1>10. ASSUME NEW r \in Requests, TimesOut(r) PROVE TypeOK'
    BY <1>10 DEF TimesOut, network, Waiting, Results
  <1>11. ASSUME NEW r \in Requests, Reports(r) PROVE TypeOK'
    <2>1. r[2] \in Clients /\ Frame("report", r, TRUE) \in Frames
      BY FrameType DEF Requests, Kinds
    <2>2. Append(frames[r[2]], Frame("report", r, TRUE)) \in Seq(Frames)
      <3> HIDE DEF TypeOK
      <3> QED BY <2>1, FramesGrow
    <2>3. worker' \in [Requests -> {"none", "report", "respond"}]
      BY <1>11 DEF Reports
    <2>4. frames' \in [Clients -> Seq(Frames)]
      BY <1>11, <2>1, <2>2 DEF Reports
    <2>5. UNCHANGED <<online, queue, losses, request, active, job, target, stored>>
      BY <1>11 DEF Reports
    <2> QED BY <2>3, <2>4, <2>5
  <1>12. ASSUME NEW r \in Requests, Responds(r) PROVE TypeOK'
    <2>1. r[2] \in Clients /\ Frame("response", r, Sent(r)) \in Frames
      BY FrameType DEF Requests, Kinds, Sent
    <2>2. Append(frames[r[2]], Frame("response", r, Sent(r))) \in Seq(Frames)
      <3> HIDE DEF TypeOK
      <3> QED BY <2>1, FramesGrow
    <2> QED BY <1>12, <2>1, <2>2 DEF Responds
  <1>13. ASSUME NEW c \in Clients, ReadReport(c) PROVE TypeOK'
    <2>1. Head(frames[c]) \in Frames /\ Tail(frames[c]) \in Seq(Frames)
      BY <1>13 DEF ReadReport
    <2>2. Head(frames[c]).req \in Requests
      BY <2>1 DEF Frames
    <2> QED BY <1>13, <2>1, <2>2 DEF ReadReport
  <1>14. ASSUME NEW c \in Clients, ReadResponse(c) PROVE TypeOK'
    <2>1. Head(frames[c]) \in Frames /\ Tail(frames[c]) \in Seq(Frames)
      BY <1>14 DEF ReadResponse
    <2>2. Append(queue[c], Head(frames[c])) \in Seq(Frames)
      BY <2>1
    <2> QED BY <1>14, <2>1, <2>2 DEF ReadResponse
  <1>15. ASSUME NEW c \in Clients, NEW back \in BOOLEAN, ConnectionEnds(c, back) PROVE TypeOK'
    <2>1. losses + 1 \in 0..MaxLosses
      BY <1>15, BoundsAssumption DEF ConnectionEnds
    <2>2. << >> \in Seq(Frames)
      OBVIOUS
    <2> QED BY <1>15, <2>1, <2>2 DEF ConnectionEnds, Waiting, Results
  <1>16. ASSUME NEW c \in Clients, Reconnects(c) PROVE TypeOK'
    BY <1>16 DEF Reconnects
  <1>17. CASE UNCHANGED vars
    BY <1>17 DEF vars, network
  <1> QED BY <1>1, <1>2, <1>3, <1>4, <1>5, <1>6, <1>7, <1>8, <1>9, <1>10, <1>11, <1>12,
             <1>13, <1>14, <1>15, <1>16, <1>17 DEF Next, RunJob

(* THEOREM TypeCorrect: in every behaviour the variables of the collection  *)
(* stay in their domains (state of GlobalNeighbourhoodCollectionManager).   *)
THEOREM TypeCorrect == Spec => []TypeOK
  <1> QED BY TypeInit, TypeNext, PTL DEF Spec

-----------------------------------------------------------------------------
(* The order of a collection.                                               *)

(* What the invariant says of a session depends on the session, its targets *)
(* and the active collection only.                                          *)
LEMMA Untouched ==
  ASSUME NEW j \in Jobs, Progress(j), StatusFollows(j), job'[j] = job[j], target'[j] = target[j]
  PROVE  Progress(j)' /\ StatusFollows(j)'
  <1>1. Targets(j)' = Targets(j)
    BY DEF Targets
  <1>2. \A c : Bucket(j, c)' = Bucket(j, c)
    BY <1>1 DEF Bucket
  <1>3. Progress(j)'
    BY <1>1, <1>2 DEF Progress, ProgressOf
  <1> QED BY <1>3 DEF StatusFollows

LEMMA OrderInit == Init => Order /\ Awaited
  <1> SUFFICES ASSUME Init PROVE Order /\ Awaited
    OBVIOUS
  <1>1. \A j \in Jobs : StatusFollows(j)
    BY DEF Init, StatusFollows, NoSession
  <1>2. \A j \in Jobs : OneRuns(j)
    BY BoundsAssumption DEF Init, OneRuns, Running, NoSession, NoJob, Jobs
  <1>3. \A j \in Jobs : Progress(j)
    BY DEF Init, Progress, Targets
  <1>4. Awaited
    BY DEF Init, Awaited, Waiting
  <1> QED BY <1>1, <1>2, <1>3, <1>4 DEF Order

(* A step of the session j's own thread: what it leaves of the other        *)
(* sessions, and what it must show of its own.                              *)
LEMMA OwnStep ==
  ASSUME IInv, NEW j \in Jobs,
         \A i \in Jobs : i # j => job'[i] = job[i] /\ target'[i] = target[i],
         StatusFollows(j)', Progress(j)', OneRuns(j)',
         \A i \in Jobs : i # j => OneRuns(i)'
  PROVE  Order'
  <1>1. \A i \in Jobs : i # j => Progress(i)' /\ StatusFollows(i)'
    <2> SUFFICES ASSUME NEW i \in Jobs, i # j PROVE Progress(i)' /\ StatusFollows(i)'
      OBVIOUS
    <2>1. Progress(i) /\ StatusFollows(i) /\ job'[i] = job[i] /\ target'[i] = target[i]
      BY DEF IInv, Order
    <2> QED BY <2>1, Untouched
  <1>2. \A i \in Jobs : Progress(i)' /\ StatusFollows(i)' /\ OneRuns(i)'
    BY <1>1
  <1> QED BY <1>2 DEF Order

LEMMA OrderStart ==
  ASSUME IInv, NEW j \in Jobs, Start(j)
  PROVE  Order' /\ Awaited'
  <1> USE DEF IInv, TypeOK
  <1>1. job'[j] = [NoSession EXCEPT !.step = "start", !.status = "PENDING"]
    BY DEF Start
  <1>2. job'[j].step = "start" /\ job'[j].status = "PENDING" /\ job'[j].bucket = 0
    BY <1>1 DEF NoSession
  <1>3. \A i \in Jobs : i # j => job'[i] = job[i] /\ target'[i] = target[i]
    BY DEF Start
  <1>4. StatusFollows(j)'
    BY <1>2 DEF StatusFollows
  <1>5. Progress(j)'
    <2>1. \A c \in Clients : target'[j][c] \in {"PENDING", "none"}
      BY DEF Start
    <2> QED BY <1>2, <2>1 DEF Progress, ProgressOf, Targets
  <1>6. OneRuns(j)'
    BY <1>2 DEF OneRuns, Running, Start
  <1>7. \A i \in Jobs : i # j => OneRuns(i)'
    BY <1>3, BoundsAssumption DEF OneRuns, Running, Start, Order, Jobs, NoJob
  <1>8. Awaited'
    <2> SUFFICES ASSUME NEW r \in Requests, request[r] \in Waiting
                 PROVE  job'[r[1]].step = "bucket" /\ target'[r[1]][r[2]] = "DISPATCHING"
      BY DEF Awaited, Start
    <2>1. job[r[1]].step = "bucket" /\ target[r[1]][r[2]] = "DISPATCHING" /\ r[1] \in Jobs
      BY DEF Awaited, Requests
    <2>2. r[1] # j
      BY <2>1 DEF Start, NoSession
    <2> QED BY <1>3, <2>1, <2>2
  <1> HIDE DEF IInv, TypeOK
  <1> QED BY <1>3, <1>4, <1>5, <1>6, <1>7, <1>8, OwnStep

(* The steps of the thread that runs a session. *)
LEMMA OrderRun ==
  ASSUME IInv, NEW j \in Jobs, RunJob(j)
  PROVE  Order' /\ Awaited'
  <1> USE DEF IInv, TypeOK
  <1>1. \A i \in Jobs : i # j => job'[i] = job[i] /\ target'[i] = target[i]
    BY DEF RunJob, Run, NextBucket, EndBucket, Merge, Finalize
  <1>2. job[j].step \in Running /\ active = j /\ request' = request
    BY DEF RunJob, Run, NextBucket, EndBucket, Merge, Finalize, Running, Order, OneRuns
  <1>3. StatusFollows(j) /\ Progress(j) /\ OneRuns(j)
    BY DEF Order
  <1>4. Targets(j)' = Targets(j)
    <2>1. CASE NextBucket(j)
      BY <2>1 DEF NextBucket, InBucket, Targets
    <2>2. CASE target' = target
      BY <2>2 DEF Targets
    <2> QED BY <2>1, <2>2 DEF RunJob, Run, EndBucket, Merge, Finalize
  <1>5. \A c : Bucket(j, c)' = Bucket(j, c) /\ Bucket(j, c) \in Nat
    <2> HIDE DEF IInv, TypeOK
    <2>1. \A c : Bucket(j, c)' = Bucket(j, c)
      BY <1>4 DEF Bucket
    <2> QED BY <2>1, Finite
  <1>6. \A c : Bucket(j, c) >= 1
    <2> SUFFICES ASSUME NEW c PROVE Bucket(j, c) >= 1
      OBVIOUS
    <2>1. Rank(j, c) \div BucketSize \in Nat
      BY Finite, DivMod
    <2> QED BY <2>1, Finite
  <1>7. job[j].bucket \in Nat
    OBVIOUS
  <1>8. \A c \in Targets(j) : c \in Clients /\ ProgressOf(j, c)
    BY <1>3 DEF Progress, Targets
  <1>9. Progress(j)' /\ StatusFollows(j)'
    <2>1. CASE Run(j)
      <3>1. job'[j].step = "next" /\ job'[j].bucket = 0 /\ job'[j].status = "RUNNING"
        BY <1>3, <2>1 DEF Run, StatusFollows
      <3>2. \A c \in Targets(j) : target'[j][c] = "PENDING" /\ ~ (Bucket(j, c) <= 0)
        BY <1>5, <1>6, <1>8, <2>1 DEF Run, ProgressOf
      <3> HIDE DEF IInv, TypeOK
      <3> QED BY <1>4, <1>5, <3>1, <3>2 DEF Progress, ProgressOf, StatusFollows
    <2>2. CASE NextBucket(j)
      <3>1. /\ job'[j].step = "bucket" /\ job'[j].bucket = job[j].bucket + 1
            /\ job'[j].status = "RUNNING"
        BY <1>3, <2>2 DEF NextBucket, StatusFollows
      <3>2. \A c \in Targets(j) :
              target'[j][c] = IF Bucket(j, c) = job[j].bucket + 1 THEN "DISPATCHING"
                                                                  ELSE target[j][c]
        BY <1>8, <2>2 DEF NextBucket, InBucket
      <3>3. \A c \in Targets(j) :
              IF Bucket(j, c) <= job[j].bucket THEN target[j][c] \in Outcomes
                                               ELSE target[j][c] = "PENDING"
        BY <1>8, <2>2 DEF NextBucket, ProgressOf
      <3> HIDE DEF IInv, TypeOK
      <3>4. \A c \in Targets(j) : ProgressOf(j, c)'
        <4> SUFFICES ASSUME NEW c \in Targets(j) PROVE ProgressOf(j, c)'
          OBVIOUS
        <4>1. Bucket(j, c) < job[j].bucket + 1 => target'[j][c] \in Outcomes
          BY <1>5, <1>7, <3>2, <3>3
        <4>2. Bucket(j, c) = job[j].bucket + 1 => target'[j][c] = "DISPATCHING"
          BY <3>2
        <4>3. Bucket(j, c) > job[j].bucket + 1 => target'[j][c] = "PENDING"
          BY <1>5, <1>7, <3>2, <3>3
        <4> QED BY <1>5, <3>1, <4>1, <4>2, <4>3 DEF ProgressOf
      <3> QED BY <1>4, <3>1, <3>4 DEF Progress, StatusFollows
    <2>3. CASE EndBucket(j)
      <3>1. /\ job'[j].step = "next" /\ job'[j].bucket = job[j].bucket
            /\ job'[j].status = "RUNNING" /\ target' = target
        BY <1>3, <2>3 DEF EndBucket, StatusFollows
      <3>2. \A c \in Targets(j) :
              IF Bucket(j, c) <= job[j].bucket THEN target[j][c] \in Outcomes
                                               ELSE target[j][c] = "PENDING"
        BY <1>5, <1>7, <1>8, <2>3 DEF EndBucket, BucketDone, InBucket, ProgressOf
      <3> HIDE DEF IInv, TypeOK
      <3> QED BY <1>4, <1>5, <3>1, <3>2 DEF Progress, ProgressOf, StatusFollows
    <2>4. CASE Merge(j)
      <3>1. /\ job'[j].step = "finalize" /\ job'[j].status = "RUNNING" /\ target' = target
        BY <1>3, <2>4 DEF Merge, StatusFollows
      <3>2. \A c \in Targets(j) : Bucket(j, c) <= job[j].bucket
        BY <1>7, <2>4, NoGap DEF Merge
      <3>3. \A c \in Targets(j) : target[j][c] \in Outcomes
        BY <1>8, <2>4, <3>2 DEF Merge, ProgressOf
      <3> HIDE DEF IInv, TypeOK
      <3> QED BY <1>4, <3>1, <3>3 DEF Progress, ProgressOf, StatusFollows
    <2>5. CASE Finalize(j)
      <3>1. job'[j].step = "done" /\ job'[j].status \in Final /\ target' = target
        BY <2>5 DEF Finalize, Verdict, Final
      <3>2. \A c \in Targets(j) : target[j][c] \in Outcomes
        BY <1>8, <2>5 DEF Finalize, ProgressOf
      <3> HIDE DEF IInv, TypeOK
      <3> QED BY <1>4, <3>1, <3>2 DEF Progress, ProgressOf, StatusFollows
    <2> QED BY <2>1, <2>2, <2>3, <2>4, <2>5 DEF RunJob
  <1>10. OneRuns(j)' /\ \A i \in Jobs : i # j => OneRuns(i)'
    <2>1. CASE Finalize(j)
      BY <1>1, <1>2, <2>1, BoundsAssumption
         DEF Finalize, OneRuns, Running, Order, Jobs, NoJob
    <2>2. CASE active' = active /\ job'[j].step \in Running
      BY <1>1, <1>2, <2>2 DEF OneRuns, Order
    <2> QED BY <2>1, <2>2 DEF RunJob, Run, NextBucket, EndBucket, Merge, Running
  <1>11. Awaited'
    <2> SUFFICES ASSUME NEW r \in Requests, request[r] \in Waiting
                 PROVE  job'[r[1]].step = "bucket" /\ target'[r[1]][r[2]] = "DISPATCHING"
      BY <1>2 DEF Awaited
    <2>1. /\ job[r[1]].step = "bucket" /\ target[r[1]][r[2]] = "DISPATCHING"
          /\ r[1] \in Jobs /\ r[2] \in Clients
      BY DEF Awaited, Requests
    <2>2. CASE r[1] = j
      <3>1. EndBucket(j)
        BY <2>1, <2>2 DEF RunJob, Run, NextBucket, EndBucket, Merge, Finalize
      <3>2. r[2] \in Targets(j)
        BY <2>1, <2>2 DEF Targets
      <3>3. Bucket(j, r[2]) = job[j].bucket
        <4>1. ProgressOf(j, r[2]) /\ job[j].step = "bucket" /\ target[j][r[2]] = "DISPATCHING"
          BY <1>8, <2>1, <2>2, <3>2
        <4> HIDE DEF IInv, TypeOK
        <4>2. ~ (Bucket(j, r[2]) < job[j].bucket) /\ ~ (Bucket(j, r[2]) > job[j].bucket)
          BY <4>1 DEF ProgressOf, Outcomes
        <4> QED BY <1>5, <1>7, <4>2
      <3> QED BY <2>1, <2>2, <3>1, <3>2, <3>3 DEF EndBucket, BucketDone, InBucket, Outcomes
    <2>3. CASE r[1] # j
      BY <1>1, <2>1, <2>3
    <2> QED BY <2>2, <2>3
  <1> HIDE DEF IInv, TypeOK
  <1> QED BY <1>1, <1>9, <1>10, <1>11, OwnStep

(* The result of a request becomes the outcome of its target. *)
LEMMA OrderRecord ==
  ASSUME IInv, NEW j \in Jobs, NEW c \in Clients, RecordResult(j, c)
  PROVE  Order' /\ Awaited'
  <1> USE DEF IInv, TypeOK
  <1>1. job' = job /\ active' = active /\ request' = request /\ job[j].step = "bucket"
    BY DEF RecordResult
  <1>2. target' = [target EXCEPT ![j][c] = Outcome(request[<<j, c>>])]
    BY DEF RecordResult
  <1>3. Outcome(request[<<j, c>>]) \in Outcomes /\ target[j][c] = "DISPATCHING"
    BY DEF RecordResult, Outcome, Outcomes
  <1>4. \A d \in Clients : target'[j][d] = IF d = c THEN Outcome(request[<<j, c>>]) ELSE target[j][d]
    BY <1>2
  <1>5. Targets(j)' = Targets(j)
    BY <1>3, <1>4 DEF Targets, Outcomes
  <1>6. \A d : Bucket(j, d)' = Bucket(j, d)
    BY <1>5 DEF Bucket
  <1>7. \A i \in Jobs : i # j => job'[i] = job[i] /\ target'[i] = target[i]
    BY <1>1, <1>2
  <1>8. StatusFollows(j)' /\ OneRuns(j)' /\ \A i \in Jobs : i # j => OneRuns(i)'
    BY <1>1 DEF StatusFollows, OneRuns, Order
  <1>9. ASSUME NEW d \in Targets(j) PROVE ProgressOf(j, d)'
    <2>1. d \in Clients /\ ProgressOf(j, d) /\ (d = c => target'[j][d] \in Outcomes)
          /\ (d # c => target'[j][d] = target[j][d])
      BY <1>3, <1>4 DEF Order, Progress, Targets
    <2>2. d = c => ~ (Bucket(j, d) > job[j].bucket)
      BY <1>1, <1>3, <2>1 DEF ProgressOf
    <2> HIDE DEF IInv, TypeOK
    <2> QED BY <1>1, <1>6, <2>1, <2>2 DEF ProgressOf
  <1>10. Progress(j)'
    BY <1>5, <1>9 DEF Progress
  <1>11. Awaited'
    <2> SUFFICES ASSUME NEW r \in Requests, request[r] \in Waiting
                 PROVE  job[r[1]].step = "bucket" /\ target'[r[1]][r[2]] = "DISPATCHING"
      BY <1>1 DEF Awaited
    <2>1. /\ job[r[1]].step = "bucket" /\ target[r[1]][r[2]] = "DISPATCHING"
          /\ r = <<r[1], r[2]>> /\ r[1] \in Jobs /\ r[2] \in Clients
      BY DEF Awaited, Requests
    <2>2. ~ (r[1] = j /\ r[2] = c)
      BY <2>1 DEF RecordResult, Waiting, Results
    <2> QED BY <1>2, <2>1, <2>2
  <1> HIDE DEF IInv, TypeOK
  <1> QED BY <1>7, <1>8, <1>10, <1>11, OwnStep

(* What the network and the requests do is no step of a session. *)
LEMMA OrderKept ==
  ASSUME IInv, UNCHANGED <<job, target, active>>,
         \A r \in Requests : request'[r] \in Waiting =>
           request[r] \in Waiting \/ (job[r[1]].step = "bucket" /\ target[r[1]][r[2]] = "DISPATCHING")
  PROVE  Order' /\ Awaited'
  <1>1. \A j \in Jobs : StatusFollows(j) /\ Progress(j) /\ OneRuns(j)
    BY DEF IInv, Order
  <1>2. \A j \in Jobs : StatusFollows(j)' /\ Progress(j)'
    BY <1>1, Untouched
  <1>3. \A j \in Jobs : OneRuns(j)'
    BY <1>1 DEF OneRuns
  <1>4. Awaited'
    BY DEF IInv, Awaited
  <1> QED BY <1>2, <1>3, <1>4 DEF Order

LEMMA OrderNext == IInv /\ [Next]_vars => IInv'
  <1> SUFFICES ASSUME IInv, [Next]_vars PROVE Order' /\ Awaited'
    BY TypeNext DEF IInv
  <1> USE DEF Waiting
  <1>1. request \in [Requests -> {"idle"} \cup Waiting \cup Results]
    BY DEF IInv, TypeOK
  <1>2. ASSUME NEW j \in Jobs, Start(j) PROVE Order' /\ Awaited'
    BY <1>2, OrderStart
  <1>3. ASSUME NEW j \in Jobs, RunJob(j) PROVE Order' /\ Awaited'
    BY <1>3, OrderRun
  <1>4. ASSUME NEW j \in Jobs, NEW c \in Clients, RecordResult(j, c) PROVE Order' /\ Awaited'
    BY <1>4, OrderRecord
  <1>5. ASSUME NEW r \in Requests, Ask(r) PROVE Order' /\ Awaited'
    BY <1>1, <1>5, OrderKept DEF Ask
  <1>6. ASSUME NEW r \in Requests, TakeResponse(r) PROVE Order' /\ Awaited'
    BY <1>1, <1>6, OrderKept DEF TakeResponse
  <1>7. ASSUME NEW r \in Requests, TimesOut(r) PROVE Order' /\ Awaited'
    BY <1>1, <1>7, OrderKept DEF TimesOut
  <1>8. ASSUME NEW c \in Clients, NEW back \in BOOLEAN, ConnectionEnds(c, back)
        PROVE  Order' /\ Awaited'
    BY <1>1, <1>8, OrderKept DEF ConnectionEnds
  <1>9. CASE UNCHANGED <<request, active, job, target>>
    BY <1>9, OrderKept
  <1> QED BY <1>2, <1>3, <1>4, <1>5, <1>6, <1>7, <1>8, <1>9
          DEF Next, vars, Reports, Responds, ReadReport, ReadResponse, Reconnects

THEOREM Invariance == Spec => []IInv
  <1>1. Init => IInv
    BY TypeInit, OrderInit DEF IInv
  <1> QED BY <1>1, OrderNext, PTL DEF Spec

(* The requests that wait are the active collection's, of its bucket.        *)
LEMMA WaitingIsBounded == IInv => LoadIsBounded
  <1> SUFFICES ASSUME IInv PROVE LoadIsBounded
    OBVIOUS
  <1> DEFINE S == {r \in Requests : request[r] \in Waiting}
             T == InBucket(active, job[active].bucket)
             h == [r \in S |-> r[2]]
  <1>1. ASSUME NEW r \in S PROVE r = <<active, r[2]>> /\ r[2] \in T
    <2>1. /\ r[1] \in Jobs /\ r[2] \in Clients /\ r = <<r[1], r[2]>>
          /\ job[r[1]].step = "bucket" /\ target[r[1]][r[2]] = "DISPATCHING"
      BY DEF IInv, Awaited, Requests
    <2>2. r[1] = active
      BY <2>1 DEF IInv, Order, OneRuns, Running
    <2>3. r[2] \in Targets(active)
      BY <2>1, <2>2 DEF Targets
    <2>4. ProgressOf(active, r[2]) /\ job[active].bucket \in Nat
      BY <2>1, <2>2, <2>3 DEF IInv, Order, Progress, TypeOK
    <2>5. ~ (Bucket(active, r[2]) < job[active].bucket)
          /\ ~ (Bucket(active, r[2]) > job[active].bucket)
      BY <2>1, <2>2, <2>4 DEF ProgressOf, Outcomes
    <2>6. Bucket(active, r[2]) = job[active].bucket
      BY <2>4, <2>5, Finite
    <2> QED BY <2>1, <2>2, <2>3, <2>6 DEF InBucket
  <1>2. h \in Injection(S, T)
    BY <1>1 DEF Injection, IsInjective
  <1>3. IsFiniteSet(T) /\ Cardinality(T) <= BucketSize
    BY BucketIsBounded
  <1>4. IsFiniteSet(S) /\ Cardinality(S) <= Cardinality(T)
    <2> HIDE DEF S, T, h
    <2> QED BY <1>2, <1>3, FS_Injection
  <1>5. Cardinality(S) \in Nat /\ Cardinality(T) \in Nat /\ BucketSize \in Nat
    BY <1>3, <1>4, FS_CardinalityType, SizesAssumption
  <1>6. Cardinality(S) <= BucketSize
    BY <1>3, <1>4, <1>5
  <1> QED BY <1>6 DEF LoadIsBounded

(* THEOREM LoadBounded: for any number of clients and any bucket size, never *)
(* more requests wait than a bucket has clients, over all collections       *)
(* (LoadIsBounded; _run_session and its executor).                          *)
THEOREM LoadBounded == Spec => []LoadIsBounded
  <1> QED BY Invariance, WaitingIsBounded, PTL

-----------------------------------------------------------------------------
(* A collection keeps the promise of CollectionJob.                         *)

LEMMA Refines == IInv /\ [Next]_vars => [Promise!Next]_(Promise!jobs)
  <1> SUFFICES ASSUME IInv, [Next]_vars, ~ UNCHANGED Promise!jobs PROVE Promise!Next
    OBVIOUS
  <1> USE DEF IInv, TypeOK
  <1> DEFINE outcome == [j \in Jobs |-> [c \in Clients |->
                          IF target[j][c] \in Outcomes THEN target[j][c] ELSE "none"]]
             result  == [j \in Jobs |-> IF job[j].status \in Final THEN job[j].status ELSE "none"]
             targets == [j \in Jobs |-> Targets(j)]
  <1>1. ASSUME NEW j \in Jobs, Start(j) PROVE Promise!Open(j, Targets(j)')
    <2>1. active = NoJob /\ active' = j /\ job[j] = NoSession
          /\ \A c \in Clients : target[j][c] = "none"
      BY <1>1 DEF Start, Order, StatusFollows, NoSession
    <2>2. result[j] = "none"
      BY <2>1 DEF NoSession, Final
    <2>3. targets' = [targets EXCEPT ![j] = Targets(j)']
      BY <1>1 DEF Start, Targets
    <2>4. outcome' = outcome
      BY <1>1, <2>1 DEF Start, Outcomes
    <2>5. result' = result
      BY <1>1, <2>1 DEF Start, NoSession, Final
    <2> QED BY <2>1, <2>2, <2>3, <2>4, <2>5 DEF Promise!Open, Final
  <1>2. ASSUME NEW j \in Jobs, NextBucket(j) PROVE FALSE
    <2>1. \A c \in InBucket(j, job[j].bucket + 1) : c \in Clients /\ target[j][c] = "PENDING"
      <3>1. \A c \in InBucket(j, job[j].bucket + 1) :
              c \in Targets(j) /\ c \in Clients /\ ProgressOf(j, c)
              /\ Bucket(j, c) = job[j].bucket + 1
        BY DEF InBucket, Order, Progress, Targets
      <3>2. job[j].step = "next" /\ job[j].bucket \in Nat
        BY <1>2 DEF NextBucket
      <3> HIDE DEF IInv, TypeOK
      <3> QED BY <3>1, <3>2 DEF ProgressOf
    <2>2. outcome' = outcome
      BY <1>2, <2>1 DEF NextBucket, Outcomes
    <2>3. targets' = targets
      BY <1>2, <2>1 DEF NextBucket, Targets
    <2>4. result' = result /\ active' = active
      BY <1>2 DEF NextBucket, Final
    <2> QED BY <2>2, <2>3, <2>4 DEF Promise!jobs, Final
  <1>3. ASSUME NEW j \in Jobs, NEW c \in Clients, RecordResult(j, c)
        PROVE  Promise!Settle(j, c, Outcome(request[<<j, c>>]))
               /\ Outcome(request[<<j, c>>]) \in Outcomes
    <2>1. active = j /\ active' = active /\ job' = job
      BY <1>3 DEF RecordResult, Order, OneRuns, Running
    <2>2. /\ target[j][c] = "DISPATCHING" /\ Outcome(request[<<j, c>>]) \in Outcomes
          /\ target' = [target EXCEPT ![j][c] = Outcome(request[<<j, c>>])]
      BY <1>3 DEF RecordResult, Outcome, Outcomes
    <2>3. c \in Targets(j) /\ outcome[j][c] = "none"
      BY <2>2 DEF Targets, Outcomes
    <2>4. targets' = targets
      BY <2>2 DEF Targets, Outcomes
    <2>5. outcome' = [outcome EXCEPT ![j][c] = Outcome(request[<<j, c>>])]
      BY <2>2
    <2>6. result' = result
      BY <2>1
    <2> QED BY <2>1, <2>2, <2>3, <2>4, <2>5, <2>6 DEF Promise!Settle, Final
  <1>4. ASSUME NEW j \in Jobs, Finalize(j) PROVE Promise!Close(j)
    <2>1. active = j /\ active' = NoJob /\ target' = target
      BY <1>4 DEF Finalize, Order, OneRuns, Running
    <2>2. \A c \in Targets(j) : c \in Clients /\ target[j][c] \in Outcomes
      BY <1>4 DEF Finalize, Order, Progress, ProgressOf, Targets
    <2>3. \A c \in Targets(j) : outcome[j][c] = target[j][c] /\ outcome[j][c] # "none"
      BY <2>2 DEF Outcomes
    <2>4. Verdict(j) = IF \A c \in Targets(j) : outcome[j][c] = "COMPLETED"
                       THEN "COMPLETED" ELSE "PARTIAL"
      BY <2>3 DEF Verdict
    <2>5. result' = [result EXCEPT ![j] = Verdict(j)]
      BY <1>4 DEF Finalize, Final, Verdict
    <2>6. targets' = targets /\ outcome' = outcome
      BY <2>1 DEF Targets
    <2> QED BY <2>1, <2>3, <2>4, <2>5, <2>6 DEF Promise!Close, Final
  <1>5. ASSUME NEW j \in Jobs, Run(j) \/ EndBucket(j) \/ Merge(j) PROVE FALSE
    <2>1. target' = target /\ active' = active
      BY <1>5 DEF Run, EndBucket, Merge
    <2>2. job[j].status \notin Final /\ job'[j].status \notin Final
      BY <1>5 DEF Run, EndBucket, Merge, Order, StatusFollows, Final
    <2>3. \A i \in Jobs : i # j => job'[i] = job[i]
      BY <1>5 DEF Run, EndBucket, Merge
    <2>4. result' = result
      BY <2>2, <2>3
    <2>5. targets' = targets /\ outcome' = outcome
      BY <2>1 DEF Targets
    <2> QED BY <2>1, <2>4, <2>5 DEF Promise!jobs, Final
  <1>6. CASE UNCHANGED <<active, job, target>>
    BY <1>6 DEF Promise!jobs, Targets
  <1>7. ASSUME NEW j \in Jobs, Start(j) PROVE Targets(j)' \in SUBSET Clients
    BY DEF Targets
  <1>8. \/ \E j \in Jobs : Start(j) \/ RunJob(j) \/ \E c \in Clients : RecordResult(j, c)
        \/ UNCHANGED <<active, job, target>>
    BY DEF Next, vars, Ask, TakeResponse, TimesOut, Reports, Responds,
           ReadReport, ReadResponse, ConnectionEnds, Reconnects
  <1> HIDE DEF IInv, TypeOK
  <1>9. ASSUME NEW j \in Jobs, Start(j) PROVE Promise!Next
    BY <1>1, <1>7, <1>9 DEF Promise!Next
  <1>10. ASSUME NEW j \in Jobs, NEW c \in Clients, RecordResult(j, c) PROVE Promise!Next
    <2> DEFINE o == Outcome(request[<<j, c>>])
    <2>1. o \in Outcomes /\ Promise!Settle(j, c, o)
      BY <1>3, <1>10
    <2> HIDE DEF o
    <2>2. \E d \in Clients, p \in Outcomes : Promise!Settle(j, d, p)
      BY <2>1 DEF Promise!Settle
    <2> QED BY <2>2 DEF Promise!Next
  <1>11. ASSUME NEW j \in Jobs, RunJob(j) PROVE Promise!Next
    <2>1. Finalize(j)
      BY <1>2, <1>5, <1>11 DEF RunJob
    <2>2. Promise!Close(j)
      BY <1>4, <2>1
    <2> QED BY <2>2 DEF Promise!Next
  <1> QED BY <1>6, <1>8, <1>9, <1>10, <1>11

(* THEOREM CollectionIsImplemented: the buckets and the threads implement   *)
(* the job of CollectionJob, whatever the sizes: one job at a time, one     *)
(* outcome for each target, and a verdict that matches the outcomes         *)
(* (start, _run_session, _finalize_session).                                *)
THEOREM CollectionIsImplemented == Spec => ImplementsJob
  <1>1. Init => Promise!Init
    <2> SUFFICES ASSUME Init PROVE Promise!Init
      OBVIOUS
    <2> QED BY DEF Init, Promise!Init, Targets, NoSession, Outcomes
  <1>2. IInv /\ [Next]_vars => [Promise!Next]_(Promise!jobs)
    BY Refines
  <1> QED BY Invariance, <1>1, <1>2, PTL DEF Spec, ImplementsJob, Promise!Spec

-----------------------------------------------------------------------------
(* A completed target has reported: the trail of a report, from the outcome *)
(* back to the frame that carried it.                                       *)

Known(c) == \E r \in stored : r[2] = c

(* A report is ahead of the n-th frame of the client, or has been handled.  *)
Ahead(c, n) ==
  Known(c) \/ \E i \in 1..Len(frames[c]) : i < n /\ frames[c][i].kind = "report"

OutcomesKnown == \A j \in Jobs, c \in Clients : target[j][c] = "COMPLETED" => Known(c)
AnswersKnown  == \A r \in Requests : request[r] = "completed" => Known(r[2])
QueuedKnown   == \A c \in Clients : \A i \in 1..Len(queue[c]) : queue[c][i].good => Known(c)
FramesOwn     == \A c \in Clients : \A i \in 1..Len(frames[c]) : frames[c][i].req[2] = c
FramesAhead   ==
  \A c \in Clients : \A i \in 1..Len(frames[c]) :
    frames[c][i].kind = "response" /\ frames[c][i].good => Ahead(c, i)
WorkersAhead  ==
  \A r \in Requests : worker[r] = "respond" => Ahead(r[2], Len(frames[r[2]]) + 1)

Trail == OutcomesKnown /\ AnswersKnown /\ QueuedKnown /\ FramesOwn /\ FramesAhead /\ WorkersAhead

LEMMA TrailInit == Init => Trail
  BY DEF Init, Trail, OutcomesKnown, AnswersKnown, QueuedKnown, FramesOwn, FramesAhead,
         WorkersAhead

(* What the manager does, and what a request does but for taking an answer: *)
(* no target and no request is completed that was not on the trail.         *)
LEMMA TrailKept ==
  ASSUME Trail, UNCHANGED <<frames, queue, stored>>,
         \A j \in Jobs, c \in Clients : target'[j][c] = "COMPLETED" =>
           target[j][c] = "COMPLETED" \/ request[<<j, c>>] = "completed",
         \A r \in Requests : request'[r] = "completed" => request[r] = "completed",
         \A r \in Requests : worker'[r] = "respond" => worker[r] = "respond"
  PROVE  Trail'
  <1>1. \A c : Known(c)' = Known(c) /\ \A n : Ahead(c, n)' = Ahead(c, n)
    BY DEF Known, Ahead
  <1>2. \A j \in Jobs, c \in Clients : <<j, c>> \in Requests /\ <<j, c>>[2] = c
    BY DEF Requests
  <1>3. OutcomesKnown'
    BY <1>1, <1>2 DEF Trail, OutcomesKnown, AnswersKnown
  <1>4. AnswersKnown' /\ QueuedKnown' /\ FramesOwn' /\ FramesAhead' /\ WorkersAhead'
    BY <1>1 DEF Trail, AnswersKnown, QueuedKnown, FramesOwn, FramesAhead, WorkersAhead
  <1> QED BY <1>3, <1>4 DEF Trail

(* The client writes its report, and then its response. *)
LEMMA TrailWrite ==
  ASSUME Trail, TypeOK, NEW r \in Requests, NEW f \in Frames,
         f.req[2] = r[2], f.kind = "response" /\ f.good => worker[r] = "respond",
         frames' = [frames EXCEPT ![r[2]] = Append(@, f)],
         \A q \in Requests : worker'[q] = "respond" =>
           worker[q] = "respond" \/ (q = r /\ f.kind = "report"),
         UNCHANGED <<queue, request, target, stored>>
  PROVE  Trail'
  <1>1. r[2] \in Clients /\ frames[r[2]] \in Seq(Frames) /\ frames \in [Clients -> Seq(Frames)]
    BY DEF TypeOK, Requests
  <1> DEFINE s == frames[r[2]]  t == Append(s, f)
  <1>2. /\ Len(t) = Len(s) + 1 /\ Len(s) \in Nat /\ t[Len(s) + 1] = f
        /\ \A i \in 1..Len(s) : t[i] = s[i]
    BY <1>1, AppendProperties
  <1>3. frames'[r[2]] = t /\ \A c \in Clients : c # r[2] => frames'[c] = frames[c]
    BY <1>1
  <1> HIDE DEF t
  <1>4. \A c \in Clients : /\ Len(frames[c]) \in Nat /\ Len(frames[c]) <= Len(frames'[c])
                           /\ \A i \in 1..Len(frames[c]) : frames'[c][i] = frames[c][i]
    BY <1>1, <1>2, <1>3
  <1>5. \A c \in Clients : \A n : Ahead(c, n) => Ahead(c, n)'
    <2> SUFFICES ASSUME NEW c \in Clients, NEW n, Ahead(c, n) PROVE Ahead(c, n)'
      OBVIOUS
    <2>1. CASE Known(c)
      BY <2>1 DEF Known, Ahead
    <2>2. CASE \E i \in 1..Len(frames[c]) : i < n /\ frames[c][i].kind = "report"
      <3>1. PICK i \in 1..Len(frames[c]) : i < n /\ frames[c][i].kind = "report"
        BY <2>2
      <3>2. i \in 1..Len(frames'[c]) /\ frames'[c][i] = frames[c][i]
        BY <1>1, <1>2, <1>3, <1>4, <3>1
      <3> QED BY <3>1, <3>2 DEF Ahead
    <2> QED BY <2>1, <2>2 DEF Ahead
  <1>6. OutcomesKnown' /\ AnswersKnown' /\ QueuedKnown'
    BY DEF Trail, OutcomesKnown, AnswersKnown, QueuedKnown, Known
  <1>7. ASSUME NEW c \in Clients, NEW i \in 1..Len(frames'[c])
        PROVE  \/ i \in 1..Len(frames[c]) /\ frames'[c][i] = frames[c][i]
               \/ c = r[2] /\ i = Len(s) + 1 /\ frames'[c][i] = f
    BY <1>1, <1>2, <1>3
  <1>8. FramesOwn'
    BY <1>7 DEF Trail, FramesOwn
  <1>9. FramesAhead'
    <2> SUFFICES ASSUME NEW c \in Clients, NEW i \in 1..Len(frames'[c]),
                        frames'[c][i].kind = "response", frames'[c][i].good
                 PROVE  Ahead(c, i)'
      BY DEF FramesAhead
    <2>1. CASE i \in 1..Len(frames[c]) /\ frames'[c][i] = frames[c][i]
      BY <1>5, <2>1 DEF Trail, FramesAhead
    <2>2. CASE c = r[2] /\ i = Len(s) + 1 /\ frames'[c][i] = f
      <3>1. Ahead(c, i)
        BY <2>2 DEF Trail, WorkersAhead
      <3> QED BY <1>5, <3>1
    <2> QED BY <1>7, <2>1, <2>2
  <1>10. WorkersAhead'
    <2> SUFFICES ASSUME NEW q \in Requests, worker'[q] = "respond"
                 PROVE  Ahead(q[2], Len(frames[q[2]]) + 1)'
      BY DEF WorkersAhead
    <2>1. q[2] \in Clients
      BY DEF Requests
    <2>2. PICK n : n = Len(frames'[q[2]]) + 1
      OBVIOUS
    <2>3. /\ Len(frames[q[2]]) \in Nat /\ Len(frames'[q[2]]) \in Nat
          /\ Len(frames[q[2]]) + 1 <= n
      BY <1>1, <1>2, <1>3, <1>4, <2>1, <2>2
    <2>4. CASE worker[q] = "respond"
      <3>1. Ahead(q[2], Len(frames[q[2]]) + 1)
        BY <2>4 DEF Trail, WorkersAhead
      <3>2. Ahead(q[2], n)
        BY <2>3, <3>1, <2>2 DEF Ahead
      <3>3. Ahead(q[2], n)'
        BY <1>5, <2>1, <3>2
      <3> QED BY <2>2, <3>3 DEF Ahead
    <2>5. CASE q = r /\ f.kind = "report"
      <3>1. frames'[q[2]][Len(s) + 1].kind = "report" /\ Len(s) + 1 \in 1..Len(frames'[q[2]])
            /\ Len(s) + 1 < Len(frames'[q[2]]) + 1
        BY <1>2, <1>3, <2>5
      <3> QED BY <3>1 DEF Ahead
    <2> QED BY <2>4, <2>5
  <1> QED BY <1>6, <1>8, <1>9, <1>10 DEF Trail

(* The reader handles a report: from now on the client is known. *)
LEMMA TrailReport ==
  ASSUME Trail, TypeOK, NEW c \in Clients, ReadReport(c)
  PROVE  Trail'
  <1>1. /\ frames[c] \in Seq(Frames) /\ frames[c] # << >> /\ frames \in [Clients -> Seq(Frames)]
        /\ frames' = [frames EXCEPT ![c] = Tail(@)]
        /\ stored' = stored \cup {Head(frames[c]).req}
        /\ UNCHANGED <<worker, queue, request, target>>
    BY DEF TypeOK, ReadReport
  <1>2. /\ Head(frames[c]) = frames[c][1] /\ 1 \in 1..Len(frames[c])
        /\ Len(frames'[c]) = Len(frames[c]) - 1
        /\ \A i \in 1..Len(frames'[c]) : frames'[c][i] = frames[c][i + 1] /\ i + 1 \in 1..Len(frames[c])
    BY <1>1, HeadTailProperties
  <1>3. \A d \in Clients : d # c => frames'[d] = frames[d]
    BY <1>1
  <1>4. Head(frames[c]).req[2] = c
    BY <1>2 DEF Trail, FramesOwn
  <1>5. Known(c)' /\ \A n : Ahead(c, n)'
    BY <1>1, <1>4 DEF Known, Ahead
  <1>6. \A d \in Clients : Known(d) => Known(d)'
    BY <1>1 DEF Known
  <1>7. \A d \in Clients : \A n : d # c /\ Ahead(d, n) => Ahead(d, n)'
    BY <1>3, <1>6 DEF Ahead
  <1>8. OutcomesKnown' /\ AnswersKnown' /\ QueuedKnown'
    <2>1. \A r \in Requests : r[2] \in Clients
      BY DEF Requests
    <2> QED BY <1>1, <1>6, <2>1 DEF Trail, OutcomesKnown, AnswersKnown, QueuedKnown
  <1>9. FramesOwn'
    BY <1>2, <1>3 DEF Trail, FramesOwn
  <1>10. FramesAhead'
    BY <1>3, <1>5, <1>7 DEF Trail, FramesAhead
  <1>11. WorkersAhead'
    <2> SUFFICES ASSUME NEW q \in Requests, worker[q] = "respond"
                 PROVE  Ahead(q[2], Len(frames[q[2]]) + 1)'
      BY <1>1 DEF WorkersAhead
    <2>1. q[2] \in Clients
      BY DEF Requests
    <2>2. CASE q[2] = c
      BY <1>5, <2>2 DEF Ahead, Known
    <2>3. CASE q[2] # c
      <3>1. Ahead(q[2], Len(frames[q[2]]) + 1) /\ frames'[q[2]] = frames[q[2]]
        BY <1>3, <2>1, <2>3 DEF Trail, WorkersAhead
      <3> QED BY <1>6, <2>1, <3>1 DEF Ahead
    <2> QED BY <2>2, <2>3
  <1> QED BY <1>8, <1>9, <1>10, <1>11 DEF Trail

(* The reader queues a response: a good one has its report behind it. *)
LEMMA TrailResponse ==
  ASSUME Trail, TypeOK, NEW c \in Clients, ReadResponse(c)
  PROVE  Trail'
  <1>1. /\ frames[c] \in Seq(Frames) /\ frames[c] # << >> /\ frames \in [Clients -> Seq(Frames)]
        /\ Head(frames[c]).kind = "response"
        /\ frames' = [frames EXCEPT ![c] = Tail(@)]
        /\ queue' = [queue EXCEPT ![c] = Append(@, Head(frames[c]))]
        /\ UNCHANGED <<worker, stored, request, target>>
        /\ queue \in [Clients -> Seq(Frames)]
    BY DEF TypeOK, ReadResponse
  <1>2. /\ Head(frames[c]) = frames[c][1] /\ 1 \in 1..Len(frames[c]) /\ Len(frames[c]) \in Nat
        /\ Head(frames[c]) \in Frames
        /\ Len(frames'[c]) = Len(frames[c]) - 1
        /\ \A i \in 1..Len(frames'[c]) : frames'[c][i] = frames[c][i + 1] /\ i + 1 \in 1..Len(frames[c])
    BY <1>1, HeadTailProperties
  <1>3. \A d \in Clients : d # c => frames'[d] = frames[d] /\ queue'[d] = queue[d]
    BY <1>1
  <1>4. \A d : Known(d)' = Known(d)
    BY <1>1 DEF Known
  <1>5. Head(frames[c]).good => Known(c)
    <2> SUFFICES ASSUME Head(frames[c]).good PROVE Known(c)
      OBVIOUS
    <2>1. frames[c][1].kind = "response" /\ frames[c][1].good
      BY <1>1, <1>2
    <2>2. FramesAhead
      BY DEF Trail
    <2>3. 1 \in 1..Len(frames[c])
      BY <1>2
    <2>4. Ahead(c, 1)
      BY <2>1, <2>2, <2>3 DEF FramesAhead
    <2>5. ~ \E i \in 1..Len(frames[c]) : i < 1
      BY <1>2
    <2> QED BY <2>4, <2>5 DEF Ahead
  <1>6. \A i \in 1..Len(frames[c]) : frames[c][i].kind = "report" =>
          i - 1 \in 1..Len(frames'[c]) /\ frames'[c][i - 1].kind = "report"
    <2> SUFFICES ASSUME NEW i \in 1..Len(frames[c]), frames[c][i].kind = "report"
                 PROVE  i - 1 \in 1..Len(frames'[c]) /\ frames'[c][i - 1].kind = "report"
      OBVIOUS
    <2>1. i # 1
      BY <1>1, <1>2
    <2>2. i - 1 \in 1..Len(frames'[c]) /\ (i - 1) + 1 = i
      BY <1>2, <2>1
    <2> QED BY <1>2, <2>2
  <1>7. \A n \in Nat : Ahead(c, n + 1) => Ahead(c, n)'
    <2> SUFFICES ASSUME NEW n \in Nat, Ahead(c, n + 1) PROVE Ahead(c, n)'
      OBVIOUS
    <2>1. CASE Known(c)
      BY <1>4, <2>1 DEF Ahead
    <2>2. CASE \E i \in 1..Len(frames[c]) : i < n + 1 /\ frames[c][i].kind = "report"
      <3>1. PICK i \in 1..Len(frames[c]) : i < n + 1 /\ frames[c][i].kind = "report"
        BY <2>2
      <3>2. i - 1 \in 1..Len(frames'[c]) /\ frames'[c][i - 1].kind = "report" /\ i - 1 < n
        BY <1>2, <1>6, <3>1
      <3> QED BY <3>2 DEF Ahead
    <2> QED BY <2>1, <2>2 DEF Ahead
  <1>8. \A d \in Clients : \A n : d # c /\ Ahead(d, n) => Ahead(d, n)'
    BY <1>3, <1>4 DEF Ahead
  <1>9. OutcomesKnown' /\ AnswersKnown'
    BY <1>1, <1>4 DEF Trail, OutcomesKnown, AnswersKnown
  <1>10. QueuedKnown'
    <2> SUFFICES ASSUME NEW d \in Clients, NEW i \in 1..Len(queue'[d]), queue'[d][i].good
                 PROVE  Known(d)
      BY <1>4 DEF QueuedKnown
    <2>1. CASE d # c
      BY <1>3, <2>1 DEF Trail, QueuedKnown
    <2>2. CASE d = c
      <3>1. /\ queue'[c] = Append(queue[c], Head(frames[c])) /\ queue[c] \in Seq(Frames)
        BY <1>1
      <3>2. \/ i \in 1..Len(queue[c]) /\ queue'[c][i] = queue[c][i]
            \/ queue'[c][i] = Head(frames[c])
        BY <1>2, <2>2, <3>1, AppendProperties
      <3> QED BY <1>5, <2>2, <3>2 DEF Trail, QueuedKnown
    <2> QED BY <2>1, <2>2
  <1>11. FramesOwn'
    BY <1>2, <1>3 DEF Trail, FramesOwn
  <1>12. FramesAhead'
    <2> SUFFICES ASSUME NEW d \in Clients, NEW i \in 1..Len(frames'[d]),
                        frames'[d][i].kind = "response", frames'[d][i].good
                 PROVE  Ahead(d, i)'
      BY DEF FramesAhead
    <2>1. CASE d # c
      BY <1>3, <1>8, <2>1 DEF Trail, FramesAhead
    <2>2. CASE d = c
      <3>1. i \in Nat /\ frames'[c][i] = frames[c][i + 1] /\ i + 1 \in 1..Len(frames[c])
        BY <1>2, <2>2
      <3>2. frames[c][i + 1].kind = "response" /\ frames[c][i + 1].good
        BY <2>2, <3>1
      <3>3. FramesAhead
        BY DEF Trail
      <3>4. Ahead(c, i + 1)
        BY <3>1, <3>2, <3>3 DEF FramesAhead
      <3> QED BY <1>7, <2>2, <3>1, <3>4
    <2> QED BY <2>1, <2>2
  <1>13. WorkersAhead'
    <2> SUFFICES ASSUME NEW q \in Requests, worker[q] = "respond"
                 PROVE  Ahead(q[2], Len(frames[q[2]]) + 1)'
      BY <1>1 DEF WorkersAhead
    <2>1. q[2] \in Clients /\ Ahead(q[2], Len(frames[q[2]]) + 1)
      BY DEF Trail, WorkersAhead, Requests
    <2>2. PICK n : n = Len(frames'[q[2]]) + 1
      OBVIOUS
    <2>3. CASE q[2] = c
      <3>1. n = Len(frames[c]) /\ n \in Nat
        BY <1>2, <2>2, <2>3
      <3>2. Ahead(c, n)'
        BY <1>7, <2>1, <2>3, <3>1
      <3> QED BY <2>2, <2>3, <3>2 DEF Ahead
    <2>4. CASE q[2] # c
      <3>1. frames'[q[2]] = frames[q[2]]
        BY <1>3, <2>1, <2>4
      <3> QED BY <1>4, <2>1, <3>1 DEF Ahead
    <2> QED BY <2>3, <2>4
  <1> QED BY <1>9, <1>10, <1>11, <1>12, <1>13 DEF Trail

(* A request takes an answer from the queue. *)
LEMMA TrailTake ==
  ASSUME Trail, TypeOK, NEW r \in Requests, TakeResponse(r)
  PROVE  Trail'
  <1> DEFINE c == r[2]
  <1>1. /\ c \in Clients /\ queue[c] \in Seq(Frames) /\ queue[c] # << >>
        /\ queue \in [Clients -> Seq(Frames)] /\ queue' = [queue EXCEPT ![c] = Tail(@)]
        /\ UNCHANGED <<worker, frames, target, stored>>
    BY DEF TypeOK, TakeResponse, Requests
  <1>2. request' = [request EXCEPT ![r] = IF Head(queue[c]).good THEN "completed" ELSE "client_error"]
    BY DEF TakeResponse
  <1>3. /\ Head(queue[c]) = queue[c][1] /\ 1 \in 1..Len(queue[c])
        /\ \A i \in 1..Len(queue'[c]) : queue'[c][i] = queue[c][i + 1] /\ i + 1 \in 1..Len(queue[c])
    BY <1>1, HeadTailProperties
  <1>4. \A d : Known(d)' = Known(d) /\ \A n : Ahead(d, n)' = Ahead(d, n)
    BY <1>1 DEF Known, Ahead
  <1>5. AnswersKnown'
    <2> SUFFICES ASSUME NEW q \in Requests, request'[q] = "completed" PROVE Known(q[2])
      BY <1>4 DEF AnswersKnown
    <2>1. CASE q = r
      <3>1. Head(queue[c]).good
        BY <1>2, <2>1 DEF TypeOK
      <3> QED BY <1>1, <1>3, <2>1, <3>1 DEF Trail, QueuedKnown
    <2>2. CASE q # r
      BY <1>2, <2>2 DEF Trail, AnswersKnown, TypeOK
    <2> QED BY <2>1, <2>2
  <1>6. QueuedKnown'
    BY <1>1, <1>3, <1>4 DEF Trail, QueuedKnown
  <1>7. OutcomesKnown' /\ FramesOwn' /\ FramesAhead' /\ WorkersAhead'
    BY <1>1, <1>4 DEF Trail, OutcomesKnown, FramesOwn, FramesAhead, WorkersAhead
  <1> QED BY <1>5, <1>6, <1>7 DEF Trail

(* A connection that ends takes its worker, its frames and its queue along. *)
LEMMA TrailEnd ==
  ASSUME Trail, TypeOK, NEW c \in Clients, NEW back \in BOOLEAN, ConnectionEnds(c, back)
  PROVE  Trail'
  <1>1. /\ worker' = [r \in Requests |-> IF r[2] = c THEN "none" ELSE worker[r]]
        /\ frames' = [frames EXCEPT ![c] = << >>] /\ queue' = [queue EXCEPT ![c] = << >>]
        /\ UNCHANGED <<target, stored>>
        /\ frames \in [Clients -> Seq(Frames)] /\ queue \in [Clients -> Seq(Frames)]
    BY DEF ConnectionEnds, TypeOK
  <1>2. \A r \in Requests : request'[r] = "completed" => request[r] = "completed"
    BY DEF ConnectionEnds
  <1>3. /\ Len(frames'[c]) = 0 /\ Len(queue'[c]) = 0
        /\ \A d \in Clients : d # c => frames'[d] = frames[d] /\ queue'[d] = queue[d]
    BY <1>1
  <1>4. \A d : Known(d)' = Known(d)
    BY <1>1 DEF Known
  <1>5. \A d \in Clients : \A n : d # c => Ahead(d, n)' = Ahead(d, n)
    BY <1>3, <1>4 DEF Ahead
  <1>6. OutcomesKnown' /\ AnswersKnown'
    BY <1>1, <1>2, <1>4 DEF Trail, OutcomesKnown, AnswersKnown
  <1>7. QueuedKnown' /\ FramesOwn'
    BY <1>3, <1>4 DEF Trail, QueuedKnown, FramesOwn
  <1>8. FramesAhead'
    BY <1>3, <1>5 DEF Trail, FramesAhead
  <1>9. WorkersAhead'
    <2> SUFFICES ASSUME NEW q \in Requests, worker'[q] = "respond"
                 PROVE  Ahead(q[2], Len(frames[q[2]]) + 1)'
      BY DEF WorkersAhead
    <2>1. q[2] \in Clients /\ q[2] # c /\ worker[q] = "respond"
      BY <1>1 DEF Requests
    <2>2. Ahead(q[2], Len(frames[q[2]]) + 1) /\ frames'[q[2]] = frames[q[2]]
      BY <1>3, <2>1 DEF Trail, WorkersAhead
    <2> QED BY <1>4, <2>2 DEF Ahead
  <1> QED BY <1>6, <1>7, <1>8, <1>9 DEF Trail

LEMMA TrailNext == TypeOK /\ Trail /\ [Next]_vars => Trail'
  <1> SUFFICES ASSUME TypeOK, Trail, [Next]_vars PROVE Trail'
    OBVIOUS
  <1>1. ASSUME NEW j \in Jobs, Start(j) \/ RunJob(j) PROVE Trail'
    <2>1. \A i \in Jobs, c \in Clients : target'[i][c] = "COMPLETED" => target[i][c] = "COMPLETED"
      <3>1. CASE Start(j)
        BY <3>1 DEF Start, TypeOK
      <3>2. CASE NextBucket(j)
        BY <3>2 DEF NextBucket, TypeOK
      <3>3. CASE target' = target
        BY <3>3
      <3> QED BY <1>1, <3>1, <3>2, <3>3 DEF RunJob, Run, EndBucket, Merge, Finalize
    <2>2. UNCHANGED <<network, request, stored>>
      BY <1>1 DEF Start, RunJob, Run, NextBucket, EndBucket, Merge, Finalize
    <2> QED BY <2>1, <2>2, TrailKept DEF network
  <1>2. ASSUME NEW j \in Jobs, NEW c \in Clients, RecordResult(j, c) PROVE Trail'
    <2>1. \A i \in Jobs, d \in Clients : target'[i][d] = "COMPLETED" =>
            target[i][d] = "COMPLETED" \/ request[<<i, d>>] = "completed"
      BY <1>2 DEF RecordResult, Outcome, Results, TypeOK
    <2>2. UNCHANGED <<network, request, stored>>
      BY <1>2 DEF RecordResult
    <2> QED BY <2>1, <2>2, TrailKept DEF network
  <1>3. ASSUME NEW r \in Requests, Ask(r) PROVE Trail'
    <2>1. /\ \A q \in Requests : request'[q] = "completed" => request[q] = "completed"
          /\ \A q \in Requests : worker'[q] = "respond" => worker[q] = "respond"
      BY <1>3 DEF Ask, TypeOK
    <2>2. UNCHANGED <<frames, queue, target, stored>>
      BY <1>3 DEF Ask
    <2> QED BY <2>1, <2>2, TrailKept
  <1>4. ASSUME NEW r \in Requests, TakeResponse(r) PROVE Trail'
    BY <1>4, TrailTake
  <1>5. ASSUME NEW r \in Requests, TimesOut(r) PROVE Trail'
    <2>1. \A q \in Requests : request'[q] = "completed" => request[q] = "completed"
      BY <1>5 DEF TimesOut, TypeOK
    <2>2. UNCHANGED <<network, target, stored>>
      BY <1>5 DEF TimesOut
    <2> QED BY <2>1, <2>2, TrailKept DEF network
  <1>6. ASSUME NEW r \in Requests, Reports(r) PROVE Trail'
    <2> DEFINE f == Frame("report", r, TRUE)
    <2>1. f \in Frames /\ f.req[2] = r[2] /\ f.kind = "report"
      BY FrameType DEF Kinds, Frame
    <2>2. frames' = [frames EXCEPT ![r[2]] = Append(@, f)]
          /\ UNCHANGED <<queue, request, target, stored>>
      BY <1>6 DEF Reports
    <2>3. \A q \in Requests : worker'[q] = "respond" => worker[q] = "respond" \/ q = r
      BY <1>6 DEF Reports, TypeOK
    <2> HIDE DEF f
    <2> QED BY <2>1, <2>2, <2>3, TrailWrite
  <1>7. ASSUME NEW r \in Requests, Responds(r) PROVE Trail'
    <2> DEFINE f == Frame("response", r, Sent(r))
    <2>1. f \in Frames /\ f.req[2] = r[2] /\ f.kind = "response" /\ f.good = Sent(r)
      BY FrameType DEF Kinds, Frame, Sent
    <2>2. frames' = [frames EXCEPT ![r[2]] = Append(@, f)]
          /\ UNCHANGED <<queue, request, target, stored>>
      BY <1>7 DEF Responds
    <2>3. \A q \in Requests : worker'[q] = "respond" => worker[q] = "respond"
      BY <1>7 DEF Responds, TypeOK
    <2>4. f.good => worker[r] = "respond"
      BY <2>1 DEF Sent
    <2> HIDE DEF f
    <2> QED BY <2>1, <2>2, <2>3, <2>4, TrailWrite
  <1>8. ASSUME NEW c \in Clients, ReadReport(c) PROVE Trail'
    BY <1>8, TrailReport
  <1>9. ASSUME NEW c \in Clients, ReadResponse(c) PROVE Trail'
    BY <1>9, TrailResponse
  <1>10. ASSUME NEW c \in Clients, NEW back \in BOOLEAN, ConnectionEnds(c, back) PROVE Trail'
    BY <1>10, TrailEnd
  <1>11. ASSUME NEW c \in Clients, Reconnects(c) PROVE Trail'
    BY <1>11, TrailKept DEF Reconnects
  <1>12. CASE UNCHANGED vars
    BY <1>12, TrailKept DEF vars, network
  <1> QED BY <1>1, <1>2, <1>3, <1>4, <1>5, <1>6, <1>7, <1>8, <1>9, <1>10, <1>11, <1>12
          DEF Next

(* THEOREM CompletedReported: whatever connections are lost and answers come *)
(* late, a target is COMPLETED only if a report of that client has reached  *)
(* the server (CompletedIsReported; _record_target_result_locked and        *)
(* _complete_requested_neighbourhood_command of the client).                *)
THEOREM CompletedReported == Spec => []CompletedIsReported
  <1>1. Trail => CompletedIsReported
    BY DEF Trail, OutcomesKnown, CompletedIsReported, Known
  <1>2. Spec => []TypeOK
    BY TypeCorrect
  <1>3. Spec => []Trail
    BY <1>2, TrailInit, TrailNext, PTL DEF Spec
  <1> QED BY <1>1, <1>3, PTL
=============================================================================
