----------------------- MODULE NeighbourhoodCollection -----------------------
(***************************************************************************)
(* The global neighbourhood collection: GlobalNeighbourhoodCollection-     *)
(* Manager of server_components/global_network_scan.py, the requests it    *)
(* makes (request_client_network_neighbourhood), the clients that answer   *)
(* each with a report and then a response (client/app/client.py), and the  *)
(* reader that stores reports and queues responses (server_lib.py).        *)
(*                                                                         *)
(* A request is a job and a client.  A connection's frames are in order,   *)
(* but an answer may outlive its request: it then waits in the queue for   *)
(* the next one.  Clients are numbered in the order of their MACs.         *)
(***************************************************************************)
EXTENDS Naturals, Sequences, FiniteSets

CONSTANTS
  NumClients,  (* managed clients                                           *)
  BucketSize,  (* GLOBAL_NEIGHBOURHOOD_COLLECTION_BUCKET_SIZE               *)
  MaxJobs,     (* collections in the life of the model (bound)              *)
  MaxLosses    (* connections lost (bound)                                  *)

ASSUME SizesAssumption  == NumClients \in Nat /\ BucketSize \in Nat \ {0}
ASSUME BoundsAssumption == MaxJobs \in Nat /\ MaxLosses \in Nat

Clients  == 1 .. NumClients
Jobs     == 1 .. MaxJobs
NoJob    == 0
Requests == Jobs \X Clients

Outcomes == {"COMPLETED", "TIMED_OUT", "UNAVAILABLE", "FAILED"}
Waiting  == {"waiting", "deaf"}
Results  == {"completed", "client_timeout", "client_unavailable", "client_error"}

VARIABLES
  (* the clients and their connections *)
  online,    (* the client has a connection and an entry                    *)
  worker,    (* of each request: the client's thread that answers it        *)
  frames,    (* reports and responses on their way, per client              *)
  queue,     (* responses the server has queued, per client                 *)
  losses,
  (* the server *)
  request,   (* the thread of a request: idle, waiting, or its result       *)
  active,    (* _active_collection_id                                       *)
  job,       (* a session and the thread that runs it                       *)
  target,    (* the status of each target of a session                      *)
  (* history, read only by the properties *)
  stored     (* requests whose report the server has handled                *)

network == <<online, worker, frames, queue, losses>>
vars    == <<network, request, active, job, target, stored>>

NoSession == [step |-> "none", status |-> "none", bucket |-> 0, merged |-> FALSE]

Init ==
  /\ online  = [c \in Clients |-> TRUE]
  /\ worker  = [r \in Requests |-> "none"]
  /\ frames  = [c \in Clients |-> << >>]
  /\ queue   = [c \in Clients |-> << >>]
  /\ losses  = 0
  /\ request = [r \in Requests |-> "idle"]
  /\ active  = NoJob
  /\ job     = [j \in Jobs |-> NoSession]
  /\ target  = [j \in Jobs |-> [c \in Clients |-> "none"]]
  /\ stored  = {}

Targets(j) == {c \in Clients : target[j][c] # "none"}

(* A target's bucket comes from its place in the sorted snapshot. *)
Bucket_OneMore(j, c) ==                                          \* mutant
  1 + (Cardinality({d \in Targets(j) : d < c}) \div (BucketSize + 1))
Bucket(j, c)  == 1 + (Cardinality({d \in Targets(j) : d < c}) \div BucketSize)
InBucket(j, b) == {c \in Targets(j) : Bucket(j, c) = b}

-----------------------------------------------------------------------------
(* The manager.                                                             *)

(* start: a second call while a collection is active returns that one.      *)
Start(j) ==
  /\ active = NoJob
  /\ job[j] = NoSession /\ \A i \in Jobs : i < j => job[i] # NoSession
  /\ active' = j
  /\ job'    = [job EXCEPT ![j].step = "start", ![j].status = "PENDING"]
  /\ target' = [target EXCEPT ![j] =
                  [c \in Clients |-> IF online[c] THEN "PENDING" ELSE "none"]]
  /\ UNCHANGED <<network, request, stored>>

Run(j) ==
  /\ job[j].step = "start"
  /\ job' = [job EXCEPT ![j].step = "next", ![j].status = "RUNNING"]
  /\ UNCHANGED <<network, request, active, target, stored>>

(* _run_session, one bucket after another. *)
NextBucket(j) ==
  LET b == job[j].bucket + 1 IN
  /\ job[j].step = "next" /\ InBucket(j, b) # {}
  /\ job'    = [job EXCEPT ![j].step = "bucket", ![j].bucket = b]
  /\ target' = [target EXCEPT ![j] =
                  [c \in Clients |-> IF c \in InBucket(j, b) THEN "DISPATCHING" ELSE @[c]]]
  /\ UNCHANGED <<network, request, active, stored>>

(* _record_target_result_locked. *)
Outcome(result) ==
  CASE result = "completed"          -> "COMPLETED"
    [] result = "client_timeout"     -> "TIMED_OUT"
    [] result = "client_unavailable" -> "UNAVAILABLE"
    [] OTHER                         -> "FAILED"

RecordResult(j, c) ==
  /\ job[j].step = "bucket" /\ target[j][c] = "DISPATCHING" /\ request[<<j, c>>] \in Results
  /\ target' = [target EXCEPT ![j][c] = Outcome(request[<<j, c>>])]
  /\ UNCHANGED <<network, request, active, job, stored>>

(* Leaving the executor waits for every request of the bucket. *)
BucketDone_AllWell(j) ==                                         \* mutant
  \A c \in InBucket(j, job[j].bucket) : target[j][c] = "COMPLETED"
BucketDone(j) ==
  \A c \in InBucket(j, job[j].bucket) : target[j][c] \in Outcomes

EndBucket(j) ==
  /\ job[j].step = "bucket" /\ BucketDone(j)
  /\ job' = [job EXCEPT ![j].step = "next"]
  /\ UNCHANGED <<network, request, active, target, stored>>

(* After the last bucket the stored observations are merged, if any client  *)
(* answered; a merge that fails is recorded and nothing more.               *)
Merge(j) ==
  /\ job[j].step = "next" /\ InBucket(j, job[j].bucket + 1) = {}
  /\ \E merged \in BOOLEAN :
       /\ merged => \E c \in Clients : target[j][c] = "COMPLETED"
       /\ job' = [job EXCEPT ![j].step = "finalize", ![j].merged = merged]
  /\ UNCHANGED <<network, request, active, target, stored>>

Verdict_AnyCompleted(j) ==                                       \* mutant
  IF \E c \in Targets(j) : target[j][c] = "COMPLETED" THEN "COMPLETED" ELSE "PARTIAL"
Verdict(j) ==
  IF \A c \in Targets(j) : target[j][c] = "COMPLETED" THEN "COMPLETED" ELSE "PARTIAL"

Finalize(j) ==
  /\ job[j].step = "finalize"
  /\ job'    = [job EXCEPT ![j].step = "done", ![j].status = Verdict(j)]
  /\ active' = IF active = j THEN NoJob ELSE active
  /\ UNCHANGED <<network, request, target, stored>>

-----------------------------------------------------------------------------
(* A request, on a worker of the bucket's executor.                         *)

Ask(r) ==
  LET j == r[1]  c == r[2] IN
  /\ job[j].step = "bucket" /\ target[j][c] = "DISPATCHING" /\ request[r] = "idle"
  /\ IF online[c]
     THEN /\ request' = [request EXCEPT ![r] = "waiting"]
          /\ worker'  = [worker EXCEPT ![r] = "report"]
     ELSE /\ request' = [request EXCEPT ![r] = "client_unavailable"]
          /\ UNCHANGED worker
  /\ UNCHANGED <<online, frames, queue, losses, active, job, target, stored>>

(* Any response of that name in the queue is the answer. *)
TakeResponse(r) ==
  LET c == r[2] IN
  /\ request[r] = "waiting" /\ queue[c] # << >>
  /\ request' = [request EXCEPT ![r] =
                   IF Head(queue[c]).good THEN "completed" ELSE "client_error"]
  /\ queue'   = [queue EXCEPT ![c] = Tail(@)]
  /\ UNCHANGED <<online, worker, frames, losses, active, job, target, stored>>

TimesOut(r) ==
  /\ request[r] = "deaf" \/ (request[r] = "waiting" /\ queue[r[2]] = << >>)
  /\ request' = [request EXCEPT ![r] = "client_timeout"]
  /\ UNCHANGED <<network, active, job, target, stored>>

-----------------------------------------------------------------------------
(* The clients and the reader of each connection.                           *)

Frame(kind, r, good) == [kind |-> kind, req |-> r, good |-> good]

(* _complete_requested_neighbourhood_command: the report, if today's file   *)
(* can be read, and then the response.                                      *)
Reports(r) ==
  /\ worker[r] = "report"
  /\ worker' = [worker EXCEPT ![r] = "respond"]
  /\ frames' = [frames EXCEPT ![r[2]] = Append(@, Frame("report", r, TRUE))]
  /\ UNCHANGED <<online, queue, losses, request, active, job, target, stored>>

(* What send_requested_network_neighbourhood returned. *)
Sent_Assumed(r) == TRUE                                          \* mutant
Sent(r)         == worker[r] = "respond"

Responds(r) ==
  /\ worker[r] \in {"report", "respond"}
  /\ worker' = [worker EXCEPT ![r] = "none"]
  /\ frames' = [frames EXCEPT ![r[2]] =
                  Append(@, Frame("response", r, Sent(r)))]
  /\ UNCHANGED <<online, queue, losses, request, active, job, target, stored>>

(* handle_network_neighbour_report stores the observations, or prints that  *)
(* it could not; the reader goes on to the next frame.                      *)
ReadReport(c) ==
  /\ frames[c] # << >> /\ Head(frames[c]).kind = "report"
  /\ frames' = [frames EXCEPT ![c] = Tail(@)]
  /\ stored' = stored \cup {Head(frames[c]).req}
  /\ UNCHANGED <<online, worker, queue, losses, request, active, job, target>>

ReadResponse(c) ==
  /\ frames[c] # << >> /\ Head(frames[c]).kind = "response"
  /\ frames' = [frames EXCEPT ![c] = Tail(@)]
  /\ queue'  = [queue EXCEPT ![c] = Append(@, Head(frames[c]))]
  /\ UNCHANGED <<online, worker, losses, request, active, job, target, stored>>

(* A connection ends.  The server notices and wakes the request that waits, *)
(* or the client is back before it does: the entry then gets a new queue,   *)
(* and a request that waits on the old one hears nothing more.              *)
ConnectionEnds(c, back) ==
  /\ online[c] /\ losses < MaxLosses
  /\ losses'  = losses + 1
  /\ online'  = [online EXCEPT ![c] = back]
  /\ worker'  = [r \in Requests |-> IF r[2] = c THEN "none" ELSE worker[r]]
  /\ frames'  = [frames EXCEPT ![c] = << >>]
  /\ queue'   = [queue EXCEPT ![c] = << >>]
  /\ request' = [r \in Requests |->
                   IF r[2] = c /\ request[r] = "waiting"
                   THEN IF back THEN "deaf" ELSE "client_error"
                   ELSE request[r]]
  /\ UNCHANGED <<active, job, target, stored>>

Reconnects(c) ==
  /\ ~ online[c]
  /\ online' = [online EXCEPT ![c] = TRUE]
  /\ UNCHANGED <<worker, frames, queue, losses, request, active, job, target, stored>>

RunJob(j) == Run(j) \/ NextBucket(j) \/ EndBucket(j) \/ Merge(j) \/ Finalize(j)

Next ==
  \/ \E j \in Jobs : Start(j) \/ RunJob(j) \/ \E c \in Clients : RecordResult(j, c)
  \/ \E r \in Requests : Ask(r) \/ TakeResponse(r) \/ TimesOut(r) \/ Reports(r) \/ Responds(r)
  \/ \E c \in Clients : ReadReport(c) \/ ReadResponse(c) \/ Reconnects(c)
                        \/ \E back \in BOOLEAN : ConnectionEnds(c, back)

(* The threads of the manager run, and a request has a timeout.  Nothing is *)
(* assumed of the clients.                                                  *)
Fairness ==
  /\ \A j \in Jobs : WF_vars(RunJob(j)) /\ \A c \in Clients : WF_vars(RecordResult(j, c))
  /\ \A r \in Requests : WF_vars(Ask(r)) /\ WF_vars(TakeResponse(r) \/ TimesOut(r))

Spec == Init /\ [][Next]_vars /\ Fairness

-----------------------------------------------------------------------------
Kinds  == {"report", "response"}
Frames == [kind : Kinds, req : Requests, good : BOOLEAN]
Steps  == {"none", "start", "next", "bucket", "finalize", "done"}

(* Every variable stays in its domain. *)
TypeOK ==
  /\ online \in [Clients -> BOOLEAN]
  /\ worker \in [Requests -> {"none", "report", "respond"}]
  /\ frames \in [Clients -> Seq(Frames)]
  /\ queue  \in [Clients -> Seq(Frames)]
  /\ losses \in 0 .. MaxLosses
  /\ request \in [Requests -> {"idle"} \cup Waiting \cup Results]
  /\ active \in Jobs \cup {NoJob}
  /\ job \in [Jobs -> [step : Steps, bucket : Nat, merged : BOOLEAN,
                       status : {"none", "PENDING", "RUNNING", "COMPLETED", "PARTIAL"}]]
  /\ target \in [Jobs -> [Clients -> {"none", "PENDING", "DISPATCHING"} \cup Outcomes]]
  /\ stored \subseteq Requests

(* Never more clients work on a collection than a bucket has: requests wait *)
(* for at most one bucket at a time, over all collections.                  *)
LoadIsBounded == Cardinality({r \in Requests : request[r] \in Waiting}) <= BucketSize

(* A target is COMPLETED only if a report of that client has reached the    *)
(* server before: the report is sent, and read, ahead of the response.      *)
CompletedIsReported ==
  \A j \in Jobs, c \in Clients : target[j][c] = "COMPLETED" => \E r \in stored : r[2] = c

(* The collection does what CollectionJob promises.                         *)
Promise == INSTANCE CollectionJob WITH
  Outcomes <- Outcomes, Success <- "COMPLETED", Unsettled <- "none",
  open     <- active,
  targets  <- [j \in Jobs |-> Targets(j)],
  outcome  <- [j \in Jobs |-> [c \in Clients |->
                 IF target[j][c] \in Outcomes THEN target[j][c] ELSE "none"]],
  result   <- [j \in Jobs |-> IF job[j].status \in {"COMPLETED", "PARTIAL"}
                              THEN job[j].status ELSE "none"]

ImplementsJob == Promise!Spec

(* A collection that was started is finished, and the next one can start:   *)
(* no client can hold it up.                                                *)
CollectionEnds ==
  \A j \in Jobs : job[j].step = "start" ~> (job[j].step = "done" /\ active # j)

(* "whose client report is received, persisted, and merged ... before the   *)
(* request is reported as completed" (the docstring of the manager): a      *)
(* completed request has had its report handled.                            *)
CompletedIsFresh ==
  \A r \in Requests : request[r] = "completed" => r \in stored
=============================================================================
