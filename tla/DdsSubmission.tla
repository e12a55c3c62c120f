--------------------------- MODULE DdsSubmission ---------------------------
(***************************************************************************)
(* The life of Due Diligence Statements (DDS): an API request builds a     *)
(* statement for a lot, another one enqueues its submission, and Celery    *)
(* workers file it with the EU system TRACES NT, with two layers of retry. *)
(*                                                                         *)
(* Every database transaction is a read step followed by a commit step, as *)
(* PostgreSQL's READ COMMITTED isolation lets other transactions commit in *)
(* between and no query takes a row lock.  A worker's transaction is open  *)
(* during the whole exchange with TRACES NT.                               *)
(*                                                                         *)
(* Celery's broker and TRACES NT are outside the repository: they are      *)
(* modelled by the settings and calls of the code that uses them.          *)
(***************************************************************************)
EXTENDS Naturals, FiniteSets

CONSTANTS
  Dds,             (* Statements that may be built.                        *)
  Lots,            (* Lots the statements are about.                       *)
  Tasks,           (* Celery task ids; one is used by each submit call.    *)
  Workers,         (* Celery worker processes.                             *)
  Refs,            (* Reference numbers TRACES NT may hand out.            *)
  None,            (* A NULL column.                                       *)
  MaxAttempts,     (* stop_after_attempt of the HTTP client (5).           *)
  MaxRetries,      (* max_retries of the Celery task (6).                  *)
  MaxSubmits,      (* Bound: submit calls per statement.                   *)
  MaxDisruptions,  (* Bound: worker losses and duplicate deliveries.       *)
  Faults           (* What may go wrong around a submission, see below.    *)

DdsStatus == {"draft", "ready", "submitted", "accepted", "rejected", "withdrawn"}

LotStatus == {"draft", "sealed", "dds_pending", "dds_submitted", "shipped", "rejected"}

(* Why _token raises TracesNTError: settings without credentials, a 4xx or *)
(* a 5xx of the token endpoint.                                            *)
TokenErrors == {"no_credentials", "token_4xx", "token_5xx"}

(* The text kept in rejection_reason, by its origin.                       *)
Reasons == TokenErrors \cup {"dds_4xx"}

(* "token"     the token endpoint may answer anything but 200              *)
(* "transport" the connection may break or time out (httpx.TransportError) *)
(* "5xx"       the statement endpoint may answer 5xx                       *)
(* "lost"      the two above may hit after TRACES NT stored the statement  *)
(* "garbled"   a 2xx answer may lack the reference number                  *)
(* "database"  the worker's query or commit may fail                       *)
FaultKinds == {"token", "transport", "5xx", "lost", "garbled", "database"}

ASSUME ConstantsAssumption ==
  /\ IsFiniteSet(Tasks)
  /\ MaxAttempts \in Nat \ {0}
  /\ MaxRetries \in Nat
  /\ MaxSubmits \in Nat
  /\ MaxDisruptions \in Nat
  /\ Faults \subseteq FaultKinds
  /\ None \notin Lots \cup Dds \cup Refs \cup Reasons
  /\ Refs \cap Reasons = {}

VARIABLES
  dds,          (* Rows of due_diligence_statements.                       *)
  lot,          (* The status column of the lots.                          *)
  requests,     (* API transactions that have read and not yet committed.  *)
  tasks,        (* The statement each used task id was enqueued for.       *)
  queue,        (* Messages the broker can deliver.                        *)
  jobs,         (* Executions of submit_dds_task, one per busy worker.     *)
  results,      (* Celery's result backend: how executions ended.          *)
  filed,        (* The statements TRACES NT holds.                         *)
  disruptions   (* Worker losses and duplicate deliveries so far.          *)

vars == <<dds, lot, requests, tasks, queue, jobs, results, filed, disruptions>>

Row == [status: DdsStatus \cup {"absent"}, lot: Lots \cup {None},
        ref: Refs \cup {None}, reason: Reasons \cup {None}]

AbsentRow == [status |-> "absent", lot |-> None, ref |-> None, reason |-> None]

Message == [task: Tasks, dds: Dds, retries: 0..MaxRetries]

CreateRequest == [op: {"create"}, dds: Dds, lot: Lots, seen: LotStatus]

SealRequest == [op: {"seal"}, lot: Lots]

(* A running _submit coroutine: the row and lot status its session loaded, *)
(* the tenacity attempt it is in and what TRACES NT answered.              *)
Job == [worker: Workers, msg: Message,
        step: {"token", "post", "record", "reject", "ack"},
        attempt: 1..MaxAttempts, seen: Row, seenLot: LotStatus,
        answer: Refs \cup Reasons \cup {None}]

(* What Celery keeps of an execution: that it returned, or what it raised, *)
(* a TracesNTError being "rejected" and all that nobody handles "error".   *)
Outcome == {"done", "rejected", "transport", "5xx", "error"}

TypeOK ==
  /\ dds \in [Dds -> Row]
  /\ lot \in [Lots -> LotStatus]
  /\ requests \subseteq CreateRequest \cup SealRequest
  /\ tasks \in [Tasks -> Dds \cup {None}]
  /\ queue \subseteq Message
  /\ jobs \subseteq Job
  /\ results \subseteq [msg: Message, outcome: Outcome]
  /\ filed \subseteq [dds: Dds, ref: Refs]
  /\ disruptions \in 0..MaxDisruptions

Init ==
  /\ dds = [d \in Dds |-> AbsentRow]
  /\ lot = [l \in Lots |-> "draft"]
  /\ requests = {}
  /\ tasks = [t \in Tasks |-> None]
  /\ queue = {}
  /\ jobs = {}
  /\ results = {}
  /\ filed = {}
  /\ disruptions = 0

-----------------------------------------------------------------------------
(* The API: seal a lot, build a statement, submit it                       *)

(* SQLAlchemy's flush writes a column only when the new value differs from *)
(* the one the session loaded; otherwise the row keeps what it has now.    *)
Flushed(current, loaded, new) == IF new = loaded THEN current ELSE new

SealLotRead(l) ==
  /\ lot[l] = "draft"
  /\ requests' = requests \cup {[op |-> "seal", lot |-> l]}
  /\ UNCHANGED <<dds, lot, tasks, queue, jobs, results, filed, disruptions>>

SealLotCommit(r) ==
  /\ r.op = "seal"
  /\ lot' = [lot EXCEPT ![r.lot] = "sealed"]
  /\ requests' = requests \ {r}
  /\ UNCHANGED <<dds, tasks, queue, jobs, results, filed, disruptions>>

(* create_dds loads the lot, whatever its status, and works on that copy.  *)
CreateDdsRead(d, l) ==
  /\ dds[d].status = "absent"
  /\ \A r \in requests : r.op = "create" => r.dds # d
  /\ requests' = requests \cup {[op |-> "create", dds |-> d, lot |-> l, seen |-> lot[l]]}
  /\ UNCHANGED <<dds, lot, tasks, queue, jobs, results, filed, disruptions>>

CreateDdsCommit(r) ==
  /\ r.op = "create"
  /\ dds' = [dds EXCEPT ![r.dds] =
                [status |-> "ready", lot |-> r.lot, ref |-> None, reason |-> None]]
  /\ lot' = [lot EXCEPT ![r.lot] = Flushed(@, r.seen, "dds_pending")]
  /\ requests' = requests \ {r}
  /\ UNCHANGED <<tasks, queue, jobs, results, filed, disruptions>>

(* get_session rolls back when the handler raises: a ConflictError of the  *)
(* risk gate, a constraint, a lost connection.                             *)
AbortRequest(r) ==
  /\ requests' = requests \ {r}
  /\ UNCHANGED <<dds, lot, tasks, queue, jobs, results, filed, disruptions>>

SubmitCalls(d) == {t \in Tasks : tasks[t] = d}

Submittable(d) == dds[d].status \in {"ready", "draft"}

(* The handler only enqueues: the row stays "ready" until a worker commits.*)
SubmitDds(d, t) ==
  /\ Submittable(d)
  /\ tasks[t] = None
  /\ Cardinality(SubmitCalls(d)) < MaxSubmits
  /\ tasks' = [tasks EXCEPT ![t] = d]
  /\ queue' = queue \cup {[task |-> t, dds |-> d, retries |-> 0]}
  /\ UNCHANGED <<dds, lot, requests, jobs, results, filed, disruptions>>

-----------------------------------------------------------------------------
(* The worker: one execution of submit_dds_task                            *)

Idle(w) == \A j \in jobs : j.worker # w

(* task_acks_late: the message leaves the queue and is acknowledged only   *)
(* when the job ends.  The session loads the row once, here; the status is *)
(* not looked at.  (The not_found return needs a deleted row, and nothing  *)
(* deletes rows.)                                                          *)
Deliver(w, m) ==
  /\ Idle(w)
  /\ queue' = queue \ {m}
  /\ jobs' = jobs \cup {[worker |-> w, msg |-> m, step |-> "token", attempt |-> 1,
                         seen |-> dds[m.dds], seenLot |-> lot[dds[m.dds].lot],
                         answer |-> None]}
  /\ UNCHANGED <<dds, lot, requests, tasks, results, filed, disruptions>>

(* The query fails: no TracesNTError, so the task is not retried.          *)
LoadFails(w, m) ==
  /\ "database" \in Faults
  /\ Idle(w)
  /\ queue' = queue \ {m}
  /\ results' = results \cup {[msg |-> m, outcome |-> "error"]}
  /\ UNCHANGED <<dds, lot, requests, tasks, jobs, filed, disruptions>>

Become(j, k) == jobs' = (jobs \ {j}) \cup {k}

EndJob(j, outcome) ==
  /\ jobs' = jobs \ {j}
  /\ results' = results \cup {[msg |-> j.msg, outcome |-> outcome]}

(* BUG VARIANT: the stop condition is off by one.                          *)
AttemptsLeft_OffByOne(j) == j.attempt <= MaxAttempts

AttemptsLeft(j) == j.attempt < MaxAttempts

(* autoretry_for: only TracesNTRetryableError, which only a 5xx raises.    *)
AutoRetried(fault) == fault = "5xx"

(* BUG VARIANT: the retried message forgets how often it was retried.      *)
Retry_Forgets(m) == m

Retry(m) == [m EXCEPT !.retries = @ + 1]

(* An attempt of client.submit raised a transient error: tenacity starts   *)
(* over with a new token; after the last attempt the error reaches Celery, *)
(* which enqueues the message again or lets the task fail.                 *)
AttemptFails(j, fault) ==
  \/ /\ AttemptsLeft(j)
     /\ Become(j, [j EXCEPT !.step = "token", !.attempt = @ + 1])
     /\ UNCHANGED <<queue, results>>
  \/ /\ ~AttemptsLeft(j)
     /\ AutoRetried(fault)
     /\ j.msg.retries < MaxRetries
     /\ queue' = queue \cup {Retry(j.msg)}
     /\ jobs' = jobs \ {j}
     /\ UNCHANGED results
  \/ /\ ~AttemptsLeft(j)
     /\ ~(AutoRetried(fault) /\ j.msg.retries < MaxRetries)
     /\ EndJob(j, fault)
     /\ UNCHANGED queue

GetToken(j) ==
  /\ j.step = "token"
  /\ Become(j, [j EXCEPT !.step = "post"])
  /\ UNCHANGED <<dds, lot, requests, tasks, queue, results, filed, disruptions>>

(* Every answer but 200 is a TracesNTError: no retry, the row is rejected. *)
TokenRefused(j, why) ==
  /\ "token" \in Faults
  /\ j.step = "token"
  /\ Become(j, [j EXCEPT !.step = "reject", !.answer = why])
  /\ UNCHANGED <<dds, lot, requests, tasks, queue, results, filed, disruptions>>

TokenFails(j) ==
  /\ "transport" \in Faults
  /\ j.step = "token"
  /\ AttemptFails(j, "transport")
  /\ UNCHANGED <<dds, lot, requests, tasks, filed, disruptions>>

Unused == {r \in Refs : \A f \in filed : f.ref # r}

(* TRACES NT stores the statement under a reference number of its own: one *)
(* it has not used, and which one makes no difference here.  A payload has *)
(* no key by which TRACES NT could recognise a repetition.                 *)
File(d, r) ==
  /\ r \in Unused
  /\ r = CHOOSE unused \in Unused : TRUE
  /\ filed' = filed \cup {[dds |-> d, ref |-> r]}

PostAccepted(j, r) ==
  /\ j.step = "post"
  /\ File(j.msg.dds, r)
  /\ Become(j, [j EXCEPT !.step = "record", !.answer = r])
  /\ UNCHANGED <<dds, lot, requests, tasks, queue, results, disruptions>>

PostRefused(j) ==
  /\ j.step = "post"
  /\ Become(j, [j EXCEPT !.step = "reject", !.answer = "dds_4xx"])
  /\ UNCHANGED <<dds, lot, requests, tasks, queue, results, filed, disruptions>>

(* BUG VARIANT: the status of the answer is not checked.                   *)
PostFails_TakenForSuccess(j, fault) ==
  /\ j.step = "post"
  /\ \E r \in Refs : Become(j, [j EXCEPT !.step = "record", !.answer = r])
  /\ UNCHANGED <<dds, lot, requests, tasks, queue, results, filed, disruptions>>

PostFails(j, fault) ==
  /\ j.step = "post"
  /\ UNCHANGED filed
  /\ AttemptFails(j, fault)
  /\ UNCHANGED <<dds, lot, requests, tasks, disruptions>>

PostAnswerLost(j, fault, r) ==
  /\ "lost" \in Faults
  /\ j.step = "post"
  /\ File(j.msg.dds, r)
  /\ AttemptFails(j, fault)
  /\ UNCHANGED <<dds, lot, requests, tasks, disruptions>>

(* data["reference_number"] raises KeyError: neither tenacity nor Celery   *)
(* retries, and _submit catches only TracesNTError.                        *)
PostGarbled(j, r) ==
  /\ "garbled" \in Faults
  /\ j.step = "post"
  /\ File(j.msg.dds, r)
  /\ EndJob(j, "error")
  /\ UNCHANGED <<dds, lot, requests, tasks, queue, disruptions>>

(* BUG VARIANT: the result is dropped when the row is no longer "ready".   *)
RecordSubmitted_OnlyIfReady(j) ==
  /\ j.step = "record"
  /\ dds' = IF dds[j.msg.dds].status # "ready" THEN dds
             ELSE [dds EXCEPT ![j.msg.dds] =
                     [@ EXCEPT !.status = "submitted", !.ref = j.answer]]
  /\ lot' = [lot EXCEPT ![j.seen.lot] = Flushed(@, j.seenLot, "dds_submitted")]
  /\ Become(j, [j EXCEPT !.step = "ack"])
  /\ UNCHANGED <<requests, tasks, queue, results, filed, disruptions>>

AcceptedRow(row, j) ==
  [row EXCEPT !.status = Flushed(@, j.seen.status, "submitted"), !.ref = j.answer]

RecordSubmitted(j) ==
  /\ j.step = "record"
  /\ dds' = [dds EXCEPT ![j.msg.dds] = AcceptedRow(@, j)]
  /\ lot' = [lot EXCEPT ![j.seen.lot] = Flushed(@, j.seenLot, "dds_submitted")]
  /\ Become(j, [j EXCEPT !.step = "ack"])
  /\ UNCHANGED <<requests, tasks, queue, results, filed, disruptions>>

(* BUG VARIANT: a rejection moves the lot on like a success does.          *)
RecordRejected_MovesLot(j) ==
  /\ j.step = "reject"
  /\ dds' = [dds EXCEPT ![j.msg.dds] = [@ EXCEPT !.status = "rejected", !.reason = j.answer]]
  /\ lot' = [lot EXCEPT ![j.seen.lot] = "dds_submitted"]
  /\ Become(j, [j EXCEPT !.step = "ack"])
  /\ UNCHANGED <<requests, tasks, queue, results, filed, disruptions>>

(* BUG VARIANT: a rejected statement is offered for submission again.      *)
RecordRejected_Reopens(j) ==
  /\ j.step = "reject"
  /\ dds' = [dds EXCEPT ![j.msg.dds] = [@ EXCEPT !.status = "ready", !.reason = j.answer]]
  /\ Become(j, [j EXCEPT !.step = "ack"])
  /\ UNCHANGED <<lot, requests, tasks, queue, results, filed, disruptions>>

RejectedRow(row, j) ==
  [row EXCEPT !.status = Flushed(@, j.seen.status, "rejected"),
              !.reason = Flushed(@, j.seen.reason, j.answer)]

RecordRejected(j) ==
  /\ j.step = "reject"
  /\ dds' = [dds EXCEPT ![j.msg.dds] = RejectedRow(@, j)]
  /\ Become(j, [j EXCEPT !.step = "ack"])
  /\ UNCHANGED <<lot, requests, tasks, queue, results, filed, disruptions>>

(* BUG VARIANT: autoretry_for widened to every exception.                  *)
CommitFails_Retried(j) ==
  /\ "database" \in Faults
  /\ j.step \in {"record", "reject"}
  /\ j.msg.retries < MaxRetries
  /\ queue' = queue \cup {Retry(j.msg)}
  /\ jobs' = jobs \ {j}
  /\ UNCHANGED <<dds, lot, requests, tasks, results, filed, disruptions>>

(* A failing commit is no TracesNTError either.                            *)
CommitFails(j) ==
  /\ "database" \in Faults
  /\ j.step \in {"record", "reject"}
  /\ EndJob(j, "error")
  /\ UNCHANGED <<dds, lot, requests, tasks, queue, filed, disruptions>>

(* BUG VARIANT: a failed task is retried without looking at max_retries.   *)
Acknowledge_Unchecked(j) ==
  /\ j.step = "ack"
  /\ j.answer \in Reasons
  /\ queue' = queue \cup {Retry(j.msg)}
  /\ jobs' = jobs \ {j}
  /\ UNCHANGED <<dds, lot, requests, tasks, results, filed, disruptions>>

(* BUG VARIANT: autoretry_for widened to every TracesNTError.              *)
Acknowledge_RetriesRejections(j) ==
  /\ j.step = "ack"
  /\ IF j.answer \in Reasons /\ j.msg.retries < MaxRetries
       THEN queue' = queue \cup {Retry(j.msg)} /\ jobs' = jobs \ {j} /\ UNCHANGED results
       ELSE EndJob(j, IF j.answer \in Refs THEN "done" ELSE "rejected") /\ UNCHANGED queue
  /\ UNCHANGED <<dds, lot, requests, tasks, filed, disruptions>>

(* _submit returned, or raised the TracesNTError it has just recorded: in  *)
(* both cases Celery acknowledges the message.                             *)
Acknowledge(j) ==
  /\ j.step = "ack"
  /\ EndJob(j, IF j.answer \in Refs THEN "done" ELSE "rejected")
  /\ UNCHANGED <<dds, lot, requests, tasks, queue, filed, disruptions>>

(* BUG VARIANT: messages are acknowledged when they are delivered.         *)
WorkerLost_AckedEarly(j) ==
  /\ disruptions < MaxDisruptions
  /\ disruptions' = disruptions + 1
  /\ jobs' = jobs \ {j}
  /\ UNCHANGED <<dds, lot, requests, tasks, queue, results, filed>>

(* task_reject_on_worker_lost: the message of a killed worker goes back.   *)
WorkerLost(j) ==
  /\ disruptions < MaxDisruptions
  /\ disruptions' = disruptions + 1
  /\ queue' = queue \cup {j.msg}
  /\ jobs' = jobs \ {j}
  /\ UNCHANGED <<dds, lot, requests, tasks, results, filed>>

(* The broker restores an unacknowledged message (visibility timeout, lost *)
(* connection) while its worker is still running.                          *)
DeliverAgain(j) ==
  /\ disruptions < MaxDisruptions
  /\ disruptions' = disruptions + 1
  /\ queue' = queue \cup {j.msg}
  /\ UNCHANGED <<dds, lot, requests, tasks, jobs, results, filed>>

-----------------------------------------------------------------------------

JobStep(j) ==
  \/ GetToken(j)
  \/ \E why \in TokenErrors : TokenRefused(j, why)
  \/ TokenFails(j)
  \/ \E r \in Refs : PostAccepted(j, r)
  \/ PostRefused(j)
  \/ \E f \in Faults \cap {"transport", "5xx"} : PostFails(j, f)
  \/ \E f \in Faults \cap {"transport", "5xx"}, r \in Refs : PostAnswerLost(j, f, r)
  \/ \E r \in Refs : PostGarbled(j, r)
  \/ RecordSubmitted(j)
  \/ RecordRejected(j)
  \/ CommitFails(j)
  \/ Acknowledge(j)

ApiStep ==
  \/ \E l \in Lots : SealLotRead(l)
  \/ \E d \in Dds, l \in Lots : CreateDdsRead(d, l)
  \/ \E r \in requests : SealLotCommit(r) \/ CreateDdsCommit(r) \/ AbortRequest(r)
  \/ \E d \in Dds, t \in Tasks : SubmitDds(d, t)

Disruption == \E j \in jobs : WorkerLost(j) \/ DeliverAgain(j)

(* Nothing is in flight: the service waits for its next request.           *)
Quiescent == requests = {} /\ queue = {} /\ jobs = {} /\ UNCHANGED vars

Next ==
  \/ ApiStep
  \/ \E w \in Workers, m \in queue : Deliver(w, m) \/ LoadFails(w, m)
  \/ \E j \in jobs : JobStep(j)
  \/ Disruption
  \/ Quiescent

Spec == Init /\ [][Next]_vars

(* Workers keep consuming the queue and every await of a job ends: httpx   *)
(* has a timeout of 30 s, a commit returns or raises.                      *)
Fairness ==
  /\ WF_vars(\E w \in Workers, m \in queue : Deliver(w, m) \/ LoadFails(w, m))
  /\ \A w \in Workers : WF_vars(\E j \in jobs : j.worker = w /\ JobStep(j))

FairSpec == Spec /\ Fairness

-----------------------------------------------------------------------------
(* Safety                                                                  *)

Decided(d) == dds[d].status \in {"submitted", "rejected"}

FiledFor(d) == {f \in filed : f.dds = d}

LiveTasks == {m.task : m \in queue} \cup {j.msg.task : j \in jobs}

InFlight(d) == \E t \in LiveTasks : tasks[t] = d

(* A reference number recorded on a statement is one TRACES NT gave to     *)
(* that very statement, whatever fails, is retried or runs twice; a status *)
(* "submitted" comes with its number, "rejected" with its reason (_submit).*)
ReceiptsAreReal ==
  \A d \in Dds :
    /\ dds[d].ref # None => [dds |-> d, ref |-> dds[d].ref] \in filed
    /\ dds[d].status = "submitted" => dds[d].ref # None
    /\ dds[d].status = "rejected" => dds[d].reason # None

(* A lot is "dds_submitted" only if TRACES NT holds a statement about it   *)
(* whose number is recorded: seals, builds and submissions of one lot      *)
(* interleave, and each writes the status from a snapshot (lot.status of   *)
(* seal_lot, create_dds and _submit).                                      *)
LotFollowsEvidence ==
  \A l \in Lots : lot[l] = "dds_submitted" =>
    \E d \in Dds : dds[d].lot = l /\ dds[d].ref # None

(* The retries of ONE submit call never file a statement and reject it     *)
(* too: both verdicts on a row take a second call or a disruption.         *)
OneCallOneVerdict ==
  \A d \in Dds : dds[d].ref # None /\ dds[d].reason # None =>
    disruptions > 0 \/ Cardinality(SubmitCalls(d)) > 1

(* When no answer of TRACES NT was lost and no worker died, a statement    *)
(* TRACES NT holds has a number recorded once nothing is in flight for it, *)
(* even after a late rejection by another task, unless a task is seen to   *)
(* have failed on an answer or a commit.                                   *)
NothingOrphaned ==
  "lost" \notin Faults /\ disruptions = 0 =>
    \A d \in Dds : FiledFor(d) # {} /\ ~InFlight(d) =>
      dds[d].ref # None \/ \E r \in results : r.msg.dds = d /\ r.outcome = "error"

(* Both layers of retry are bounded: tenacity starts at most MaxAttempts   *)
(* times in each of the MaxRetries + 1 runs of a task, so this is how many *)
(* copies of a statement one submit call and lost answers can make.        *)
FilingBudget ==
  \A d \in Dds : Cardinality(FiledFor(d)) <=
    (Cardinality(SubmitCalls(d)) + disruptions) * (MaxRetries + 1) * MaxAttempts

(* Once decided, a statement never becomes "ready" again and its number is *)
(* never erased, though a verdict may replace another (_submit writes from *)
(* the row it loaded before the exchange with TRACES NT).                  *)
VerdictsKept ==
  [][\A d \in Dds : /\ Decided(d) => Decided(d)'
                    /\ dds[d].ref # None => dds'[d].ref # None]_vars

-----------------------------------------------------------------------------
(* Refinement                                                              *)

Contested(d) == \E t, u \in SubmitCalls(d) : t # u

Lifecycle == INSTANCE DdsLifecycle WITH
  stage <- [d \in Dds |-> IF Contested(d) THEN "contested" ELSE dds[d].status],
  number <- [d \in Dds |-> IF Contested(d) THEN None ELSE dds[d].ref],
  register <- {f \in filed : ~Contested(f.dds)}

(* The conditions of the refinement: no lost answer and no disruption.     *)
CalmWeather == MaxDisruptions = 0 /\ "lost" \notin Faults

(* In calm weather the two retry layers, refused tokens, failing commits   *)
(* and racing builds never register a statement twice nor reject a         *)
(* registered one, and verdicts are final (submit_dds, _submit), for every *)
(* statement that was not submitted again before its verdict.              *)
FollowsLifecycle == Lifecycle!Spec

-----------------------------------------------------------------------------
(* Liveness                                                                *)

(* Every submit call ends, though each layer retries, workers die and      *)
(* messages are delivered again: no retry is endless.                      *)
TasksTerminate == \A t \in Tasks : tasks[t] # None ~> t \notin LiveTasks

(* A submit call leads to a verdict on its statement, or else to a failed  *)
(* task in the result backend: task_acks_late loses no call, whatever      *)
(* fails and whichever worker dies.                                        *)
SubmissionDecided ==
  \A d \in Dds : SubmitCalls(d) # {} ~>
    Decided(d) \/ \E r \in results : r.msg.dds = d /\ r.outcome # "done"

-----------------------------------------------------------------------------
(* What the repository says of itself and the code does not do             *)

(* errors.py, TracesNTError: "Raised when TRACES NT actively rejects the   *)
(* DDS"; tasks.py: "Permanent rejections (plain TracesNTError, 4xx)".      *)
RejectedOnlyByTracesNT ==
  \A d \in Dds : dds[d].status = "rejected" => dds[d].reason \in {"dds_4xx", "token_4xx"}

=============================================================================
