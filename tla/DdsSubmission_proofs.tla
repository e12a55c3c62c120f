----------------------- MODULE DdsSubmission_proofs ------------------------
(***************************************************************************)
(* Proofs about DdsSubmission for every number of statements, lots, submit *)
(* calls, workers, retries and disruptions, and every set of faults.       *)
(***************************************************************************)
EXTENDS DdsSubmission, SetInduction

(* A row is untouched or complete, and says so in its status.              *)
RowsComplete ==
  \A d \in Dds : \/ dds[d] = AbsentRow
                 \/ dds[d].status # "absent" /\ dds[d].lot \in Lots

(* Only one request builds a statement, and before it there is no row.     *)
OneBuilder ==
  /\ \A r \in requests : r.op = "create" => dds[r.dds] = AbsentRow
  /\ \A r, s \in requests : r.op = "create" /\ s.op = "create" /\ r.dds = s.dds => r = s

(* What is submitted exists, and a job's copy of the row is an older state *)
(* of that row: about the same lot, with no reason that has vanished.      *)
JobsOfRows ==
  /\ \A m \in queue : tasks[m.task] = m.dds /\ dds[m.dds] # AbsentRow
  /\ \A j \in jobs :
       /\ tasks[j.msg.task] = j.msg.dds
       /\ dds[j.msg.dds] # AbsentRow
       /\ j.seen.lot = dds[j.msg.dds].lot
       /\ j.seen.reason # None => dds[j.msg.dds].reason # None

(* A job about to record a number or a reason got it from this submission. *)
AnswersReal ==
  \A j \in jobs :
    /\ j.step = "record" => j.answer \in Refs /\ [dds |-> j.msg.dds, ref |-> j.answer] \in filed
    /\ j.step = "reject" => j.answer \in Reasons

TInv == TypeOK /\ RowsComplete /\ OneBuilder /\ JobsOfRows

Inv == TInv /\ AnswersReal /\ ReceiptsAreReal /\ LotFollowsEvidence

-----------------------------------------------------------------------------

LEMMA RetryType ==
  ASSUME NEW m \in Message, m.retries < MaxRetries
  PROVE  Retry(m) \in Message /\ Retry(m).task = m.task /\ Retry(m).dds = m.dds
BY ConstantsAssumption DEF Retry, Message

(* The helpers of the worker actions keep the types and the links of jobs. *)
LEMMA FlushedCases ==
  ASSUME NEW a, NEW b, NEW c
  PROVE  Flushed(a, b, c) \in {a, c}
BY DEF Flushed

(* A new job record that keeps worker, message and snapshot of an old one. *)
Continues(k, j) ==
  /\ k \in Job
  /\ k.msg = j.msg
  /\ k.seen = j.seen

LEMMA JobUpdates ==
  ASSUME NEW j \in Job
  PROVE  /\ Continues([j EXCEPT !.step = "post"], j)
         /\ Continues([j EXCEPT !.step = "ack"], j)
         /\ \A a \in Refs : Continues([j EXCEPT !.step = "record", !.answer = a], j)
         /\ \A a \in Reasons : Continues([j EXCEPT !.step = "reject", !.answer = a], j)
         /\ AttemptsLeft(j) => Continues([j EXCEPT !.step = "token", !.attempt = @ + 1], j)
<1>1. Continues([j EXCEPT !.step = "post"], j) /\ Continues([j EXCEPT !.step = "ack"], j)
  BY DEF Continues, Job
<1>2. \A a \in Refs : Continues([j EXCEPT !.step = "record", !.answer = a], j)
  BY DEF Continues, Job
<1>3. \A a \in Reasons : Continues([j EXCEPT !.step = "reject", !.answer = a], j)
  BY DEF Continues, Job
<1>4. AttemptsLeft(j) => Continues([j EXCEPT !.step = "token", !.attempt = @ + 1], j)
  <2>1. j.attempt \in 1 .. MaxAttempts
    BY DEF Job
  <2>2. AttemptsLeft(j) => j.attempt + 1 \in 1 .. MaxAttempts
    BY <2>1, ConstantsAssumption DEF AttemptsLeft
  <2>3. \A n \in 1 .. MaxAttempts :
          Continues([j EXCEPT !.step = "token", !.attempt = n], j)
    BY DEF Continues, Job
  <2> QED BY <2>2, <2>3
<1> QED BY <1>1, <1>2, <1>3, <1>4

(* Most worker steps leave rows, lots, requests and calls alone, and only  *)
(* end a job, replace it by a later state of it, or requeue its message.   *)
LEMMA WorkerBookkeeping ==
  ASSUME TInv, NEW j \in jobs,
         UNCHANGED <<dds, lot, requests, tasks>>,
         \/ jobs' = jobs \ {j}
         \/ \E k : Continues(k, j) /\ Become(j, k),
         \/ UNCHANGED queue
         \/ queue' = queue \cup {j.msg}
         \/ j.msg.retries < MaxRetries /\ queue' = queue \cup {Retry(j.msg)},
         filed' \subseteq [dds : Dds, ref : Refs],
         results' \subseteq [msg : Message, outcome : Outcome],
         disruptions' \in 0 .. MaxDisruptions
  PROVE  TInv'
<1> USE DEF TInv
<1>1. j \in Job /\ j.msg \in Message
  BY DEF TypeOK, Job
<1>2. jobs' \subseteq Job
  BY <1>1 DEF TypeOK, Continues, Become
<1>3. queue' \subseteq Message
  BY <1>1, RetryType DEF TypeOK
<1>4. TypeOK'
  BY <1>2, <1>3 DEF TypeOK
<1>5. RowsComplete' /\ OneBuilder'
  BY DEF RowsComplete, OneBuilder
<1>6. \A m \in queue' : tasks[m.task] = m.dds /\ dds[m.dds] # AbsentRow
  BY <1>1, RetryType DEF JobsOfRows
<1>7. \A k \in jobs' : \E i \in jobs : k.msg = i.msg /\ k.seen = i.seen
  BY DEF Continues, Become
<1>8. JobsOfRows'
  BY <1>6, <1>7 DEF JobsOfRows
<1> QED BY <1>4, <1>5, <1>8

-----------------------------------------------------------------------------
(* The steps of the API                                                    *)

LEMMA ApiKeepsTInv == TInv /\ ApiStep => TInv'
<1> SUFFICES ASSUME TInv, ApiStep PROVE TInv'
  OBVIOUS
<1> USE DEF TInv
<1>1. ASSUME NEW l \in Lots, SealLotRead(l) PROVE TInv'
  BY <1>1 DEF SealLotRead, TypeOK, RowsComplete, OneBuilder, JobsOfRows, SealRequest
<1>2. ASSUME NEW d \in Dds, NEW l \in Lots, CreateDdsRead(d, l) PROVE TInv'
  <2>1. [op |-> "create", dds |-> d, lot |-> l, seen |-> lot[l]] \in CreateRequest
    BY DEF TypeOK, CreateRequest
  <2>2. TypeOK'
    BY <1>2, <2>1 DEF CreateDdsRead, TypeOK
  <2>3. OneBuilder'
    BY <1>2 DEF CreateDdsRead, OneBuilder, RowsComplete
  <2> QED BY <1>2, <2>2, <2>3 DEF CreateDdsRead, RowsComplete, JobsOfRows
<1>3. ASSUME NEW r \in requests, SealLotCommit(r) PROVE TInv'
  <2>1. r.lot \in Lots
    BY <1>3 DEF SealLotCommit, TypeOK, CreateRequest, SealRequest
  <2>2. TypeOK'
    BY <1>3, <2>1 DEF SealLotCommit, TypeOK, LotStatus
  <2> QED BY <1>3, <2>2 DEF SealLotCommit, RowsComplete, OneBuilder, JobsOfRows
<1>4. ASSUME NEW r \in requests, CreateDdsCommit(r) PROVE TInv'
  <2>1. r \in CreateRequest
    BY <1>4 DEF CreateDdsCommit, TypeOK, SealRequest
  <2>2. dds[r.dds] = AbsentRow
    BY <1>4 DEF CreateDdsCommit, OneBuilder
  <2>3. [status |-> "ready", lot |-> r.lot, ref |-> None, reason |-> None] \in Row
    BY <2>1 DEF CreateRequest, Row, DdsStatus
  <2>4. Flushed(lot[r.lot], r.seen, "dds_pending") \in LotStatus
    BY <2>1, FlushedCases DEF TypeOK, CreateRequest, LotStatus
  <2>5. TypeOK'
    BY <1>4, <2>1, <2>3, <2>4 DEF CreateDdsCommit, TypeOK
  <2>6. RowsComplete'
    BY <1>4, <2>1 DEF CreateDdsCommit, TypeOK, RowsComplete, CreateRequest
  <2>7. OneBuilder'
    <3>1. \A s \in requests' : s.op = "create" => s.dds # r.dds
      BY <1>4 DEF CreateDdsCommit, OneBuilder
    <3> QED BY <1>4, <3>1 DEF CreateDdsCommit, OneBuilder, TypeOK, CreateRequest, SealRequest
  <2>8. JobsOfRows'
    BY <1>4, <2>2 DEF CreateDdsCommit, JobsOfRows, TypeOK, Job, Message
  <2> QED BY <2>5, <2>6, <2>7, <2>8
<1>5. ASSUME NEW r \in requests, AbortRequest(r) PROVE TInv'
  BY <1>5 DEF AbortRequest, TypeOK, RowsComplete, OneBuilder, JobsOfRows
<1>6. ASSUME NEW d \in Dds, NEW t \in Tasks, SubmitDds(d, t) PROVE TInv'
  <2>1. [task |-> t, dds |-> d, retries |-> 0] \in Message
    BY ConstantsAssumption DEF Message
  <2>2. TypeOK'
    BY <1>6, <2>1 DEF SubmitDds, TypeOK
  <2>3. dds[d] # AbsentRow
    BY <1>6 DEF SubmitDds, Submittable, AbsentRow
  <2>4. \A m \in Message : tasks[m.task] = m.dds => m.task # t
    BY <1>6, ConstantsAssumption DEF SubmitDds, Message
  <2>5. JobsOfRows'
    BY <1>6, <2>3, <2>4 DEF SubmitDds, JobsOfRows, TypeOK, Job, Message
  <2> QED BY <1>6, <2>2, <2>5 DEF SubmitDds, RowsComplete, OneBuilder
<1> QED BY <1>1, <1>2, <1>3, <1>4, <1>5, <1>6 DEF ApiStep

-----------------------------------------------------------------------------
(* The steps of the worker                                                 *)

LEMMA DeliverKeepsTInv ==
  ASSUME TInv, NEW w \in Workers, NEW m \in queue, Deliver(w, m)
  PROVE  TInv'
<1> USE DEF TInv
<1> DEFINE k == [worker |-> w, msg |-> m, step |-> "token", attempt |-> 1,
                 seen |-> dds[m.dds], seenLot |-> lot[dds[m.dds].lot], answer |-> None]
<1>1. m \in Message /\ dds[m.dds] \in Row
  BY DEF TypeOK, Message
<1>2. dds[m.dds].lot \in Lots
  BY <1>1 DEF JobsOfRows, RowsComplete, Message
<1>3. k \in Job
  <2>1. 1 \in 1 .. MaxAttempts
    BY ConstantsAssumption
  <2>2. lot[dds[m.dds].lot] \in LotStatus
    BY <1>2 DEF TypeOK
  <2> QED BY <1>1, <2>1, <2>2 DEF Job
<1>4. jobs' = jobs \cup {k}
  BY DEF Deliver
<1>5. TypeOK'
  BY <1>3, <1>4 DEF Deliver, TypeOK
<1>6. JobsOfRows'
  <2>1. k.msg = m /\ k.seen = dds[m.dds]
    OBVIOUS
  <2> QED BY <1>4, <2>1 DEF Deliver, JobsOfRows
<1> QED BY <1>5, <1>6 DEF Deliver, RowsComplete, OneBuilder

LEMMA LoadFailsKeepsTInv ==
  ASSUME TInv, NEW w \in Workers, NEW m \in queue, LoadFails(w, m)
  PROVE  TInv'
<1>1. [msg |-> m, outcome |-> "error"] \in [msg : Message, outcome : Outcome]
  BY DEF Outcome, TInv, TypeOK
<1> QED BY <1>1 DEF LoadFails, TInv, TypeOK, RowsComplete, OneBuilder, JobsOfRows

LEMMA AttemptFailsKeepsTInv ==
  ASSUME TInv, NEW j \in jobs, NEW fault \in {"transport", "5xx"},
         AttemptFails(j, fault), UNCHANGED <<dds, lot, requests, tasks, disruptions>>,
         filed' \subseteq [dds : Dds, ref : Refs]
  PROVE  TInv'
<1>1. j \in Job /\ j.msg \in Message
  BY DEF TInv, TypeOK, Job
<1>2. results' \subseteq [msg : Message, outcome : Outcome]
  BY <1>1 DEF Outcome, AttemptFails, EndJob, TInv, TypeOK
<1>3. disruptions' \in 0 .. MaxDisruptions
  BY DEF TInv, TypeOK
<1>4. \/ jobs' = jobs \ {j}
      \/ \E k : Continues(k, j) /\ Become(j, k)
  BY <1>1, JobUpdates DEF AttemptFails, EndJob
<1>5. \/ UNCHANGED queue
      \/ j.msg.retries < MaxRetries /\ queue' = queue \cup {Retry(j.msg)}
  BY DEF AttemptFails
<1> QED BY <1>2, <1>3, <1>4, <1>5, WorkerBookkeeping

(* What recording a verdict does to a row, whatever the job's snapshot was.*)
LEMMA AcceptedRowFacts ==
  ASSUME NEW row \in Row, NEW j, j.answer \in Refs
  PROVE  /\ AcceptedRow(row, j) \in Row
         /\ AcceptedRow(row, j).lot = row.lot
         /\ AcceptedRow(row, j).reason = row.reason
         /\ AcceptedRow(row, j).ref = j.answer
         /\ AcceptedRow(row, j).status \in {row.status, "submitted"}
<1>1. Flushed(row.status, j.seen.status, "submitted") \in {row.status, "submitted"}
  BY FlushedCases
<1> QED BY <1>1 DEF AcceptedRow, Row, DdsStatus

LEMMA RejectedRowFacts ==
  ASSUME NEW row \in Row, NEW j, j.answer \in Reasons
  PROVE  /\ RejectedRow(row, j) \in Row
         /\ RejectedRow(row, j).lot = row.lot
         /\ RejectedRow(row, j).ref = row.ref
         /\ row.reason # None => RejectedRow(row, j).reason # None
         /\ j.seen.reason # j.answer => RejectedRow(row, j).reason = j.answer
         /\ RejectedRow(row, j).status \in {row.status, "rejected"}
<1>1. Flushed(row.status, j.seen.status, "rejected") \in {row.status, "rejected"}
  BY FlushedCases
<1>2. Flushed(row.reason, j.seen.reason, j.answer) \in {row.reason, j.answer}
  BY FlushedCases
<1>3. j.seen.reason # j.answer => Flushed(row.reason, j.seen.reason, j.answer) = j.answer
  BY DEF Flushed
<1>4. j.answer # None
  BY ConstantsAssumption
<1> DEFINE s == Flushed(row.status, j.seen.status, "rejected")
           t == Flushed(row.reason, j.seen.reason, j.answer)
<1>5. RejectedRow(row, j) = [row EXCEPT !.status = s, !.reason = t]
  BY Zenon DEF RejectedRow
<1> HIDE DEF s, t
<1>6. s \in DdsStatus \cup {"absent"} /\ t \in Reasons \cup {None}
  BY <1>1, <1>2 DEF s, t, Row, DdsStatus
<1>7. /\ RejectedRow(row, j) \in Row
      /\ RejectedRow(row, j).lot = row.lot
      /\ RejectedRow(row, j).ref = row.ref
      /\ RejectedRow(row, j).status = s
      /\ RejectedRow(row, j).reason = t
  BY <1>5, <1>6 DEF Row
<1> QED BY <1>1, <1>2, <1>3, <1>4, <1>7 DEF s, t

LEMMA RecordsKeepTInv ==
  ASSUME TInv, AnswersReal, NEW j \in jobs, RecordSubmitted(j) \/ RecordRejected(j)
  PROVE  TInv'
<1> USE DEF TInv
<1>1. j \in Job /\ j.msg \in Message /\ j.msg.dds \in Dds
  BY DEF TypeOK, Job, Message
<1> DEFINE d == j.msg.dds
<1>2. /\ dds[d] \in Row
      /\ dds[d] # AbsentRow
      /\ dds[d].status # "absent"
      /\ dds[d].lot \in Lots
      /\ j.seen.lot = dds[d].lot
  BY <1>1 DEF TypeOK, JobsOfRows, RowsComplete
<1>3. /\ dds'[d] \in Row
      /\ dds'[d].lot = dds[d].lot
      /\ dds'[d].status # "absent"
      /\ dds[d].reason # None => dds'[d].reason # None
  <2>1. CASE RecordSubmitted(j)
    <3>1. j.answer \in Refs
      BY <2>1 DEF RecordSubmitted, AnswersReal
    <3>2. dds'[d] = AcceptedRow(dds[d], j)
      BY <1>1, <2>1 DEF RecordSubmitted, TypeOK
    <3> HIDE DEF d
    <3> QED BY <1>2, <3>1, <3>2, AcceptedRowFacts
  <2>2. CASE RecordRejected(j)
    <3>1. j.answer \in Reasons
      BY <2>2 DEF RecordRejected, AnswersReal
    <3>2. dds'[d] = RejectedRow(dds[d], j)
      BY <1>1, <2>2 DEF RecordRejected, TypeOK
    <3> HIDE DEF d
    <3> QED BY <1>2, <3>1, <3>2, RejectedRowFacts
  <2> QED BY <2>1, <2>2
<1>4. dds' \in [Dds -> Row] /\ \A e \in Dds \ {d} : dds'[e] = dds[e]
  BY <1>1, <1>3 DEF RecordSubmitted, RecordRejected, TypeOK
<1>5. lot' \in [Lots -> LotStatus]
  <2>1. Flushed(lot[j.seen.lot], j.seenLot, "dds_submitted") \in LotStatus
    BY <1>2, FlushedCases DEF TypeOK, LotStatus
  <2> QED BY <1>2, <2>1 DEF RecordSubmitted, RecordRejected, TypeOK
<1>6. Continues([j EXCEPT !.step = "ack"], j) /\ Become(j, [j EXCEPT !.step = "ack"])
  BY <1>1, JobUpdates DEF RecordSubmitted, RecordRejected
<1>7. TypeOK'
  BY <1>4, <1>5, <1>6 DEF RecordSubmitted, RecordRejected, TypeOK, Continues, Become
<1>8. RowsComplete'
  BY <1>2, <1>3, <1>4 DEF RowsComplete
<1>9. OneBuilder'
  <2>1. UNCHANGED requests /\ requests \subseteq CreateRequest \cup SealRequest
    BY DEF RecordSubmitted, RecordRejected, TypeOK
  <2>2. \A r \in requests : r.op = "create" => r.dds \in Dds \ {d}
    BY <1>2, <2>1 DEF OneBuilder, CreateRequest, SealRequest
  <2> QED BY <1>4, <2>1, <2>2 DEF OneBuilder
<1>10. JobsOfRows'
  <2>1. \A e \in Dds : dds[e] # AbsentRow =>
          /\ dds'[e] # AbsentRow
          /\ dds'[e].lot = dds[e].lot
          /\ dds[e].reason # None => dds'[e].reason # None
    BY <1>3, <1>4 DEF AbsentRow
  <2>2. \A k \in jobs' : \E i \in jobs : k.msg = i.msg /\ k.seen = i.seen
    BY <1>6 DEF Continues, Become
  <2>3. UNCHANGED <<queue, tasks>>
    BY DEF RecordSubmitted, RecordRejected
  <2>4. \A m \in queue : m.dds \in Dds
    BY DEF TypeOK, Message
  <2>5. \A i \in jobs : i.msg.dds \in Dds
    BY DEF TypeOK, Message, Job
  <2> QED BY <2>1, <2>2, <2>3, <2>4, <2>5 DEF JobsOfRows
<1> QED BY <1>7, <1>8, <1>9, <1>10

LEMMA JobStepKeepsTInv ==
  ASSUME TInv, AnswersReal, NEW j \in jobs, JobStep(j)
  PROVE  TInv'
<1> USE DEF TInv
<1>1. j \in Job /\ j.msg \in Message /\ j.msg.dds \in Dds
  BY DEF TypeOK, Job, Message
<1>2. \A k : Continues(k, j) /\ Become(j, k)
              /\ UNCHANGED <<dds, lot, requests, tasks, queue, results, disruptions>>
              /\ filed' \subseteq [dds : Dds, ref : Refs] => TInv'
  BY WorkerBookkeeping DEF TypeOK
<1>3. \A o \in Outcome :
        EndJob(j, o) /\ UNCHANGED <<dds, lot, requests, tasks, queue, disruptions>>
          /\ filed' \subseteq [dds : Dds, ref : Refs] => TInv'
  <2> SUFFICES ASSUME NEW o \in Outcome, EndJob(j, o),
                      UNCHANGED <<dds, lot, requests, tasks, queue, disruptions>>,
                      filed' \subseteq [dds : Dds, ref : Refs]
               PROVE  TInv'
    OBVIOUS
  <2>1. results' \subseteq [msg : Message, outcome : Outcome]
    BY <1>1 DEF EndJob, TypeOK
  <2>2. jobs' = jobs \ {j} /\ disruptions' \in 0 .. MaxDisruptions
    BY DEF EndJob, TypeOK
  <2> QED BY <2>1, <2>2, WorkerBookkeeping
<1>4. UNCHANGED filed => filed' \subseteq [dds : Dds, ref : Refs]
  BY DEF TypeOK
<1>5. \A r \in Refs : File(j.msg.dds, r) => filed' \subseteq [dds : Dds, ref : Refs]
  BY <1>1 DEF File, Unused, TypeOK
<1>6. CASE GetToken(j)
  BY <1>1, <1>2, <1>4, <1>6, JobUpdates DEF GetToken
<1>7. ASSUME NEW why \in TokenErrors, TokenRefused(j, why) PROVE TInv'
  BY <1>1, <1>2, <1>4, <1>7, JobUpdates DEF TokenRefused, Reasons
<1>8. CASE TokenFails(j)
  BY <1>4, <1>8, AttemptFailsKeepsTInv DEF TokenFails
<1>9. ASSUME NEW r \in Refs, PostAccepted(j, r) PROVE TInv'
  BY <1>1, <1>2, <1>5, <1>9, JobUpdates DEF PostAccepted
<1>10. CASE PostRefused(j)
  BY <1>1, <1>2, <1>4, <1>10, JobUpdates DEF PostRefused, Reasons
<1>11. ASSUME NEW f \in {"transport", "5xx"}, PostFails(j, f) PROVE TInv'
  BY <1>4, <1>11, AttemptFailsKeepsTInv DEF PostFails
<1>12. ASSUME NEW f \in {"transport", "5xx"}, NEW r \in Refs, PostAnswerLost(j, f, r) PROVE TInv'
  BY <1>5, <1>12, AttemptFailsKeepsTInv DEF PostAnswerLost
<1>13. ASSUME NEW r \in Refs, PostGarbled(j, r) PROVE TInv'
  BY <1>3, <1>5, <1>13 DEF Outcome, PostGarbled
<1>14. CASE RecordSubmitted(j) \/ RecordRejected(j)
  BY <1>14, RecordsKeepTInv
<1>15. CASE CommitFails(j)
  BY <1>3, <1>4, <1>15 DEF Outcome, CommitFails
<1>16. CASE Acknowledge(j)
  BY <1>3, <1>4, <1>16 DEF Outcome, Acknowledge
<1> QED BY <1>6, <1>7, <1>8, <1>9, <1>10, <1>11, <1>12, <1>13, <1>14, <1>15, <1>16 DEF JobStep

LEMMA DisruptionKeepsTInv == TInv /\ Disruption => TInv'
<1> SUFFICES ASSUME TInv, NEW j \in jobs, WorkerLost(j) \/ DeliverAgain(j)
             PROVE  TInv'
  BY DEF Disruption
<1>1. disruptions' \in 0 .. MaxDisruptions
  BY ConstantsAssumption DEF WorkerLost, DeliverAgain, TInv, TypeOK
<1>2. CASE WorkerLost(j)
  BY <1>1, <1>2, WorkerBookkeeping DEF WorkerLost, TInv, TypeOK
<1>3. CASE DeliverAgain(j)
  <2>1. j.msg \in Message
    BY DEF TInv, TypeOK, Job
  <2>2. TypeOK'
    BY <1>1, <1>3, <2>1 DEF DeliverAgain, TInv, TypeOK
  <2> QED BY <1>3, <2>2 DEF DeliverAgain, TInv, RowsComplete, OneBuilder, JobsOfRows
<1> QED BY <1>2, <1>3

LEMMA InitTInv == Init => TInv
BY ConstantsAssumption
   DEF Init, TInv, TypeOK, RowsComplete, OneBuilder, JobsOfRows, AbsentRow, Row, LotStatus

LEMMA NextKeepsTInv == TInv /\ AnswersReal /\ [Next]_vars => TInv'
<1> SUFFICES ASSUME TInv, AnswersReal, [Next]_vars PROVE TInv'
  OBVIOUS
<1>1. CASE UNCHANGED vars
  BY <1>1 DEF vars, TInv, TypeOK, RowsComplete, OneBuilder, JobsOfRows
<1>2. CASE Next
  BY <1>1, <1>2, ApiKeepsTInv, DeliverKeepsTInv, LoadFailsKeepsTInv, JobStepKeepsTInv,
     DisruptionKeepsTInv DEF Next, Quiescent
<1> QED BY <1>1, <1>2

-----------------------------------------------------------------------------
(* Recorded verdicts                                                       *)

(* TRACES NT forgets no statement.                                         *)
LEMMA FiledGrows == [Next]_vars => filed \subseteq filed'
<1> SUFFICES ASSUME [Next]_vars PROVE filed \subseteq filed'
  OBVIOUS
<1>1. CASE UNCHANGED vars
  BY <1>1 DEF vars
<1>2. CASE ApiStep
  BY <1>2 DEF ApiStep, SealLotRead, CreateDdsRead, SealLotCommit, CreateDdsCommit,
     AbortRequest, SubmitDds
<1>3. ASSUME NEW w \in Workers, NEW m \in queue, Deliver(w, m) \/ LoadFails(w, m)
      PROVE  filed \subseteq filed'
  BY <1>3 DEF Deliver, LoadFails
<1>4. ASSUME NEW j \in jobs, JobStep(j) PROVE filed \subseteq filed'
  BY <1>4 DEF JobStep, GetToken, TokenRefused, TokenFails, PostAccepted, PostRefused,
     PostFails, PostAnswerLost, PostGarbled, File, RecordSubmitted, RecordRejected,
     CommitFails, Acknowledge
<1>5. CASE Disruption
  BY <1>5 DEF Disruption, WorkerLost, DeliverAgain
<1> QED BY <1>1, <1>2, <1>3, <1>4, <1>5 DEF Next, Quiescent

LEMMA AnswersStayReal == TInv /\ AnswersReal /\ [Next]_vars => AnswersReal'
<1> SUFFICES ASSUME TInv, AnswersReal, [Next]_vars PROVE AnswersReal'
  OBVIOUS
<1> DEFINE Real(k) ==
      /\ k.step = "record" => k.answer \in Refs /\ [dds |-> k.msg.dds, ref |-> k.answer] \in filed'
      /\ k.step = "reject" => k.answer \in Reasons
<1>1. \A k \in jobs : Real(k)
  BY FiledGrows DEF AnswersReal
<1>2. (\A k \in jobs' \ jobs : Real(k)) => AnswersReal'
  BY <1>1 DEF AnswersReal
<1>3. jobs' \subseteq jobs => AnswersReal'
  BY <1>2
<1>4. ASSUME NEW j \in jobs, NEW k, Become(j, k), Real(k) PROVE AnswersReal'
  BY <1>2, <1>4 DEF Become
<1>5. \A j \in jobs : j \in Job
  BY DEF TInv, TypeOK
<1>6. CASE UNCHANGED vars
  BY <1>3, <1>6 DEF vars
<1>7. CASE ApiStep
  BY <1>3, <1>7 DEF ApiStep, SealLotRead, CreateDdsRead, SealLotCommit, CreateDdsCommit,
     AbortRequest, SubmitDds
<1>8. ASSUME NEW w \in Workers, NEW m \in queue, Deliver(w, m) \/ LoadFails(w, m)
      PROVE  AnswersReal'
  <2> DEFINE k == [worker |-> w, msg |-> m, step |-> "token", attempt |-> 1,
                   seen |-> dds[m.dds], seenLot |-> lot[dds[m.dds].lot], answer |-> None]
  <2>1. k.step = "token"
    OBVIOUS
  <2>2. Real(k)
    BY <2>1
  <2>3. jobs' \subseteq jobs \cup {k}
    BY <1>8 DEF Deliver, LoadFails
  <2> QED BY <1>2, <2>2, <2>3
<1>9. ASSUME NEW j \in jobs, JobStep(j) PROVE AnswersReal'
  <2> USE <1>5
  <2>1. ASSUME NEW f, AttemptFails(j, f) PROVE AnswersReal'
    <3>1. j \in Job => [j EXCEPT !.step = "token", !.attempt = @ + 1].step = "token"
      BY DEF Job
    <3>2. Real([j EXCEPT !.step = "token", !.attempt = @ + 1])
      BY <3>1
    <3> QED BY <1>3, <1>4, <2>1, <3>2 DEF AttemptFails, EndJob
  <2>2. CASE GetToken(j)
    <3>1. Real([j EXCEPT !.step = "post"])
      BY DEF Job
    <3> QED BY <1>4, <2>2, <3>1 DEF GetToken
  <2>3. ASSUME NEW why \in Reasons, Become(j, [j EXCEPT !.step = "reject", !.answer = why])
        PROVE  AnswersReal'
    <3>1. Real([j EXCEPT !.step = "reject", !.answer = why])
      BY DEF Job
    <3> QED BY <1>4, <2>3, <3>1
  <2>4. ASSUME NEW r \in Refs, PostAccepted(j, r) PROVE AnswersReal'
    <3>1. [dds |-> j.msg.dds, ref |-> r] \in filed'
      BY <2>4 DEF PostAccepted, File, Unused
    <3>2. Real([j EXCEPT !.step = "record", !.answer = r])
      BY <3>1 DEF Job
    <3> QED BY <1>4, <2>4, <3>2 DEF PostAccepted
  <2>5. CASE RecordSubmitted(j) \/ RecordRejected(j)
    <3>1. Real([j EXCEPT !.step = "ack"])
      BY DEF Job
    <3> QED BY <1>4, <2>5, <3>1 DEF RecordSubmitted, RecordRejected
  <2>6. ASSUME NEW o, EndJob(j, o) PROVE AnswersReal'
    BY <1>3, <2>6 DEF EndJob
  <2>7. (\E why \in TokenErrors : TokenRefused(j, why)) \/ PostRefused(j) => AnswersReal'
    BY <2>3 DEF TokenRefused, PostRefused, Reasons
  <2>8. \/ TokenFails(j)
        \/ \E f \in Faults \cap {"transport", "5xx"} : PostFails(j, f)
        \/ \E f \in Faults \cap {"transport", "5xx"}, r \in Refs : PostAnswerLost(j, f, r)
        => AnswersReal'
    BY <2>1 DEF TokenFails, PostFails, PostAnswerLost
  <2>9. (\E r \in Refs : PostGarbled(j, r)) \/ CommitFails(j) \/ Acknowledge(j) => AnswersReal'
    BY <2>6 DEF PostGarbled, CommitFails, Acknowledge
  <2> QED BY <1>9, <2>2, <2>4, <2>5, <2>7, <2>8, <2>9 DEF JobStep
<1>10. CASE Disruption
  BY <1>3, <1>10 DEF Disruption, WorkerLost, DeliverAgain
<1> QED BY <1>6, <1>7, <1>8, <1>9, <1>10 DEF Next, Quiescent

(* The only ways a step can change the row of a statement.                 *)
Created(d) ==
  /\ dds[d] = AbsentRow
  /\ dds'[d].status = "ready"
  /\ dds'[d].ref = None
  /\ dds'[d].reason = None

Accepted(d) == \E j \in jobs :
  /\ j.msg.dds = d
  /\ RecordSubmitted(j)
  /\ dds'[d] = AcceptedRow(dds[d], j)

Rejected(d) == \E j \in jobs :
  /\ j.msg.dds = d
  /\ RecordRejected(j)
  /\ dds'[d] = RejectedRow(dds[d], j)

LEMMA RowChanges ==
  ASSUME TInv, [Next]_vars, NEW d \in Dds
  PROVE  dds'[d] = dds[d] \/ Created(d) \/ Accepted(d) \/ Rejected(d)
<1> USE DEF TInv
<1>1. CASE UNCHANGED vars
  BY <1>1 DEF vars
<1>2. CASE ApiStep
  <2>1. ASSUME NEW r \in requests, CreateDdsCommit(r)
        PROVE  dds'[d] = dds[d] \/ Created(d)
    <3>1. dds[r.dds] = AbsentRow
      BY <2>1 DEF CreateDdsCommit, OneBuilder
    <3>2. dds' = [dds EXCEPT ![r.dds] =
                    [status |-> "ready", lot |-> r.lot, ref |-> None, reason |-> None]]
      BY <2>1 DEF CreateDdsCommit
    <3>3. CASE r.dds = d
      BY <3>1, <3>2, <3>3 DEF TypeOK, Created
    <3>4. CASE r.dds # d
      BY <3>2, <3>4 DEF TypeOK
    <3> QED BY <3>3, <3>4
  <2> QED BY <1>2, <2>1 DEF ApiStep, SealLotRead, CreateDdsRead, SealLotCommit, AbortRequest, SubmitDds
<1>3. ASSUME NEW w \in Workers, NEW m \in queue, Deliver(w, m) \/ LoadFails(w, m)
      PROVE  dds' = dds
  BY <1>3 DEF Deliver, LoadFails
<1>4. ASSUME NEW j \in jobs, JobStep(j)
      PROVE  dds'[d] = dds[d] \/ Accepted(d) \/ Rejected(d)
  <2>1. CASE RecordSubmitted(j)
    <3>1. j.msg.dds = d => dds'[d] = AcceptedRow(dds[d], j)
      BY <2>1 DEF RecordSubmitted, TypeOK
    <3>2. j.msg.dds # d => dds'[d] = dds[d]
      BY <2>1 DEF RecordSubmitted, TypeOK
    <3> QED BY <2>1, <3>1, <3>2 DEF Accepted
  <2>2. CASE RecordRejected(j)
    <3>1. j.msg.dds = d => dds'[d] = RejectedRow(dds[d], j)
      BY <2>2 DEF RecordRejected, TypeOK
    <3>2. j.msg.dds # d => dds'[d] = dds[d]
      BY <2>2 DEF RecordRejected, TypeOK
    <3> QED BY <2>2, <3>1, <3>2 DEF Rejected
  <2> QED BY <1>4, <2>1, <2>2 DEF JobStep, GetToken, TokenRefused, TokenFails, PostAccepted,
        PostRefused, PostFails, PostAnswerLost, PostGarbled, CommitFails, Acknowledge
<1>5. CASE Disruption
  BY <1>5 DEF Disruption, WorkerLost, DeliverAgain
<1> QED BY <1>1, <1>2, <1>3, <1>4, <1>5 DEF Next, Quiescent

(* What a step can do to a recorded number, reason and status.             *)
LEMMA VerdictSteps ==
  ASSUME TInv, AnswersReal, [Next]_vars, NEW d \in Dds
  PROVE  /\ \/ dds'[d].ref = dds[d].ref
            \/ dds'[d].ref \in Refs /\ [dds |-> d, ref |-> dds'[d].ref] \in filed
         /\ dds[d].reason # None => dds'[d].reason # None
         /\ dds'[d].status \in {dds[d].status, "ready", "submitted", "rejected"}
         /\ dds'[d].status = "ready" => dds[d].status \in {"absent", "ready"}
         /\ dds'[d].status = "submitted" => dds[d].status = "submitted" \/ dds'[d].ref \in Refs
         /\ dds'[d].status = "rejected" => dds[d].status = "rejected" \/ dds'[d].reason # None
<1>1. dds[d] \in Row
  BY DEF TInv, TypeOK
<1>2. CASE Created(d)
  BY <1>2 DEF Created, AbsentRow
<1>3. CASE Accepted(d)
  <2> PICK j \in jobs : /\ j.msg.dds = d
                        /\ RecordSubmitted(j)
                        /\ dds'[d] = AcceptedRow(dds[d], j)
    BY <1>3 DEF Accepted
  <2>1. j.answer \in Refs /\ [dds |-> d, ref |-> j.answer] \in filed
    BY DEF RecordSubmitted, AnswersReal
  <2> QED BY <1>1, <2>1, AcceptedRowFacts
<1>4. CASE Rejected(d)
  <2> PICK j \in jobs : /\ j.msg.dds = d
                        /\ RecordRejected(j)
                        /\ dds'[d] = RejectedRow(dds[d], j)
    BY <1>4 DEF Rejected
  <2>1. j.answer \in Reasons
    BY DEF RecordRejected, AnswersReal
  <2>2. j.seen.reason # None => dds[d].reason # None
    BY DEF TInv, JobsOfRows
  <2>3. j.answer # None
    BY <2>1, ConstantsAssumption
  <2>4. dds'[d].reason # None
    BY <1>1, <2>1, <2>2, <2>3, RejectedRowFacts
  <2> QED BY <1>1, <2>1, <2>4, RejectedRowFacts
<1> QED BY <1>2, <1>3, <1>4, RowChanges

LEMMA ReceiptsStayReal ==
  Inv /\ [Next]_vars => ReceiptsAreReal'
<1> SUFFICES ASSUME Inv, [Next]_vars, NEW d \in Dds
             PROVE  /\ dds'[d].ref # None => [dds |-> d, ref |-> dds'[d].ref] \in filed'
                    /\ dds'[d].status = "submitted" => dds'[d].ref # None
                    /\ dds'[d].status = "rejected" => dds'[d].reason # None
  BY DEF ReceiptsAreReal
<1> USE DEF Inv, ReceiptsAreReal
<1>1. None \notin Refs
  BY ConstantsAssumption
<1> QED BY <1>1, VerdictSteps, FiledGrows

(* A lot becomes "dds_submitted" only with the commit that records a number*)
(* on one of its statements, and that number stays.                        *)
LEMMA LotChanges ==
  ASSUME TInv, AnswersReal, [Next]_vars, NEW l \in Lots, lot'[l] = "dds_submitted"
  PROVE  \/ lot[l] = "dds_submitted"
         \/ \E d \in Dds : dds'[d].lot = l /\ dds'[d].ref # None
<1> USE DEF TInv
<1>1. CASE UNCHANGED lot
  BY <1>1
<1>2. ASSUME NEW r \in requests, SealLotCommit(r) PROVE lot[l] = "dds_submitted"
  BY <1>2 DEF SealLotCommit, TypeOK
<1>3. ASSUME NEW r \in requests, CreateDdsCommit(r) PROVE lot[l] = "dds_submitted"
  <2>1. Flushed(lot[r.lot], r.seen, "dds_pending") \in {lot[r.lot], "dds_pending"}
    BY FlushedCases
  <2> QED BY <1>3, <2>1 DEF CreateDdsCommit, TypeOK
<1>4. ASSUME NEW j \in jobs, RecordSubmitted(j)
      PROVE  \/ lot[l] = "dds_submitted"
             \/ \E d \in Dds : dds'[d].lot = l /\ dds'[d].ref # None
  <2> DEFINE d == j.msg.dds
  <2>1. d \in Dds /\ dds[d] \in Row /\ j.seen.lot = dds[d].lot /\ j.answer \in Refs
    BY <1>4 DEF TypeOK, Job, Message, JobsOfRows, RecordSubmitted, AnswersReal
  <2>2. dds'[d] = AcceptedRow(dds[d], j)
    BY <1>4, <2>1 DEF RecordSubmitted, TypeOK
  <2>3. dds'[d].lot = j.seen.lot /\ dds'[d].ref # None
    <3> HIDE DEF d
    <3> QED BY <2>1, <2>2, AcceptedRowFacts, ConstantsAssumption
  <2>4. CASE l = j.seen.lot
    BY <2>1, <2>3, <2>4
  <2>5. CASE l # j.seen.lot
    BY <1>4, <2>5 DEF RecordSubmitted, TypeOK
  <2> QED BY <2>4, <2>5
<1>5. ASSUME NEW w \in Workers, NEW m \in queue, Deliver(w, m) \/ LoadFails(w, m)
      PROVE  UNCHANGED lot
  BY <1>5 DEF Deliver, LoadFails
<1>6. ASSUME NEW j \in jobs, JobStep(j) PROVE UNCHANGED lot \/ RecordSubmitted(j)
  BY <1>6 DEF JobStep, GetToken, TokenRefused, TokenFails, PostAccepted, PostRefused,
     PostFails, PostAnswerLost, PostGarbled, RecordRejected, CommitFails, Acknowledge
<1>7. ApiStep => UNCHANGED lot \/ \E r \in requests : SealLotCommit(r) \/ CreateDdsCommit(r)
  BY DEF ApiStep, SealLotRead, CreateDdsRead, AbortRequest, SubmitDds
<1>8. Disruption => UNCHANGED lot
  BY DEF Disruption, WorkerLost, DeliverAgain
<1> QED BY <1>1, <1>2, <1>3, <1>4, <1>5, <1>6, <1>7, <1>8 DEF Next, Quiescent, vars

LEMMA LotsStayEvidenced == Inv /\ [Next]_vars => LotFollowsEvidence'
<1> SUFFICES ASSUME Inv, [Next]_vars, NEW l \in Lots, lot'[l] = "dds_submitted"
             PROVE  \E d \in Dds : dds'[d].lot = l /\ dds'[d].ref # None
  BY DEF LotFollowsEvidence
<1> USE DEF Inv
<1>1. CASE lot[l] = "dds_submitted"
  <2> PICK d \in Dds : dds[d].lot = l /\ dds[d].ref # None
    BY <1>1 DEF LotFollowsEvidence
  <2>1. dds'[d].ref # None
    BY VerdictSteps, ConstantsAssumption
  <2>2. dds[d] \in Row
    BY DEF TInv, TypeOK
  <2>3. dds[d] # AbsentRow
    BY DEF AbsentRow
  <2>4. dds'[d].lot = l
    <3>1. ASSUME Accepted(d) PROVE dds'[d].lot = l
      <4>1. PICK j \in jobs : RecordSubmitted(j) /\ dds'[d] = AcceptedRow(dds[d], j)
        BY <3>1 DEF Accepted
      <4>2. j.answer \in Refs
        BY <4>1 DEF RecordSubmitted, AnswersReal
      <4> QED BY <2>2, <4>1, <4>2, AcceptedRowFacts
    <3>2. ASSUME Rejected(d) PROVE dds'[d].lot = l
      <4>1. PICK j \in jobs : RecordRejected(j) /\ dds'[d] = RejectedRow(dds[d], j)
        BY <3>2 DEF Rejected
      <4>2. j.answer \in Reasons
        BY <4>1 DEF RecordRejected, AnswersReal
      <4> QED BY <2>2, <4>1, <4>2, RejectedRowFacts
    <3> QED BY <2>3, <3>1, <3>2, RowChanges DEF Created
  <2> QED BY <2>1, <2>4
<1>2. CASE lot[l] # "dds_submitted"
  BY <1>2, LotChanges
<1> QED BY <1>1, <1>2

-----------------------------------------------------------------------------
(* The theorems                                                            *)

LEMMA Invariance == Spec => []Inv
<1>1. Init => Inv
  BY InitTInv DEF Init, Inv, AnswersReal, ReceiptsAreReal, LotFollowsEvidence, AbsentRow
<1>2. Inv /\ [Next]_vars => Inv'
  BY NextKeepsTInv, AnswersStayReal, ReceiptsStayReal, LotsStayEvidenced DEF Inv
<1> QED BY <1>1, <1>2, PTL DEF Spec

(* Rows, requests, messages, jobs and the register keep their types.       *)
THEOREM TypeCorrect == Spec => []TypeOK
<1>1. Inv => TypeOK
  BY DEF Inv, TInv
<1> QED BY <1>1, Invariance, PTL

(* Every recorded number was given by TRACES NT to that statement, and no  *)
(* verdict is without its number or reason (_submit), whatever is retried, *)
(* lost, delivered twice or run concurrently.                              *)
THEOREM ReceiptsCorrect == Spec => []ReceiptsAreReal
<1>1. Inv => ReceiptsAreReal
  BY DEF Inv
<1> QED BY <1>1, Invariance, PTL

(* A lot is "dds_submitted" only with a recorded number on one of its      *)
(* statements, however seal_lot, create_dds and _submit interleave.        *)
THEOREM LotsCorrect == Spec => []LotFollowsEvidence
<1>1. Inv => LotFollowsEvidence
  BY DEF Inv
<1> QED BY <1>1, Invariance, PTL

(* No step of the API or a worker takes a verdict or a number away.        *)
THEOREM VerdictsCorrect == Spec => VerdictsKept
<1>1. ASSUME Inv, [Next]_vars, NEW d \in Dds
      PROVE  /\ Decided(d) => Decided(d)'
             /\ dds[d].ref # None => dds'[d].ref # None
  <2>1. dds[d] \in Row
    BY <1>1 DEF Inv, TInv, TypeOK
  <2>2. Decided(d) => Decided(d)'
    BY <1>1, VerdictSteps DEF Inv, Decided
  <2>3. dds[d].ref # None => dds'[d].ref # None
    BY <1>1, VerdictSteps, ConstantsAssumption DEF Inv
  <2> QED BY <2>2, <2>3
<1>2. Inv /\ [Next]_vars =>
        [\A d \in Dds : /\ Decided(d) => Decided(d)'
                        /\ dds[d].ref # None => dds'[d].ref # None]_vars
  BY <1>1
<1> QED BY <1>2, Invariance, PTL DEF Spec, VerdictsKept

-----------------------------------------------------------------------------
(* Nothing is orphaned                                                     *)

(* Without lost answers and disruptions, what TRACES NT holds is recorded, *)
(* about to be recorded, or its task is seen to have failed.               *)
Accounted(d) ==
  \/ dds[d].ref # None
  \/ \E r \in results : r.msg.dds = d /\ r.outcome = "error"
  \/ \E j \in jobs : j.step = "record" /\ j.msg.dds = d

OrphanFree ==
  "lost" \notin Faults /\ disruptions = 0 => \A f \in filed : Accounted(f.dds)

(* A job leaves the step "record" only through its commit.                 *)
LEMMA RecordersStay ==
  ASSUME TInv, [Next]_vars, disruptions' = 0, NEW j \in jobs, j.step = "record"
  PROVE  \/ j \in jobs'
         \/ RecordSubmitted(j)
         \/ \E r \in results' : r.msg = j.msg /\ r.outcome = "error"
<1>1. CASE UNCHANGED vars
  BY <1>1 DEF vars
<1>2. CASE ApiStep
  BY <1>2 DEF ApiStep, SealLotRead, CreateDdsRead, SealLotCommit, CreateDdsCommit,
     AbortRequest, SubmitDds
<1>3. ASSUME NEW w \in Workers, NEW m \in queue, Deliver(w, m) \/ LoadFails(w, m)
      PROVE  j \in jobs'
  BY <1>3 DEF Deliver, LoadFails
<1>4. ASSUME NEW i \in jobs, JobStep(i), i # j PROVE j \in jobs'
  BY <1>4 DEF JobStep, GetToken, TokenRefused, TokenFails, PostAccepted, PostRefused,
     PostFails, PostAnswerLost, PostGarbled, RecordSubmitted, RecordRejected, CommitFails,
     Acknowledge, AttemptFails, EndJob, Become
<1>5. CASE JobStep(j)
  <2>1. RecordSubmitted(j) \/ CommitFails(j)
    BY <1>5 DEF JobStep, GetToken, TokenRefused, TokenFails, PostAccepted, PostRefused,
       PostFails, PostAnswerLost, PostGarbled, RecordRejected, Acknowledge
  <2>2. CASE CommitFails(j)
    <3> DEFINE r == [msg |-> j.msg, outcome |-> "error"]
    <3>1. r \in results' /\ r.msg = j.msg /\ r.outcome = "error"
      BY <2>2 DEF CommitFails, EndJob
    <3> QED BY <3>1
  <2> QED BY <2>1, <2>2
<1>6. ~Disruption
  BY DEF Disruption, WorkerLost, DeliverAgain, TInv, TypeOK
<1> QED BY <1>1, <1>2, <1>3, <1>4, <1>5, <1>6 DEF Next, Quiescent

(* TRACES NT stores a statement only in an exchange with a posting job.    *)
LEMMA FiledSteps ==
  ASSUME [Next]_vars
  PROVE  \/ filed' = filed
         \/ \E j \in jobs, r \in Refs :
              /\ j.step = "post" /\ File(j.msg.dds, r)
              /\ \/ PostAccepted(j, r) \/ PostGarbled(j, r)
                 \/ \E f \in Faults \cap {"transport", "5xx"} : PostAnswerLost(j, f, r)
<1>1. CASE UNCHANGED vars
  BY <1>1 DEF vars
<1>2. CASE ApiStep
  BY <1>2 DEF ApiStep, SealLotRead, CreateDdsRead, SealLotCommit, CreateDdsCommit,
     AbortRequest, SubmitDds
<1>3. ASSUME NEW w \in Workers, NEW m \in queue, Deliver(w, m) \/ LoadFails(w, m)
      PROVE  filed' = filed
  BY <1>3 DEF Deliver, LoadFails
<1>4. ASSUME NEW j \in jobs, JobStep(j)
      PROVE  \/ filed' = filed
             \/ \E r \in Refs :
                  /\ j.step = "post" /\ File(j.msg.dds, r)
                  /\ \/ PostAccepted(j, r) \/ PostGarbled(j, r)
                     \/ \E f \in Faults \cap {"transport", "5xx"} : PostAnswerLost(j, f, r)
  BY <1>4 DEF JobStep, GetToken, TokenRefused, TokenFails, PostAccepted, PostRefused,
     PostFails, PostAnswerLost, PostGarbled, RecordSubmitted, RecordRejected,
     CommitFails, Acknowledge
<1>5. CASE Disruption
  BY <1>5 DEF Disruption, WorkerLost, DeliverAgain
<1> QED BY <1>1, <1>2, <1>3, <1>4, <1>5 DEF Next, Quiescent

LEMMA ResultsGrow == [Next]_vars => results \subseteq results'
<1> SUFFICES ASSUME [Next]_vars PROVE results \subseteq results'
  OBVIOUS
<1>1. CASE UNCHANGED vars
  BY <1>1 DEF vars
<1>2. CASE ApiStep
  BY <1>2 DEF ApiStep, SealLotRead, CreateDdsRead, SealLotCommit, CreateDdsCommit,
     AbortRequest, SubmitDds
<1>3. ASSUME NEW w \in Workers, NEW m \in queue, Deliver(w, m) \/ LoadFails(w, m)
      PROVE  results \subseteq results'
  BY <1>3 DEF Deliver, LoadFails
<1>4. ASSUME NEW j \in jobs, JobStep(j) PROVE results \subseteq results'
  BY <1>4 DEF JobStep, GetToken, TokenRefused, TokenFails, PostAccepted, PostRefused,
     PostFails, PostAnswerLost, PostGarbled, RecordSubmitted, RecordRejected,
     CommitFails, Acknowledge, AttemptFails, EndJob
<1>5. CASE Disruption
  BY <1>5 DEF Disruption, WorkerLost, DeliverAgain
<1> QED BY <1>1, <1>2, <1>3, <1>4, <1>5 DEF Next, Quiescent

LEMMA DisruptionsGrow ==
  ASSUME TInv, [Next]_vars
  PROVE  disruptions \in Nat /\ disruptions' \in Nat /\ disruptions <= disruptions'
<1>1. disruptions \in Nat
  BY DEF TInv, TypeOK
<1>2. disruptions' = disruptions \/ disruptions' = disruptions + 1
  BY DEF Next, Quiescent, vars, ApiStep, SealLotRead, CreateDdsRead, SealLotCommit,
     CreateDdsCommit, AbortRequest, SubmitDds, Deliver, LoadFails, JobStep, GetToken,
     TokenRefused, TokenFails, PostAccepted, PostRefused, PostFails, PostAnswerLost,
     PostGarbled, RecordSubmitted, RecordRejected, CommitFails, Acknowledge, Disruption,
     WorkerLost, DeliverAgain
<1> QED BY <1>1, <1>2

LEMMA StaysAccounted ==
  ASSUME Inv, [Next]_vars, disruptions' = 0, NEW d \in Dds, Accounted(d)
  PROVE  Accounted(d)'
<1>1. CASE dds[d].ref # None
  BY <1>1, VerdictSteps, ConstantsAssumption DEF Inv, Accounted
<1>2. CASE \E r \in results : r.msg.dds = d /\ r.outcome = "error"
  BY <1>2, ResultsGrow DEF Accounted
<1>3. ASSUME NEW j \in jobs, j.step = "record", j.msg.dds = d PROVE Accounted(d)'
  <2>1. CASE j \in jobs'
    BY <1>3, <2>1 DEF Accounted
  <2>2. CASE RecordSubmitted(j)
    <3>1. dds'[d] = AcceptedRow(dds[d], j) /\ dds[d] \in Row
      BY <1>3, <2>2 DEF RecordSubmitted, Inv, TInv, TypeOK
    <3>2. j.answer \in Refs
      BY <1>3 DEF Inv, AnswersReal
    <3>3. dds'[d].ref = j.answer
      BY <3>1, <3>2, AcceptedRowFacts
    <3> QED BY <3>2, <3>3, ConstantsAssumption DEF Accounted
  <2>3. CASE \E r \in results' : r.msg = j.msg /\ r.outcome = "error"
    BY <1>3, <2>3 DEF Accounted
  <2> QED BY <1>3, <2>1, <2>2, <2>3, RecordersStay DEF Inv
<1> QED BY <1>1, <1>2, <1>3 DEF Accounted

LEMMA OrphanFreeKept ==
  ASSUME Inv, OrphanFree, [Next]_vars
  PROVE  OrphanFree'
<1> SUFFICES ASSUME "lost" \notin Faults, disruptions' = 0, NEW f \in filed'
             PROVE  Accounted(f.dds)'
  BY DEF OrphanFree, Accounted
<1>1. disruptions = 0
  BY DisruptionsGrow DEF Inv
<1>2. CASE f \in filed
  BY <1>1, <1>2, StaysAccounted DEF OrphanFree, Inv, TInv, TypeOK
<1>3. CASE f \notin filed
  <2>1. PICK j \in jobs, r \in Refs :
          File(j.msg.dds, r) /\ (PostAccepted(j, r) \/ PostGarbled(j, r))
    BY <1>3, FiledSteps DEF PostAnswerLost
  <2>2. f.dds = j.msg.dds
    BY <1>3, <2>1 DEF File
  <2>3. CASE PostAccepted(j, r)
    <3> DEFINE k == [j EXCEPT !.step = "record", !.answer = r]
    <3>1. j \in Job
      BY DEF Inv, TInv, TypeOK
    <3>2. k.step = "record" /\ k.msg = j.msg
      BY <3>1 DEF Job
    <3>3. k \in jobs'
      BY <2>3 DEF PostAccepted, Become
    <3> HIDE DEF k
    <3> QED BY <2>2, <3>2, <3>3 DEF Accounted
  <2>4. CASE PostGarbled(j, r)
    <3>1. [msg |-> j.msg, outcome |-> "error"] \in results'
      BY <2>4 DEF PostGarbled, EndJob
    <3> QED BY <2>2, <3>1 DEF Accounted
  <2> QED BY <2>1, <2>3, <2>4
<1> QED BY <1>2, <1>3

(* A statement TRACES NT holds has its number recorded once nothing is in  *)
(* flight for it, unless a failed task tells.  A rejection by another task *)
(* never erases a number, and a running job is in flight.                  *)
THEOREM NothingIsOrphaned == Spec => []NothingOrphaned
<1>1. Init => OrphanFree
  BY DEF Init, OrphanFree
<1>2. Inv /\ OrphanFree => NothingOrphaned
  <2> SUFFICES ASSUME Inv, OrphanFree, "lost" \notin Faults, disruptions = 0,
                      NEW d \in Dds, FiledFor(d) # {}, ~InFlight(d)
               PROVE  dds[d].ref # None \/ \E r \in results : r.msg.dds = d /\ r.outcome = "error"
    BY DEF NothingOrphaned
  <2>1. Accounted(d)
    BY DEF OrphanFree, FiledFor
  <2>2. \A j \in jobs : j.msg.dds # d
    BY DEF Inv, TInv, JobsOfRows, InFlight, LiveTasks
  <2> QED BY <2>1, <2>2 DEF Accounted
<1> QED BY <1>1, <1>2, OrphanFreeKept, Invariance, PTL DEF Spec

-----------------------------------------------------------------------------
(* One verdict for one call                                                *)

(* Each submit call has at most one message or one job, never both.        *)
Exclusive ==
  /\ \A m, n \in queue : m.task = n.task => m = n
  /\ \A i, j \in jobs : i.msg.task = j.msg.task => i = j
  /\ \A m \in queue, j \in jobs : m.task # j.msg.task

Undecided(d) == dds[d].ref = None /\ dds[d].reason = None

(* While nobody resubmits it a statement has no verdict until the only job *)
(* of its only call records one, and that job is then done with it.        *)
FirstVerdict ==
  /\ \A m \in queue : Contested(m.dds) \/ Undecided(m.dds)
  /\ \A j \in jobs : j.step # "ack" => Contested(j.msg.dds) \/ Undecided(j.msg.dds)
  /\ \A d \in Dds : Contested(d) \/ dds[d].ref = None \/ dds[d].reason = None

(* Verdicts come from submit calls.                                        *)
CalledFirst == \A d \in Dds : SubmitCalls(d) = {} => Undecided(d)

VInv == CalledFirst /\ (disruptions = 0 => Exclusive /\ FirstVerdict)

(* Whether a statement is contested depends on its submit calls alone.     *)
LEMMA ContestedKept ==
  ASSUME UNCHANGED tasks, NEW d \in Dds
  PROVE  Contested(d)' <=> Contested(d)
BY DEF Contested, SubmitCalls

(* Two carriers of one statement are the same, unless it is contested.     *)
LEMMA OneCarrier ==
  ASSUME TInv, Exclusive
  PROVE  /\ \A i, j \in jobs : i.msg.dds = j.msg.dds => i = j \/ Contested(i.msg.dds)
         /\ \A m \in queue, j \in jobs : m.dds = j.msg.dds => Contested(m.dds)
<1>1. \A j \in jobs : j.msg.task \in SubmitCalls(j.msg.dds)
  BY DEF TInv, TypeOK, JobsOfRows, Job, Message, SubmitCalls
<1>2. \A m \in queue : m.task \in SubmitCalls(m.dds)
  BY DEF TInv, TypeOK, JobsOfRows, Message, SubmitCalls
<1> QED BY <1>1, <1>2 DEF Exclusive, Contested

(* What worker steps do to messages and jobs: a job moves on, ends or      *)
(* hands its call back to the queue; nothing else.                         *)
LEMMA CarrierSteps ==
  ASSUME TInv, NEW j \in jobs, JobStep(j)
  PROVE  \/ jobs' = jobs \ {j} /\ UNCHANGED queue
         \/ jobs' = jobs \ {j} /\ queue' = queue \cup {Retry(j.msg)} /\ j.step # "ack"
         \/ UNCHANGED queue /\ \E k : /\ Become(j, k)
                                      /\ k.msg = j.msg /\ k.seen = j.seen
                                      /\ j.step # "ack"
                                      /\ RecordSubmitted(j) \/ RecordRejected(j) => k.step = "ack"
<1>1. j \in Job
  BY DEF TInv, TypeOK
<1>2. /\ [j EXCEPT !.step = "post"].msg = j.msg
      /\ [j EXCEPT !.step = "post"].seen = j.seen
      /\ [j EXCEPT !.step = "ack"].msg = j.msg
      /\ [j EXCEPT !.step = "ack"].seen = j.seen
      /\ [j EXCEPT !.step = "ack"].step = "ack"
      /\ [j EXCEPT !.step = "token", !.attempt = @ + 1].msg = j.msg
      /\ [j EXCEPT !.step = "token", !.attempt = @ + 1].seen = j.seen
  BY <1>1 DEF Job
<1>3. \A a : /\ [j EXCEPT !.step = "reject", !.answer = a].msg = j.msg
             /\ [j EXCEPT !.step = "reject", !.answer = a].seen = j.seen
             /\ [j EXCEPT !.step = "record", !.answer = a].msg = j.msg
             /\ [j EXCEPT !.step = "record", !.answer = a].seen = j.seen
  BY <1>1 DEF Job
<1>4. ASSUME NEW f, AttemptFails(j, f), j.step \in {"token", "post"}
      PROVE  \/ jobs' = jobs \ {j} /\ UNCHANGED queue
             \/ jobs' = jobs \ {j} /\ queue' = queue \cup {Retry(j.msg)}
             \/ UNCHANGED queue /\ Become(j, [j EXCEPT !.step = "token", !.attempt = @ + 1])
  BY <1>4 DEF AttemptFails, EndJob
<1>5. CASE RecordSubmitted(j) \/ RecordRejected(j)
  BY <1>2, <1>5 DEF RecordSubmitted, RecordRejected
<1>6. CASE ~(RecordSubmitted(j) \/ RecordRejected(j))
  <2>1. CASE \/ TokenFails(j)
             \/ \E f \in Faults \cap {"transport", "5xx"} : PostFails(j, f)
             \/ \E f \in Faults \cap {"transport", "5xx"}, r \in Refs : PostAnswerLost(j, f, r)
    BY <1>2, <1>4, <1>6, <2>1 DEF TokenFails, PostFails, PostAnswerLost
  <2>2. CASE GetToken(j) \/ CommitFails(j) \/ Acknowledge(j) \/ \E r \in Refs : PostGarbled(j, r)
    BY <1>2, <1>6, <2>2 DEF GetToken, CommitFails, Acknowledge, PostGarbled, EndJob
  <2>3. ASSUME NEW why, TokenRefused(j, why)
        PROVE  UNCHANGED queue /\ Become(j, [j EXCEPT !.step = "reject", !.answer = why])
               /\ j.step # "ack"
    BY <2>3 DEF TokenRefused
  <2>4. PostRefused(j) => /\ UNCHANGED queue /\ j.step # "ack"
                          /\ Become(j, [j EXCEPT !.step = "reject", !.answer = "dds_4xx"])
    BY DEF PostRefused
  <2>5. ASSUME NEW r, PostAccepted(j, r)
        PROVE  UNCHANGED queue /\ Become(j, [j EXCEPT !.step = "record", !.answer = r])
               /\ j.step # "ack"
    BY <2>5 DEF PostAccepted
  <2> QED BY <1>3, <1>6, <2>1, <2>2, <2>3, <2>4, <2>5 DEF JobStep
<1> QED BY <1>5, <1>6

LEMMA ExclusiveKept ==
  ASSUME TInv, Exclusive, [Next]_vars, disruptions' = 0
  PROVE  Exclusive'
<1>1. ASSUME UNCHANGED jobs, queue' \subseteq queue PROVE Exclusive'
  BY <1>1 DEF Exclusive
<1>2. ASSUME NEW d \in Dds, NEW t \in Tasks, SubmitDds(d, t) PROVE Exclusive'
  <2> DEFINE n == [task |-> t, dds |-> d, retries |-> 0]
  <2>1. None \notin Dds
    BY ConstantsAssumption
  <2>2. \A m \in queue : m.task # t
    BY <1>2, <2>1 DEF SubmitDds, TInv, TypeOK, JobsOfRows, Message
  <2>3. \A j \in jobs : j.msg.task # t
    BY <1>2, <2>1 DEF SubmitDds, TInv, TypeOK, JobsOfRows, Job, Message
  <2>4. queue' = queue \cup {n} /\ n.task = t /\ UNCHANGED jobs
    BY <1>2 DEF SubmitDds
  <2> HIDE DEF n
  <2> QED BY <2>2, <2>3, <2>4 DEF Exclusive
<1>3. ASSUME NEW w \in Workers, NEW m \in queue, Deliver(w, m) PROVE Exclusive'
  <2> DEFINE k == [worker |-> w, msg |-> m, step |-> "token", attempt |-> 1,
                   seen |-> dds[m.dds], seenLot |-> lot[dds[m.dds].lot], answer |-> None]
  <2>1. k.msg = m
    OBVIOUS
  <2>2. jobs' = jobs \cup {k} /\ queue' = queue \ {m}
    BY <1>3 DEF Deliver
  <2> HIDE DEF k
  <2> QED BY <2>1, <2>2 DEF Exclusive
<1>4. ASSUME NEW j \in jobs, JobStep(j) PROVE Exclusive'
  <2>1. j.msg \in Message
    BY DEF TInv, TypeOK, Job
  <2>2. Retry(j.msg).task = j.msg.task
    BY <2>1 DEF Retry, Message
  <2> QED BY <1>4, <2>2, CarrierSteps DEF Exclusive, Become
<1>5. ~Disruption
  BY DEF Disruption, WorkerLost, DeliverAgain, TInv, TypeOK
<1>6. ApiStep => UNCHANGED <<jobs, queue>> \/ \E d \in Dds, t \in Tasks : SubmitDds(d, t)
  BY DEF ApiStep, SealLotRead, CreateDdsRead, SealLotCommit, CreateDdsCommit, AbortRequest
<1> QED BY <1>1, <1>2, <1>3, <1>4, <1>5, <1>6 DEF Next, Quiescent, vars, LoadFails

(* A verdict is written by the job that carries it, which is done then.    *)
LEMMA VerdictWriters ==
  ASSUME TInv, AnswersReal, [Next]_vars, NEW d \in Dds
  PROVE  \/ dds'[d].ref = dds[d].ref /\ dds'[d].reason = dds[d].reason
         \/ \E i \in jobs : \E k :
              /\ i.msg.dds = d /\ i.step # "ack"
              /\ UNCHANGED queue /\ Become(i, k) /\ k.step = "ack"
              /\ dds'[d].ref = dds[d].ref \/ dds'[d].reason = dds[d].reason
<1>1. dds[d] \in Row /\ jobs \subseteq Job
  BY DEF TInv, TypeOK
<1>2. CASE Created(d)
  BY <1>2 DEF Created, AbsentRow
<1>3. ASSUME NEW i \in jobs, i.msg.dds = d, RecordSubmitted(i) \/ RecordRejected(i),
             dds'[d].ref = dds[d].ref \/ dds'[d].reason = dds[d].reason
      PROVE  \E k : /\ i.msg.dds = d /\ i.step # "ack"
                    /\ UNCHANGED queue /\ Become(i, k) /\ k.step = "ack"
  <2> DEFINE k == [i EXCEPT !.step = "ack"]
  <2>1. k.step = "ack"
    BY <1>1 DEF Job
  <2>2. UNCHANGED queue /\ Become(i, k) /\ i.step # "ack"
    BY <1>3 DEF RecordSubmitted, RecordRejected
  <2> HIDE DEF k
  <2> QED BY <1>3, <2>1, <2>2
<1>4. CASE Accepted(d)
  <2> PICK i \in jobs : /\ i.msg.dds = d
                        /\ RecordSubmitted(i)
                        /\ dds'[d] = AcceptedRow(dds[d], i)
    BY <1>4 DEF Accepted
  <2>1. i.answer \in Refs
    BY DEF RecordSubmitted, AnswersReal
  <2>2. dds'[d].reason = dds[d].reason
    BY <1>1, <2>1, AcceptedRowFacts
  <2> QED BY <1>3, <2>2
<1>5. CASE Rejected(d)
  <2> PICK i \in jobs : /\ i.msg.dds = d
                        /\ RecordRejected(i)
                        /\ dds'[d] = RejectedRow(dds[d], i)
    BY <1>5 DEF Rejected
  <2>1. i.answer \in Reasons
    BY DEF RecordRejected, AnswersReal
  <2>2. dds'[d].ref = dds[d].ref
    BY <1>1, <2>1, RejectedRowFacts
  <2> QED BY <1>3, <2>2
<1> QED BY <1>2, <1>4, <1>5, RowChanges

(* Where messages and jobs come from while nothing is disrupted.           *)
LEMMA CarrierOrigins ==
  ASSUME TInv, [Next]_vars, disruptions' = 0
  PROVE  /\ \A m \in queue' \ queue :
              \/ m.dds \in Dds /\ \E t \in Tasks : SubmitDds(m.dds, t)
              \/ \E j \in jobs : m.dds = j.msg.dds /\ j.step # "ack"
         /\ \A k \in jobs' \ jobs :
              \/ k.msg \in queue /\ queue' = queue \ {k.msg}
              \/ \E j \in jobs : k.msg = j.msg /\ j.step # "ack"
<1>1. ASSUME NEW d \in Dds, NEW t \in Tasks, SubmitDds(d, t)
      PROVE  UNCHANGED jobs /\ \A m \in queue' \ queue : m.dds = d
  BY <1>1 DEF SubmitDds
<1>2. ASSUME NEW w \in Workers, NEW m \in queue, Deliver(w, m)
      PROVE  queue' = queue \ {m} /\ \A k \in jobs' \ jobs : k.msg = m
  <2> DEFINE k == [worker |-> w, msg |-> m, step |-> "token", attempt |-> 1,
                   seen |-> dds[m.dds], seenLot |-> lot[dds[m.dds].lot], answer |-> None]
  <2>1. k.msg = m
    OBVIOUS
  <2>2. jobs' = jobs \cup {k} /\ queue' = queue \ {m}
    BY <1>2 DEF Deliver
  <2> HIDE DEF k
  <2> QED BY <2>1, <2>2
<1>3. ASSUME NEW j \in jobs, JobStep(j)
      PROVE  /\ \A m \in queue' \ queue : m.dds = j.msg.dds /\ j.step # "ack"
             /\ \A k \in jobs' \ jobs : k.msg = j.msg /\ j.step # "ack"
  <2>1. j.msg \in Message
    BY DEF TInv, TypeOK, Job
  <2>2. Retry(j.msg).dds = j.msg.dds
    BY <2>1 DEF Retry, Message
  <2> QED BY <1>3, <2>2, CarrierSteps DEF Become
<1>4. ~Disruption
  BY DEF Disruption, WorkerLost, DeliverAgain, TInv, TypeOK
<1>5. ApiStep => UNCHANGED <<jobs, queue>> \/ \E d \in Dds, t \in Tasks : SubmitDds(d, t)
  BY DEF ApiStep, SealLotRead, CreateDdsRead, SealLotCommit, CreateDdsCommit, AbortRequest
<1>6. \A w \in Workers, m \in queue : LoadFails(w, m) => UNCHANGED jobs /\ queue' \subseteq queue
  BY DEF LoadFails
<1> QED BY <1>1, <1>2, <1>3, <1>4, <1>5, <1>6 DEF Next, Quiescent, vars

(* Submit calls are never forgotten.                                       *)
LEMMA CallsGrow ==
  ASSUME TInv, [Next]_vars, NEW d \in Dds
  PROVE  SubmitCalls(d) \subseteq SubmitCalls(d)'
<1>1. CASE UNCHANGED tasks
  BY <1>1 DEF SubmitCalls
<1>2. ASSUME NEW e \in Dds, NEW t \in Tasks, SubmitDds(e, t)
      PROVE  SubmitCalls(d) \subseteq SubmitCalls(d)'
  <2>1. d # None
    BY ConstantsAssumption
  <2> QED BY <1>2, <2>1 DEF SubmitDds, SubmitCalls, TInv, TypeOK
<1> QED BY <1>1, <1>2 DEF Next, Quiescent, vars, ApiStep, SealLotRead, CreateDdsRead,
     SealLotCommit, CreateDdsCommit, AbortRequest, Deliver, LoadFails, JobStep, GetToken,
     TokenRefused, TokenFails, PostAccepted, PostRefused, PostFails, PostAnswerLost,
     PostGarbled, RecordSubmitted, RecordRejected, CommitFails, Acknowledge, Disruption,
     WorkerLost, DeliverAgain

LEMMA ContestedGrows ==
  ASSUME TInv, [Next]_vars, NEW d \in Dds, Contested(d)
  PROVE  Contested(d)'
BY CallsGrow DEF Contested

LEMMA CalledFirstKept ==
  ASSUME TInv, AnswersReal, CalledFirst, [Next]_vars
  PROVE  CalledFirst'
<1> SUFFICES ASSUME NEW d \in Dds, SubmitCalls(d)' = {} PROVE Undecided(d)'
  BY DEF CalledFirst, Undecided, SubmitCalls
<1>1. SubmitCalls(d) = {}
  BY CallsGrow
<1>2. \A j \in jobs : j.msg.dds # d
  BY <1>1 DEF TInv, TypeOK, JobsOfRows, Job, Message, SubmitCalls
<1> QED BY <1>1, <1>2, VerdictWriters DEF CalledFirst, Undecided

LEMMA FirstVerdictKept ==
  ASSUME TInv, AnswersReal, CalledFirst, Exclusive, FirstVerdict, [Next]_vars, disruptions' = 0
  PROVE  FirstVerdict'
<1> DEFINE Calm(d) == Contested(d) \/ Undecided(d)
           Writer(d, i, k) == /\ i.msg.dds = d /\ i.step # "ack"
                              /\ UNCHANGED queue /\ Become(i, k) /\ k.step = "ack"
<1>1. ASSUME NEW d \in Dds, Calm(d), \A i \in jobs : \A k : Writer(d, i, k) => Contested(d)
      PROVE  Contested(d)' \/ Undecided(d)'
  BY <1>1, ContestedGrows, VerdictWriters DEF Undecided
<1>2. ASSUME NEW m \in queue' PROVE Contested(m.dds)' \/ Undecided(m.dds)'
  <2>1. m.dds \in Dds
    <3>1. queue' \subseteq Message
      BY NextKeepsTInv DEF TInv, TypeOK
    <3> QED BY <3>1 DEF Message
  <2>2. CASE m \in queue
    <3>1. \A i \in jobs : \A k : Writer(m.dds, i, k) => Contested(m.dds)
      BY <2>2, OneCarrier
    <3> QED BY <1>1, <2>1, <2>2, <3>1 DEF FirstVerdict
  <2>3. CASE m \notin queue
    <3>1. \A i \in jobs : \A k : ~Writer(m.dds, i, k)
      BY <2>3
    <3>2. ASSUME NEW t \in Tasks, SubmitDds(m.dds, t), ~Contested(m.dds)' PROVE Undecided(m.dds)
      <4>1. t \in SubmitCalls(m.dds)'
        BY <3>2 DEF SubmitDds, SubmitCalls, TInv, TypeOK
      <4>2. t \notin SubmitCalls(m.dds)
        BY <2>1, <3>2, ConstantsAssumption DEF SubmitDds, SubmitCalls
      <4>3. SubmitCalls(m.dds) = {}
        BY <2>1, <3>2, <4>1, <4>2, CallsGrow DEF Contested
      <4> QED BY <2>1, <4>3 DEF CalledFirst
    <3>3. CASE \E t \in Tasks : SubmitDds(m.dds, t)
      BY <1>1, <2>1, <3>1, <3>2, <3>3
    <3>4. CASE \E j \in jobs : m.dds = j.msg.dds /\ j.step # "ack"
      BY <1>1, <2>1, <3>1, <3>4 DEF FirstVerdict
    <3> QED BY <1>2, <2>3, <3>3, <3>4, CarrierOrigins
  <2> QED BY <2>2, <2>3
<1>3. ASSUME NEW k \in jobs', k.step # "ack" PROVE Contested(k.msg.dds)' \/ Undecided(k.msg.dds)'
  <2>1. k.msg.dds \in Dds
    <3>1. jobs' \subseteq Job
      BY NextKeepsTInv DEF TInv, TypeOK
    <3> QED BY <3>1 DEF Job, Message
  <2>2. CASE k \in jobs
    <3>1. ASSUME NEW i \in jobs, NEW l, Writer(k.msg.dds, i, l) PROVE Contested(k.msg.dds)
      <4>1. i # k
        BY <1>3, <3>1 DEF Become
      <4> QED BY <2>2, <3>1, <4>1, OneCarrier
    <3> QED BY <1>1, <1>3, <2>1, <2>2, <3>1 DEF FirstVerdict
  <2>3. CASE k \notin jobs
    <3>1. \A i \in jobs : \A l : Become(i, l) => k = l
      BY <1>3, <2>3 DEF Become
    <3>2. \A i \in jobs : \A l : ~Writer(k.msg.dds, i, l)
      BY <1>3, <3>1
    <3>3. Calm(k.msg.dds)
      BY <1>3, <2>3, CarrierOrigins DEF FirstVerdict
    <3> QED BY <1>1, <2>1, <3>2, <3>3
  <2> QED BY <2>2, <2>3
<1>4. ASSUME NEW d \in Dds, ~Contested(d)' PROVE dds'[d].ref = None \/ dds'[d].reason = None
  <2>1. ~Contested(d)
    BY <1>4, ContestedGrows
  <2>2. \A i \in jobs : i.msg.dds = d /\ i.step # "ack" => Undecided(d)
    BY <2>1 DEF FirstVerdict
  <2> QED BY <2>1, <2>2, VerdictWriters DEF FirstVerdict, Undecided
<1> QED BY <1>2, <1>3, <1>4 DEF FirstVerdict, Undecided

LEMMA ContestedCalls ==
  ASSUME NEW d \in Dds, Contested(d)
  PROVE  Cardinality(SubmitCalls(d)) > 1
<1>1. PICK t, u \in SubmitCalls(d) : t # u
  BY DEF Contested
<1>2. IsFiniteSet(SubmitCalls(d))
  BY ConstantsAssumption, FS_Subset DEF SubmitCalls
<1>3. Cardinality(SubmitCalls(d)) # 0 /\ Cardinality(SubmitCalls(d)) # 1
  BY <1>1, <1>2, FS_EmptySet, FS_Singleton
<1>4. Cardinality(SubmitCalls(d)) \in Nat
  BY <1>2, FS_CardinalityType
<1> QED BY <1>3, <1>4

(* A number and a reason on the same row are never the work of the retries *)
(* of one submit call: they take a second call, a lost worker or a message *)
(* delivered twice (submit_dds, submit_dds_task).                          *)
THEOREM OneVerdictForOneCall == Spec => []OneCallOneVerdict
<1>1. Init => VInv
  BY DEF Init, VInv, CalledFirst, Exclusive, FirstVerdict, Undecided, AbsentRow
<1>2. Inv /\ VInv /\ [Next]_vars => VInv'
  <2> SUFFICES ASSUME Inv, VInv, [Next]_vars PROVE VInv'
    OBVIOUS
  <2>1. disruptions' = 0 => disruptions = 0
    BY DisruptionsGrow DEF Inv
  <2>2. CalledFirst'
    BY CalledFirstKept DEF Inv, VInv
  <2>3. disruptions' = 0 => Exclusive' /\ FirstVerdict'
    BY <2>1, ExclusiveKept, FirstVerdictKept DEF Inv, VInv
  <2> QED BY <2>2, <2>3 DEF VInv
<1>3. Inv /\ VInv => OneCallOneVerdict
  <2> SUFFICES ASSUME Inv, VInv, NEW d \in Dds, dds[d].ref # None, dds[d].reason # None,
                      disruptions \notin Nat \ {0}
               PROVE  Cardinality(SubmitCalls(d)) > 1
    BY DEF OneCallOneVerdict
  <2>1. disruptions = 0
    BY DEF Inv, TInv, TypeOK
  <2> QED BY <2>1, ContestedCalls DEF VInv, FirstVerdict
<1> QED BY <1>1, <1>2, <1>3, Invariance, PTL DEF Spec

-----------------------------------------------------------------------------
(* The filing budget                                                       *)

(* How often a message, or a running job, can still make TRACES NT store   *)
(* statement d: once in each attempt of each run that is left to it.       *)
MessageCost(d) ==
  [m \in Message |-> IF m.dds = d THEN (MaxRetries + 1 - m.retries) * MaxAttempts ELSE 0]

JobCost(d) ==
  [j \in Job |-> IF j.msg.dds = d /\ j.step \in {"token", "post"}
                   THEN (MaxRetries - j.msg.retries) * MaxAttempts + (MaxAttempts + 1 - j.attempt)
                   ELSE 0]

Budget == (MaxRetries + 1) * MaxAttempts

Granted(d) == (Cardinality(SubmitCalls(d)) + disruptions) * Budget

MessagesLeft(d) == SumFunction(On(MessageCost(d), queue))

JobsLeft(d) == SumFunction(On(JobCost(d), jobs))

Bounded == IsFiniteSet(queue) /\ IsFiniteSet(jobs) /\ IsFiniteSet(filed)

(* What was filed and what still can be is within the budget of the calls. *)
WithinBudget(d) ==
  Cardinality(FiledFor(d)) + MessagesLeft(d) + JobsLeft(d)
    <= Granted(d)

BInv == \A d \in Dds : Bounded /\ WithinBudget(d)

LEMMA TimesMonotone ==
  ASSUME NEW n \in Nat, NEW q \in Nat, NEW m \in Nat, n <= m
  PROVE  n * q \in Nat /\ m * q \in Nat /\ n * q <= m * q
OBVIOUS

LEMMA TimesAssociate ==
  ASSUME NEW n \in Nat, NEW q \in Nat, NEW m \in Nat
  PROVE  n * m * q = n * (m * q)
OBVIOUS

LEMMA MessageCostType ==
  ASSUME NEW d \in Dds, NEW m \in Message
  PROVE  /\ MessageCost(d)[m] \in Nat
         /\ MessageCost(d)[m] <= Budget
         /\ m.dds # d => MessageCost(d)[m] = 0
<1>1. m.retries \in 0 .. MaxRetries /\ MaxRetries \in Nat /\ MaxAttempts \in Nat
  BY ConstantsAssumption DEF Message
<1>2. MaxRetries + 1 - m.retries \in Nat /\ MaxRetries + 1 - m.retries <= MaxRetries + 1
  BY <1>1
<1> DEFINE n == MaxRetries + 1 - m.retries
           top == MaxRetries + 1
<1>3. top \in Nat
  BY <1>1
<1>4. MessageCost(d)[m] = IF m.dds = d THEN n * MaxAttempts ELSE 0
  BY DEF MessageCost
<1>5. Budget = top * MaxAttempts
  BY DEF Budget
<1> HIDE DEF n, top
<1> DEFINE p == n * MaxAttempts
           q == top * MaxAttempts
<1>6. p \in Nat /\ q \in Nat /\ p <= q
  BY <1>1, <1>2, <1>3, TimesMonotone DEF n, top
<1> HIDE DEF p, q
<1> QED BY <1>4, <1>5, <1>6 DEF p, q

LEMMA JobCostType ==
  ASSUME NEW d \in Dds, NEW j \in Job
  PROVE  /\ JobCost(d)[j] \in Nat
         /\ j.step \in {"token", "post"} /\ j.msg.dds = d => JobCost(d)[j] >= 1
         /\ j.step \notin {"token", "post"} \/ j.msg.dds # d => JobCost(d)[j] = 0
<1>1. /\ j.msg.retries \in 0 .. MaxRetries /\ j.attempt \in 1 .. MaxAttempts
      /\ MaxRetries \in Nat /\ MaxAttempts \in Nat
  BY ConstantsAssumption DEF Job, Message
<1> DEFINE n == MaxRetries - j.msg.retries
           left == n * MaxAttempts
<1>2. n \in Nat
  BY <1>1
<1>3. JobCost(d)[j] = IF j.msg.dds = d /\ j.step \in {"token", "post"}
                        THEN left + (MaxAttempts + 1 - j.attempt) ELSE 0
  BY DEF JobCost
<1> HIDE DEF n
<1>4. left \in Nat
  BY <1>1, <1>2
<1> HIDE DEF left
<1> QED BY <1>1, <1>3, <1>4

(* Delivering a message costs what it starts.                              *)
LEMMA DeliveredCost ==
  ASSUME NEW d \in Dds, NEW k \in Job, k.attempt = 1, k.step = "token"
  PROVE  JobCost(d)[k] = MessageCost(d)[k.msg]
<1>1. /\ k.msg \in Message /\ k.msg.retries \in 0 .. MaxRetries
      /\ MaxRetries \in Nat /\ MaxAttempts \in Nat
  BY ConstantsAssumption DEF Job, Message
<1> DEFINE n == MaxRetries - k.msg.retries
<1>2. n \in Nat /\ MaxRetries + 1 - k.msg.retries = n + 1
  BY <1>1
<1>3. JobCost(d)[k] = IF k.msg.dds = d THEN n * MaxAttempts + (MaxAttempts + 1 - 1) ELSE 0
  BY DEF JobCost
<1>4. MessageCost(d)[k.msg] = IF k.msg.dds = d THEN (n + 1) * MaxAttempts ELSE 0
  BY <1>1, <1>2 DEF MessageCost
<1> HIDE DEF n
<1>5. n * MaxAttempts \in Nat /\ (n + 1) * MaxAttempts = n * MaxAttempts + MaxAttempts
  BY <1>1, <1>2, TimesNext
<1> DEFINE p == n * MaxAttempts
           q == (n + 1) * MaxAttempts
<1>6. /\ p \in Nat /\ q = p + MaxAttempts
      /\ JobCost(d)[k] = IF k.msg.dds = d THEN p + (MaxAttempts + 1 - 1) ELSE 0
      /\ MessageCost(d)[k.msg] = IF k.msg.dds = d THEN q ELSE 0
  BY <1>3, <1>4, <1>5
<1> HIDE DEF p, q
<1> QED BY <1>1, <1>6

(* A retried message costs less than the last attempt it follows.          *)
LEMMA RetriedCost ==
  ASSUME NEW d \in Dds, NEW j \in Job, j.step \in {"token", "post"}, ~AttemptsLeft(j),
         j.msg.retries < MaxRetries
  PROVE  /\ Retry(j.msg) \in Message
         /\ MessageCost(d)[Retry(j.msg)] <= JobCost(d)[j]
         /\ j.msg.dds = d => MessageCost(d)[Retry(j.msg)] < JobCost(d)[j]
<1>1. /\ j.msg \in Message /\ j.msg.retries \in 0 .. MaxRetries
      /\ MaxRetries \in Nat /\ MaxAttempts \in Nat /\ j.attempt \in 1 .. MaxAttempts
  BY ConstantsAssumption DEF Job, Message
<1>2. Retry(j.msg) \in Message /\ Retry(j.msg).dds = j.msg.dds
  BY <1>1, RetryType
<1>3. Retry(j.msg).retries = j.msg.retries + 1
  BY <1>1 DEF Retry, Message
<1> DEFINE n == MaxRetries - j.msg.retries
           p == n * MaxAttempts
<1>4. n \in Nat /\ MaxRetries + 1 - Retry(j.msg).retries = n
  BY <1>1, <1>3
<1>5. JobCost(d)[j] = IF j.msg.dds = d THEN p + (MaxAttempts + 1 - j.attempt) ELSE 0
  BY DEF JobCost
<1>6. MessageCost(d)[Retry(j.msg)] = IF j.msg.dds = d THEN p ELSE 0
  BY <1>2, <1>4 DEF MessageCost
<1> HIDE DEF n
<1>7. p \in Nat
  BY <1>1, <1>4
<1> HIDE DEF p
<1> QED BY <1>1, <1>2, <1>5, <1>6, <1>7

(* The next attempt costs one less.                                        *)
LEMMA NextAttemptCost ==
  ASSUME NEW d \in Dds, NEW j \in Job, j.step \in {"token", "post"},
         NEW k \in Job, k.msg = j.msg, k.step = "token", k.attempt = j.attempt + 1
  PROVE  /\ JobCost(d)[k] <= JobCost(d)[j]
         /\ j.msg.dds = d => JobCost(d)[k] < JobCost(d)[j]
<1>1. /\ j.msg.retries \in 0 .. MaxRetries
      /\ MaxRetries \in Nat /\ MaxAttempts \in Nat /\ j.attempt \in 1 .. MaxAttempts
  BY ConstantsAssumption DEF Job, Message
<1> DEFINE n == MaxRetries - j.msg.retries
           p == n * MaxAttempts
<1>2. n \in Nat
  BY <1>1
<1>3. JobCost(d)[j] = IF j.msg.dds = d THEN p + (MaxAttempts + 1 - j.attempt) ELSE 0
  BY DEF JobCost
<1>4. JobCost(d)[k] = IF j.msg.dds = d THEN p + (MaxAttempts + 1 - (j.attempt + 1)) ELSE 0
  BY DEF JobCost
<1> HIDE DEF n
<1>5. p \in Nat
  BY <1>1, <1>2
<1> HIDE DEF p
<1> QED BY <1>1, <1>3, <1>4, <1>5

(* A step stores at most x more copies of statement d.                     *)
Files(d, x) ==
  /\ IsFiniteSet(filed')
  /\ Cardinality(FiledFor(d)) \in Nat
  /\ Cardinality(FiledFor(d)') \in Nat
  /\ Cardinality(FiledFor(d)') <= Cardinality(FiledFor(d)) + x

LEMMA FilesNothing ==
  ASSUME IsFiniteSet(filed), UNCHANGED filed, NEW d \in Dds
  PROVE  Files(d, 0)
<1>1. IsFiniteSet(FiledFor(d)) /\ FiledFor(d)' = FiledFor(d)
  BY FS_Subset DEF FiledFor
<1>2. Cardinality(FiledFor(d)) \in Nat
  BY <1>1, FS_CardinalityType
<1> QED BY <1>1, <1>2 DEF Files

LEMMA FilesOne ==
  ASSUME IsFiniteSet(filed), NEW d \in Dds, NEW e \in Dds, NEW r, File(e, r)
  PROVE  Files(d, 1) /\ (e # d => Files(d, 0))
<1> DEFINE f == [dds |-> e, ref |-> r]
<1>1. filed' = filed \cup {f} /\ f.dds = e
  BY DEF File, Unused
<1> HIDE DEF f
<1>2. IsFiniteSet(filed') /\ IsFiniteSet(FiledFor(d))
  BY <1>1, FS_AddElement, FS_Subset DEF FiledFor
<1>3. Cardinality(FiledFor(d)) \in Nat
  BY <1>2, FS_CardinalityType
<1>4. CASE e # d
  <2>1. FiledFor(d)' = FiledFor(d)
    BY <1>1, <1>4 DEF FiledFor
  <2> QED BY <1>2, <1>3, <2>1 DEF Files
<1>5. CASE e = d
  <2>1. FiledFor(d)' = FiledFor(d) \cup {f}
    BY <1>1, <1>5 DEF FiledFor
  <2>2. Cardinality(FiledFor(d)') \in Nat /\ Cardinality(FiledFor(d)') <= Cardinality(FiledFor(d)) + 1
    BY <1>2, <1>3, <2>1, FS_AddElement
  <2> QED BY <1>2, <1>3, <1>5, <2>2 DEF Files
<1> QED BY <1>4, <1>5

(* Every step of a job is paid for by what the job can still file.         *)
LEMMA JobsPay ==
  ASSUME TInv, Bounded, NEW j \in jobs, JobStep(j), NEW d \in Dds
  PROVE  \E x \in Nat :
           /\ Files(d, x)
           /\ \/ /\ jobs' = jobs \ {j} /\ UNCHANGED queue
                 /\ x <= JobCost(d)[j]
              \/ /\ UNCHANGED queue
                 /\ \E k \in Job : Become(j, k) /\ x + JobCost(d)[k] <= JobCost(d)[j]
              \/ /\ jobs' = jobs \ {j}
                 /\ \E n \in Message : /\ queue' = queue \cup {n}
                                        /\ x + MessageCost(d)[n] <= JobCost(d)[j]
<1> DEFINE Paid(x) == /\ Files(d, x)
                      /\ \/ /\ jobs' = jobs \ {j} /\ UNCHANGED queue
                            /\ x <= JobCost(d)[j]
                         \/ /\ UNCHANGED queue
                            /\ \E k \in Job : Become(j, k) /\ x + JobCost(d)[k] <= JobCost(d)[j]
                         \/ /\ jobs' = jobs \ {j}
                            /\ \E n \in Message : /\ queue' = queue \cup {n}
                                                   /\ x + MessageCost(d)[n] <= JobCost(d)[j]
<1> SUFFICES \E x \in Nat : Paid(x)
  OBVIOUS
<1>1. j \in Job /\ j.msg \in Message /\ j.msg.dds \in Dds
  BY DEF TInv, TypeOK, Job, Message
<1>2. JobCost(d)[j] \in Nat /\ \A k \in Job : JobCost(d)[k] \in Nat
  BY <1>1, JobCostType
<1>3. UNCHANGED filed => Files(d, 0)
  BY FilesNothing DEF Bounded
<1>4. \A r : File(j.msg.dds, r) => IF j.msg.dds = d THEN Files(d, 1) ELSE Files(d, 0)
  BY <1>1, FilesOne DEF Bounded
<1>5. ASSUME jobs' = jobs \ {j}, UNCHANGED <<queue, filed>> PROVE Paid(0)
  BY <1>2, <1>3, <1>5
<1>6. ASSUME NEW k \in Job, Become(j, k), k.step \notin {"token", "post"}, UNCHANGED <<queue, filed>>
      PROVE  Paid(0)
  <2>1. JobCost(d)[k] = 0
    BY <1>6, JobCostType
  <2> QED BY <1>2, <1>3, <1>6, <2>1
<1>7. ASSUME NEW f, AttemptFails(j, f), j.step \in {"token", "post"},
             UNCHANGED filed \/ \E r : File(j.msg.dds, r)
      PROVE  \E x \in Nat : Paid(x)
  <2>1. PICK x \in Nat : Files(d, x) /\ (x = 0 \/ (j.msg.dds = d /\ x = 1))
    <3>1. 0 \in Nat /\ 1 \in Nat
      OBVIOUS
    <3>2. Files(d, 0) \/ (j.msg.dds = d /\ Files(d, 1))
      BY <1>3, <1>4, <1>7
    <3> HIDE DEF Paid
    <3> QED BY <3>1, <3>2
  <2>2. x <= JobCost(d)[j]
    BY <1>1, <1>2, <1>7, <2>1, JobCostType
  <2>3. CASE AttemptsLeft(j) /\ UNCHANGED queue
             /\ Become(j, [j EXCEPT !.step = "token", !.attempt = @ + 1])
    <3> DEFINE k == [j EXCEPT !.step = "token", !.attempt = @ + 1]
    <3>1. k \in Job
      BY <1>1, <2>3, JobUpdates DEF Continues
    <3>2. k.msg = j.msg /\ k.step = "token" /\ k.attempt = j.attempt + 1
      BY <1>1 DEF Job
    <3>3. Become(j, k)
      BY <2>3
    <3> HIDE DEF k
    <3>4. /\ JobCost(d)[k] <= JobCost(d)[j]
          /\ j.msg.dds = d => JobCost(d)[k] < JobCost(d)[j]
      BY <1>1, <1>7, <3>1, <3>2, NextAttemptCost
    <3>5. x + JobCost(d)[k] <= JobCost(d)[j]
      BY <1>2, <2>1, <3>1, <3>4
    <3>6. Paid(x)
      BY <2>1, <2>3, <3>1, <3>3, <3>5
    <3> QED BY <2>1, <3>6
  <2>4. CASE ~AttemptsLeft(j) /\ j.msg.retries < MaxRetries /\ jobs' = jobs \ {j}
             /\ queue' = queue \cup {Retry(j.msg)}
    <3>1. /\ Retry(j.msg) \in Message
          /\ MessageCost(d)[Retry(j.msg)] <= JobCost(d)[j]
          /\ j.msg.dds = d => MessageCost(d)[Retry(j.msg)] < JobCost(d)[j]
      BY <1>1, <1>7, <2>4, RetriedCost
    <3>2. MessageCost(d)[Retry(j.msg)] \in Nat
      BY <3>1, MessageCostType
    <3>3. x + MessageCost(d)[Retry(j.msg)] <= JobCost(d)[j]
      BY <1>2, <2>1, <3>1, <3>2
    <3> QED BY <2>1, <2>4, <3>1, <3>3
  <2>5. CASE jobs' = jobs \ {j} /\ UNCHANGED queue
    BY <2>1, <2>2, <2>5
  <2> QED BY <1>7, <2>3, <2>4, <2>5 DEF AttemptFails, EndJob
<1>8. CASE GetToken(j)
  <2> DEFINE k == [j EXCEPT !.step = "post"]
  <2>1. k \in Job
    BY <1>1, JobUpdates DEF Continues
  <2>2. k.msg = j.msg /\ k.attempt = j.attempt /\ k.step = "post" /\ j.step = "token"
    BY <1>1, <1>8 DEF Job, GetToken
  <2>3. Become(j, k) /\ UNCHANGED <<queue, filed>>
    BY <1>8 DEF GetToken
  <2> HIDE DEF k
  <2>4. JobCost(d)[k] = JobCost(d)[j]
    BY <1>1, <2>1, <2>2 DEF JobCost
  <2>5. Paid(0)
    BY <1>2, <1>3, <2>1, <2>3, <2>4
  <2> QED BY <2>5
<1>9. ASSUME NEW why \in Reasons, UNCHANGED <<queue, filed>>,
             Become(j, [j EXCEPT !.step = "reject", !.answer = why])
      PROVE  Paid(0)
  <2> DEFINE k == [j EXCEPT !.step = "reject", !.answer = why]
  <2>1. k \in Job /\ k.step = "reject"
    BY <1>1, JobUpdates DEF Continues, Job
  <2> HIDE DEF k
  <2> QED BY <1>6, <1>9, <2>1 DEF k
<1>10. ASSUME NEW r \in Refs, PostAccepted(j, r) PROVE \E x \in Nat : Paid(x)
  <2> DEFINE k == [j EXCEPT !.step = "record", !.answer = r]
             x == IF j.msg.dds = d THEN 1 ELSE 0
  <2>1. k \in Job /\ k.step = "record"
    BY <1>1, JobUpdates DEF Continues, Job
  <2>2. Become(j, k) /\ UNCHANGED queue /\ j.step = "post" /\ File(j.msg.dds, r)
    BY <1>10 DEF PostAccepted
  <2> HIDE DEF k
  <2>3. JobCost(d)[k] = 0
    BY <2>1, JobCostType
  <2>4. x \in Nat /\ Files(d, x) /\ x <= JobCost(d)[j]
    BY <1>1, <1>2, <1>4, <2>2, JobCostType
  <2> HIDE DEF x
  <2>5. x + JobCost(d)[k] <= JobCost(d)[j]
    BY <2>3, <2>4
  <2> QED BY <2>1, <2>2, <2>4, <2>5
<1>11. ASSUME NEW r \in Refs, PostGarbled(j, r) PROVE \E x \in Nat : Paid(x)
  <2> DEFINE x == IF j.msg.dds = d THEN 1 ELSE 0
  <2>1. jobs' = jobs \ {j} /\ UNCHANGED queue /\ j.step = "post" /\ File(j.msg.dds, r)
    BY <1>11 DEF PostGarbled, EndJob
  <2>2. x \in Nat /\ Files(d, x) /\ x <= JobCost(d)[j]
    BY <1>1, <1>2, <1>4, <2>1, JobCostType
  <2> HIDE DEF x
  <2> QED BY <2>1, <2>2
<1>12. CASE RecordSubmitted(j) \/ RecordRejected(j)
  <2> DEFINE k == [j EXCEPT !.step = "ack"]
  <2>1. k \in Job /\ k.step = "ack"
    BY <1>1, JobUpdates DEF Continues, Job
  <2>2. Become(j, k) /\ UNCHANGED <<queue, filed>>
    BY <1>12 DEF RecordSubmitted, RecordRejected
  <2> HIDE DEF k
  <2>3. Paid(0)
    BY <1>6, <2>1, <2>2
  <2> QED BY <2>3
<1>13. CASE CommitFails(j) \/ Acknowledge(j)
  BY <1>5, <1>13 DEF CommitFails, Acknowledge, EndJob
<1>14. CASE PostRefused(j) \/ \E why \in TokenErrors : TokenRefused(j, why)
  <2>1. \E why \in Reasons : Become(j, [j EXCEPT !.step = "reject", !.answer = why])
    BY <1>14 DEF PostRefused, TokenRefused, Reasons
  <2>2. UNCHANGED <<queue, filed>>
    BY <1>14 DEF PostRefused, TokenRefused
  <2>3. Paid(0)
    BY <1>9, <2>1, <2>2
  <2> QED BY <2>3
<1>15. CASE \/ TokenFails(j)
            \/ \E f \in Faults \cap {"transport", "5xx"} : PostFails(j, f)
            \/ \E f \in Faults \cap {"transport", "5xx"}, r \in Refs : PostAnswerLost(j, f, r)
  BY <1>7, <1>15 DEF TokenFails, PostFails, PostAnswerLost
<1> QED BY <1>8, <1>10, <1>11, <1>12, <1>13, <1>14, <1>15 DEF JobStep

(* The two sums when their set gains or loses an element.                  *)
LEMMA MessageSums ==
  ASSUME NEW d \in Dds, NEW S, S \subseteq Message, IsFiniteSet(S)
  PROVE  /\ SumFunction(On(MessageCost(d), S)) \in Nat
         /\ \A n \in Message :
              /\ IsFiniteSet(S \cup {n})
              /\ SumFunction(On(MessageCost(d), S \cup {n}))
                   <= SumFunction(On(MessageCost(d), S)) + MessageCost(d)[n]
         /\ \A n \in S :
              /\ IsFiniteSet(S \ {n})
              /\ SumFunction(On(MessageCost(d), S))
                   = MessageCost(d)[n] + SumFunction(On(MessageCost(d), S \ {n}))
<1> DEFINE f == MessageCost(d)
<1>1. \A n \in Message : f[n] \in Nat
  BY MessageCostType
<1>2. \A n : IsFiniteSet(S \cup {n}) /\ IsFiniteSet(S \ {n})
  BY FS_AddElement, FS_RemoveElement
<1> HIDE DEF f
<1>3. ASSUME NEW n \in Message
      PROVE  /\ SumFunction(On(f, S)) \in Nat
             /\ SumFunction(On(f, S \cup {n})) <= SumFunction(On(f, S)) + f[n]
  <2>1. \A y \in S \cup {n} : f[y] \in Nat
    BY <1>1
  <2> QED BY <2>1, SumAdd
<1>4. ASSUME NEW n \in S PROVE SumFunction(On(f, S)) = f[n] + SumFunction(On(f, S \ {n}))
  <2>1. \A y \in S : f[y] \in Nat
    BY <1>1
  <2> QED BY <2>1, SumDrop
<1>5. SumFunction(On(f, S)) \in Nat
  <2>1. CASE S = {}
    <3>1. SumFunction(On(f, {})) = 0
      BY SumOnEmpty
    <3> QED BY <2>1, <3>1
  <2>2. CASE S # {}
    BY <1>3, <2>2
  <2> QED BY <2>1, <2>2
<1> QED BY <1>2, <1>3, <1>4, <1>5 DEF f

LEMMA JobSums ==
  ASSUME NEW d \in Dds, NEW S, S \subseteq Job, IsFiniteSet(S)
  PROVE  /\ SumFunction(On(JobCost(d), S)) \in Nat
         /\ \A j \in Job :
              /\ IsFiniteSet(S \cup {j})
              /\ SumFunction(On(JobCost(d), S \cup {j}))
                   <= SumFunction(On(JobCost(d), S)) + JobCost(d)[j]
         /\ \A j \in S :
              /\ IsFiniteSet(S \ {j})
              /\ SumFunction(On(JobCost(d), S))
                   = JobCost(d)[j] + SumFunction(On(JobCost(d), S \ {j}))
<1> DEFINE f == JobCost(d)
<1>1. \A j \in Job : f[j] \in Nat
  BY JobCostType
<1>2. \A j : IsFiniteSet(S \cup {j}) /\ IsFiniteSet(S \ {j})
  BY FS_AddElement, FS_RemoveElement
<1> HIDE DEF f
<1>3. ASSUME NEW j \in Job
      PROVE  /\ SumFunction(On(f, S)) \in Nat
             /\ SumFunction(On(f, S \cup {j})) <= SumFunction(On(f, S)) + f[j]
  <2>1. \A y \in S \cup {j} : f[y] \in Nat
    BY <1>1
  <2> QED BY <2>1, SumAdd
<1>4. ASSUME NEW j \in S PROVE SumFunction(On(f, S)) = f[j] + SumFunction(On(f, S \ {j}))
  <2>1. \A y \in S : f[y] \in Nat
    BY <1>1
  <2> QED BY <2>1, SumDrop
<1>5. SumFunction(On(f, S)) \in Nat
  <2>1. CASE S = {}
    <3>1. SumFunction(On(f, {})) = 0
      BY SumOnEmpty
    <3> QED BY <2>1, <3>1
  <2>2. CASE S # {}
    BY <1>3, <2>2
  <2> QED BY <2>1, <2>2
<1> QED BY <1>2, <1>3, <1>4, <1>5 DEF f

LEMMA GrantedType ==
  ASSUME TInv, NEW d \in Dds
  PROVE  /\ IsFiniteSet(SubmitCalls(d))
         /\ Cardinality(SubmitCalls(d)) + disruptions \in Nat
         /\ Budget \in Nat
         /\ Granted(d) \in Nat
         /\ (Cardinality(SubmitCalls(d)) + disruptions + 1) * Budget = Granted(d) + Budget
<1>1. IsFiniteSet(SubmitCalls(d))
  BY ConstantsAssumption, FS_Subset DEF SubmitCalls
<1>2. Cardinality(SubmitCalls(d)) \in Nat /\ disruptions \in Nat
  BY <1>1, FS_CardinalityType DEF TInv, TypeOK
<1>3. Budget \in Nat
  BY ConstantsAssumption DEF Budget
<1> DEFINE n == Cardinality(SubmitCalls(d)) + disruptions
<1>4. n \in Nat
  BY <1>2
<1> HIDE DEF n
<1>5. n * Budget \in Nat /\ (n + 1) * Budget = n * Budget + Budget
  BY <1>3, <1>4, TimesNext
<1> QED BY <1>1, <1>3, <1>4, <1>5 DEF n, Granted

LEMMA WhatIsLeft ==
  ASSUME TInv, Bounded, NEW d \in Dds
  PROVE  /\ queue \subseteq Message /\ jobs \subseteq Job
         /\ MessagesLeft(d) \in Nat
         /\ JobsLeft(d) \in Nat
         /\ Cardinality(FiledFor(d)) \in Nat
<1>1. queue \subseteq Message /\ jobs \subseteq Job
  BY DEF TInv, TypeOK
<1>2. Cardinality(FiledFor(d)) \in Nat
  BY FS_Subset, FS_CardinalityType DEF FiledFor, Bounded
<1> QED BY <1>1, <1>2, MessageSums, JobSums DEF MessagesLeft, JobsLeft, Bounded

(* Replacing a job by a later state of it.                                 *)
LEMMA JobsLeftMoves ==
  ASSUME TInv, Bounded, NEW d \in Dds, NEW j \in jobs
  PROVE  /\ jobs' = jobs \ {j} =>
              /\ IsFiniteSet(jobs')
              /\ JobsLeft(d)' \in Nat
              /\ JobsLeft(d) = JobsLeft(d)' + JobCost(d)[j]
         /\ \A k \in Job : Become(j, k) =>
              /\ IsFiniteSet(jobs')
              /\ JobsLeft(d)' \in Nat
              /\ JobsLeft(d)' + JobCost(d)[j] <= JobsLeft(d) + JobCost(d)[k]
<1> DEFINE Sum(S) == SumFunction(On(JobCost(d), S))
           rest == jobs \ {j}
<1>1. jobs \subseteq Job /\ IsFiniteSet(jobs) /\ rest \subseteq Job
  BY DEF TInv, TypeOK, Bounded
<1>2. IsFiniteSet(rest) /\ Sum(jobs) = JobCost(d)[j] + Sum(rest)
  BY <1>1, JobSums
<1>3. JobsLeft(d) = Sum(jobs) /\ JobsLeft(d)' = Sum(jobs')
  BY DEF JobsLeft, JobCost
<1>4. \A k \in Job : JobCost(d)[k] \in Nat
  BY JobCostType
<1> HIDE DEF rest
<1>5. Sum(rest) \in Nat
  BY <1>1, <1>2, JobSums
<1>6. ASSUME NEW k \in Job
      PROVE  /\ IsFiniteSet(rest \cup {k})
             /\ Sum(rest \cup {k}) \in Nat
             /\ Sum(rest \cup {k}) <= Sum(rest) + JobCost(d)[k]
  <2>1. IsFiniteSet(rest \cup {k}) /\ Sum(rest \cup {k}) <= Sum(rest) + JobCost(d)[k]
    BY <1>1, <1>2, JobSums
  <2>2. rest \cup {k} \subseteq Job
    BY <1>1
  <2> QED BY <2>1, <2>2, JobSums
<1> HIDE DEF Sum
<1>7. j \in Job
  BY <1>1
<1>8. ASSUME jobs' = rest
      PROVE  /\ IsFiniteSet(jobs')
             /\ JobsLeft(d)' \in Nat
             /\ JobsLeft(d) = JobsLeft(d)' + JobCost(d)[j]
  BY <1>2, <1>3, <1>4, <1>5, <1>7, <1>8
<1>9. ASSUME NEW k \in Job, jobs' = rest \cup {k}
      PROVE  /\ IsFiniteSet(jobs')
             /\ JobsLeft(d)' \in Nat
             /\ JobsLeft(d)' + JobCost(d)[j] <= JobsLeft(d) + JobCost(d)[k]
  <2>1. JobCost(d)[j] \in Nat /\ JobCost(d)[k] \in Nat
    BY <1>4, <1>7
  <2>2. JobsLeft(d)' = Sum(rest \cup {k})
    BY <1>3, <1>9
  <2> QED BY <1>2, <1>3, <1>5, <1>6, <1>9, <2>1, <2>2
<1> QED BY <1>8, <1>9 DEF Become, rest

LEMMA MessagesLeftMoves ==
  ASSUME TInv, Bounded, NEW d \in Dds
  PROVE  /\ \A n \in Message : queue' = queue \cup {n} =>
              /\ IsFiniteSet(queue')
              /\ MessagesLeft(d)' \in Nat
              /\ MessagesLeft(d)' <= MessagesLeft(d) + MessageCost(d)[n]
         /\ \A n \in queue : queue' = queue \ {n} =>
              /\ IsFiniteSet(queue')
              /\ MessagesLeft(d)' \in Nat
              /\ MessagesLeft(d) = MessagesLeft(d)' + MessageCost(d)[n]
<1> DEFINE Sum(S) == SumFunction(On(MessageCost(d), S))
<1>1. queue \subseteq Message /\ IsFiniteSet(queue)
  BY DEF TInv, TypeOK, Bounded
<1>2. MessagesLeft(d) = Sum(queue) /\ MessagesLeft(d)' = Sum(queue')
  BY DEF MessagesLeft, MessageCost
<1>3. \A n \in Message : MessageCost(d)[n] \in Nat
  BY MessageCostType
<1>4. ASSUME NEW n \in Message, queue' = queue \cup {n}
      PROVE  /\ IsFiniteSet(queue')
             /\ MessagesLeft(d)' \in Nat
             /\ MessagesLeft(d)' <= MessagesLeft(d) + MessageCost(d)[n]
  <2>1. IsFiniteSet(queue') /\ Sum(queue') <= Sum(queue) + MessageCost(d)[n]
    BY <1>1, <1>4, MessageSums
  <2>2. queue' \subseteq Message
    BY <1>1, <1>4
  <2>3. Sum(queue') \in Nat
    BY <2>1, <2>2, MessageSums
  <2> QED BY <1>2, <2>1, <2>3
<1>5. ASSUME NEW n \in queue, queue' = queue \ {n}
      PROVE  /\ IsFiniteSet(queue')
             /\ MessagesLeft(d)' \in Nat
             /\ MessagesLeft(d) = MessagesLeft(d)' + MessageCost(d)[n]
  <2>1. IsFiniteSet(queue') /\ Sum(queue) = MessageCost(d)[n] + Sum(queue')
    BY <1>1, <1>5, MessageSums
  <2>2. queue' \subseteq Message
    BY <1>1, <1>5
  <2>3. Sum(queue') \in Nat
    BY <2>1, <2>2, MessageSums
  <2>4. MessageCost(d)[n] \in Nat
    BY <1>1, <1>3
  <2> HIDE DEF Sum
  <2> QED BY <1>2, <2>1, <2>3, <2>4
<1> QED BY <1>4, <1>5

LEMMA UnsentKeepsBudget ==
  ASSUME TInv, Bounded, UNCHANGED <<tasks, queue, jobs, filed, disruptions>>
  PROVE  Bounded' /\ \A d \in Dds : WithinBudget(d) => WithinBudget(d)'
BY DEF Bounded, WithinBudget, FiledFor, MessagesLeft, JobsLeft, MessageCost, JobCost, Granted,
       SubmitCalls, Budget

LEMMA JobStepKeepsBudget ==
  ASSUME TInv, Bounded, NEW j \in jobs, JobStep(j), NEW d \in Dds, WithinBudget(d)
  PROVE  Bounded' /\ WithinBudget(d)'
<1> DEFINE c == JobCost(d)[j]
           F == Cardinality(FiledFor(d))
           G == Granted(d)
<1>1. UNCHANGED <<tasks, disruptions>>
  BY DEF JobStep, GetToken, TokenRefused, TokenFails, PostAccepted, PostRefused, PostFails,
     PostAnswerLost, PostGarbled, RecordSubmitted, RecordRejected, CommitFails, Acknowledge
<1>2. G' = G
  BY <1>1 DEF Granted, SubmitCalls, Budget
<1>3. j \in Job /\ c \in Nat
  BY JobCostType DEF TInv, TypeOK
<1>4. /\ MessagesLeft(d) \in Nat /\ JobsLeft(d) \in Nat /\ F \in Nat /\ G \in Nat
      /\ F + MessagesLeft(d) + JobsLeft(d) <= G
  BY WhatIsLeft, GrantedType DEF WithinBudget
<1>5. PICK x \in Nat :
           /\ Files(d, x)
           /\ \/ /\ jobs' = jobs \ {j} /\ UNCHANGED queue
                 /\ x <= c
              \/ /\ UNCHANGED queue
                 /\ \E k \in Job : Become(j, k) /\ x + JobCost(d)[k] <= c
              \/ /\ jobs' = jobs \ {j}
                 /\ \E n \in Message : /\ queue' = queue \cup {n}
                                        /\ x + MessageCost(d)[n] <= c
  BY JobsPay
<1>6. IsFiniteSet(filed') /\ F' \in Nat /\ F' <= F + x
  BY <1>5 DEF Files
<1>7. UNCHANGED queue => MessagesLeft(d)' = MessagesLeft(d) /\ IsFiniteSet(queue')
  BY DEF MessagesLeft, MessageCost, Bounded
<1>8. jobs' = jobs \ {j} => /\ IsFiniteSet(jobs')
                            /\ JobsLeft(d)' \in Nat
                            /\ JobsLeft(d) = JobsLeft(d)' + c
  BY JobsLeftMoves
<1> HIDE DEF c, F, G
<1>9. CASE jobs' = jobs \ {j} /\ UNCHANGED queue /\ x <= c
  <2>1. F' + MessagesLeft(d)' + JobsLeft(d)' <= G'
    BY <1>2, <1>3, <1>4, <1>6, <1>7, <1>8, <1>9
  <2> QED BY <1>6, <1>7, <1>8, <1>9, <2>1 DEF Bounded, WithinBudget, F, G
<1>10. ASSUME UNCHANGED queue, NEW k \in Job, Become(j, k), x + JobCost(d)[k] <= c
       PROVE  Bounded' /\ WithinBudget(d)'
  <2>1. /\ IsFiniteSet(jobs')
        /\ JobsLeft(d)' \in Nat
        /\ JobsLeft(d)' + c <= JobsLeft(d) + JobCost(d)[k]
    BY <1>10, JobsLeftMoves DEF c
  <2>2. JobCost(d)[k] \in Nat
    BY JobCostType
  <2>3. F' + MessagesLeft(d)' + JobsLeft(d)' <= G'
    BY <1>2, <1>3, <1>4, <1>6, <1>7, <1>10, <2>1, <2>2
  <2> QED BY <1>6, <1>7, <1>10, <2>1, <2>3 DEF Bounded, WithinBudget, F, G
<1>11. ASSUME jobs' = jobs \ {j}, NEW n \in Message, queue' = queue \cup {n},
              x + MessageCost(d)[n] <= c
       PROVE  Bounded' /\ WithinBudget(d)'
  <2>1. /\ IsFiniteSet(queue')
        /\ MessagesLeft(d)' \in Nat
        /\ MessagesLeft(d)' <= MessagesLeft(d) + MessageCost(d)[n]
    BY <1>11, MessagesLeftMoves
  <2>2. MessageCost(d)[n] \in Nat
    BY MessageCostType
  <2>3. F' + MessagesLeft(d)' + JobsLeft(d)' <= G'
    BY <1>2, <1>3, <1>4, <1>6, <1>8, <1>11, <2>1, <2>2
  <2> QED BY <1>6, <1>8, <1>11, <2>1, <2>3 DEF Bounded, WithinBudget, F, G
<1> QED BY <1>5, <1>9, <1>10, <1>11

(* Starting a job costs its message, and dropping one gives back its cost. *)
LEMMA DeliveryKeepsBudget ==
  ASSUME TInv, Bounded, NEW w \in Workers, NEW m \in queue, Deliver(w, m) \/ LoadFails(w, m),
         NEW d \in Dds, WithinBudget(d)
  PROVE  Bounded' /\ WithinBudget(d)'
<1> DEFINE c == MessageCost(d)[m]
           F == Cardinality(FiledFor(d))
           G == Granted(d)
<1>1. UNCHANGED <<tasks, disruptions, filed>> /\ queue' = queue \ {m}
  BY DEF Deliver, LoadFails
<1>2. G' = G /\ F' = F /\ IsFiniteSet(filed')
  BY <1>1 DEF Granted, SubmitCalls, Budget, FiledFor, Bounded
<1>3. m \in Message /\ c \in Nat
  BY MessageCostType DEF TInv, TypeOK
<1>4. /\ MessagesLeft(d) \in Nat /\ JobsLeft(d) \in Nat /\ F \in Nat /\ G \in Nat
      /\ F + MessagesLeft(d) + JobsLeft(d) <= G
  BY WhatIsLeft, GrantedType DEF WithinBudget
<1>5. /\ IsFiniteSet(queue')
      /\ MessagesLeft(d)' \in Nat
      /\ MessagesLeft(d) = MessagesLeft(d)' + c
  BY <1>1, MessagesLeftMoves
<1>6. CASE UNCHANGED jobs
  <2>1. JobsLeft(d)' = JobsLeft(d) /\ IsFiniteSet(jobs')
    BY <1>6 DEF JobsLeft, JobCost, Bounded
  <2> HIDE DEF c, F, G
  <2>2. F' + MessagesLeft(d)' + JobsLeft(d)' <= G'
    BY <1>2, <1>3, <1>4, <1>5, <2>1
  <2> QED BY <1>2, <1>5, <2>1, <2>2 DEF Bounded, WithinBudget, F, G
<1>7. CASE Deliver(w, m)
  <2> DEFINE k == [worker |-> w, msg |-> m, step |-> "token", attempt |-> 1,
                   seen |-> dds[m.dds], seenLot |-> lot[dds[m.dds].lot], answer |-> None]
             Sum(S) == SumFunction(On(JobCost(d), S))
  <2>1. k.msg = m /\ k.step = "token" /\ k.attempt = 1 /\ jobs' = jobs \cup {k}
    BY <1>7 DEF Deliver
  <2>2. k \in Job
    <3>1. m.dds \in Dds /\ dds[m.dds] \in Row /\ dds[m.dds].lot \in Lots
      BY <1>3 DEF TInv, TypeOK, Message, JobsOfRows, RowsComplete
    <3>2. lot[dds[m.dds].lot] \in LotStatus
      BY <3>1 DEF TInv, TypeOK
    <3>3. 1 \in 1 .. MaxAttempts
      BY ConstantsAssumption
    <3> QED BY <1>3, <3>1, <3>2, <3>3 DEF Job
  <2> HIDE DEF k
  <2>3. JobCost(d)[k] = c
    BY <2>1, <2>2, DeliveredCost
  <2>4. jobs \subseteq Job /\ IsFiniteSet(jobs)
    BY DEF TInv, TypeOK, Bounded
  <2>5. IsFiniteSet(jobs') /\ Sum(jobs') <= Sum(jobs) + c
    BY <2>1, <2>2, <2>3, <2>4, JobSums
  <2>6. Sum(jobs') \in Nat
    <3>1. jobs' \subseteq Job
      BY <2>1, <2>2, <2>4
    <3> QED BY <2>5, <3>1, JobSums
  <2>7. JobsLeft(d) = Sum(jobs) /\ JobsLeft(d)' = Sum(jobs')
    BY DEF JobsLeft, JobCost
  <2> HIDE DEF c, F, G, Sum
  <2>8. F' + MessagesLeft(d)' + JobsLeft(d)' <= G'
    BY <1>2, <1>3, <1>4, <1>5, <2>5, <2>6, <2>7
  <2> QED BY <1>2, <1>5, <2>5, <2>8 DEF Bounded, WithinBudget, F, G
<1> QED BY <1>6, <1>7 DEF LoadFails

(* A submit call or a disruption grants the cost of one new message.       *)
LEMMA GrantKeepsBudget ==
  ASSUME TInv, Bounded, NEW d \in Dds, WithinBudget(d), UNCHANGED filed,
         UNCHANGED jobs \/ \E j \in jobs : jobs' = jobs \ {j},
         NEW n \in Message, queue' = queue \cup {n},
         \/ n.dds # d /\ Granted(d)' = Granted(d)
         \/ Granted(d)' = Granted(d) + Budget
  PROVE  Bounded' /\ WithinBudget(d)'
<1> DEFINE c == MessageCost(d)[n]
           F == Cardinality(FiledFor(d))
           G == Granted(d)
<1>1. c \in Nat /\ c <= Budget /\ (n.dds # d => c = 0)
  BY MessageCostType
<1>2. F' = F /\ IsFiniteSet(filed')
  BY DEF FiledFor, Bounded
<1>3. /\ MessagesLeft(d) \in Nat /\ JobsLeft(d) \in Nat /\ F \in Nat /\ G \in Nat
      /\ Budget \in Nat
      /\ F + MessagesLeft(d) + JobsLeft(d) <= G
  BY WhatIsLeft, GrantedType DEF WithinBudget
<1>4. G + c <= G'
  <2> HIDE DEF c
  <2> QED BY <1>1, <1>3
<1>5. /\ IsFiniteSet(queue')
      /\ MessagesLeft(d)' \in Nat
      /\ MessagesLeft(d)' <= MessagesLeft(d) + c
  BY MessagesLeftMoves
<1>6. IsFiniteSet(jobs') /\ JobsLeft(d)' \in Nat /\ JobsLeft(d)' <= JobsLeft(d)
  <2>1. CASE UNCHANGED jobs
    BY <1>3, <2>1 DEF JobsLeft, JobCost, Bounded
  <2>2. ASSUME NEW j \in jobs, jobs' = jobs \ {j} PROVE  IsFiniteSet(jobs') /\ JobsLeft(d)' \in Nat /\ JobsLeft(d)' <= JobsLeft(d)
    <3>1. JobCost(d)[j] \in Nat
      BY JobCostType DEF TInv, TypeOK
    <3>2. /\ IsFiniteSet(jobs')
          /\ JobsLeft(d)' \in Nat
          /\ JobsLeft(d) = JobsLeft(d)' + JobCost(d)[j]
      BY <2>2, JobsLeftMoves
    <3> HIDE DEF c, F, G
    <3> QED BY <3>1, <3>2
  <2> QED BY <2>1, <2>2
<1>7. G' \in Int
  BY <1>3
<1> HIDE DEF c, F, G
<1>8. F' + MessagesLeft(d)' + JobsLeft(d)' <= G'
  BY <1>1, <1>2, <1>3, <1>4, <1>5, <1>6, <1>7
<1> QED BY <1>2, <1>5, <1>6, <1>8 DEF Bounded, WithinBudget, F, G

LEMMA NextKeepsBudget ==
  ASSUME TInv, Bounded, [Next]_vars, NEW d \in Dds, WithinBudget(d)
  PROVE  Bounded' /\ WithinBudget(d)'
<1>1. ASSUME UNCHANGED <<tasks, queue, jobs, filed, disruptions>>
      PROVE  Bounded' /\ WithinBudget(d)'
  BY <1>1, UnsentKeepsBudget
<1>2. ASSUME NEW e \in Dds, NEW t \in Tasks, SubmitDds(e, t)
      PROVE  Bounded' /\ WithinBudget(d)'
  <2> DEFINE n == [task |-> t, dds |-> e, retries |-> 0]
  <2>1. n \in Message /\ n.dds = e
    BY ConstantsAssumption DEF Message
  <2>2. queue' = queue \cup {n} /\ UNCHANGED <<jobs, filed, disruptions>>
    BY <1>2 DEF SubmitDds
  <2>3. tasks[t] = None /\ tasks' = [tasks EXCEPT ![t] = e] /\ tasks \in [Tasks -> Dds \cup {None}]
    BY <1>2 DEF SubmitDds, TInv, TypeOK
  <2>4. None \notin Dds
    BY ConstantsAssumption
  <2>5. CASE e # d
    <3>1. SubmitCalls(d)' = SubmitCalls(d)
      BY <2>3, <2>4, <2>5 DEF SubmitCalls
    <3>2. Granted(d)' = Granted(d)
      BY <2>2, <3>1 DEF Granted, Budget
    <3> HIDE DEF n
    <3> QED BY <2>1, <2>2, <2>5, <3>2, GrantKeepsBudget
  <2>6. CASE e = d
    <3>1. SubmitCalls(d)' = SubmitCalls(d) \cup {t} /\ t \notin SubmitCalls(d)
      BY <2>3, <2>4, <2>6 DEF SubmitCalls
    <3>2. IsFiniteSet(SubmitCalls(d))
      BY GrantedType
    <3>3. Cardinality(SubmitCalls(d)') = Cardinality(SubmitCalls(d)) + 1
      BY <3>1, <3>2, FS_AddElement
    <3>4. Cardinality(SubmitCalls(d)) \in Nat /\ disruptions \in Nat
      BY <3>2, FS_CardinalityType DEF TInv, TypeOK
    <3>5. Cardinality(SubmitCalls(d)') + disruptions' = Cardinality(SubmitCalls(d)) + disruptions + 1
      BY <2>2, <3>3, <3>4
    <3>6. Granted(d)' = (Cardinality(SubmitCalls(d)) + disruptions + 1) * Budget
      BY <3>5 DEF Granted, Budget
    <3>7. Granted(d)' = Granted(d) + Budget
      BY <3>6, GrantedType
    <3> HIDE DEF n
    <3> QED BY <2>1, <2>2, <3>7, GrantKeepsBudget
  <2> QED BY <2>5, <2>6
<1>3. ASSUME NEW j \in jobs, WorkerLost(j) \/ DeliverAgain(j)
      PROVE  Bounded' /\ WithinBudget(d)'
  <2>1. j.msg \in Message
    BY DEF TInv, TypeOK, Job
  <2>2. /\ disruptions' = disruptions + 1 /\ queue' = queue \cup {j.msg}
        /\ UNCHANGED <<tasks, filed>>
        /\ jobs' = jobs \/ jobs' = jobs \ {j}
    BY <1>3 DEF WorkerLost, DeliverAgain
  <2>3. SubmitCalls(d)' = SubmitCalls(d)
    BY <2>2 DEF SubmitCalls
  <2>4. Cardinality(SubmitCalls(d)) \in Nat /\ disruptions \in Nat
    BY GrantedType, FS_CardinalityType DEF TInv, TypeOK
  <2>5. Cardinality(SubmitCalls(d)') + disruptions' = Cardinality(SubmitCalls(d)) + disruptions + 1
    BY <2>2, <2>3, <2>4
  <2>6. Granted(d)' = (Cardinality(SubmitCalls(d)) + disruptions + 1) * Budget
    BY <2>5 DEF Granted, Budget
  <2>7. Granted(d)' = Granted(d) + Budget
    BY <2>6, GrantedType
  <2> QED BY <2>1, <2>2, <2>7, GrantKeepsBudget
<1>4. ApiStep => \/ UNCHANGED <<tasks, queue, jobs, filed, disruptions>>
                 \/ \E e \in Dds, t \in Tasks : SubmitDds(e, t)
  BY DEF ApiStep, SealLotRead, CreateDdsRead, SealLotCommit, CreateDdsCommit, AbortRequest
<1> QED BY <1>1, <1>2, <1>3, <1>4, DeliveryKeepsBudget, JobStepKeepsBudget
        DEF Next, Quiescent, vars, Disruption

LEMMA InitWithinBudget == Init => BInv
<1> SUFFICES ASSUME Init PROVE BInv
  OBVIOUS
<1>1. Bounded
  BY FS_EmptySet DEF Init, Bounded
<1>2. ASSUME NEW d \in Dds PROVE WithinBudget(d)
  <2>1. FiledFor(d) = {} /\ Cardinality({}) = 0
    BY FS_EmptySet DEF Init, FiledFor
  <2>2. MessagesLeft(d) = 0 /\ JobsLeft(d) = 0
    BY SumOnEmpty DEF Init, MessagesLeft, JobsLeft
  <2>3. Granted(d) \in Nat
    BY InitTInv, GrantedType
  <2> QED BY <2>1, <2>2, <2>3 DEF WithinBudget
<1> QED BY <1>1, <1>2 DEF BInv

(* However the two retry layers, lost workers, repeated deliveries and lost*)
(* answers combine, TRACES NT holds no more copies of a statement than its *)
(* submit calls and disruptions times the attempts of all runs of a task.  *)
THEOREM FilingsAreBudgeted == Spec => []FilingBudget
<1>1. Inv /\ BInv /\ [Next]_vars => BInv'
  BY NextKeepsBudget DEF Inv, BInv
<1>2. Inv /\ BInv => FilingBudget
  <2> SUFFICES ASSUME TInv, Bounded, NEW d \in Dds, WithinBudget(d)
               PROVE  Cardinality(FiledFor(d)) <=
                        (Cardinality(SubmitCalls(d)) + disruptions) * (MaxRetries + 1) * MaxAttempts
    BY DEF Inv, BInv, FilingBudget
  <2>1. /\ Cardinality(FiledFor(d)) \in Nat /\ MessagesLeft(d) \in Nat /\ JobsLeft(d) \in Nat
        /\ Granted(d) \in Nat
    BY WhatIsLeft, GrantedType
  <2>2. Granted(d) = (Cardinality(SubmitCalls(d)) + disruptions) * (MaxRetries + 1) * MaxAttempts
    <3>1. Cardinality(SubmitCalls(d)) + disruptions \in Nat
      BY GrantedType
    <3>2. MaxRetries + 1 \in Nat /\ MaxAttempts \in Nat
      BY ConstantsAssumption
    <3> QED BY <3>1, <3>2, TimesAssociate DEF Granted, Budget
  <2> QED BY <2>1, <2>2 DEF WithinBudget
<1> QED BY <1>1, <1>2, InitWithinBudget, Invariance, PTL DEF Spec

=============================================================================
