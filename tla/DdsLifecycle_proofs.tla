------------------------ MODULE DdsLifecycle_proofs ------------------------
(***************************************************************************)
(* DdsSubmission implements DdsLifecycle in calm weather: no lost answer,  *)
(* no worker loss and no duplicate delivery.  The argument is about the    *)
(* statements with a single submit call; of a contested one nothing is     *)
(* claimed.                                                                *)
(***************************************************************************)
EXTENDS DdsSubmission_proofs

(* A statement that waits for its answer: ready and not yet filed.         *)
Pending(d) == Contested(d) \/ (dds[d].status = "ready" /\ \A f \in filed : f.dds # d)

(* Until the answer arrives the statement is pending; until it is recorded *)
(* the row and the job's copy of it are still "ready".                     *)
Timely ==
  /\ \A f \in filed : \E t \in Tasks : tasks[t] = f.dds
  /\ \A m \in queue : Pending(m.dds)
  /\ \A j \in jobs : j.step \in {"token", "post", "reject"} => Pending(j.msg.dds)
  /\ \A j \in jobs : j.step # "ack" =>
       Contested(j.msg.dds) \/ (dds[j.msg.dds].status = "ready" /\ j.seen.status = "ready")

UsedStatus == \A d \in Dds : dds[d].status \in {"absent", "ready", "submitted", "rejected"}

CInv == Inv /\ Exclusive /\ Timely /\ UsedStatus

-----------------------------------------------------------------------------

(* Steps that leave rows and register alone and move one job on.           *)
LEMMA TimelyMoves ==
  ASSUME CInv, NEW j \in jobs, UNCHANGED <<dds, tasks, filed>>,
         \/ jobs' = jobs \ {j} /\ UNCHANGED queue
         \/ jobs' = jobs \ {j} /\ queue' = queue \cup {Retry(j.msg)} /\ Pending(j.msg.dds)
         \/ /\ UNCHANGED queue
            /\ \E k : /\ k.msg = j.msg /\ k.seen = j.seen /\ Become(j, k)
                      /\ k.step \in {"token", "post", "reject"} => Pending(j.msg.dds)
                      /\ j.step # "ack"
  PROVE  Timely'
<1>1. j.msg \in Message
  BY DEF CInv, Inv, TInv, TypeOK, Job
<1>2. Retry(j.msg).dds = j.msg.dds
  BY <1>1 DEF Retry, Message
<1>3. \A d \in Dds : (Pending(d)' <=> Pending(d)) /\ (Contested(d)' <=> Contested(d))
  BY ContestedKept DEF Pending
<1>4. (\A m \in queue : m.dds \in Dds) /\ \A i \in jobs : i.msg.dds \in Dds
  BY DEF CInv, Inv, TInv, TypeOK, Job, Message
<1> USE DEF CInv, Timely
<1>5. \A f \in filed' : \E t \in Tasks : tasks'[t] = f.dds
  OBVIOUS
<1>6. \A m \in queue' : Pending(m.dds)'
  BY <1>2, <1>3, <1>4
<1>7. \A i \in jobs' : i.step \in {"token", "post", "reject"} => Pending(i.msg.dds)'
  BY <1>3, <1>4 DEF Become
<1>8. \A i \in jobs' : i.step # "ack" =>
        \/ Contested(i.msg.dds)'
        \/ dds'[i.msg.dds].status = "ready" /\ i.seen.status = "ready"
  BY <1>3, <1>4 DEF Become
<1> QED BY <1>5, <1>6, <1>7, <1>8

(* A submit call contests its statement when it is not the first one.      *)
LEMMA SubmitContests ==
  ASSUME CInv, NEW d \in Dds, NEW t \in Tasks, SubmitDds(d, t)
  PROVE  /\ \A e \in Dds : Contested(e) => Contested(e)'
         /\ \A e \in Dds \ {d} : Contested(e)' <=> Contested(e)
         /\ Contested(d)' <=> SubmitCalls(d) # {}
<1>1. tasks[t] = None /\ tasks' = [tasks EXCEPT ![t] = d] /\ tasks \in [Tasks -> Dds \cup {None}]
  BY DEF SubmitDds, CInv, Inv, TInv, TypeOK
<1>2. None \notin Dds
  BY ConstantsAssumption
<1>3. \A e \in Dds \ {d} : SubmitCalls(e)' = SubmitCalls(e)
  BY <1>1, <1>2 DEF SubmitCalls
<1>4. SubmitCalls(d)' = SubmitCalls(d) \cup {t} /\ t \notin SubmitCalls(d)
  BY <1>1, <1>2 DEF SubmitCalls
<1> QED BY <1>3, <1>4 DEF Contested

LEMMA ApiKeepsCInv ==
  ASSUME CInv, ApiStep
  PROVE  Timely'
<1> USE DEF CInv
<1>1. ASSUME UNCHANGED <<dds, tasks, queue, jobs, filed>> PROVE Timely'
  BY <1>1 DEF Timely, Pending, Contested, SubmitCalls
<1>2. ASSUME NEW r \in requests, CreateDdsCommit(r) PROVE Timely'
  <2>1. dds[r.dds] = AbsentRow
    BY <1>2 DEF CreateDdsCommit, Inv, TInv, OneBuilder
  <2>2. \A e \in Dds : dds[e] # AbsentRow => dds'[e] = dds[e]
    BY <1>2, <2>1 DEF CreateDdsCommit, Inv, TInv, TypeOK
  <2>3. UNCHANGED <<tasks, queue, jobs, filed>>
    BY <1>2 DEF CreateDdsCommit
  <2>4. \A m \in queue : m.dds \in Dds /\ dds[m.dds] # AbsentRow
    BY DEF Inv, TInv, TypeOK, JobsOfRows, Message
  <2>5. \A i \in jobs : i.msg.dds \in Dds /\ dds[i.msg.dds] # AbsentRow
    BY DEF Inv, TInv, TypeOK, JobsOfRows, Message, Job
  <2>6. \A e \in Dds : dds[e] # AbsentRow /\ Pending(e) => Pending(e)'
    BY <2>2, <2>3, ContestedKept DEF Pending
  <2> QED BY <2>2, <2>3, <2>4, <2>5, <2>6, ContestedKept DEF Timely
<1>3. ASSUME NEW d \in Dds, NEW t \in Tasks, SubmitDds(d, t) PROVE Timely'
  <2>1. /\ queue' = queue \cup {[task |-> t, dds |-> d, retries |-> 0]}
        /\ UNCHANGED <<dds, jobs, filed>>
    BY <1>3 DEF SubmitDds
  <2>2. \A e \in Dds : Contested(e) => Contested(e)'
    BY <1>3, SubmitContests
  <2>3. Pending(d)'
    <3>1. CASE SubmitCalls(d) = {}
      BY <1>3, <2>1, <3>1 DEF SubmitDds, Submittable, UsedStatus, Pending, Timely, SubmitCalls
    <3>2. CASE SubmitCalls(d) # {}
      BY <1>3, <3>2, SubmitContests DEF Pending
    <3> QED BY <3>1, <3>2
  <2>4. \A f \in filed' : \E u \in Tasks : tasks'[u] = f.dds
    <3>1. \A f \in filed : f.dds \in Dds
      BY DEF Inv, TInv, TypeOK
    <3>2. None \notin Dds
      BY ConstantsAssumption
    <3> QED BY <1>3, <2>1, <3>1, <3>2 DEF Timely, SubmitDds, Inv, TInv, TypeOK
  <2>5. (\A m \in queue : m.dds \in Dds) /\ \A i \in jobs : i.msg.dds \in Dds
    BY DEF Inv, TInv, TypeOK, Job, Message
  <2>6. \A e \in Dds : Pending(e) => Pending(e)'
    BY <2>1, <2>2 DEF Pending
  <2> QED BY <2>1, <2>2, <2>3, <2>4, <2>5, <2>6 DEF Timely
<1>4. ApiStep =>
        \/ UNCHANGED <<dds, tasks, queue, jobs, filed>>
        \/ \E r \in requests : CreateDdsCommit(r)
        \/ \E d \in Dds, t \in Tasks : SubmitDds(d, t)
  BY DEF ApiStep, SealLotRead, CreateDdsRead, SealLotCommit, AbortRequest
<1> QED BY <1>1, <1>2, <1>3, <1>4

LEMMA DeliverKeepsTimely ==
  ASSUME CInv, NEW w \in Workers, NEW m \in queue, Deliver(w, m)
  PROVE  Timely'
<1> DEFINE k == [worker |-> w, msg |-> m, step |-> "token", attempt |-> 1,
                 seen |-> dds[m.dds], seenLot |-> lot[dds[m.dds].lot], answer |-> None]
<1>1. k.msg = m /\ k.seen = dds[m.dds]
  OBVIOUS
<1>2. jobs' = jobs \cup {k} /\ queue' \subseteq queue /\ UNCHANGED <<dds, tasks, filed>>
  BY DEF Deliver
<1>3. Pending(m.dds)
  BY DEF CInv, Timely
<1> HIDE DEF k
<1>4. (\A n \in queue : n.dds \in Dds) /\ \A i \in jobs : i.msg.dds \in Dds
  BY DEF CInv, Inv, TInv, TypeOK, Job, Message
<1>5. \A d \in Dds : (Pending(d) => Pending(d)') /\ (Contested(d)' <=> Contested(d))
  BY <1>2, ContestedKept DEF Pending
<1> QED BY <1>1, <1>2, <1>3, <1>4, <1>5 DEF CInv, Timely, Pending

(* Steps that file the statement of job j, which is waiting for an answer. *)
LEMMA FilingKeepsCInv ==
  ASSUME CInv, NEW j \in jobs, j.step = "post", NEW r \in Refs, File(j.msg.dds, r),
         UNCHANGED <<dds, tasks, queue>>,
         \/ jobs' = jobs \ {j}
         \/ Become(j, [j EXCEPT !.step = "record", !.answer = r])
  PROVE  Timely'
<1> DEFINE k == [j EXCEPT !.step = "record", !.answer = r]
<1>1. j \in Job
  BY DEF CInv, Inv, TInv, TypeOK
<1>2. k.msg = j.msg /\ k.seen = j.seen /\ k.step = "record"
  BY <1>1 DEF Job
<1>3. jobs' \subseteq (jobs \ {j}) \cup {k}
  BY DEF Become
<1> HIDE DEF k
<1>5. filed' = filed \cup {[dds |-> j.msg.dds, ref |-> r]}
  BY DEF File, Unused
<1>6. tasks[j.msg.task] = j.msg.dds /\ j.msg.task \in Tasks
  BY <1>1 DEF CInv, Inv, TInv, JobsOfRows, Job, Message
<1>7. \A d \in Dds : /\ Contested(d)' <=> Contested(d)
                     /\ Pending(d) /\ d # j.msg.dds => Pending(d)'
                     /\ Contested(d) => Pending(d)'
  BY <1>5, ContestedKept DEF Pending
<1>8. (\A m \in queue : m.dds \in Dds) /\ \A i \in jobs : i.msg.dds \in Dds
  BY DEF CInv, Inv, TInv, TypeOK, Job, Message
<1>9. \A f \in filed' : \E t \in Tasks : tasks'[t] = f.dds
  BY <1>5, <1>6 DEF CInv, Timely
<1>10. ASSUME NEW m \in queue PROVE Pending(m.dds)'
  <2>1. Pending(m.dds) /\ m.dds \in Dds
    BY <1>8 DEF CInv, Timely
  <2>2. m.dds = j.msg.dds => Contested(m.dds)
    BY OneCarrier DEF CInv, Inv
  <2> QED BY <1>7, <2>1, <2>2
<1>11. ASSUME NEW i \in jobs', i.step \in {"token", "post", "reject"} PROVE Pending(i.msg.dds)'
  <2>1. i \in jobs /\ i # j /\ i.msg.dds \in Dds
    BY <1>2, <1>3, <1>8, <1>11
  <2>2. Pending(i.msg.dds)
    BY <1>11, <2>1 DEF CInv, Timely
  <2>3. i.msg.dds = j.msg.dds => Contested(i.msg.dds)
    BY <2>1, OneCarrier DEF CInv, Inv
  <2> QED BY <1>7, <2>1, <2>2, <2>3
<1>12. ASSUME NEW i \in jobs', i.step # "ack"
       PROVE  \/ Contested(i.msg.dds)'
              \/ dds'[i.msg.dds].status = "ready" /\ i.seen.status = "ready"
  <2>1. PICK h \in jobs : h.msg = i.msg /\ h.seen = i.seen /\ h.step # "ack"
    BY <1>2, <1>3, <1>12
  <2>2. Contested(h.msg.dds) \/ (dds[h.msg.dds].status = "ready" /\ h.seen.status = "ready")
    BY <2>1 DEF CInv, Timely
  <2>3. Contested(i.msg.dds) \/ (dds[i.msg.dds].status = "ready" /\ i.seen.status = "ready")
    BY <2>1, <2>2
  <2>4. i.msg.dds \in Dds
    BY <1>8, <2>1
  <2> QED BY <1>7, <2>3, <2>4
<1> QED BY <1>9, <1>10, <1>11, <1>12 DEF Timely

LEMMA RecordsKeepCInv ==
  ASSUME CInv, NEW j \in jobs, RecordSubmitted(j) \/ RecordRejected(j)
  PROVE  Timely'
<1> DEFINE k == [j EXCEPT !.step = "ack"]
<1>1. j \in Job
  BY DEF CInv, Inv, TInv, TypeOK
<1>2. k.msg = j.msg /\ k.seen = j.seen /\ k.step = "ack"
  BY <1>1 DEF Job
<1>3. jobs' = (jobs \ {j}) \cup {k} /\ UNCHANGED <<tasks, queue, filed>>
  BY DEF RecordSubmitted, RecordRejected, Become
<1>4. \A d \in Dds \ {j.msg.dds} : dds'[d] = dds[d]
  BY DEF RecordSubmitted, RecordRejected, CInv, Inv, TInv, TypeOK
<1> HIDE DEF k
<1>6. (\A m \in queue : m.dds \in Dds) /\ \A i \in jobs : i.msg.dds \in Dds
  BY DEF CInv, Inv, TInv, TypeOK, Job, Message
<1>7. \A d \in Dds : /\ Contested(d)' <=> Contested(d)
                     /\ Pending(d) /\ d # j.msg.dds => Pending(d)'
                     /\ Contested(d) => Pending(d)'
  BY <1>3, <1>4, ContestedKept DEF Pending
<1>8. ASSUME NEW m \in queue PROVE Pending(m.dds)'
  <2>1. Pending(m.dds) /\ m.dds \in Dds
    BY <1>6 DEF CInv, Timely
  <2>2. m.dds = j.msg.dds => Contested(m.dds)
    BY OneCarrier DEF CInv, Inv
  <2> QED BY <1>7, <2>1, <2>2
<1>9. ASSUME NEW i \in jobs', i.step # "ack" PROVE i \in jobs /\ i # j /\ i.msg.dds \in Dds
  BY <1>2, <1>3, <1>6, <1>9
<1>10. ASSUME NEW i \in jobs', i.step \in {"token", "post", "reject"} PROVE Pending(i.msg.dds)'
  <2>1. i \in jobs /\ i # j /\ i.msg.dds \in Dds
    BY <1>9, <1>10
  <2>2. Pending(i.msg.dds)
    BY <1>10, <2>1 DEF CInv, Timely
  <2>3. i.msg.dds = j.msg.dds => Contested(i.msg.dds)
    BY <2>1, OneCarrier DEF CInv, Inv
  <2> QED BY <1>7, <2>1, <2>2, <2>3
<1>11. ASSUME NEW i \in jobs', i.step # "ack"
       PROVE  \/ Contested(i.msg.dds)'
              \/ dds'[i.msg.dds].status = "ready" /\ i.seen.status = "ready"
  <2>1. i \in jobs /\ i # j /\ i.msg.dds \in Dds
    BY <1>9, <1>11
  <2>2. Contested(i.msg.dds) \/ (dds[i.msg.dds].status = "ready" /\ i.seen.status = "ready")
    BY <1>11, <2>1 DEF CInv, Timely
  <2>3. i.msg.dds = j.msg.dds => Contested(i.msg.dds)
    BY <2>1, OneCarrier DEF CInv, Inv
  <2> QED BY <1>4, <1>7, <2>1, <2>2, <2>3
<1> QED BY <1>3, <1>8, <1>10, <1>11 DEF CInv, Timely

LEMMA AttemptFailsKeepsCInv ==
  ASSUME CInv, NEW j \in jobs, j.step \in {"token", "post"}, NEW f, AttemptFails(j, f),
         UNCHANGED <<dds, tasks, filed>>
  PROVE  Timely'
<1> DEFINE k == [j EXCEPT !.step = "token", !.attempt = @ + 1]
<1>1. j \in Job
  BY DEF CInv, Inv, TInv, TypeOK
<1>2. k.msg = j.msg /\ k.seen = j.seen
  BY <1>1 DEF Job
<1>3. Pending(j.msg.dds)
  BY DEF CInv, Timely
<1>4. \/ jobs' = jobs \ {j} /\ UNCHANGED queue
      \/ jobs' = jobs \ {j} /\ queue' = queue \cup {Retry(j.msg)}
      \/ UNCHANGED queue /\ Become(j, k)
  BY DEF AttemptFails, EndJob
<1> HIDE DEF k
<1> QED BY <1>2, <1>3, <1>4, TimelyMoves

LEMMA JobStepKeepsCInv ==
  ASSUME CalmWeather, CInv, NEW j \in jobs, JobStep(j)
  PROVE  Timely'
<1>1. j \in Job
  BY DEF CInv, Inv, TInv, TypeOK
<1>2. j.step \in {"token", "post", "reject"} => Pending(j.msg.dds)
  BY DEF CInv, Timely
<1>3. ASSUME NEW o, EndJob(j, o), UNCHANGED <<dds, tasks, queue, filed>>
      PROVE  Timely'
  <2>1. jobs' = jobs \ {j}
    BY <1>3 DEF EndJob
  <2> QED BY <1>3, <2>1, TimelyMoves
<1>4. ASSUME NEW k, k.msg = j.msg, k.seen = j.seen, Become(j, k), j.step \in {"token", "post"},
             UNCHANGED <<dds, tasks, queue, filed>>
      PROVE  Timely'
  <2>1. Pending(j.msg.dds)
    BY <1>2, <1>4
  <2> QED BY <1>4, <2>1, TimelyMoves
<1>5. CASE GetToken(j)
  <2>1. [j EXCEPT !.step = "post"].msg = j.msg /\ [j EXCEPT !.step = "post"].seen = j.seen
    BY <1>1 DEF Job
  <2> QED BY <1>4, <1>5, <2>1 DEF GetToken
<1>6. ASSUME NEW why, TokenRefused(j, why) PROVE Timely'
  <2> DEFINE k == [j EXCEPT !.step = "reject", !.answer = why]
  <2>1. k.msg = j.msg /\ k.seen = j.seen
    BY <1>1 DEF Job
  <2> QED BY <1>4, <1>6, <2>1 DEF TokenRefused
<1>7. CASE PostRefused(j)
  <2> DEFINE k == [j EXCEPT !.step = "reject", !.answer = "dds_4xx"]
  <2>1. k.msg = j.msg /\ k.seen = j.seen
    BY <1>1 DEF Job
  <2> QED BY <1>4, <1>7, <2>1 DEF PostRefused
<1>8. CASE TokenFails(j)
  BY <1>8, AttemptFailsKeepsCInv DEF TokenFails
<1>9. ASSUME NEW f, PostFails(j, f) PROVE Timely'
  BY <1>9, AttemptFailsKeepsCInv DEF PostFails
<1>10. ASSUME NEW r \in Refs, PostAccepted(j, r) PROVE Timely'
  BY <1>10, FilingKeepsCInv DEF PostAccepted
<1>11. ASSUME NEW r \in Refs, PostGarbled(j, r) PROVE Timely'
  BY <1>11, FilingKeepsCInv DEF PostGarbled, EndJob
<1>12. CASE RecordSubmitted(j) \/ RecordRejected(j)
  BY <1>12, RecordsKeepCInv
<1>13. CASE CommitFails(j) \/ Acknowledge(j)
  BY <1>3, <1>13 DEF CommitFails, Acknowledge
<1>14. \A f, r : ~PostAnswerLost(j, f, r)
  BY DEF PostAnswerLost, CalmWeather
<1> QED BY <1>5, <1>6, <1>7, <1>8, <1>9, <1>10, <1>11, <1>12, <1>13, <1>14 DEF JobStep

LEMMA NextKeepsCInv ==
  ASSUME CalmWeather, CInv, [Next]_vars
  PROVE  Exclusive' /\ Timely' /\ UsedStatus'
<1>1. UsedStatus'
  BY VerdictSteps DEF CInv, Inv, UsedStatus
<1>2. Exclusive'
  <2>1. disruptions' \in 0 .. 0
    BY NextKeepsTInv DEF CalmWeather, CInv, Inv, TInv, TypeOK
  <2> QED BY <2>1, ExclusiveKept DEF CInv, Inv
<1>3. ASSUME UNCHANGED <<dds, tasks, jobs, filed>>, queue' \subseteq queue PROVE Timely'
  BY <1>3 DEF CInv, Timely, Pending, Contested, SubmitCalls
<1>4. UNCHANGED vars => Timely'
  BY <1>3 DEF vars
<1>5. ASSUME NEW w \in Workers, NEW m \in queue, LoadFails(w, m) PROVE Timely'
  BY <1>3, <1>5 DEF LoadFails
<1>6. ~Disruption
  BY ConstantsAssumption
     DEF Disruption, WorkerLost, DeliverAgain, CalmWeather, CInv, Inv, TInv, TypeOK
<1> QED BY <1>1, <1>2, <1>4, <1>5, <1>6, ApiKeepsCInv, DeliverKeepsTimely, JobStepKeepsCInv
        DEF Next, Quiescent

-----------------------------------------------------------------------------
(* The refinement                                                          *)

stage == [d \in Dds |-> IF Contested(d) THEN "contested" ELSE dds[d].status]
number == [d \in Dds |-> IF Contested(d) THEN None ELSE dds[d].ref]
register == {f \in filed : ~Contested(f.dds)}

LEMMA RowStepRefines ==
  ASSUME Inv, UNCHANGED <<tasks, filed>>, NEW d \in Dds, dds' \in [Dds -> Row],
         \A e \in Dds \ {d} : dds'[e] = dds[e]
  PROVE  /\ UNCHANGED register
         /\ Contested(d) => UNCHANGED <<stage, number>>
         /\ ~Contested(d) => /\ stage' = [stage EXCEPT ![d] = dds'[d].status]
                             /\ number' = [number EXCEPT ![d] = dds'[d].ref]
                             /\ dds'[d].ref = dds[d].ref => number' = number
<1>1. \A e \in Dds : Contested(e)' <=> Contested(e)
  BY ContestedKept
<1>2. \A f \in filed : f.dds \in Dds
  BY DEF Inv, TInv, TypeOK
<1>3. UNCHANGED register
  BY <1>1, <1>2 DEF register
<1>4. CASE Contested(d)
  BY <1>1, <1>3, <1>4 DEF stage, number
<1>5. CASE ~Contested(d)
  BY <1>1, <1>3, <1>5 DEF stage, number
<1> QED BY <1>4, <1>5

(* A second submit call takes the statement out of the abstract view.      *)
LEMMA SubmitRefines ==
  ASSUME CInv, NEW d \in Dds, NEW t \in Tasks, SubmitDds(d, t)
  PROVE  Lifecycle!Next \/ UNCHANGED Lifecycle!vars
<1>1. UNCHANGED <<dds, filed>>
  BY DEF SubmitDds
<1>2. \A e \in Dds \ {d} : Contested(e)' <=> Contested(e)
  BY SubmitContests
<1>3. \A f \in filed : f.dds \in Dds
  BY DEF CInv, Inv, TInv, TypeOK
<1>4. CASE Contested(d)' <=> Contested(d)
  <2>1. \A e \in Dds : Contested(e)' <=> Contested(e)
    BY <1>2, <1>4
  <2>2. UNCHANGED <<stage, number, register>>
    BY <1>1, <1>3, <2>1 DEF stage, number, register
  <2> QED BY <2>2 DEF stage, number, register, Lifecycle!vars
<1>5. CASE Contested(d)' /\ ~Contested(d)
  <2>1. dds[d].status = "ready"
    BY DEF SubmitDds, Submittable, CInv, UsedStatus
  <2>2. stage[d] = "ready" /\ stage' = [stage EXCEPT ![d] = "contested"]
    BY <1>1, <1>2, <1>5, <2>1 DEF stage
  <2>3. number' = [number EXCEPT ![d] = None]
    BY <1>1, <1>2, <1>5 DEF number
  <2>4. register' = {f \in register : f.dds # d}
    BY <1>1, <1>2, <1>3, <1>5 DEF register
  <2>5. Lifecycle!Contest(d)
    BY <2>2, <2>3, <2>4 DEF Lifecycle!Contest, stage, number, register
  <2> QED BY <2>5 DEF Lifecycle!Next
<1>6. Contested(d) => Contested(d)'
  BY SubmitContests
<1> QED BY <1>4, <1>5, <1>6

(* Filing the statement of a job that waits for an answer.                 *)
LEMMA FilingRefines ==
  ASSUME CInv, NEW j \in jobs, j.step = "post", NEW r \in Refs, File(j.msg.dds, r),
         UNCHANGED <<dds, tasks>>
  PROVE  Lifecycle!Next \/ UNCHANGED Lifecycle!vars
<1> DEFINE d == j.msg.dds
<1>1. d \in Dds /\ Pending(d)
  BY DEF CInv, Inv, TInv, TypeOK, Job, Message, Timely
<1>2. filed' = filed \cup {[dds |-> d, ref |-> r]} /\ \A f \in filed : f.ref # r
  BY DEF File, Unused
<1>3. \A e \in Dds : Contested(e)' <=> Contested(e)
  BY ContestedKept
<1>4. \A f \in filed : f.dds \in Dds
  BY DEF CInv, Inv, TInv, TypeOK
<1> HIDE DEF d
<1>5. UNCHANGED <<stage, number>>
  BY <1>3 DEF stage, number
<1>6. CASE Contested(d)
  <2>1. register' = register
    BY <1>1, <1>2, <1>3, <1>4, <1>6 DEF register
  <2> QED BY <1>5, <2>1 DEF Lifecycle!vars, stage, number, register
<1>7. CASE ~Contested(d)
  <2>1. stage[d] = "ready" /\ \A q \in Refs : [dds |-> d, ref |-> q] \notin register
    BY <1>1, <1>7 DEF Pending, stage, register
  <2>2. register' = register \cup {[dds |-> d, ref |-> r]}
    BY <1>1, <1>2, <1>3, <1>4, <1>7 DEF register
  <2>3. \A f \in register : f.ref # r
    BY <1>2 DEF register
  <2>4. Lifecycle!Register(d, r)
    BY <1>5, <2>1, <2>2, <2>3 DEF Lifecycle!Register, Lifecycle!Registered, stage, number, register
  <2> QED BY <1>1, <2>4 DEF Lifecycle!Next
<1> QED BY <1>6, <1>7

(* Recording the verdict of a job.                                         *)
LEMMA RecordRefines ==
  ASSUME CInv, [Next]_vars, NEW j \in jobs, RecordSubmitted(j) \/ RecordRejected(j)
  PROVE  Lifecycle!Next \/ UNCHANGED Lifecycle!vars
<1> USE DEF CInv, Inv, TInv
<1> DEFINE d == j.msg.dds
<1>1. TypeOK /\ TypeOK' /\ Inv
  BY NextKeepsTInv
<1>2. d \in Dds /\ dds[d] \in Row
  BY <1>1 DEF TypeOK, Job, Message
<1>3. UNCHANGED <<tasks, filed>> /\ \A e \in Dds \ {d} : dds'[e] = dds[e]
  BY <1>1 DEF TypeOK, RecordSubmitted, RecordRejected
<1>4. CASE Contested(d)
  <2>1. UNCHANGED <<stage, number, register>>
    BY <1>1, <1>2, <1>3, <1>4, RowStepRefines DEF TypeOK
  <2> QED BY <2>1 DEF Lifecycle!vars, stage, number, register
<1>5. CASE ~Contested(d) /\ RecordSubmitted(j)
  <2>1. /\ dds[d].status = "ready"
        /\ j.seen.status = "ready"
        /\ j.answer \in Refs
        /\ [dds |-> d, ref |-> j.answer] \in register
    BY <1>5 DEF Timely, RecordSubmitted, AnswersReal, register
  <2>2. dds'[d] = AcceptedRow(dds[d], j)
    BY <1>1, <1>2, <1>5 DEF RecordSubmitted, TypeOK
  <2> HIDE DEF d
  <2>3. dds'[d].status = "submitted" /\ dds'[d].ref = j.answer
    BY <1>2, <2>1, <2>2 DEF AcceptedRow, Flushed, Row
  <2>4. /\ stage' = [stage EXCEPT ![d] = "submitted"]
        /\ number' = [number EXCEPT ![d] = j.answer]
        /\ UNCHANGED register
    BY <1>1, <1>2, <1>3, <1>5, <2>3, RowStepRefines DEF TypeOK
  <2>5. stage[d] = "ready"
    BY <1>2, <1>5, <2>1 DEF stage
  <2>6. Lifecycle!Accept(d, j.answer)
    BY <2>1, <2>4, <2>5 DEF Lifecycle!Accept, stage, number, register
  <2> QED BY <1>2, <2>1, <2>6 DEF Lifecycle!Next
<1>6. CASE ~Contested(d) /\ RecordRejected(j)
  <2>1. dds[d].status = "ready" /\ j.seen.status = "ready" /\ Pending(d)
    BY <1>6 DEF Timely, RecordRejected
  <2>2. dds'[d] = RejectedRow(dds[d], j)
    BY <1>1, <1>2, <1>6 DEF RecordRejected, TypeOK
  <2> HIDE DEF d
  <2>3. \A q \in Refs : [dds |-> d, ref |-> q] \notin register
    BY <1>6, <2>1 DEF Pending, register
  <2>4. dds'[d].status = "rejected" /\ dds'[d].ref = dds[d].ref
    BY <1>2, <2>1, <2>2 DEF RejectedRow, Flushed, Row
  <2>5. stage' = [stage EXCEPT ![d] = "rejected"] /\ UNCHANGED <<number, register>>
    BY <1>1, <1>2, <1>3, <1>6, <2>4, RowStepRefines DEF TypeOK
  <2>6. stage[d] = "ready"
    BY <1>2, <1>6, <2>1 DEF stage
  <2>7. Lifecycle!Reject(d)
    BY <2>3, <2>5, <2>6 DEF Lifecycle!Reject, Lifecycle!Registered, stage, number, register
  <2> QED BY <1>2, <2>7 DEF Lifecycle!Next
<1> QED BY <1>4, <1>5, <1>6

(* Building a statement.  No submit call has named it yet.                 *)
LEMMA BuildRefines ==
  ASSUME CInv, [Next]_vars, NEW r \in requests, CreateDdsCommit(r)
  PROVE  Lifecycle!Next \/ UNCHANGED Lifecycle!vars
<1> USE DEF CInv, Inv, TInv
<1> DEFINE d == r.dds
<1>1. TypeOK /\ TypeOK' /\ Inv
  BY NextKeepsTInv
<1>2. d \in Dds /\ dds[d] = AbsentRow
  BY <1>1 DEF CreateDdsCommit, OneBuilder, TypeOK, CreateRequest, SealRequest
<1>3. dds'[d].status = "ready" /\ dds'[d].ref = None
  BY <1>1, <1>2 DEF CreateDdsCommit, TypeOK
<1>4. UNCHANGED <<tasks, filed>> /\ \A e \in Dds \ {d} : dds'[e] = dds[e]
  BY <1>1 DEF CreateDdsCommit, TypeOK
<1> HIDE DEF d
<1>5. CASE Contested(d)
  <2>1. UNCHANGED <<stage, number, register>>
    BY <1>1, <1>2, <1>4, <1>5, RowStepRefines DEF TypeOK
  <2> QED BY <2>1 DEF Lifecycle!vars, stage, number, register
<1>6. CASE ~Contested(d)
  <2>1. dds'[d].ref = dds[d].ref
    BY <1>2, <1>3 DEF AbsentRow
  <2>2. stage' = [stage EXCEPT ![d] = "ready"] /\ UNCHANGED <<number, register>>
    BY <1>1, <1>2, <1>3, <1>4, <1>6, <2>1, RowStepRefines DEF TypeOK
  <2>3. stage[d] = "absent"
    BY <1>2, <1>6 DEF stage, AbsentRow
  <2>4. Lifecycle!Build(d)
    BY <2>2, <2>3 DEF Lifecycle!Build, stage, number, register
  <2> QED BY <1>2, <2>4 DEF Lifecycle!Next
<1> QED BY <1>5, <1>6

LEMMA StepRefines ==
  ASSUME CalmWeather, CInv, [Next]_vars
  PROVE  [Lifecycle!Next]_(Lifecycle!vars)
<1>1. ASSUME UNCHANGED <<dds, filed, tasks>> PROVE UNCHANGED Lifecycle!vars
  BY <1>1 DEF Lifecycle!vars, Contested, SubmitCalls
<1>2. ~Disruption
  BY ConstantsAssumption
     DEF Disruption, WorkerLost, DeliverAgain, CalmWeather, CInv, Inv, TInv, TypeOK
<1>3. ApiStep => \/ UNCHANGED <<dds, filed, tasks>>
                 \/ \E r \in requests : CreateDdsCommit(r)
                 \/ \E d \in Dds, t \in Tasks : SubmitDds(d, t)
  BY DEF ApiStep, SealLotRead, CreateDdsRead, SealLotCommit, AbortRequest
<1>4. ASSUME NEW w \in Workers, NEW m \in queue, Deliver(w, m) \/ LoadFails(w, m)
      PROVE  UNCHANGED <<dds, filed, tasks>>
  BY <1>4 DEF Deliver, LoadFails
<1>5. ASSUME NEW j \in jobs, JobStep(j)
      PROVE  \/ UNCHANGED <<dds, filed, tasks>>
             \/ /\ j.step = "post" /\ UNCHANGED <<dds, tasks>>
                /\ \E r \in Refs : File(j.msg.dds, r)
             \/ RecordSubmitted(j) \/ RecordRejected(j)
  BY <1>5 DEF JobStep, GetToken, TokenRefused, TokenFails, PostAccepted, PostRefused,
     PostFails, PostAnswerLost, PostGarbled, CommitFails, Acknowledge
<1> QED BY <1>1, <1>2, <1>3, <1>4, <1>5, BuildRefines, SubmitRefines, FilingRefines,
           RecordRefines DEF Next, Quiescent, vars

LEMMA InitRefines == Init => Lifecycle!Init
<1> SUFFICES ASSUME Init PROVE Lifecycle!Init
  OBVIOUS
<1>1. \A d \in Dds : ~Contested(d)
  BY ConstantsAssumption DEF Init, Contested, SubmitCalls
<1> QED BY <1>1 DEF Init, Lifecycle!Init, AbsentRow

(* In calm weather every behaviour of the API and the workers is one of    *)
(* DdsLifecycle: a statement with one submit call is registered at most    *)
(* once and its verdict is final and agrees with the register.             *)
THEOREM Implementation ==
  ASSUME CalmWeather
  PROVE  Spec => FollowsLifecycle
<1>1. Init => Exclusive /\ Timely /\ UsedStatus
  BY DEF Init, Exclusive, Timely, UsedStatus, AbsentRow
<1>2. Inv /\ (Exclusive /\ Timely /\ UsedStatus) /\ [Next]_vars => (Exclusive /\ Timely /\ UsedStatus)'
  BY NextKeepsCInv DEF CInv
<1>3. Inv /\ (Exclusive /\ Timely /\ UsedStatus) /\ [Next]_vars => [Lifecycle!Next]_(Lifecycle!vars)
  BY StepRefines DEF CInv
<1> QED BY <1>1, <1>2, <1>3, InitRefines, Invariance, PTL DEF Spec, FollowsLifecycle, Lifecycle!Spec

=============================================================================
