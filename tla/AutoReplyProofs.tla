-------------------------- MODULE AutoReplyProofs --------------------------
(***************************************************************************)
(* One reply for each message, and nothing changed by a holder whose job   *)
(* has gone on without it, for any number of messages, workers and deaths. *)
(***************************************************************************)
EXTENDS AutoReply, FiniteSetTheorems, TLAPS

(* A lease is never ahead of its row.                                      *)
LeaseInv ==
    \A w \in Worker : lease[w] # NoLease =>
        /\ lease[w].claimed <= lease[w].held
        /\ lease[w].held <= job[lease[w].msg].version

WindowInv ==
    \A w \in Worker :
        phase[w] = "rechecked" /\ lease[w].msg \in answered => lease[w].msg \in late

(* The workers that have claimed m and not yet asked the model: each of    *)
(* their attempts is counted already.                                      *)
Unasked(m) == {w \in Worker : phase[w] \in {"claimed", "started"} /\ lease[w].msg = m}

CallInv == \A m \in Job : calls[m] + Cardinality(Unasked(m)) <= job[m].attempts

ReplyInv == ReplyTypeOK /\ LeaseInv /\ WindowInv /\ CallInv

-----------------------------------------------------------------------------
(* What any operation on the table does.                                   *)

QuietAction ==
    \/ \E S \in SUBSET Job : Enqueue(S)
    \/ \E w \in Worker, j \in Job : ClaimJob(w, j)
    \/ \E w \in Worker, j \in Job, v \in Nat :
         StartJob(w, j, v) \/ FailJob(w, j, v)
    \/ \E j \in Job, v \in Nat : CancelJob(j, v)
    \/ RecoverJobs
    \/ \E j \in Job : LeaseLapses(j) \/ BecomesDue(j)
    \/ UNCHANGED job

JobAction ==
    \/ QuietAction
    \/ \E w \in Worker, j \in Job, v \in Nat : CompleteJob(w, j, v)

Grows(r, s) == s.version >= r.version /\ s.attempts >= r.attempts

RowOK(j, r) ==
    /\ r \in Row
    /\ r.attempts <= MaxAttempts[j]
    /\ r.owner # NoWorker <=> r.status \in Active
    /\ r.status = "absent" => r = Absent

(* What a step makes of row j.                                             *)
RowStep(j) == RowOK(j, job'[j]) /\ Grows(job[j], job'[j])

USE DEF Queued, Active, Open, Ended

LEMMA LeftRow ==
    ASSUME NEW r \in Row, NEW s \in {"retry", "dead", "completed", "cancelled"}
    PROVE  /\ Left(r, s) \in Row
           /\ Left(r, s).owner = NoWorker
           /\ Left(r, s).status = s
           /\ Left(r, s).attempts = r.attempts
           /\ Grows(r, Left(r, s))
BY DEF Row, Left, Grows

LEMMA AfterFailureStatus ==
    ASSUME NEW j PROVE AfterFailure(j) \in {"retry", "dead"}
BY DEF AfterFailure

LEMMA SameRow == ASSUME JobsTypeOK, NEW j \in Job, job'[j] = job[j] PROVE RowStep(j)
BY DEF JobsTypeOK, RowStep, RowOK, Row, Grows

LEMMA LeavesRow ==
    ASSUME JobsTypeOK, NEW j \in Job, NEW d \in BOOLEAN,
           NEW s \in {"retry", "dead", "completed", "cancelled"},
           job'[j] = [Left(job[j], s) EXCEPT !.due = d] \/ job'[j] = Left(job[j], s)
    PROVE  RowStep(j)
<1>1. job[j] \in Row /\ RowOK(j, job[j])
  BY DEF JobsTypeOK, RowOK
<1>2. QED
  BY <1>1, LeftRow DEF RowStep, RowOK, Row, Grows

LEMMA FlagRaised ==
    ASSUME JobsTypeOK, NEW j \in Job, job[j].status \in Open,
           job'[j] = [job[j] EXCEPT !.lapsed = TRUE] \/ job'[j] = [job[j] EXCEPT !.due = TRUE]
    PROVE  RowStep(j)
<1>1. job[j] \in Row /\ RowOK(j, job[j])
  BY DEF JobsTypeOK, RowOK
<1>2. job'[j] \in Row
  BY <1>1 DEF Row
<1>3. /\ job'[j].status = job[j].status
      /\ job'[j].version = job[j].version
      /\ job'[j].owner = job[j].owner
      /\ job'[j].attempts = job[j].attempts
  BY <1>1 DEF Row
<1>4. RowOK(j, job'[j])
  BY <1>1, <1>2, <1>3 DEF RowOK
<1>5. Grows(job[j], job'[j])
  BY <1>1, <1>3 DEF Grows, Row
<1>6. QED
  BY <1>4, <1>5 DEF RowStep

LEMMA RowSteps == ASSUME JobsTypeOK, JobAction PROVE \A j \in Job : RowStep(j)
<1> USE JobsAssumption
<1> SUFFICES ASSUME NEW j \in Job PROVE RowStep(j)
  OBVIOUS
<1>0. RowOK(j, job[j])
  BY DEF JobsTypeOK, RowOK
<1>m. MaxAttempts[j] \in Nat
  OBVIOUS
<1>1. ASSUME NEW S \in SUBSET Job, Enqueue(S) PROVE RowStep(j)
  <2>1. CASE j \in S /\ job[j].status = "absent"
    <3>1. job'[j] = Fresh
      BY <1>1, <2>1 DEF Enqueue
    <3>3. RowOK(j, Fresh)
      BY <1>m DEF Fresh, RowOK, Row
    <3>4. Grows(job[j], Fresh)
      BY <1>0, <2>1 DEF Fresh, Grows, RowOK, Absent
    <3>5. QED
      BY <3>1, <3>3, <3>4 DEF RowStep
  <2>2. CASE ~(j \in S /\ job[j].status = "absent")
    BY <1>1, <2>2, SameRow DEF Enqueue
  <2>3. QED
    BY <2>1, <2>2
<1>2. ASSUME NEW w \in Worker, NEW k \in Job, ClaimJob(w, k) PROVE RowStep(j)
  <2>1. CASE k = j
    BY <1>0, <1>2, <2>1 DEF JobsTypeOK, ClaimJob, RowStep, RowOK, Row, Grows
  <2>2. CASE k # j
    BY <1>2, <2>2, SameRow DEF JobsTypeOK, ClaimJob
  <2>3. QED
    BY <2>1, <2>2
<1>3. ASSUME NEW w \in Worker, NEW k \in Job, NEW v \in Nat, StartJob(w, k, v) PROVE RowStep(j)
  <2>1. CASE k = j
    BY <1>0, <1>3, <2>1 DEF JobsTypeOK, StartJob, Holds, RowStep, RowOK, Row, Grows
  <2>2. CASE k # j
    BY <1>3, <2>2, SameRow DEF JobsTypeOK, StartJob
  <2>3. QED
    BY <2>1, <2>2
<1>4. ASSUME NEW w \in Worker, NEW k \in Job, NEW v \in Nat, CompleteJob(w, k, v) PROVE RowStep(j)
  <2>1. CASE k = j
    <3>1. job'[j] = Left(job[j], "completed")
      BY <1>4, <2>1 DEF JobsTypeOK, CompleteJob
    <3>2. QED
      BY <3>1, LeavesRow
  <2>2. CASE k # j
    BY <1>4, <2>2, SameRow DEF JobsTypeOK, CompleteJob
  <2>3. QED
    BY <2>1, <2>2
<1>f. ASSUME NEW w \in Worker, NEW k \in Job, NEW v \in Nat, FailJob(w, k, v) PROVE RowStep(j)
  <2>1. CASE k = j
    <3>1. job'[j] = [Left(job[j], AfterFailure(j)) EXCEPT !.due = FALSE]
      BY <1>f, <2>1 DEF JobsTypeOK, FailJob
    <3>2. QED
      BY <3>1, LeavesRow, AfterFailureStatus
  <2>2. CASE k # j
    BY <1>f, <2>2, SameRow DEF JobsTypeOK, FailJob
  <2>3. QED
    BY <2>1, <2>2
<1>c. ASSUME NEW k \in Job, NEW v \in Nat, CancelJob(k, v) PROVE RowStep(j)
  <2>1. CASE k = j
    <3>1. job'[j] = Left(job[j], "cancelled")
      BY <1>c, <2>1 DEF JobsTypeOK, CancelJob
    <3>2. QED
      BY <3>1, LeavesRow
  <2>2. CASE k # j
    BY <1>c, <2>2, SameRow DEF JobsTypeOK, CancelJob
  <2>3. QED
    BY <2>1, <2>2
<1>5. CASE RecoverJobs
  BY <1>5, LeavesRow, AfterFailureStatus, SameRow DEF RecoverJobs
<1>6. ASSUME NEW k \in Job, LeaseLapses(k) PROVE RowStep(j)
  <2>1. CASE k = j
    <3>1. job'[j] = [job[j] EXCEPT !.lapsed = TRUE] /\ job[j].status \in Active
      BY <1>6, <2>1 DEF JobsTypeOK, LeaseLapses
    <3>2. QED
      BY <3>1, FlagRaised
  <2>2. CASE k # j
    BY <1>6, <2>2, SameRow DEF JobsTypeOK, LeaseLapses
  <2>3. QED
    BY <2>1, <2>2
<1>7. ASSUME NEW k \in Job, BecomesDue(k) PROVE RowStep(j)
  <2>1. CASE k = j
    <3>1. job'[j] = [job[j] EXCEPT !.due = TRUE] /\ job[j].status \in Queued
      BY <1>7, <2>1 DEF JobsTypeOK, BecomesDue
    <3>2. QED
      BY <3>1, FlagRaised
  <2>2. CASE k # j
    BY <1>7, <2>2, SameRow DEF JobsTypeOK, BecomesDue
  <2>3. QED
    BY <2>1, <2>2
<1>8. CASE UNCHANGED job
  BY <1>8, SameRow
<1>9. QED
  BY <1>1, <1>2, <1>3, <1>4, <1>f, <1>c, <1>5, <1>6, <1>7, <1>8 DEF JobAction, QuietAction

LEMMA JobsStep ==
    ASSUME JobsTypeOK, JobAction
    PROVE  JobsTypeOK' /\ \A j \in Job : Grows(job[j], job'[j])
<1>1. \A j \in Job : RowStep(j)
  BY RowSteps
<1>2. job' = [j \in Job |-> job'[j]]
  BY DEF JobAction, QuietAction, JobsTypeOK, Enqueue, ClaimJob, StartJob, CompleteJob, FailJob, CancelJob,
         RecoverJobs, LeaseLapses, BecomesDue
<1>3. QED
  BY <1>1, <1>2 DEF JobsTypeOK, RowStep, RowOK

-----------------------------------------------------------------------------
(* Types.                                                                  *)

LEMMA LeaseTyped ==
    ASSUME ReplyTypeOK, NEW w \in Worker, phase[w] \in Busy
    PROVE  lease[w] \in Lease
BY DEF ReplyTypeOK

(* Jobs are completed by commits only.                                     *)
LEMMA StepsQuiet ==
    ASSUME ReplyTypeOK, [Next]_replyVars
    PROVE  QuietAction \/ \E w \in Worker : Commit(w)
<1>1. ASSUME NEW m \in Job, ContactWrites(m) \/ Import(m) \/ Delivered(m) PROVE QuietAction
  BY <1>1 DEF ContactWrites, Import, Delivered, QuietAction
<1>2. ASSUME NEW m \in Job, Receive(m) PROVE QuietAction
  <2>1. Decided({m}) \in SUBSET Job
    BY DEF Decided
  <2>2. QED
    BY <1>2, <2>1 DEF Receive, QuietAction
<1>3. CASE Reconcile
  <2>1. Decided(Batch(Unanswered)) \in SUBSET Job
    BY DEF Decided, Batch, Unanswered
  <2>2. QED
    BY <1>3, <2>1 DEF Reconcile, QuietAction
<1>4. CASE PolicyChanges \/ OperatorWrites \/ UNCHANGED replyVars
  BY <1>4 DEF PolicyChanges, OperatorWrites, replyVars, QuietAction
<1>5. ASSUME NEW w \in Worker, NEW m \in Job, Claim(w, m) PROVE QuietAction
  BY <1>5 DEF Claim, QuietAction
<1>6. ASSUME NEW w \in Worker, Recover(w) PROVE QuietAction
  BY <1>6 DEF Recover, QuietAction
<1>7. ASSUME NEW w \in Worker, Run(w), ~Commit(w) PROVE QuietAction
  <2>1. CASE Check(w) \/ ModelRefuses(w) \/ Recheck(w) \/ Raises(w)
    BY <2>1 DEF Check, ModelRefuses, Recheck, Raises, QuietAction
  <2>2. CASE Start(w)
    <3>1. lease[w].msg \in Job /\ lease[w].held \in Nat
      BY <2>2, LeaseTyped DEF Start, Busy, Lease
    <3>2. QED
      BY <2>2, <3>1 DEF Start, QuietAction
  <2>4. CASE Decline(w)
    <3>1. lease[w].msg \in Job /\ lease[w].held \in Nat
      BY <2>4, LeaseTyped DEF Decline, Busy, Lease
    <3>2. QED
      BY <2>4, <3>1 DEF Decline, QuietAction
  <2>5. CASE Fail(w)
    <3>1. lease[w].msg \in Job /\ lease[w].claimed \in Nat
      BY <2>5, LeaseTyped DEF Fail, Busy, Lease
    <3>2. QED
      BY <2>5, <3>1 DEF Fail, QuietAction
  <2>6. QED
    BY <1>7, <2>1, <2>2, <2>4, <2>5 DEF Run
<1>8. ASSUME NEW w \in Worker, Dies(w) PROVE QuietAction
  BY <1>8 DEF Dies, QuietAction
<1>9. ASSUME NEW m \in Job, TimePasses(m) PROVE QuietAction
  BY <1>9 DEF TimePasses, QuietAction
<1>10. QED
  BY <1>1, <1>2, <1>3, <1>4, <1>5, <1>6, <1>7, <1>8, <1>9 DEF Next, Inbox

LEMMA StepsJobs == ASSUME ReplyTypeOK, [Next]_replyVars PROVE JobAction
<1>1. ASSUME NEW w \in Worker, Commit(w) PROVE JobAction
  <2>1. lease[w].msg \in Job /\ lease[w].held \in Nat
    BY <1>1, LeaseTyped DEF Commit, Busy, Lease
  <2>2. QED
    BY <1>1, <2>1 DEF Commit, JobAction
<1>2. QED
  BY <1>1, StepsQuiet DEF JobAction

LEMMA InitTypes == ASSUME Init PROVE ReplyTypeOK
<1>1. JobsTypeOK
  BY JobsAssumption DEF Init, JobsInit, JobsTypeOK, Absent, Row
<1>2. QED
  BY <1>1 DEF Init, ReplyTypeOK, Busy

(* A worker that moves on while it has a lease, or that drops it.          *)
LEMMA GoesTypes ==
    ASSUME ReplyTypeOK, NEW w \in Worker, NEW p \in Busy, phase[w] \in Busy,
           Goes(w, p), lease' = lease \/ \E n \in Nat : lease' = [lease EXCEPT ![w].held = n]
    PROVE  /\ phase' \in [Worker -> {"idle"} \cup Busy]
           /\ lease' \in [Worker -> Lease \cup {NoLease}]
           /\ \A u \in Worker : phase'[u] \in Busy <=> lease'[u] # NoLease
<1>1. lease[w] \in Lease
  BY LeaseTyped
<1>2. lease'[w] \in Lease /\ \A u \in Worker \ {w} : lease'[u] = lease[u]
  BY <1>1 DEF ReplyTypeOK, Lease
<1>3. lease' \in [Worker -> Lease \cup {NoLease}]
  BY <1>1, <1>2 DEF ReplyTypeOK, Lease
<1>4. phase'[w] = p /\ \A u \in Worker \ {w} : phase'[u] = phase[u]
  BY DEF Goes, ReplyTypeOK
<1>5. phase' \in [Worker -> {"idle"} \cup Busy]
  BY DEF Goes, ReplyTypeOK
<1>6. QED
  BY <1>2, <1>3, <1>4, <1>5, ReplyAssumption DEF ReplyTypeOK

LEMMA DropsTypes ==
    ASSUME ReplyTypeOK, NEW w \in Worker, Drops(w)
    PROVE  /\ phase' \in [Worker -> {"idle"} \cup Busy]
           /\ lease' \in [Worker -> Lease \cup {NoLease}]
           /\ \A u \in Worker : phase'[u] \in Busy <=> lease'[u] # NoLease
BY DEF Drops, Goes, ReplyTypeOK, Busy

LEMMA TypeStep == ASSUME ReplyTypeOK, [Next]_replyVars PROVE ReplyTypeOK'
<1>0. JobsTypeOK'
  BY StepsJobs, JobsStep DEF ReplyTypeOK
<1>1. ASSUME NEW m \in Job, ContactWrites(m) \/ Import(m) \/ Receive(m) PROVE ReplyTypeOK'
  BY <1>0, <1>1 DEF ContactWrites, Import, Receive, outVars, ReplyTypeOK
<1>2. CASE Reconcile \/ PolicyChanges \/ UNCHANGED replyVars
  BY <1>0, <1>2 DEF Reconcile, PolicyChanges, replyVars, outVars, ReplyTypeOK
<1>3. CASE OperatorWrites
  BY <1>0, <1>3 DEF OperatorWrites, Written, ReplyTypeOK
<1>4. ASSUME NEW m \in Job, Delivered(m) PROVE ReplyTypeOK'
  BY <1>0, <1>4 DEF Delivered, Written, ReplyTypeOK
<1>5. ASSUME NEW w \in Worker, NEW m \in Job, Claim(w, m) PROVE ReplyTypeOK'
  <2>1. job'[m].version \in Nat
    BY <1>0 DEF JobsTypeOK, Row
  <2>2. lease'[w] \in Lease
    BY <1>5, <2>1 DEF Claim, Lease, ReplyTypeOK
  <2>3. lease'[w] # NoLease
    BY <2>2, ReplyAssumption
  <2>4. lease' \in [Worker -> Lease \cup {NoLease}]
    BY <1>5, <2>1 DEF Claim, Lease, ReplyTypeOK
  <2>5. \A u \in Worker \ {w} : lease'[u] = lease[u] /\ phase'[u] = phase[u]
    BY <1>5 DEF Claim, Goes, ReplyTypeOK
  <2>6. phase' \in [Worker -> {"idle"} \cup Busy] /\ phase'[w] \in Busy
    BY <1>5 DEF Claim, Goes, ReplyTypeOK, Busy
  <2>7. UNCHANGED <<arrival, enabled, calls, replies, answered, addressed, late>>
    BY <1>5 DEF Claim, outVars
  <2>8. QED
    BY <1>0, <2>3, <2>4, <2>5, <2>6, <2>7 DEF ReplyTypeOK
<1>6. ASSUME NEW w \in Worker, Recover(w) PROVE ReplyTypeOK'
  BY <1>0, <1>6 DEF Recover, outVars, ReplyTypeOK
<1>7. ASSUME NEW w \in Worker, Run(w) PROVE ReplyTypeOK'
  <2>1. CASE Start(w)
    <3>1. lease[w].held + 1 \in Nat
      BY <2>1, LeaseTyped DEF Start, Busy, Lease
    <3>2. lease' = [lease EXCEPT ![w].held = lease[w].held + 1]
      BY <2>1 DEF Start
    <3>3. QED
      BY <1>0, <2>1, <3>1, <3>2, GoesTypes DEF Start, Busy, outVars, ReplyTypeOK
  <2>2. CASE Check(w)
    <3>1. lease[w].msg \in Job
      BY <2>2, LeaseTyped DEF Check, Busy, Lease
    <3>2. calls' \in [Job -> Nat]
      BY <2>2, <3>1 DEF Check, ReplyTypeOK
    <3>3. \E p \in Busy : Goes(w, p)
      BY <2>2 DEF Check, Busy
    <3>4. phase[w] \in Busy /\ UNCHANGED <<arrival, enabled, lease, replies, answered, addressed, late>>
      BY <2>2 DEF Check, Busy, outVars
    <3>5. QED
      BY <1>0, <3>2, <3>3, <3>4, GoesTypes DEF ReplyTypeOK
  <2>3. CASE ModelRefuses(w) \/ Recheck(w) \/ Raises(w)
    <3>1. \E p \in Busy : Goes(w, p)
      BY <2>3 DEF ModelRefuses, Recheck, Raises, Busy
    <3>2. phase[w] \in Busy /\ UNCHANGED <<arrival, enabled, lease, calls, replies, answered, addressed, late>>
      BY <2>3 DEF ModelRefuses, Recheck, Raises, Busy, outVars
    <3>3. QED
      BY <1>0, <3>1, <3>2, GoesTypes DEF ReplyTypeOK
  <2>4. CASE Commit(w)
    <3>1. lease[w].msg \in Job
      BY <2>4, LeaseTyped DEF Commit, Busy, Lease
    <3>2. QED
      BY <1>0, <2>4, <3>1, DropsTypes DEF Commit, Written, ReplyTypeOK
  <2>5. CASE Decline(w) \/ Fail(w)
    BY <1>0, <2>5, DropsTypes DEF Decline, Fail, outVars, ReplyTypeOK
  <2>6. QED
    BY <1>7, <2>1, <2>2, <2>3, <2>4, <2>5 DEF Run
<1>8. ASSUME NEW w \in Worker, Dies(w) PROVE ReplyTypeOK'
  BY <1>0, <1>8, DropsTypes DEF Dies, outVars, ReplyTypeOK
<1>9. ASSUME NEW m \in Job, TimePasses(m) PROVE ReplyTypeOK'
  BY <1>0, <1>9 DEF TimePasses, outVars, ReplyTypeOK
<1>10. QED
  BY <1>1, <1>2, <1>3, <1>4, <1>5, <1>6, <1>7, <1>8, <1>9 DEF Next, Inbox

-----------------------------------------------------------------------------
(* What the other parts of the invariant need to know of a step.           *)

LEMMA LeaseChange ==
    ASSUME ReplyTypeOK, [Next]_replyVars, NEW u \in Worker
    PROVE  \/ lease'[u] = lease[u]
           \/ lease'[u] = NoLease
           \/ \E m \in Job : Claim(u, m)
           \/ Start(u)
<1>1. ASSUME NEW w \in Worker, Drops(w) PROVE lease'[u] = lease[u] \/ lease'[u] = NoLease
  BY <1>1 DEF Drops, ReplyTypeOK
<1>2. ASSUME NEW w \in Worker, NEW m \in Job, Claim(w, m), w # u PROVE lease'[u] = lease[u]
  BY <1>2 DEF Claim, ReplyTypeOK
<1>3. ASSUME NEW w \in Worker, Start(w), w # u PROVE lease'[u] = lease[u]
  BY <1>3 DEF Start, ReplyTypeOK
<1>4. ASSUME NEW w \in Worker, Commit(w) \/ Decline(w) \/ Fail(w) \/ Dies(w)
      PROVE  lease'[u] = lease[u] \/ lease'[u] = NoLease
  BY <1>1, <1>4 DEF Commit, Decline, Fail, Dies
<1>5. ASSUME NEW w \in Worker, Check(w) \/ ModelRefuses(w) \/ Recheck(w) \/ Raises(w) \/ Recover(w)
      PROVE  lease'[u] = lease[u]
  BY <1>5 DEF Check, ModelRefuses, Recheck, Raises, Recover
<1>6. ASSUME NEW m \in Job, ContactWrites(m) \/ Import(m) \/ Receive(m) \/ Delivered(m) \/ TimePasses(m)
      PROVE  lease'[u] = lease[u]
  BY <1>6 DEF ContactWrites, Import, Receive, Delivered, TimePasses
<1>7. CASE Reconcile \/ PolicyChanges \/ OperatorWrites \/ UNCHANGED replyVars
  BY <1>7 DEF Reconcile, PolicyChanges, OperatorWrites, replyVars
<1>8. QED
  BY <1>2, <1>3, <1>4, <1>5, <1>6, <1>7 DEF Next, Inbox, Run

LEMMA LeaseStep == ASSUME ReplyTypeOK, LeaseInv, [Next]_replyVars PROVE LeaseInv'
<1> SUFFICES ASSUME NEW u \in Worker, lease'[u] # NoLease
             PROVE  /\ lease'[u].claimed <= lease'[u].held
                    /\ lease'[u].held <= job'[lease'[u].msg].version
  BY DEF LeaseInv
<1>0. JobsTypeOK' /\ JobsTypeOK /\ \A j \in Job : Grows(job[j], job'[j])
  BY StepsJobs, JobsStep DEF ReplyTypeOK
<1>1. CASE lease'[u] = lease[u]
  <2>1. lease[u] \in Lease
    BY <1>1 DEF ReplyTypeOK
  <2>2. job[lease[u].msg].version \in Nat /\ job'[lease[u].msg].version \in Nat
    BY <1>0, <2>1 DEF JobsTypeOK, Row, Lease
  <2>3. job'[lease[u].msg].version >= job[lease[u].msg].version
    BY <1>0, <2>1 DEF Grows, Lease
  <2>4. QED
    BY <1>1, <2>1, <2>2, <2>3 DEF LeaseInv, Lease
<1>2. CASE \E m \in Job : Claim(u, m)
  <2>1. PICK m \in Job : Claim(u, m)
    BY <1>2
  <2>2. lease'[u] = [msg |-> m, claimed |-> job'[m].version, held |-> job'[m].version]
    BY <2>1 DEF Claim, ReplyTypeOK
  <2>3. job'[m].version \in Nat
    BY <1>0 DEF JobsTypeOK, Row
  <2>4. QED
    BY <2>2, <2>3
<1>3. CASE Start(u)
  <2>1. lease[u] \in Lease
    BY <1>3, LeaseTyped DEF Start, Busy
  <2>2. /\ lease'[u].msg = lease[u].msg
        /\ lease'[u].claimed = lease[u].claimed
        /\ lease'[u].held = lease[u].held + 1
    BY <1>3, <2>1 DEF Start, ReplyTypeOK, Lease
  <2>3. job[lease[u].msg].version = lease[u].held
    BY <1>3 DEF Start, StartJob, Holds
  <2>4. job'[lease[u].msg].version = lease[u].held + 1
    <3>1. job \in [Job -> Row] /\ lease[u].msg \in Job
      BY <1>0, <2>1 DEF JobsTypeOK, Lease
    <3>2. job' = [job EXCEPT ![lease[u].msg].status = "running",
                             ![lease[u].msg].version = job[lease[u].msg].version + 1]
      BY <1>3 DEF Start, StartJob
    <3>3. QED
      BY <2>3, <3>1, <3>2 DEF Row
  <2>5. lease[u].claimed <= lease[u].held /\ lease[u].claimed \in Nat /\ lease[u].held \in Nat
    BY <2>1, ReplyAssumption DEF LeaseInv, Lease
  <2>6. QED
    BY <2>2, <2>4, <2>5
<1>4. QED
  BY <1>1, <1>2, <1>3, LeaseChange

(* A worker that will stand between recheck and commit stands there        *)
(* already, or has just found its message unanswered.                      *)
LEMMA WindowChange ==
    ASSUME ReplyTypeOK, [Next]_replyVars, NEW u \in Worker, phase'[u] = "rechecked"
    PROVE  /\ lease'[u] = lease[u]
           /\ \/ phase[u] = "rechecked"
              \/ Recheck(u) /\ lease[u].msg \notin answered
<1>1. ASSUME NEW w \in Worker, Drops(w) PROVE phase[u] = "rechecked" /\ lease'[u] = lease[u]
  BY <1>1 DEF Drops, Goes, ReplyTypeOK
<1>2. ASSUME NEW w \in Worker, NEW m \in Job, Claim(w, m)
      PROVE  phase[u] = "rechecked" /\ lease'[u] = lease[u]
  BY <1>2 DEF Claim, Goes, ReplyTypeOK
<1>3. ASSUME NEW w \in Worker, Start(w) PROVE phase[u] = "rechecked" /\ lease'[u] = lease[u]
  BY <1>3 DEF Start, Goes, ReplyTypeOK
<1>4. ASSUME NEW w \in Worker, Commit(w) \/ Decline(w) \/ Fail(w) \/ Dies(w)
      PROVE  phase[u] = "rechecked" /\ lease'[u] = lease[u]
  BY <1>1, <1>4 DEF Commit, Decline, Fail, Dies
<1>5. ASSUME NEW w \in Worker, Check(w) \/ ModelRefuses(w) \/ Raises(w) \/ Recover(w)
      PROVE  phase[u] = "rechecked" /\ lease'[u] = lease[u]
  BY <1>5 DEF Check, ModelRefuses, Raises, Recover, Goes, ReplyTypeOK
<1>6. ASSUME NEW w \in Worker, Recheck(w)
      PROVE  /\ lease'[u] = lease[u]
             /\ phase[u] = "rechecked" \/ (Recheck(u) /\ lease[u].msg \notin answered)
  BY <1>6 DEF Recheck, Goes, ReplyTypeOK
<1>7. ASSUME NEW m \in Job, ContactWrites(m) \/ Import(m) \/ Receive(m) \/ Delivered(m) \/ TimePasses(m)
      PROVE  phase[u] = "rechecked" /\ lease'[u] = lease[u]
  BY <1>7 DEF ContactWrites, Import, Receive, Delivered, TimePasses
<1>8. CASE Reconcile \/ PolicyChanges \/ OperatorWrites \/ UNCHANGED replyVars
  BY <1>8 DEF Reconcile, PolicyChanges, OperatorWrites, replyVars
<1>9. QED
  BY <1>2, <1>3, <1>4, <1>5, <1>6, <1>7, <1>8 DEF Next, Inbox, Run

(* Only a delivery changes what is answered.                               *)
LEMMA AnsweredChange ==
    ASSUME [Next]_replyVars
    PROVE  (\E k \in Job : Delivered(k)) \/ UNCHANGED <<answered, late>>
<1>1. ASSUME NEW m \in Job, ContactWrites(m) \/ Import(m) \/ Receive(m) \/ TimePasses(m)
      PROVE  UNCHANGED <<answered, late>>
  BY <1>1 DEF ContactWrites, Import, Receive, TimePasses, outVars
<1>2. CASE Reconcile \/ PolicyChanges \/ OperatorWrites \/ UNCHANGED replyVars
  BY <1>2 DEF Reconcile, PolicyChanges, OperatorWrites, replyVars, outVars
<1>3. ASSUME NEW w \in Worker, NEW m \in Job, Claim(w, m) PROVE UNCHANGED <<answered, late>>
  BY <1>3 DEF Claim, outVars
<1>4. ASSUME NEW w \in Worker, Recover(w) \/ Dies(w) \/ Run(w) PROVE UNCHANGED <<answered, late>>
  BY <1>4 DEF Recover, Dies, Run, Start, Check, ModelRefuses, Recheck, Commit, Decline, Raises, Fail, outVars
<1>5. QED
  BY <1>1, <1>2, <1>3, <1>4 DEF Next, Inbox

LEMMA WindowStep == ASSUME ReplyTypeOK, WindowInv, [Next]_replyVars PROVE WindowInv'
<1> SUFFICES ASSUME NEW u \in Worker, phase'[u] = "rechecked", lease'[u].msg \in answered'
             PROVE  lease'[u].msg \in late'
  BY DEF WindowInv
<1>1. lease'[u] = lease[u]
  BY WindowChange
<1>2. ASSUME NEW k \in Job, Delivered(k) PROVE lease'[u].msg \in late'
  <2>1. phase[u] = "rechecked" /\ lease'[u] = lease[u]
    BY <1>2 DEF Delivered
  <2>2. Rechecked(lease[u].msg)
    BY <2>1 DEF Rechecked
  <2>3. QED
    BY <1>2, <2>1, <2>2 DEF Delivered, WindowInv
<1>3. CASE UNCHANGED <<answered, late>>
  BY <1>1, <1>3, WindowChange DEF WindowInv
<1>4. QED
  BY <1>2, <1>3, AnsweredChange

(* The workers that have yet to ask about m become more only by a claim,   *)
(* and one less with every call.                                           *)
LEMMA CallChange ==
    ASSUME ReplyTypeOK, [Next]_replyVars, NEW m \in Job
    PROVE  \/ Unasked(m)' \subseteq Unasked(m) /\ calls'[m] = calls[m]
           \/ \E w \in Worker : Claim(w, m)
           \/ \E w \in Unasked(m) :
                /\ Unasked(m)' \subseteq Unasked(m) \ {w}
                /\ calls'[m] = calls[m] + 1
<1> DEFINE Same == Unasked(m)' \subseteq Unasked(m) /\ calls'[m] = calls[m]
<1>1. ASSUME NEW w \in Worker, Drops(w), UNCHANGED calls PROVE Same
  BY <1>1 DEF Drops, Goes, ReplyTypeOK, Unasked
<1>2. ASSUME NEW w \in Worker, NEW k \in Job, Claim(w, k), k # m PROVE Same
  <2>1. lease'[w].msg = k /\ \A u \in Worker \ {w} : lease'[u] = lease[u] /\ phase'[u] = phase[u]
    BY <1>2 DEF Claim, Goes, ReplyTypeOK
  <2>2. calls' = calls
    BY <1>2 DEF Claim
  <2>3. QED
    BY <1>2, <2>1, <2>2 DEF Unasked
<1>3. ASSUME NEW w \in Worker, Start(w) PROVE Same
  <2>1. lease[w] \in Lease
    BY <1>3, LeaseTyped DEF Start, Busy
  <2>2. lease'[w].msg = lease[w].msg /\ \A u \in Worker \ {w} : lease'[u] = lease[u]
    BY <1>3, <2>1 DEF Start, ReplyTypeOK, Lease
  <2>3. phase[w] = "claimed" /\ (\A u \in Worker \ {w} : phase'[u] = phase[u]) /\ calls' = calls
    BY <1>3 DEF Start, Goes, ReplyTypeOK
  <2>4. QED
    BY <2>2, <2>3 DEF Unasked
<1>4. ASSUME NEW w \in Worker, Commit(w) \/ Decline(w) \/ Fail(w) \/ Dies(w) PROVE Same
  BY <1>1, <1>4 DEF Commit, Decline, Fail, Dies
<1>5. ASSUME NEW w \in Worker, ModelRefuses(w) \/ Recheck(w) \/ Raises(w) \/ Recover(w) PROVE Same
  BY <1>5 DEF ModelRefuses, Recheck, Raises, Recover, Goes, ReplyTypeOK, Unasked
<1>6. ASSUME NEW w \in Worker, Check(w)
      PROVE  Same \/ (/\ w \in Unasked(m)
                      /\ Unasked(m)' \subseteq Unasked(m) \ {w}
                      /\ calls'[m] = calls[m] + 1)
  <2>1. /\ phase[w] = "started"
        /\ phase'[w] \in {"declining", "asking"}
        /\ \A u \in Worker \ {w} : phase'[u] = phase[u]
        /\ lease' = lease
    BY <1>6 DEF Check, Goes, ReplyTypeOK
  <2>2. Unasked(m)' \subseteq Unasked(m) \ {w}
    BY <2>1 DEF Unasked
  <2>3. calls'[m] = calls[m] \/ (lease[w].msg = m /\ calls'[m] = calls[m] + 1)
    <3>1. calls' = calls \/ calls' = [calls EXCEPT ![lease[w].msg] = @ + 1]
      BY <1>6 DEF Check
    <3>2. QED
      BY <3>1 DEF ReplyTypeOK
  <2>4. QED
    BY <2>1, <2>2, <2>3 DEF Unasked
<1>7. ASSUME NEW k \in Job, ContactWrites(k) \/ Import(k) \/ Receive(k) \/ Delivered(k) \/ TimePasses(k)
      PROVE  Same
  BY <1>7 DEF ContactWrites, Import, Receive, Delivered, TimePasses, Unasked
<1>8. CASE Reconcile \/ PolicyChanges \/ OperatorWrites \/ UNCHANGED replyVars
  BY <1>8 DEF Reconcile, PolicyChanges, OperatorWrites, replyVars, Unasked
<1>9. QED
  BY <1>2, <1>3, <1>4, <1>5, <1>6, <1>7, <1>8 DEF Next, Inbox, Run

LEMMA CallStep == ASSUME ReplyTypeOK, CallInv, [Next]_replyVars PROVE CallInv'
<1> SUFFICES ASSUME NEW m \in Job
             PROVE  calls'[m] + Cardinality(Unasked(m)') <= job'[m].attempts
  BY DEF CallInv
<1>0. JobsTypeOK' /\ JobsTypeOK /\ \A j \in Job : Grows(job[j], job'[j])
  BY StepsJobs, JobsStep DEF ReplyTypeOK
<1>1. /\ job[m].attempts \in Nat /\ job'[m].attempts \in Nat
      /\ job'[m].attempts >= job[m].attempts
      /\ calls[m] \in Nat
  BY <1>0 DEF JobsTypeOK, Row, Grows, ReplyTypeOK
<1>2. IsFiniteSet(Unasked(m)) /\ IsFiniteSet(Unasked(m)')
  BY JobsAssumption, FS_Subset DEF Unasked
<1>3. Cardinality(Unasked(m)) \in Nat /\ Cardinality(Unasked(m)') \in Nat
  BY <1>2, FS_CardinalityType
<1>4. calls[m] + Cardinality(Unasked(m)) <= job[m].attempts
  BY DEF CallInv
<1>5. CASE Unasked(m)' \subseteq Unasked(m) /\ calls'[m] = calls[m]
  <2>1. Cardinality(Unasked(m)') <= Cardinality(Unasked(m))
    BY <1>2, <1>5, FS_Subset
  <2>2. QED
    BY <1>1, <1>3, <1>4, <1>5, <2>1
<1>6. CASE \E w \in Worker : Claim(w, m)
  <2>1. PICK w \in Worker : Claim(w, m)
    BY <1>6
  <2>2. job'[m].attempts = job[m].attempts + 1
    <3>1. job \in [Job -> Row]
      BY <1>0 DEF JobsTypeOK
    <3>2. job' = [job EXCEPT ![m].status = "claimed", ![m].owner = w, ![m].lapsed = FALSE,
                             ![m].attempts = job[m].attempts + 1,
                             ![m].version = job[m].version + 1]
      BY <2>1 DEF Claim, ClaimJob
    <3>3. QED
      BY <3>1, <3>2 DEF Row
  <2>3. Unasked(m)' \subseteq Unasked(m) \cup {w}
    <3>1. \A u \in Worker \ {w} : lease'[u] = lease[u] /\ phase'[u] = phase[u]
      BY <2>1 DEF Claim, Goes, ReplyTypeOK
    <3>2. QED
      BY <3>1 DEF Unasked
  <2>4. /\ IsFiniteSet(Unasked(m) \cup {w})
        /\ Cardinality(Unasked(m) \cup {w}) \in Nat
        /\ Cardinality(Unasked(m) \cup {w}) <= Cardinality(Unasked(m)) + 1
    <3>1. /\ IsFiniteSet(Unasked(m) \cup {w})
          /\ Cardinality(Unasked(m) \cup {w})
               = IF w \in Unasked(m) THEN Cardinality(Unasked(m)) ELSE Cardinality(Unasked(m)) + 1
      BY <1>2, FS_AddElement
    <3>2. QED
      BY <1>3, <3>1
  <2>5. Cardinality(Unasked(m)') <= Cardinality(Unasked(m) \cup {w})
    BY <2>3, <2>4, FS_Subset
  <2>6. calls' = calls
    BY <2>1 DEF Claim
  <2>7. QED
    BY <1>1, <1>3, <1>4, <2>2, <2>4, <2>5, <2>6
<1>7. ASSUME NEW w \in Unasked(m), Unasked(m)' \subseteq Unasked(m) \ {w}, calls'[m] = calls[m] + 1
      PROVE  calls'[m] + Cardinality(Unasked(m)') <= job'[m].attempts
  <2>1. /\ IsFiniteSet(Unasked(m) \ {w})
        /\ Cardinality(Unasked(m) \ {w}) = Cardinality(Unasked(m)) - 1
    BY <1>2, FS_RemoveElement
  <2>2. Cardinality(Unasked(m)') <= Cardinality(Unasked(m) \ {w})
    BY <1>7, <2>1, FS_Subset
  <2>3. QED
    BY <1>1, <1>3, <1>4, <1>7, <2>1, <2>2
<1>8. QED
  BY <1>5, <1>6, <1>7, CallChange

-----------------------------------------------------------------------------
(* The theorems.                                                           *)

LEMMA InitInv == ASSUME Init PROVE ReplyInv
<1>1. ReplyTypeOK
  BY InitTypes
<1>2. LeaseInv /\ WindowInv
  BY DEF Init, LeaseInv, WindowInv
<1>3. CallInv
  <2>1. ASSUME NEW m \in Job PROVE Unasked(m) = {} /\ calls[m] = 0 /\ job[m].attempts = 0
    BY DEF Init, Unasked, JobsInit, Absent
  <2>2. QED
    BY <2>1, FS_EmptySet DEF CallInv
<1>4. QED
  BY <1>1, <1>2, <1>3 DEF ReplyInv

LEMMA InvStep == ASSUME ReplyInv, [Next]_replyVars PROVE ReplyInv'
BY TypeStep, LeaseStep, WindowStep, CallStep DEF ReplyInv

LEMMA InvBounds == ASSUME ReplyInv PROVE CallsBounded
<1> SUFFICES ASSUME NEW m \in Job PROVE calls[m] <= MaxAttempts[m]
  BY DEF CallsBounded
<1>1. /\ calls[m] \in Nat /\ job[m].attempts \in Nat
      /\ job[m].attempts <= MaxAttempts[m] /\ MaxAttempts[m] \in Nat
  BY JobsAssumption DEF ReplyInv, ReplyTypeOK, JobsTypeOK, Row
<1>2. IsFiniteSet(Unasked(m))
  BY JobsAssumption, FS_Subset DEF Unasked
<1>3. Cardinality(Unasked(m)) \in Nat
  BY <1>2, FS_CardinalityType
<1>4. calls[m] + Cardinality(Unasked(m)) <= job[m].attempts
  BY DEF ReplyInv, CallInv
<1>5. QED
  BY <1>1, <1>3, <1>4

(* Types, and the bound on the calls of the model: every call belongs to   *)
(* an attempt that claim_next has counted.                                 *)
THEOREM ReplyCorrect == Spec => [](ReplyTypeOK /\ CallsBounded)
<1>1. Init => ReplyInv
  BY InitInv
<1>2. ReplyInv /\ [Next]_replyVars => ReplyInv'
  BY InvStep
<1>3. ReplyInv => ReplyTypeOK /\ CallsBounded
  BY InvBounds DEF ReplyInv
<1>4. QED
  BY <1>1, <1>2, <1>3, PTL DEF Spec

-----------------------------------------------------------------------------
(* A lease that is behind its row changes nothing.                         *)

LEMMA StaleStep ==
    ASSUME ReplyInv, [Next]_replyVars, NEW w \in Worker, Stale(w), lease'[w] # lease[w]
    PROVE  UNCHANGED <<job, replies>>
<1> DEFINE m == lease[w].msg
<1>1. lease[w] \in Lease /\ lease[w] # NoLease /\ job[m].version # lease[w].held
  BY DEF Stale, ReplyInv, ReplyTypeOK
<1>2. /\ job[m].version \in Nat /\ lease[w].claimed \in Nat /\ lease[w].held \in Nat
      /\ lease[w].claimed <= lease[w].held /\ lease[w].held <= job[m].version
  BY <1>1 DEF ReplyInv, LeaseInv, ReplyTypeOK, JobsTypeOK, Row, Lease
<1>3. job[m].version # lease[w].claimed
  BY <1>1, <1>2
<1>4. ~Start(w) /\ ~Commit(w) /\ ~Decline(w)
  BY <1>1 DEF Start, Commit, Decline, StartJob, CompleteJob, CancelJob, Holds, Cancellable
<1>5. ASSUME Fail(w) PROVE UNCHANGED <<job, replies>>
  BY <1>3, <1>5 DEF Fail, FailJob, Holds, outVars
<1>6. ASSUME Dies(w) PROVE UNCHANGED <<job, replies>>
  BY <1>6 DEF Dies, outVars
<1>7. ASSUME NEW u \in Worker, u # w,
             (\E k \in Job : Claim(u, k)) \/ Start(u) \/ Commit(u) \/ Decline(u) \/ Fail(u) \/ Dies(u)
      PROVE  FALSE
  BY <1>7 DEF Claim, Start, Commit, Decline, Fail, Dies, Drops, ReplyInv, ReplyTypeOK
<1>8. ASSUME NEW u \in Worker, Check(u) \/ ModelRefuses(u) \/ Recheck(u) \/ Raises(u) \/ Recover(u)
      PROVE  FALSE
  BY <1>8 DEF Check, ModelRefuses, Recheck, Raises, Recover
<1>9. ASSUME NEW k \in Job, ContactWrites(k) \/ Import(k) \/ Receive(k) \/ Delivered(k) \/ TimePasses(k)
      PROVE  FALSE
  BY <1>9 DEF ContactWrites, Import, Receive, Delivered, TimePasses
<1>10. CASE Reconcile \/ PolicyChanges \/ OperatorWrites \/ UNCHANGED replyVars
  BY <1>10 DEF Reconcile, PolicyChanges, OperatorWrites, replyVars
<1>11. ASSUME NEW k \in Job, Claim(w, k) PROVE FALSE
  BY <1>1, <1>11 DEF Claim, ReplyInv, ReplyTypeOK, Busy
<1>12. QED
  BY <1>4, <1>5, <1>6, <1>7, <1>8, <1>9, <1>10, <1>11 DEF Next, Inbox, Run

(* Whoever was overtaken by a recovery, a cancellation or another claim    *)
(* changes neither a job nor the outbox (_lease_cas, cancel).              *)
THEOREM StaleIsHarmless == Spec => StaleChangesNothing
<1>1. ReplyInv /\ [Next]_replyVars
        => [\A w \in Worker :
              Stale(w) /\ lease'[w] # lease[w] => UNCHANGED <<job, replies>>]_replyVars
  BY StaleStep
<1>2. Init => ReplyInv
  BY InitInv
<1>3. ReplyInv /\ [Next]_replyVars => ReplyInv'
  BY InvStep
<1>4. QED
  BY <1>1, <1>2, <1>3, PTL DEF Spec, StaleChangesNothing

(* A reply is queued for an answered message only when the answer came     *)
(* between the recheck and the commit.                                     *)
LEMMA RepliesChange ==
    ASSUME [Next]_replyVars
    PROVE  replies' = replies \/ \E w \in Worker : Commit(w)
<1>1. ASSUME NEW m \in Job, ContactWrites(m) \/ Import(m) \/ Receive(m) \/ Delivered(m) \/ TimePasses(m)
      PROVE  replies' = replies
  BY <1>1 DEF ContactWrites, Import, Receive, Delivered, TimePasses, outVars
<1>2. CASE Reconcile \/ PolicyChanges \/ OperatorWrites \/ UNCHANGED replyVars
  BY <1>2 DEF Reconcile, PolicyChanges, OperatorWrites, replyVars, outVars
<1>3. ASSUME NEW w \in Worker, NEW m \in Job, Claim(w, m) PROVE replies' = replies
  BY <1>3 DEF Claim, outVars
<1>4. ASSUME NEW w \in Worker, Recover(w) \/ Dies(w) \/ Run(w), ~Commit(w) PROVE replies' = replies
  BY <1>4 DEF Recover, Dies, Run, Start, Check, ModelRefuses, Recheck, Decline, Raises, Fail, outVars
<1>5. QED
  BY <1>1, <1>2, <1>3, <1>4 DEF Next, Inbox

THEOREM PreemptionInTime == Spec => PreemptedInTime
<1>1. ASSUME ReplyInv, [Next]_replyVars
      PROVE  (replies' \ replies) \cap answered \subseteq late
  <2>1. ASSUME NEW w \in Worker, Commit(w) PROVE (replies' \ replies) \cap answered \subseteq late
    <3>1. phase[w] = "rechecked" /\ replies' = replies \cup {lease[w].msg}
      BY <2>1 DEF Commit
    <3>2. lease[w].msg \in answered => lease[w].msg \in late
      BY <1>1, <3>1 DEF ReplyInv, WindowInv
    <3>3. QED
      BY <3>1, <3>2
  <2>2. CASE replies' = replies
    BY <2>2
  <2>3. QED
    BY <1>1, <2>1, <2>2, RepliesChange
<1>2. ReplyInv /\ [Next]_replyVars => [(replies' \ replies) \cap answered \subseteq late]_replyVars
  BY <1>1
<1>3. Init => ReplyInv
  BY InitInv
<1>4. ReplyInv /\ [Next]_replyVars => ReplyInv'
  BY InvStep
<1>5. QED
  BY <1>2, <1>3, <1>4, PTL DEF Spec, PreemptedInTime

-----------------------------------------------------------------------------
(* The refinement.                                                         *)

Outcomes == [m \in Job |-> Outcome(m)]

LEMMA OutcomeOf ==
    ASSUME JobsTypeOK, NEW m \in Job
    PROVE  /\ Outcome(m) = "none" <=> job[m].status = "absent"
           /\ Outcome(m) = "open" <=> job[m].status \in Open
           /\ Outcome(m) = "replied" <=> job[m].status = "completed"
           /\ Outcome(m) = "left" <=> job[m].status \in {"dead", "cancelled"}
           /\ Outcome(m) \in {"none", "open", "replied", "left"}
BY DEF Outcome, JobsTypeOK, Row

(* A quiet step takes up some messages, or leaves some of those taken up.  *)
OpensSome ==
    \A j \in Job : \/ job'[j].status = job[j].status
                   \/ job[j].status = "absent" /\ job'[j].status = "pending"

LeavesSome ==
    \A j \in Job : \/ job'[j].status = job[j].status
                   \/ job[j].status \in Open /\ job'[j].status \in Open \cup {"dead", "cancelled"}

LEMMA StatusChange == ASSUME JobsTypeOK, QuietAction PROVE OpensSome \/ LeavesSome
<1>0. job \in [Job -> Row]
  BY DEF JobsTypeOK
<1>1. ASSUME NEW S \in SUBSET Job, Enqueue(S) PROVE OpensSome
  BY <1>1 DEF Enqueue, Fresh, OpensSome
<1>2. ASSUME NEW w \in Worker, NEW k \in Job, ClaimJob(w, k) PROVE LeavesSome
  BY <1>0, <1>2 DEF ClaimJob, LeavesSome, Row
<1>3. ASSUME NEW w \in Worker, NEW k \in Job, NEW v \in Nat, StartJob(w, k, v) PROVE LeavesSome
  BY <1>0, <1>3 DEF StartJob, Holds, LeavesSome, Row
<1>4. ASSUME NEW w \in Worker, NEW k \in Job, NEW v \in Nat, FailJob(w, k, v) PROVE LeavesSome
  <2>1. job'[k] = [Left(job[k], AfterFailure(k)) EXCEPT !.due = FALSE] /\ job[k].status \in Open
    BY <1>0, <1>4 DEF FailJob, Holds
  <2>2. job'[k].status \in Open \cup {"dead", "cancelled"}
    BY <2>1, AfterFailureStatus DEF Left
  <2>3. \A j \in Job \ {k} : job'[j] = job[j]
    BY <1>0, <1>4 DEF FailJob
  <2>4. QED
    BY <2>1, <2>2, <2>3 DEF LeavesSome
<1>5. ASSUME NEW k \in Job, NEW v \in Nat, CancelJob(k, v) PROVE LeavesSome
  BY <1>0, <1>5 DEF CancelJob, Cancellable, Left, LeavesSome
<1>6. CASE RecoverJobs
  <2>1. \A j \in Lapsed : job'[j].status = AfterFailure(j)
    BY <1>6 DEF RecoverJobs, Lapsed, Left
  <2>2. \A j \in Job \ Lapsed : job'[j] = job[j]
    BY <1>6 DEF RecoverJobs
  <2>3. QED
    BY <2>1, <2>2, AfterFailureStatus DEF LeavesSome, Lapsed
<1>7. ASSUME NEW k \in Job, LeaseLapses(k) \/ BecomesDue(k) PROVE LeavesSome
  BY <1>0, <1>7 DEF LeaseLapses, BecomesDue, LeavesSome, Row
<1>8. CASE UNCHANGED job
  BY <1>8 DEF LeavesSome
<1>9. QED
  BY <1>1, <1>2, <1>3, <1>4, <1>5, <1>6, <1>7, <1>8 DEF QuietAction

Moved == {j \in Job : Outcome(j)' # Outcome(j)}

LEMMA MovesOrStutters ==
    ASSUME JobsTypeOK, JobsTypeOK', OpensSome \/ LeavesSome, UNCHANGED replies
    PROVE  Abstract!Next
<1>0. /\ \A j \in Job : job[j].status \in {"absent"} \cup Open \cup Ended
      /\ \A j \in Job : job'[j].status \in {"absent"} \cup Open \cup Ended
  BY DEF JobsTypeOK, Row
<1>1. ASSUME NEW j \in Job
      PROVE  /\ Outcome(j) = "none" <=> job[j].status = "absent"
             /\ Outcome(j) = "open" <=> job[j].status \in Open
             /\ Outcome(j) = "left" <=> job[j].status \in {"dead", "cancelled"}
  BY <1>0 DEF Outcome, Open, Queued, Active, Ended
<1>2. ASSUME NEW j \in Job
      PROVE  /\ job'[j].status \in Open => Outcome(j)' = "open"
             /\ job'[j].status \in {"dead", "cancelled"} => Outcome(j)' = "left"
             /\ job'[j].status = job[j].status => Outcome(j)' = Outcome(j)
  <2>1. job'[j].status \in Open => Outcome(j)' = "open"
    BY DEF Outcome, Open, Queued, Active
  <2>2. job'[j].status \in {"dead", "cancelled"} => Outcome(j)' = "left"
    BY DEF Outcome, Open, Queued, Active
  <2>3. job'[j].status = job[j].status => Outcome(j)' = Outcome(j)
    BY DEF Outcome
  <2>4. QED
    BY <2>1, <2>2, <2>3
<1>3. CASE OpensSome
  <2>1. \A j \in Moved : Outcome(j) = "none" /\ Outcome(j)' = "open"
    BY <1>1, <1>2, <1>3 DEF OpensSome, Moved
  <2>2. Abstract!Move(Moved, "none", "open")
    BY <2>1 DEF Abstract!Move, Moved
  <2>3. QED
    BY <2>2 DEF Abstract!Next, Moved
<1>4. CASE LeavesSome
  <2>1. \A j \in Moved : Outcome(j) = "open" /\ Outcome(j)' = "left"
    BY <1>1, <1>2, <1>4 DEF LeavesSome, Moved
  <2>2. Abstract!Move(Moved, "open", "left")
    BY <2>1 DEF Abstract!Move, Moved
  <2>3. QED
    BY <2>2 DEF Abstract!Next, Moved
<1>5. QED
  BY <1>3, <1>4

LEMMA CommitReplies ==
    ASSUME ReplyTypeOK, NEW w \in Worker, Commit(w)
    PROVE  Abstract!Next
<1>0. JobsTypeOK /\ job \in [Job -> Row]
  BY DEF ReplyTypeOK, JobsTypeOK
<1>1. PICK m \in Job : m = lease[w].msg
  BY LeaseTyped DEF Commit, Busy, Lease
<1>2. job[m].status \in Open /\ job' = [job EXCEPT ![m] = Left(job[m], "completed")]
  BY <1>1 DEF Commit, CompleteJob, Holds, Open
<1>3. job'[m].status = "completed" /\ \A j \in Job \ {m} : job'[j] = job[j]
  BY <1>0, <1>1, <1>2 DEF Left
<1>4. Outcome(m) = "open"
  BY <1>0, <1>1, <1>2, OutcomeOf
<1>5. Outcome(m)' = "replied"
  BY <1>3 DEF Outcome, Open, Queued, Active
<1>6. ASSUME NEW j \in Job \ {m} PROVE Outcome(j)' = Outcome(j)
  BY <1>3 DEF Outcome
<1>7. Abstract!Reply(m)
  <2>1. replies' = replies \cup {m}
    BY <1>1 DEF Commit
  <2>2. [j \in Job |-> Outcome(j)]' = [[j \in Job |-> Outcome(j)] EXCEPT ![m] = "replied"]
    BY <1>1, <1>5, <1>6
  <2>3. QED
    BY <1>1, <1>4, <2>1, <2>2 DEF Abstract!Reply
<1>8. QED
  BY <1>1, <1>7 DEF Abstract!Next

(* The replies implement SingleReply: a message is taken up once at most,  *)
(* and its job ends once, with a reply exactly when it is completed.       *)
THEOREM OneReply == Spec => OneReplyEach
<1>1. Init => Abstract!Init
  BY DEF Init, JobsInit, Absent, Outcome, Abstract!Init
<1>2. ASSUME ReplyInv, [Next]_replyVars
      PROVE  [Abstract!Next]_<<Outcomes, replies>>
  <2>1. ASSUME NEW w \in Worker, Commit(w) PROVE Abstract!Next
    BY <1>2, <2>1, CommitReplies DEF ReplyInv
  <2>2. CASE QuietAction /\ replies' = replies
    BY <1>2, <2>2, InvStep, StatusChange, MovesOrStutters DEF ReplyInv, ReplyTypeOK
  <2>3. QED
    BY <1>2, <2>1, <2>2, StepsQuiet, RepliesChange DEF ReplyInv
<1>3. Init => ReplyInv
  BY InitInv
<1>4. ReplyInv /\ [Next]_replyVars => ReplyInv'
  BY InvStep
<1>5. QED
  BY <1>1, <1>2, <1>3, <1>4, PTL DEF Spec, OneReplyEach, Abstract!Spec, Outcomes

=============================================================================
