----------------------------- MODULE AutoReply -----------------------------
(***************************************************************************)
(* Automatic replies to the inbound text messages of one conversation:     *)
(* WhatsAppEventService.process and AutoReplyReconciler enqueue jobs, the  *)
(* AutoReplyWorker (ai/auto_reply_worker.py) claims one, asks the model    *)
(* without a transaction, and commits the reply into the outbox.           *)
(*                                                                         *)
(* Messages are numbered in the order in which the contact wrote them; the *)
(* job of message m is row m. The outbox is what the model of the outbox   *)
(* shows it to be: it sends or fails a row once. Left out: the lookback of *)
(* 72 hours, messages that are not text, deleted conversations.            *)
(***************************************************************************)
EXTENDS AnalysisJobs

CONSTANTS BatchSize, NoLease

VARIABLES
    arrival,   \* arrival[m]: how far message m came
    enabled,   \* account enabled, online and "auto", conversation and contact too
    phase,     \* phase[w]: where worker w stands in run_once
    lease,     \* lease[w]: the JobLease, and job_version as "held"
    replies,   \* messages with an outbox row auto-reply-outbox:<job id>
    answered,  \* messages with a later outbound that has its occurred_at
    addressed, \* messages with a later outbound by occurred_at or created_at
    calls,     \* history: how often the model was asked about m
    late       \* history: messages answered between recheck and commit

outVars == <<replies, answered, addressed, late>>
replyVars == <<job, arrival, enabled, phase, lease, calls, outVars>>

-----------------------------------------------------------------------------
Lease == [msg : Job, claimed : Nat, held : Nat]

ASSUME ReplyAssumption ==
    /\ Job \subseteq Nat
    /\ BatchSize \in Nat
    /\ NoLease \notin Lease

Busy == {"claimed", "started", "declining", "asking", "rechecked", "failing", "rejected"}

(* Types; a worker is busy exactly while it has a lease, and what counts   *)
(* as answered for the worker does so for the reconciler.                  *)
ReplyTypeOK ==
    /\ JobsTypeOK
    /\ arrival \in [Job -> {"unwritten", "written", "stored", "handled"}]
    /\ enabled \in BOOLEAN
    /\ phase \in [Worker -> {"idle"} \cup Busy]
    /\ lease \in [Worker -> Lease \cup {NoLease}]
    /\ \A w \in Worker : phase[w] \in Busy <=> lease[w] # NoLease
    /\ replies \subseteq Job
    /\ answered \subseteq addressed /\ addressed \subseteq Job
    /\ calls \in [Job -> Nat]
    /\ late \subseteq answered

Init ==
    /\ JobsInit
    /\ arrival = [m \in Job |-> "unwritten"]
    /\ enabled = TRUE
    /\ phase = [w \in Worker |-> "idle"]
    /\ lease = [w \in Worker |-> NoLease]
    /\ replies = {}
    /\ answered = {} /\ addressed = {} /\ late = {}
    /\ calls = [m \in Job |-> 0]

-----------------------------------------------------------------------------
(* Messages come in.                                                       *)
Written == {m \in Job : arrival[m] # "unwritten"}

ContactWrites(m) ==
    /\ arrival[m] = "unwritten"
    /\ \A k \in Job : k < m => arrival[k] # "unwritten"
    /\ arrival' = [arrival EXCEPT ![m] = "written"]
    /\ UNCHANGED <<job, enabled, phase, lease, calls, outVars>>

(* history.messages.upsert stores a message and enqueues nothing.          *)
Import(m) ==
    /\ arrival[m] = "written"
    /\ arrival' = [arrival EXCEPT ![m] = "stored"]
    /\ UNCHANGED <<job, enabled, phase, lease, calls, outVars>>

(* decide_auto_reply                                                       *)
Decided(S) == IF enabled THEN S ELSE {}

(* message.upsert: the row and its job in the transaction of the event.    *)
Receive(m) ==
    /\ arrival[m] \in {"written", "stored"}
    /\ arrival' = [arrival EXCEPT ![m] = "handled"]
    /\ Enqueue(Decided({m}))
    /\ UNCHANGED <<enabled, phase, lease, calls, outVars>>

Unanswered == {m \in Job : arrival[m] \in {"stored", "handled"}} \ addressed

(* The oldest of S, as many as a batch takes.                              *)
Batch(S) == {m \in S : Cardinality({k \in S : k < m}) < BatchSize}

Reconcile ==
    /\ Enqueue(Decided(Batch(Unanswered)))
    /\ UNCHANGED <<arrival, enabled, phase, lease, calls, outVars>>

(* The settings change, or the account goes offline or online.             *)
PolicyChanges ==
    /\ enabled' = ~enabled
    /\ UNCHANGED <<job, arrival, phase, lease, calls, outVars>>

-----------------------------------------------------------------------------
(* The worker.                                                             *)
Goes(w, p) == phase' = [phase EXCEPT ![w] = p]

Drops(w) ==
    /\ Goes(w, "idle")
    /\ lease' = [lease EXCEPT ![w] = NoLease]

Claim(w, m) ==
    /\ phase[w] = "idle"
    /\ ClaimJob(w, m)
    /\ Goes(w, "claimed")
    /\ lease' = [lease EXCEPT ![w] =
                   [msg |-> m, claimed |-> job'[m].version, held |-> job'[m].version]]
    /\ UNCHANGED <<arrival, enabled, calls, outVars>>

(* _recover_if_due                                                         *)
Recover(w) ==
    /\ phase[w] = "idle"
    /\ RecoverJobs
    /\ UNCHANGED <<arrival, enabled, phase, lease, calls, outVars>>

Start(w) ==
    /\ phase[w] = "claimed"
    /\ StartJob(w, lease[w].msg, lease[w].held)
    /\ Goes(w, "started")
    /\ lease' = [lease EXCEPT ![w].held = @ + 1]
    /\ UNCHANGED <<arrival, enabled, calls, outVars>>

(* The second read of _process: policy, account, later outbound messages.  *)
Declines(m) == ~enabled \/ m \in answered

Check(w) ==
    /\ phase[w] = "started"
    /\ IF Declines(lease[w].msg)
       THEN Goes(w, "declining") /\ UNCHANGED calls
       ELSE /\ Goes(w, "asking")
            /\ calls' = [calls EXCEPT ![lease[w].msg] = @ + 1]
    /\ UNCHANGED <<job, arrival, enabled, lease, outVars>>

(* AIProviderError with retryable = False; Raises has the other errors.    *)
ModelRefuses(w) ==
    /\ phase[w] = "asking"
    /\ Goes(w, "rejected")
    /\ UNCHANGED <<job, arrival, enabled, lease, calls, outVars>>

(* Mutant: no look at what happened while the model was thinking.          *)
RecheckNothing(w) ==
    /\ phase[w] = "asking"
    /\ Goes(w, "rechecked")
    /\ UNCHANGED <<job, arrival, enabled, lease, calls, outVars>>

(* The model has answered; the third transaction reads the outbound        *)
(* messages once more, ...                                                 *)
Recheck(w) ==
    /\ phase[w] = "asking"
    /\ Goes(w, IF lease[w].msg \in answered THEN "declining" ELSE "rechecked")
    /\ UNCHANGED <<job, arrival, enabled, lease, calls, outVars>>

(* Mutant: the rows changed by complete are not counted.                   *)
CommitAnyway(w) ==
    LET m == lease[w].msg IN
    /\ phase[w] = "rechecked"
    /\ job' = IF Holds(w, m, lease[w].held, Active)
              THEN [job EXCEPT ![m] = Left(@, "completed")] ELSE job
    /\ replies' = replies \cup {m}
    /\ addressed' = addressed \cup Written
    /\ Drops(w)
    /\ UNCHANGED <<arrival, enabled, calls, answered, late>>

(* ... and commits the outbox row together with the end of the job.        *)
Commit(w) ==
    LET m == lease[w].msg IN
    /\ phase[w] = "rechecked"
    /\ CompleteJob(w, m, lease[w].held)
    /\ replies' = replies \cup {m}
    /\ addressed' = addressed \cup Written
    /\ Drops(w)
    /\ UNCHANGED <<arrival, enabled, calls, answered, late>>

Decline(w) ==
    /\ phase[w] = "declining"
    /\ CancelJob(lease[w].msg, lease[w].held)
    /\ Drops(w)
    /\ UNCHANGED <<arrival, enabled, calls, outVars>>

(* JobConflict, an error of the database or one of the model that can be   *)
(* retried ends _process: the transaction is rolled back, and run_once     *)
(* catches the exception.                                                  *)
Raises(w) ==
    /\ phase[w] \in {"claimed", "started", "declining", "asking", "rechecked"}
    /\ Goes(w, "failing")
    /\ UNCHANGED <<job, arrival, enabled, lease, calls, outVars>>

(* _fail writes with the version of the claim, which start has replaced.   *)
Fail(w) ==
    LET m == lease[w].msg
        v == lease[w].claimed IN
    /\ phase[w] \in {"failing", "rejected"}
    /\ \/ FailJob(w, m, v)
       \/ ~Holds(w, m, v, Active) /\ UNCHANGED job
    /\ Drops(w)
    /\ UNCHANGED <<arrival, enabled, calls, outVars>>

(* The process dies and another, with a new worker_id, takes its place.    *)
(* The name w is used again: by then the version has moved on.             *)
Dies(w) ==
    /\ phase[w] # "idle"
    /\ Drops(w)
    /\ UNCHANGED <<job, arrival, enabled, calls, outVars>>

TimePasses(m) ==
    /\ LeaseLapses(m) \/ BecomesDue(m)
    /\ UNCHANGED <<arrival, enabled, phase, lease, calls, outVars>>

-----------------------------------------------------------------------------
(* What goes out.                                                          *)
Rechecked(m) == \E w \in Worker : phase[w] = "rechecked" /\ lease[w].msg = m

(* An outbound message written before message k + 1 has its occurred_at:   *)
(* the outbox delivered one of replies or of an operator, or one written   *)
(* on the phone is reported, perhaps late.                                 *)
Delivered(k) ==
    LET S == {m \in Written : m <= k} IN
    /\ answered' = answered \cup S
    /\ addressed' = addressed \cup S
    /\ late' = late \cup {m \in S \ answered : Rechecked(m)}
    /\ UNCHANGED <<job, arrival, enabled, phase, lease, calls, replies>>

(* An operator's message waits in the outbox; it may fail there.           *)
OperatorWrites ==
    /\ addressed' = addressed \cup Written
    /\ UNCHANGED <<job, arrival, enabled, phase, lease, calls, replies, answered, late>>

-----------------------------------------------------------------------------
Run(w) ==
    \/ Start(w) \/ Check(w) \/ ModelRefuses(w) \/ Recheck(w)
    \/ Commit(w) \/ Decline(w) \/ Raises(w) \/ Fail(w)

Inbox ==
    \/ \E m \in Job : ContactWrites(m) \/ Import(m) \/ Receive(m)
    \/ Reconcile
    \/ PolicyChanges

Next ==
    \/ Inbox
    \/ OperatorWrites
    \/ \E w \in Worker :
         \/ \E m \in Job : Claim(w, m)
         \/ Recover(w) \/ Run(w) \/ Dies(w)
    \/ \E m \in Job : Delivered(m) \/ TimePasses(m)

(* The loop of the worker runs as long as its process, which systemd       *)
(* starts again; the client of the model has timeouts; time passes.        *)
Fairness ==
    /\ \A w \in Worker : WF_replyVars(Run(w))
    /\ WF_replyVars(\E w \in Worker, m \in Job : Claim(w, m))
    /\ WF_replyVars(\E w \in Worker : Recover(w))
    /\ \A m \in Job : WF_replyVars(TimePasses(m))

Spec == Init /\ [][Next]_replyVars
FairSpec == Spec /\ Fairness

-----------------------------------------------------------------------------
(* Properties.                                                             *)

Outcome(m) ==
    CASE job[m].status = "absent" -> "none"
      [] job[m].status \in Open -> "open"
      [] job[m].status = "completed" -> "replied"
      [] OTHER -> "left"

Abstract == INSTANCE SingleReply WITH
    Inbound <- Job,
    outcome <- [m \in Job |-> Outcome(m)],
    replies <- replies

(* At most one automatic reply to a message, written in the transaction    *)
(* that ends its job, whoever claims, recovers, cancels or dies; a job     *)
(* that ended stays as it is (AutoReplyWorker._process, phase three).      *)
OneReplyEach == Abstract!Spec

Stale(w) == lease[w] # NoLease /\ job[lease[w].msg].version # lease[w].held

(* A worker whose job was recovered, cancelled or claimed by another       *)
(* changes neither the job nor the outbox (_lease_cas and cancel).         *)
StaleChangesNothing ==
    [][\A w \in Worker :
         Stale(w) /\ lease'[w] # lease[w] => UNCHANGED <<job, replies>>]_replyVars

(* The model is asked at most max_attempts times about a message, deaths   *)
(* and recoveries included (claim_next counts the attempt).                *)
CallsBounded == \A m \in Job : calls[m] <= MaxAttempts[m]

(* No automatic reply is queued for a message that had been answered       *)
(* before the recheck: the window left is the commit itself.               *)
PreemptedInTime ==
    [][(replies' \ replies) \cap answered \subseteq late]_replyVars

(* Every job ends: it is answered, cancelled or dead in the end.           *)
JobsEnd == \A m \in Job : job[m].status \in Open ~> job[m].status \in Ended

=============================================================================
