---------------------------- MODULE AnalysisJobs ----------------------------
(***************************************************************************)
(* The table analysis_jobs and the operations of AnalysisJobRepository     *)
(* (ai/job_repository.py). Every operation is one conditional UPDATE in a  *)
(* transaction of its own; a holder is recognised by the owner and the     *)
(* version it was given, and every write raises the version.               *)
(*                                                                         *)
(* Left out: parent jobs, budgets and heartbeat, which nothing in src/     *)
(* uses; the limits on active and queued jobs (4 and 100), which only      *)
(* delay a claim or an enqueue; priorities, which are all equal.           *)
(***************************************************************************)
EXTENDS Naturals, FiniteSets

CONSTANTS
    Job,         \* possible rows, one for each idempotency key
    Worker, NoWorker,
    MaxAttempts  \* the column max_attempts of each row

ASSUME JobsAssumption ==
    /\ IsFiniteSet(Worker) /\ NoWorker \notin Worker
    /\ MaxAttempts \in [Job -> Nat \ {0}]

VARIABLE job     \* job[j]: the row; due and lapsed compare its times with now

-----------------------------------------------------------------------------
Queued == {"pending", "retry"}
Active == {"claimed", "running"}
Open == Queued \cup Active
Ended == {"completed", "dead", "cancelled"}

Row == [status : {"absent"} \cup Open \cup Ended,
        version : Nat,
        owner : Worker \cup {NoWorker},
        attempts : Nat,
        due : BOOLEAN,
        lapsed : BOOLEAN]

Absent == [status |-> "absent", version |-> 0, owner |-> NoWorker,
           attempts |-> 0, due |-> FALSE, lapsed |-> FALSE]

(* Types, with the constraint analysis_jobs_attempts_valid, and an owner   *)
(* exactly while a lease is held.                                          *)
JobsTypeOK ==
    /\ job \in [Job -> Row]
    /\ \A j \in Job : /\ job[j].attempts <= MaxAttempts[j]
                      /\ job[j].owner # NoWorker <=> job[j].status \in Active
                      /\ job[j].status = "absent" => job[j] = Absent

Fresh == [status |-> "pending", version |-> 1, owner |-> NoWorker,
          attempts |-> 0, due |-> TRUE, lapsed |-> FALSE]

JobsInit == job = [j \in Job |-> Absent]

-----------------------------------------------------------------------------
(* enqueue for each of S; a key that exists keeps its row.                 *)
Enqueue(S) ==
    job' = [j \in Job |-> IF j \in S /\ job[j].status = "absent" THEN Fresh ELSE job[j]]

(* Mutant: the attempt is counted when it fails.                           *)
ClaimUncounted(w, j) ==
    /\ job[j].status \in Queued
    /\ job[j].due
    /\ job[j].attempts < MaxAttempts[j]
    /\ job' = [job EXCEPT ![j].status = "claimed", ![j].owner = w, ![j].lapsed = FALSE,
                          ![j].version = @ + 1]

(* claim_next: with equal priorities any due job may come first.           *)
ClaimJob(w, j) ==
    /\ job[j].status \in Queued
    /\ job[j].due
    /\ job[j].attempts < MaxAttempts[j]
    /\ job' = [job EXCEPT ![j].status = "claimed", ![j].owner = w, ![j].lapsed = FALSE,
                          ![j].attempts = @ + 1, ![j].version = @ + 1]

(* Mutant: any unexpired lease will do.                                    *)
HoldsAny(w, j, v, S) == job[j].status \in S /\ ~job[j].lapsed

(* The condition of _lease_cas; JobConflict is raised when it fails.       *)
Holds(w, j, v, S) ==
    /\ job[j].owner = w
    /\ job[j].version = v
    /\ job[j].status \in S
    /\ ~job[j].lapsed

(* What completion, failure, cancellation and recovery have in common.     *)
Left(r, s) ==
    [status |-> s, version |-> r.version + 1, owner |-> NoWorker,
     attempts |-> r.attempts, due |-> r.due, lapsed |-> FALSE]

AfterFailure(j) == IF job[j].attempts < MaxAttempts[j] THEN "retry" ELSE "dead"

StartJob(w, j, v) ==
    /\ Holds(w, j, v, {"claimed"})
    /\ job' = [job EXCEPT ![j].status = "running", ![j].version = @ + 1]

CompleteJob(w, j, v) ==
    /\ Holds(w, j, v, Active)
    /\ job' = [job EXCEPT ![j] = Left(@, "completed")]

(* fail: a retry waits for its backoff.                                    *)
FailJob(w, j, v) ==
    /\ Holds(w, j, v, Active)
    /\ job' = [job EXCEPT ![j] = [Left(@, AfterFailure(j)) EXCEPT !.due = FALSE]]

(* The condition of cancel, which asks for no lease.                       *)
Cancellable(j, v) == job[j].version = v /\ job[j].status \in Open

CancelJob(j, v) ==
    /\ Cancellable(j, v)
    /\ job' = [job EXCEPT ![j] = Left(@, "cancelled")]

(* Mutant: a job that was started is never recovered.                      *)
LapsedClaims == {j \in Job : job[j].status = "claimed" /\ job[j].lapsed}

Lapsed == {j \in Job : job[j].status \in Active /\ job[j].lapsed}

(* recover_expired_leases: all of them in one transaction, due at once.    *)
RecoverJobs ==
    /\ Lapsed # {}
    /\ job' = [j \in Job |-> IF j \in Lapsed
                             THEN [Left(job[j], AfterFailure(j)) EXCEPT !.due = TRUE]
                             ELSE job[j]]

(* Time passes: a lease runs out, a backoff ends.                          *)
LeaseLapses(j) ==
    /\ job[j].status \in Active
    /\ ~job[j].lapsed
    /\ job' = [job EXCEPT ![j].lapsed = TRUE]

BecomesDue(j) ==
    /\ job[j].status \in Queued
    /\ ~job[j].due
    /\ job' = [job EXCEPT ![j].due = TRUE]

=============================================================================
