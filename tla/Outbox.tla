------------------------------- MODULE Outbox -------------------------------
(***************************************************************************)
(* The transactional outbox of the Python service: the rows of             *)
(* outbox_messages and messages, the OutboxDispatcher workers that claim,  *)
(* deliver and finalize them (outbox.py), and the schedule API that        *)
(* cancels them (api/v1/operations.py).                                    *)
(*                                                                         *)
(* Every database transaction that reads a row, decides and commits later  *)
(* is two actions, because no row lock protects the read: the ORM commits  *)
(* UPDATEs of the changed columns by primary key, with no version check.   *)
(* Time is abstracted to the two comparisons the code makes with it:       *)
(* `due' is available_at <= now and `lapsed' is lease_expires_at <= now.   *)
(* The lease columns matter only while a row is claimed.                   *)
(***************************************************************************)
EXTENDS Messages

CONSTANTS
    Scheduled,    \* the items whose key starts with "schedule:"
    MaxAttempts,  \* OutboxDispatcher.max_attempts
    AttemptsCap,  \* bound: attempts at or above MaxAttempts are alike to every reader
    BatchSize,    \* OutboxDispatcher.batch_size
    Exclusive     \* one dispatcher runs at a time, as in the standalone service

ASSUME OutboxAssumption ==
    /\ Scheduled \subseteq Item
    /\ MaxAttempts \in Nat \ {0}
    /\ AttemptsCap \in Nat
    /\ AttemptsCap >= MaxAttempts
    /\ BatchSize \in Nat \ {0}
    /\ Exclusive \in BOOLEAN

VARIABLES
    outbox,      \* outbox[i]: the row of outbox_messages
    message,     \* message[i]: the row of messages it refers to
    gone,        \* items whose conversation is soft-deleted
    echoed,      \* wa ids held by other messages rows (from-me upserts)
    cancelling,  \* cancelling[i]: message status read by an open cancel request
    phase,       \* phase[w]: where the dispatcher thread is
    todo,        \* todo[w]: claimed ids run_once has not delivered yet
    cur,         \* cur[w]: the outbox id being delivered
    result,      \* result[w]: what the bridge call came to
    read,        \* read[w][i]: attempts of row i as read by the open transaction, 0 if not read
    seen         \* seen[w]: what the finalizing transaction read and may overwrite

rowVars == <<outbox, message>>
apiVars == <<gone, echoed, cancelling>>
workerVars == <<phase, todo, cur, result, read, seen>>
outboxVars == <<rowVars, apiVars, workerVars>>

-----------------------------------------------------------------------------
OutboxStatus == {"absent", "pending", "claimed", "completed", "dead"}
MessageStatus == {"absent", "queued", "sent", "failed"}
Phase == {"off", "idle", "claiming", "working", "calling", "answered", "committing", "stopped"}

Row == [status : OutboxStatus, attempts : 0..AttemptsCap,
        owner : Worker \cup {NoWorker}, lapsed : BOOLEAN, due : BOOLEAN,
        cancelled : BOOLEAN]  \* cancelled: last_error is "schedule_cancelled"
MsgRow == [status : MessageStatus, waId : Id \cup {NoId}]

(* The outcome of _deliver's bridge call: a platform id, or an error the   *)
(* client calls retryable or not.                                          *)
Sent(id) == [kind |-> "sent", id |-> id]
Retryable == [kind |-> "retry", id |-> NoId]
Final == [kind |-> "final", id |-> NoId]
Result == {Sent(id) : id \in Id} \cup {Retryable, Final}

Active(i) == outbox[i].status \in {"pending", "claimed"}
Settled(i) == outbox[i].status \in {"completed", "dead"}
Owns(w, i) == outbox[i].status = "claimed" /\ outbox[i].owner = w
Live(w) == phase[w] \notin {"off", "stopped"}

(* Another messages row of the account already carries this wa id.         *)
Taken(i, id) == id \in echoed \/ \E j \in Item \ {i} : message[j].waId = id

(* Column-level write: the ORM emits no UPDATE for a value it read.        *)
Write(old, known, new) == IF new = known THEN old ELSE new

(* Mutant: the cap is off by one.                                         *)
CountOffByOne(n) == IF n <= AttemptsCap THEN n + 1 ELSE n

Count(n) == IF n < AttemptsCap THEN n + 1 ELSE n

NoRead == [i \in Item |-> 0]
NoMsg == [status |-> "absent", waId |-> NoId]
Seen == [msg : MsgRow, cancelled : BOOLEAN]
Unseen == [msg |-> NoMsg, cancelled |-> FALSE]

OutboxTypeOK ==
    /\ outbox \in [Item -> Row]
    /\ message \in [Item -> MsgRow]
    /\ gone \in SUBSET Item
    /\ echoed \in SUBSET Id
    /\ cancelling \in [Item -> MessageStatus]
    /\ phase \in [Worker -> Phase]
    /\ todo \in [Worker -> SUBSET Item]
    /\ cur \in [Worker -> Item \cup {NoItem}]
    /\ result \in [Worker -> Result]
    /\ read \in [Worker -> [Item -> 0..AttemptsCap]]
    /\ seen \in [Worker -> Seen]

OutboxInit ==
    /\ outbox = [i \in Item |-> [status |-> "absent", attempts |-> 0, owner |-> NoWorker,
                                 lapsed |-> FALSE, due |-> FALSE, cancelled |-> FALSE]]
    /\ message = [i \in Item |-> NoMsg]
    /\ gone = {}
    /\ echoed = {}
    /\ cancelling = [i \in Item |-> "absent"]
    /\ phase = [w \in Worker |-> "off"]
    /\ todo = [w \in Worker |-> {}]
    /\ cur = [w \in Worker |-> NoItem]
    /\ result = [w \in Worker |-> Retryable]
    /\ read = [w \in Worker |-> NoRead]
    /\ seen = [w \in Worker |-> Unseen]

-----------------------------------------------------------------------------
(* The API and the passage of time.                                        *)

(* Mutant: a known key is accepted again.                                  *)
EnqueueAgain(i) ==
    /\ i \notin gone
    /\ outbox' = [outbox EXCEPT ![i].status = "pending", ![i].due = i \notin Scheduled]
    /\ message' = [message EXCEPT ![i].status = "queued"]
    /\ UNCHANGED <<apiVars, workerVars>>

(* One transaction inserts the pair; a known key returns the existing pair *)
(* and changes nothing. A schedule's run_at lies in the future.            *)
Enqueue(i) ==
    /\ outbox[i].status = "absent"
    /\ i \notin gone
    /\ outbox' = [outbox EXCEPT ![i].status = "pending", ![i].due = i \notin Scheduled]
    /\ message' = [message EXCEPT ![i].status = "queued"]
    /\ UNCHANGED <<apiVars, workerVars>>

(* Mutant: the key's prefix is not checked.                                *)
CancelReadAny(i) ==
    /\ Active(i)
    /\ cancelling[i] = "absent"
    /\ cancelling' = [cancelling EXCEPT ![i] = message[i].status]
    /\ UNCHANGED <<rowVars, gone, echoed, workerVars>>

(* DELETE /schedule/{id}: the check, and the commit that follows it. The   *)
(* call on a row already dead writes what is there and is left out.        *)
CancelRead(i) ==
    /\ i \in Scheduled
    /\ Active(i)
    /\ cancelling[i] = "absent"
    /\ cancelling' = [cancelling EXCEPT ![i] = message[i].status]
    /\ UNCHANGED <<rowVars, gone, echoed, workerVars>>

CancelCommit(i) ==
    /\ cancelling[i] # "absent"
    /\ outbox' = [outbox EXCEPT ![i].status = "dead", ![i].cancelled = TRUE]
    /\ message' = [message EXCEPT ![i].status = Write(@, cancelling[i], "failed")]
    /\ cancelling' = [cancelling EXCEPT ![i] = "absent"]
    /\ UNCHANGED <<gone, echoed, workerVars>>

(* The API process dies between the two.                                   *)
CancelLost(i) ==
    /\ cancelling[i] # "absent"
    /\ cancelling' = [cancelling EXCEPT ![i] = "absent"]
    /\ UNCHANGED <<rowVars, gone, echoed, workerVars>>

(* Soft delete of the conversation, and its revival by the contact page.   *)
DeleteConversation(i) ==
    /\ i \notin gone
    /\ gone' = gone \cup {i}
    /\ UNCHANGED <<rowVars, echoed, cancelling, workerVars>>

ReviveConversation(i) ==
    /\ i \in gone
    /\ gone' = gone \ {i}
    /\ UNCHANGED <<rowVars, echoed, cancelling, workerVars>>

(* A from-me message.upsert: a row that has the wa id is updated, else a   *)
(* new messages row takes it.                                              *)
Echo(id) ==
    /\ id \notin echoed
    /\ \A i \in Item : message[i].waId # id
    /\ echoed' = echoed \cup {id}
    /\ UNCHANGED <<rowVars, gone, cancelling, workerVars>>

BecomesDue(i) ==
    /\ outbox[i].status = "pending" /\ ~outbox[i].due
    /\ outbox' = [outbox EXCEPT ![i].due = TRUE]
    /\ UNCHANGED <<message, apiVars, workerVars>>

LeaseLapses(i) ==
    /\ outbox[i].status = "claimed" /\ ~outbox[i].lapsed
    /\ outbox' = [outbox EXCEPT ![i].lapsed = TRUE]
    /\ UNCHANGED <<message, apiVars, workerVars>>

-----------------------------------------------------------------------------
(* The dispatcher.                                                         *)

(* Mutant: a second dispatcher is started beside a running one.            *)
StartAnother(w) ==
    /\ phase[w] = "off"
    /\ phase' = [phase EXCEPT ![w] = "idle"]
    /\ UNCHANGED <<rowVars, apiVars, todo, cur, result, read, seen>>

Start(w) ==
    /\ phase[w] = "off"
    /\ Exclusive => \A v \in Worker : ~Live(v)
    /\ phase' = [phase EXCEPT ![w] = "idle"]
    /\ UNCHANGED <<rowVars, apiVars, todo, cur, result, read, seen>>

Crash(w) ==
    /\ Live(w)
    /\ phase' = [phase EXCEPT ![w] = "stopped"]
    /\ todo' = [todo EXCEPT ![w] = {}]
    /\ cur' = [cur EXCEPT ![w] = NoItem]
    /\ result' = [result EXCEPT ![w] = Retryable]
    /\ read' = [read EXCEPT ![w] = NoRead]
    /\ seen' = [seen EXCEPT ![w] = Unseen]
    /\ UNCHANGED <<rowVars, apiVars>>

(* _claim_batch, first query: the expired leases, read without a lock.     *)
ReadExpired(w) ==
    /\ phase[w] = "idle"
    /\ read' = [read EXCEPT ![w] =
                  [i \in Item |-> IF outbox[i].status = "claimed" /\ outbox[i].lapsed
                                  THEN outbox[i].attempts ELSE 0]]
    /\ phase' = [phase EXCEPT ![w] = "claiming"]
    /\ UNCHANGED <<rowVars, apiVars, todo, cur, result, seen>>

(* Mutant: expired leases are not recovered.                               *)
ReturnedNone(w) == {i \in Item : read[w][i] > AttemptsCap}

(* The rest of the transaction: the flush returns the rows read as expired *)
(* to pending, whatever they are by now, then up to BatchSize due rows are *)
(* claimed under SKIP LOCKED. A returned row's attempts are the ones read. *)
Returned(w) == {i \in Item : read[w][i] > 0}
Claimable(w) == {i \in Item : outbox[i].due /\ (i \in Returned(w) \/ outbox[i].status = "pending")}

ClaimBatch(w) ==
    /\ phase[w] = "claiming"
    /\ \E batch \in SUBSET Claimable(w) :
         /\ \/ batch = Claimable(w) /\ Cardinality(batch) <= BatchSize
            \/ Cardinality(batch) = BatchSize
         /\ outbox' = [i \in Item |->
              IF i \in batch
              THEN [outbox[i] EXCEPT !.status = "claimed", !.owner = w, !.lapsed = FALSE,
                      !.attempts = Count(IF i \in Returned(w) THEN read[w][i] ELSE @)]
              ELSE IF i \in Returned(w)
              THEN [outbox[i] EXCEPT !.status = "pending", !.owner = NoWorker, !.lapsed = FALSE]
              ELSE outbox[i]]
         /\ todo' = [todo EXCEPT ![w] = batch]
         /\ phase' = [phase EXCEPT ![w] = IF batch = {} THEN "idle" ELSE "working"]
    /\ read' = [read EXCEPT ![w] = NoRead]
    /\ UNCHANGED <<message, apiVars, cur, result, seen>>

(* run_once goes on with the next claimed id, or ends its round.           *)
NextItem(w) ==
    /\ phase' = [phase EXCEPT ![w] = IF todo'[w] = {} THEN "idle" ELSE "working"]
    /\ cur' = [cur EXCEPT ![w] = NoItem]
    /\ result' = [result EXCEPT ![w] = Retryable]
    /\ read' = [read EXCEPT ![w] = NoRead]
    /\ seen' = [seen EXCEPT ![w] = Unseen]

(* _deliver, the reading session: the row may have been lost since.        *)
SkipLost(w) ==
    /\ phase[w] = "working"
    /\ \E i \in todo[w] :
         /\ ~Owns(w, i)
         /\ todo' = [todo EXCEPT ![w] = @ \ {i}]
    /\ NextItem(w)
    /\ UNCHANGED <<rowVars, apiVars>>

RejectInvalid(w) ==
    /\ phase[w] = "working"
    /\ \E i \in todo[w] :
         /\ Owns(w, i)
         /\ i \in gone
         /\ todo' = [todo EXCEPT ![w] = @ \ {i}]
         /\ cur' = [cur EXCEPT ![w] = i]
    /\ phase' = [phase EXCEPT ![w] = "answered"]
    /\ result' = [result EXCEPT ![w] = Final]
    /\ UNCHANGED <<rowVars, apiVars, read, seen>>

CallBridge(w, i) ==
    /\ phase[w] = "working"
    /\ i \in todo[w]
    /\ Owns(w, i)
    /\ i \notin gone
    /\ todo' = [todo EXCEPT ![w] = @ \ {i}]
    /\ cur' = [cur EXCEPT ![w] = i]
    /\ phase' = [phase EXCEPT ![w] = "calling"]
    /\ UNCHANGED <<rowVars, apiVars, result, read, seen>>

(* bridge.send returns an id or raises.                                    *)
Answer(w, r) ==
    /\ phase[w] = "calling"
    /\ phase' = [phase EXCEPT ![w] = "answered"]
    /\ result' = [result EXCEPT ![w] = r]
    /\ UNCHANGED <<rowVars, apiVars, todo, cur, read, seen>>

(* The finalizing transaction reads the row and tests status and owner,    *)
(* not the lease ...                                                       *)
FinalizeRead(w) ==
    /\ phase[w] = "answered"
    /\ IF Owns(w, cur[w])
       THEN /\ phase' = [phase EXCEPT ![w] = "committing"]
            /\ read' = [read EXCEPT ![w][cur[w]] = outbox[cur[w]].attempts]
            /\ seen' = [seen EXCEPT ![w] = [msg |-> message[cur[w]],
                                              cancelled |-> outbox[cur[w]].cancelled]]
            /\ UNCHANGED <<todo, cur, result>>
       ELSE UNCHANGED todo /\ NextItem(w)
    /\ UNCHANGED <<rowVars, apiVars>>

(* ... and commits: the success branch of _deliver, ...                    *)
CommitSent(w) ==
    /\ phase[w] = "committing"
    /\ result[w].kind = "sent"
    /\ ~Taken(cur[w], result[w].id)
    /\ outbox' = [outbox EXCEPT ![cur[w]].status = "completed",
                                ![cur[w]].cancelled = Write(@, seen[w].cancelled, FALSE)]
    /\ message' = [message EXCEPT
         ![cur[w]].status = Write(@, seen[w].msg.status, "sent"),
         ![cur[w]].waId = Write(@, seen[w].msg.waId, result[w].id)]
    /\ UNCHANGED <<todo, apiVars>>
    /\ NextItem(w)

(* ... which the unique index on (account_id, wa_message_id) may refuse:   *)
(* the exception leaves run_once and abandons the rest of the batch, ...   *)
CommitConflict(w) ==
    /\ phase[w] = "committing"
    /\ result[w].kind = "sent"
    /\ Taken(cur[w], result[w].id)
    /\ todo' = [todo EXCEPT ![w] = {}]
    /\ NextItem(w)
    /\ UNCHANGED <<rowVars, apiVars>>

(* ... or _finalize_failure: back to pending after a delay, or dead. The   *)
(* error text it writes differs from the one it read.                      *)
CommitFailure(w) ==
    /\ phase[w] = "committing"
    /\ result[w].kind # "sent"
    /\ LET terminal == result[w].kind = "final" \/ read[w][cur[w]] >= MaxAttempts IN
         /\ outbox' = [outbox EXCEPT ![cur[w]].status = IF terminal THEN "dead" ELSE "pending",
                                     ![cur[w]].due = FALSE,
                                     ![cur[w]].cancelled = FALSE]
         /\ message' = [message EXCEPT ![cur[w]].status =
              Write(@, seen[w].msg.status, IF terminal THEN "failed" ELSE "queued")]
    /\ UNCHANGED <<todo, apiVars>>
    /\ NextItem(w)

-----------------------------------------------------------------------------
ApiStep ==
    \E i \in Item :
        \/ Enqueue(i)
        \/ CancelRead(i)
        \/ CancelCommit(i)
        \/ CancelLost(i)
        \/ DeleteConversation(i)
        \/ ReviveConversation(i)

TimeStep == \E i \in Item : BecomesDue(i) \/ LeaseLapses(i)

(* The steps of a dispatcher that concern the database only.               *)
LocalStep(w) ==
    \/ ReadExpired(w)
    \/ ClaimBatch(w)
    \/ SkipLost(w)
    \/ RejectInvalid(w)
    \/ FinalizeRead(w)
    \/ CommitSent(w)
    \/ CommitConflict(w)
    \/ CommitFailure(w)

(* On its own, the dispatcher meets a bridge that may answer anything.     *)
OutboxNext ==
    \/ ApiStep
    \/ TimeStep
    \/ \E id \in Id : Echo(id)
    \/ \E w \in Worker :
         \/ Start(w)
         \/ Crash(w)
         \/ LocalStep(w)
         \/ \E i \in Item : CallBridge(w, i)
         \/ \E r \in Result : Answer(w, r)

OutboxSpec == OutboxInit /\ [][OutboxNext]_outboxVars

-----------------------------------------------------------------------------
(* Properties.                                                             *)

(* w has the row in hand: claimed in this round, not finalized yet.        *)
InHand(w, i) == i \in todo[w] \/ cur[w] = i

(* With one dispatcher at a time, the rows of a running round stay its own *)
(* until it finalizes them, although their leases lapse and are never      *)
(* renewed (_claim_batch, _deliver); only a cancel takes one away.         *)
RoundKeepsRows ==
    Exclusive => \A w \in Worker, i \in Item :
                    InHand(w, i) => Owns(w, i) \/ outbox[i].status = "dead"

(* With one dispatcher at a time, the two rows of a message that nobody    *)
(* can cancel never tell different stories: the API's status is the one    *)
(* the queue acts on (enqueue_outbox_message, _deliver, _finalize_failure).*)
StatusesAgree ==
    Exclusive => \A i \in Item \ Scheduled :
        /\ outbox[i].status = "absent" <=> message[i].status = "absent"
        /\ Active(i) <=> message[i].status = "queued"
        /\ outbox[i].status = "completed" <=> message[i].status = "sent"
        /\ outbox[i].status = "dead" <=> message[i].status = "failed"

(* The dispatcher has a row open exactly from the call to the commit.      *)
CallInv ==
    \A w \in Worker :
        /\ phase[w] \in {"calling", "answered", "committing"} => cur[w] \in Item \ todo[w]
        /\ phase[w] \in {"off", "idle", "claiming", "stopped"} => todo[w] = {}
        /\ phase[w] \in {"off", "idle", "claiming", "stopped", "working"} => cur[w] = NoItem

(* With one dispatcher at a time: nobody else is running, and what the     *)
(* running one has in hand, or read in its open transaction, is what the   *)
(* database says now, but for a cancel.                                    *)
SoleDispatcherInv ==
    Exclusive =>
        /\ \A v, w \in Worker : Live(v) /\ Live(w) => v = w
        /\ \A w \in Worker, i \in Item \ Scheduled :
             /\ InHand(w, i) => Owns(w, i)
             /\ phase[w] = "claiming" /\ read[w][i] > 0 => outbox[i].status = "claimed"
             /\ phase[w] = "committing" /\ cur[w] = i => seen[w].msg = message[i]

(* What nobody can cancel has no cancel request, and no id before sending. *)
UncancelledInv ==
    \A i \in Item \ Scheduled :
        /\ cancelling[i] = "absent"
        /\ Exclusive /\ message[i].status # "sent" => message[i].waId = NoId

(* For a message that cannot be cancelled, one dispatcher at a time gives  *)
(* the client the lifecycle of the abstract specification.                 *)
Lifecycle == INSTANCE MessageLifecycle WITH
    Accepted <- Item \ Scheduled,
    status <- [i \in Item \ Scheduled |-> message[i].status],
    waId <- [i \in Item \ Scheduled |-> message[i].waId]

LifecycleKept == Lifecycle!Spec

=============================================================================
