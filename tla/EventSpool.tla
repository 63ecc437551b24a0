----------------------------- MODULE EventSpool -----------------------------
(***************************************************************************)
(* How the bridge delivers the events of one account: AccountSession's     *)
(* #emitEvent numbers an event and appends it to the FileSpool             *)
(* (events/file-spool.js), and the EventSink (events/event-sink.js) posts  *)
(* one claimed event at a time. The directories pending, inflight and dead *)
(* are sets of events; a file lives in one of them, and its rename is the  *)
(* step between them. Every operation of the spool runs serially.          *)
(*                                                                         *)
(* Left out: corrupt files; enqueue_order, which only orders events of     *)
(* equal sequence; the two writes of release and deadLetter, since a file  *)
(* rewritten but not yet renamed is recovered like one not rewritten.      *)
(***************************************************************************)
EXTENDS Naturals, Events

VARIABLES
    emission,  \* emission[e]: how far #emitEvent got with e
    counter,   \* the file "sequence"
    seq,       \* seq[e]: the sequence e was given, 0 before
    pending, inflight, dead,
    waiting,   \* pending events whose available_at is in the future
    claim,     \* the event the running flush has claimed
    spoolUp,   \* the bridge runs and has recovered this account's spool
    spooled,   \* history: events that were ever appended
    ahead,     \* history: ahead[e]: the smaller sequences spooled when e was
    acked      \* history: events whose post was answered with accepted

dirVars == <<pending, inflight, dead, waiting>>
spoolVars == <<emission, counter, seq, dirVars, claim, spoolUp, spooled, ahead, acked>>

-----------------------------------------------------------------------------
Emission == {"new", "numbered", "spooled", "refused", "lost"}

(* What a post came to: 200 with a well-formed body, 422 or 409, or any    *)
(* other status, a malformed body, a network error or a timeout.           *)
Outcome == {"accepted", "rejected", "failed"}

Stored == pending \cup inflight \cup dead

SpoolTypeOK ==
    /\ emission \in [Event -> Emission]
    /\ counter \in Nat
    /\ seq \in [Event -> Nat]
    /\ pending \subseteq Event
    /\ inflight \subseteq Event
    /\ dead \subseteq Event
    /\ waiting \subseteq Event
    /\ claim \in Event \cup {NoEvent}
    /\ spoolUp \in BOOLEAN
    /\ spooled \subseteq Event
    /\ ahead \in [Event -> SUBSET Event]
    /\ acked \subseteq Event

SpoolInit ==
    /\ emission = [e \in Event |-> "new"]
    /\ counter = 0
    /\ seq = [e \in Event |-> 0]
    /\ pending = {} /\ inflight = {} /\ dead = {} /\ waiting = {}
    /\ claim = NoEvent
    /\ spoolUp = TRUE
    /\ spooled = {}
    /\ ahead = [e \in Event |-> {}]
    /\ acked = {}

-----------------------------------------------------------------------------
(* nextSequence: emitters draw their numbers one after the other, ...      *)
Number(e) ==
    /\ spoolUp
    /\ emission[e] = "new"
    /\ counter' = counter + 1
    /\ seq' = [seq EXCEPT ![e] = counter + 1]
    /\ emission' = [emission EXCEPT ![e] = "numbered"]
    /\ UNCHANGED <<dirVars, claim, spoolUp, spooled, ahead, acked>>

(* Mutant: an emitter may be overtaken between number and append.          *)
AnyToAppend(e) == spoolUp /\ emission[e] = "numbered"

(* ... and queue for the append while the next number is being written     *)
(* (#serial is first in, first out): they append in the order of numbers.  *)
NextToAppend(e) ==
    /\ spoolUp
    /\ emission[e] = "numbered"
    /\ \A d \in Event : emission[d] = "numbered" => seq[e] <= seq[d]

AppendEvent(e) ==
    /\ NextToAppend(e)
    /\ \A d \in Stored : d.key # e.key
    /\ emission' = [emission EXCEPT ![e] = "spooled"]
    /\ pending' = pending \cup {e}
    /\ spooled' = spooled \cup {e}
    /\ ahead' = [ahead EXCEPT ![e] = {d \in spooled : seq[d] < seq[e]}]
    /\ UNCHANGED <<counter, seq, inflight, dead, waiting, claim, spoolUp, acked>>

(* A file of the same key is a conflict: its envelope has another sequence.*)
RefuseConflict(e) ==
    /\ NextToAppend(e)
    /\ \E d \in Stored : d.key = e.key
    /\ emission' = [emission EXCEPT ![e] = "refused"]
    /\ UNCHANGED <<counter, seq, dirVars, claim, spoolUp, spooled, ahead, acked>>

(* Mutant: an event that waits for its backoff is overtaken.               *)
ClaimAnyDue(e) ==
    /\ spoolUp
    /\ claim = NoEvent
    /\ e \in pending \ waiting
    /\ claim' = e
    /\ pending' = pending \ {e}
    /\ inflight' = inflight \cup {e}
    /\ UNCHANGED <<emission, counter, seq, dead, waiting, spoolUp, spooled, ahead, acked>>

(* flushOnce: one flush at a time claims the smallest sequence, or nothing *)
(* while that event waits for its backoff.                                 *)
Claim(e) ==
    /\ spoolUp
    /\ claim = NoEvent
    /\ e \in pending \ waiting
    /\ \A d \in pending : seq[e] <= seq[d]
    /\ claim' = e
    /\ pending' = pending \ {e}
    /\ inflight' = inflight \cup {e}
    /\ UNCHANGED <<emission, counter, seq, dead, waiting, spoolUp, spooled, ahead, acked>>

(* Mutant: a retained file is not moved back.                              *)
SettleForgets(o) ==
    /\ spoolUp
    /\ claim # NoEvent
    /\ inflight' = inflight \ {claim}
    /\ acked' = IF o = "accepted" THEN acked \cup {claim} ELSE acked
    /\ dead' = IF o = "rejected" THEN dead \cup {claim} ELSE dead
    /\ claim' = NoEvent
    /\ UNCHANGED <<emission, counter, seq, pending, waiting, spoolUp, spooled, ahead>>

(* The flush ends: complete, deadLetter or release with a backoff. The     *)
(* file may be back in pending already (see Reopen).                       *)
Settle(o) ==
    /\ spoolUp
    /\ claim # NoEvent
    /\ inflight' = inflight \ {claim}
    /\ acked' = IF o = "accepted" THEN acked \cup {claim} ELSE acked
    /\ dead' = IF o = "rejected" THEN dead \cup {claim} ELSE dead
    /\ pending' = IF o = "failed" THEN pending \cup {claim} ELSE pending
    /\ waiting' = IF o = "failed" THEN waiting \cup {claim} ELSE waiting
    /\ claim' = NoEvent
    /\ UNCHANGED <<emission, counter, seq, spoolUp, spooled, ahead>>

BackoffEnds(e) ==
    /\ e \in waiting
    /\ waiting' = waiting \ {e}
    /\ UNCHANGED <<emission, counter, seq, pending, inflight, dead, claim, spoolUp, spooled, ahead, acked>>

(* The process dies; what was numbered but not appended is gone.           *)
SpoolCrash ==
    /\ spoolUp
    /\ spoolUp' = FALSE
    /\ claim' = NoEvent
    /\ emission' = [e \in Event |-> IF emission[e] = "numbered" THEN "lost" ELSE emission[e]]
    /\ UNCHANGED <<counter, seq, dirVars, spooled, ahead, acked>>

(* Mutant: the inflight files stay where they are.                         *)
RecoverNothing == UNCHANGED <<emission, counter, seq, dirVars, claim, spooled, ahead, acked>>

(* #recoverInflight: every inflight file is renamed back to pending.       *)
Recover ==
    /\ pending' = pending \cup inflight
    /\ inflight' = {}
    /\ UNCHANGED <<emission, counter, seq, dead, waiting, claim, spooled, ahead, acked>>

(* startSpoolReplay recovers the spool of every account before the bridge  *)
(* serves.                                                                 *)
SpoolRestart ==
    /\ ~spoolUp
    /\ spoolUp' = TRUE
    /\ Recover

(* A session created after a deletion starts the stopped sink again, while *)
(* a late emission of the old session may be flushing.                     *)
Reopen ==
    /\ spoolUp
    /\ Recover
    /\ UNCHANGED spoolUp

-----------------------------------------------------------------------------
EmitStep == \E e \in Event : Number(e) \/ AppendEvent(e) \/ RefuseConflict(e)

-----------------------------------------------------------------------------
(* Properties.                                                             *)

(* An event once appended is on disk until it was accepted or set aside,   *)
(* across deaths, recoveries and a sink started again (FileSpool).         *)
NothingLost == spooled \subseteq Stored \cup acked

(* What may be posted: everything ahead of it is settled.                  *)
ClaimInv ==
    /\ spoolUp => inflight \subseteq {claim}
    /\ claim # NoEvent => claim \in spooled /\ ahead[claim] \subseteq acked \cup dead

(* Sequences: the file is never behind a number given out, and numbers     *)
(* differ.                                                                 *)
SequenceInv ==
    /\ \A e \in Event : seq[e] <= counter
    /\ \A d, e \in Event : seq[d] = seq[e] /\ seq[e] # 0 => d = e
    /\ \A e \in Event : emission[e] = "new" <=> seq[e] = 0
    /\ spooled = {e \in Event : emission[e] = "spooled"}
    /\ Stored \cup acked \cup waiting \subseteq spooled

=============================================================================
