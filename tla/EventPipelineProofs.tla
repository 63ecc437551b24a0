------------------------ MODULE EventPipelineProofs ------------------------
(***************************************************************************)
(* For any number of events, threads and faults: events take effect once   *)
(* and in order, the account has the status of the latest of them, the     *)
(* counter of unread messages is right, and receipts never step back.      *)
(***************************************************************************)
EXTENDS EventPipeline, FiniteSetTheorems, TLAPS

(* What is ahead of an event is what has a smaller sequence: appends come  *)
(* in the order of numbers.                                                *)
OrderInv ==
    /\ \A d \in spooled, e \in Event : emission[e] = "numbered" => seq[d] < seq[e]
    /\ \A e \in spooled : ahead[e] = {d \in spooled : seq[d] < seq[e]}

SpoolInv == SpoolTypeOK /\ SequenceInv /\ OrderInv /\ NothingLost /\ ClaimInv

(* Whatever thread still works on it, an event that was posted has nothing *)
(* unsettled ahead of it.                                                  *)
Posted(e) == e \in spooled /\ ahead[e] \subseteq Recorded \cup dead

ThreadInv ==
    \A s \in Slot : LET r == request[s] IN
        r.phase # "free" =>
            /\ Posted(r.event)
            /\ r.seq = seq[r.event]
            /\ r.phase = "done" /\ r.answer \in {"accepted", "duplicate"} => r.event \in Recorded

ConnInv ==
    /\ conn \in Slot \cup {NoSlot}
    /\ conn # NoSlot => /\ claim # NoEvent
                        /\ request[conn].phase # "free"
                        /\ request[conn].event = claim

RecordedInv ==
    /\ \A e \in Recorded : Posted(e) /\ stored[e] = seq[e]
    /\ ForgottenIsRecorded

PipelineInv == SpoolInv /\ ReceiverTypeOK /\ ThreadInv /\ ConnInv /\ RecordedInv

(* A transaction on a status that is not recorded yet has read what the    *)
(* account still is: nothing that could change it can commit before. And a *)
(* status is never answered with a 409.                                    *)
StatusThreadOK(s) ==
    LET r == request[s] IN
    r.phase # "free" /\ r.event.kind = "status" =>
        /\ r.phase = "done" => r.answer \notin {"conflict", "missing"}
        /\ r.phase \in {"open", "reopened"} /\ r.event \notin Recorded =>
              r.last = account.last /\ r.status = account.status

StatusInv ==
    /\ StatusFollowsSequence
    /\ \A e \in dead : e.kind # "status"
    /\ \A s \in Slot : StatusThreadOK(s)

-----------------------------------------------------------------------------
(* Every step is one step of the spool at most, and one of the receiver.   *)

SpoolAction ==
    \/ \E e \in Event : Number(e) \/ AppendEvent(e) \/ RefuseConflict(e) \/ Claim(e) \/ BackoffEnds(e)
    \/ \E o \in Outcome : Settle(o)
    \/ SpoolCrash
    \/ SpoolRestart
    \/ Reopen
    \/ UNCHANGED spoolVars

LEMMA ClassifyOutcome == ASSUME NEW a PROVE Classify(a) \in Outcome
BY DEF Classify, Outcome

LEMMA StepsSpool == ASSUME [Next]_vars PROVE SpoolAction
<1>1. ASSUME NEW s \in Slot, Reply(s) PROVE SpoolAction
  BY <1>1, ClassifyOutcome DEF Reply, SpoolAction
<1>2. CASE TimesOut
  BY <1>2 DEF TimesOut, SpoolAction, Outcome
<1>3. CASE ServiceDies
  BY <1>3 DEF ServiceDies, SpoolAction, Outcome
<1>4. CASE Emit \/ ClaimNext \/ Restart \/ \E e \in Event : TimerFires(e)
  BY <1>4 DEF Emit, EmitStep, ClaimNext, Restart, TimerFires, SpoolAction
<1>5. CASE BridgeDies \/ SessionReopened
  BY <1>5 DEF BridgeDies, SessionReopened, SpoolAction
<1>6. CASE TransactionFails \/ Elsewhere \/ UNCHANGED vars
  BY <1>6 DEF TransactionFails, Elsewhere, vars, SpoolAction
<1>7. CASE \E s \in Slot : Post(s) \/ Unheard(s) \/ Handle(s)
  BY <1>7 DEF Post, Unheard, Handle, SpoolAction
<1> QED BY <1>1, <1>2, <1>3, <1>4, <1>5, <1>6, <1>7 DEF Next

LEMMA SpoolTypes ==
  ASSUME SpoolTypeOK, SpoolAction PROVE SpoolTypeOK'
<1> USE DEF SpoolTypeOK, Emission
<1>1. ASSUME NEW e \in Event, Number(e) PROVE SpoolTypeOK'
  BY <1>1 DEF Number, dirVars
<1>2. ASSUME NEW e \in Event, AppendEvent(e) PROVE SpoolTypeOK'
  <2>1. {d \in spooled : seq[d] < seq[e]} \in SUBSET Event
    OBVIOUS
  <2> QED BY <1>2, <2>1 DEF AppendEvent, NextToAppend
<1>3. ASSUME NEW e \in Event, RefuseConflict(e) PROVE SpoolTypeOK'
  BY <1>3 DEF RefuseConflict, NextToAppend, dirVars
<1>4. ASSUME NEW e \in Event, Claim(e) PROVE SpoolTypeOK'
  BY <1>4 DEF Claim
<1>5. ASSUME NEW e \in Event, BackoffEnds(e) PROVE SpoolTypeOK'
  BY <1>5 DEF BackoffEnds
<1>6. ASSUME NEW o \in Outcome, Settle(o) PROVE SpoolTypeOK'
  BY <1>6 DEF Settle
<1>7. CASE SpoolCrash
  BY <1>7 DEF SpoolCrash, dirVars
<1>8. CASE SpoolRestart \/ Reopen
  BY <1>8 DEF SpoolRestart, Reopen, Recover
<1>9. CASE UNCHANGED spoolVars
  BY <1>9 DEF spoolVars, dirVars
<1> QED BY <1>1, <1>2, <1>3, <1>4, <1>5, <1>6, <1>7, <1>8, <1>9 DEF SpoolAction

LEMMA SpoolSequences ==
  ASSUME SpoolTypeOK, SequenceInv, ClaimInv, SpoolAction PROVE SequenceInv'
<1> USE DEF SpoolTypeOK, SequenceInv, Stored, Emission
<1>1. ASSUME NEW e \in Event, Number(e) PROVE SequenceInv'
  BY <1>1 DEF Number, dirVars
<1>2. ASSUME NEW e \in Event, AppendEvent(e) PROVE SequenceInv'
  BY <1>2 DEF AppendEvent, NextToAppend
<1>3. ASSUME NEW e \in Event, RefuseConflict(e) PROVE SequenceInv'
  BY <1>3 DEF RefuseConflict, NextToAppend, dirVars
<1>4. ASSUME NEW e \in Event, Claim(e) PROVE SequenceInv'
  BY <1>4 DEF Claim
<1>5. ASSUME NEW e \in Event, BackoffEnds(e) PROVE SequenceInv'
  BY <1>5 DEF BackoffEnds
<1>6. ASSUME NEW o \in Outcome, Settle(o) PROVE SequenceInv'
  BY <1>6 DEF Settle, ClaimInv
<1>7. CASE SpoolCrash
  BY <1>7 DEF SpoolCrash, dirVars
<1>8. CASE SpoolRestart \/ Reopen
  BY <1>8 DEF SpoolRestart, Reopen, Recover
<1>9. CASE UNCHANGED spoolVars
  BY <1>9 DEF spoolVars, dirVars
<1> QED BY <1>1, <1>2, <1>3, <1>4, <1>5, <1>6, <1>7, <1>8, <1>9 DEF SpoolAction

(* An append comes after all smaller numbers were appended or given up.    *)
LEMMA SpoolOrder ==
  ASSUME SpoolTypeOK, SequenceInv, OrderInv, SpoolAction PROVE OrderInv'
<1> USE DEF SpoolTypeOK, SequenceInv, OrderInv, Emission
<1>1. ASSUME NEW e \in Event, Number(e) PROVE OrderInv'
  BY <1>1 DEF Number, dirVars
<1>2. ASSUME NEW e \in Event, AppendEvent(e) PROVE OrderInv'
  <2> USE <1>2 DEF AppendEvent, NextToAppend
  <2>1. e \notin spooled /\ seq[e] # 0
    OBVIOUS
  <2>2. \A d \in spooled : seq[d] < seq[e]
    OBVIOUS
  <2>3. \A d \in Event : emission'[d] = "numbered" => emission[d] = "numbered" /\ d # e
    OBVIOUS
  <2>4. \A d \in Event : emission'[d] = "numbered" => seq[e] < seq[d]
    BY <2>1, <2>3
  <2>5. \A d \in spooled', f \in Event : emission'[f] = "numbered" => seq'[d] < seq'[f]
    BY <2>3, <2>4
  <2>6. ahead'[e] = {d \in spooled' : seq'[d] < seq'[e]}
    OBVIOUS
  <2>7. \A f \in spooled : ahead'[f] = {d \in spooled' : seq'[d] < seq'[f]}
    BY <2>1, <2>2
  <2> QED BY <2>5, <2>6, <2>7
<1>3. ASSUME NEW e \in Event, RefuseConflict(e) PROVE OrderInv'
  BY <1>3 DEF RefuseConflict, NextToAppend, dirVars
<1>4. ASSUME NEW e \in Event, Claim(e) PROVE OrderInv'
  BY <1>4 DEF Claim
<1>5. ASSUME NEW e \in Event, BackoffEnds(e) PROVE OrderInv'
  BY <1>5 DEF BackoffEnds
<1>6. ASSUME NEW o \in Outcome, Settle(o) PROVE OrderInv'
  BY <1>6 DEF Settle
<1>7. CASE SpoolCrash
  BY <1>7 DEF SpoolCrash, dirVars
<1>8. CASE SpoolRestart \/ Reopen
  BY <1>8 DEF SpoolRestart, Reopen, Recover
<1>9. CASE UNCHANGED spoolVars
  BY <1>9 DEF spoolVars, dirVars
<1> QED BY <1>1, <1>2, <1>3, <1>4, <1>5, <1>6, <1>7, <1>8, <1>9 DEF SpoolAction

LEMMA SpoolKeeps ==
  ASSUME SpoolTypeOK, NothingLost, SpoolAction PROVE NothingLost'
<1> USE DEF SpoolTypeOK, NothingLost, Stored
<1>1. ASSUME NEW e \in Event,
             Number(e) \/ AppendEvent(e) \/ RefuseConflict(e) \/ Claim(e) \/ BackoffEnds(e)
      PROVE NothingLost'
  BY <1>1 DEF Number, AppendEvent, RefuseConflict, Claim, BackoffEnds, dirVars
<1>2. ASSUME NEW o \in Outcome, Settle(o) PROVE NothingLost'
  BY <1>2 DEF Settle, Outcome
<1>3. CASE SpoolCrash \/ SpoolRestart \/ Reopen \/ UNCHANGED spoolVars
  BY <1>3 DEF SpoolCrash, SpoolRestart, Reopen, Recover, spoolVars, dirVars
<1> QED BY <1>1, <1>2, <1>3 DEF SpoolAction

(* The claim goes to the smallest sequence on disk, so what is ahead of it *)
(* is not on disk any more.                                                *)
LEMMA SpoolClaims ==
  ASSUME SpoolInv, SpoolAction PROVE ClaimInv'
<1> USE EventsAssumption DEF SpoolInv, SpoolTypeOK, SequenceInv, OrderInv, ClaimInv, Stored
<1>1. ASSUME NEW e \in Event, Number(e) \/ RefuseConflict(e) \/ BackoffEnds(e) PROVE ClaimInv'
  BY <1>1 DEF Number, RefuseConflict, BackoffEnds, dirVars
<1>2. ASSUME NEW e \in Event, AppendEvent(e) PROVE ClaimInv'
  <2>1. claim # NoEvent => claim # e
    BY <1>2 DEF AppendEvent, NextToAppend
  <2> QED BY <1>2, <2>1 DEF AppendEvent, NextToAppend
<1>3. ASSUME NEW e \in Event, Claim(e) PROVE ClaimInv'
  <2> USE <1>3 DEF Claim
  <2>1. inflight = {}
    OBVIOUS
  <2>2. e \in spooled
    OBVIOUS
  <2>3. \A d \in ahead[e] : d \notin pending
    BY <2>2
  <2>4. ahead[e] \subseteq acked \cup dead
    BY <2>1, <2>2, <2>3 DEF NothingLost
  <2> QED BY <2>1, <2>2, <2>4
<1>4. ASSUME NEW o \in Outcome, Settle(o) PROVE ClaimInv'
  BY <1>4 DEF Settle
<1>5. CASE SpoolCrash
  BY <1>5 DEF SpoolCrash, dirVars
<1>6. CASE SpoolRestart \/ Reopen
  BY <1>6 DEF SpoolRestart, Reopen, Recover
<1>7. CASE UNCHANGED spoolVars
  BY <1>7 DEF spoolVars, dirVars
<1> QED BY <1>1, <1>2, <1>3, <1>4, <1>5, <1>6, <1>7 DEF SpoolAction

LEMMA SpoolStep ==
  ASSUME SpoolInv, SpoolAction PROVE SpoolInv'
BY SpoolTypes, SpoolSequences, SpoolOrder, SpoolKeeps, SpoolClaims DEF SpoolInv

LEMMA SpoolStarts == ASSUME SpoolInit PROVE SpoolInv
BY DEF SpoolInit, SpoolInv, SpoolTypeOK, Emission, SequenceInv, OrderInv, NothingLost, ClaimInv, Stored

-----------------------------------------------------------------------------
ReceiverAction ==
    \/ \E s \in Slot : HandlerStep(s) \/ Fail(s) \/ Release(s)
    \/ claim # NoEvent /\ \E s \in Slot : Arrive(s, claim, seq[claim])
    \/ ServerDies
    \/ MarkRead
    \/ \E m \in Msg : IdCommitted(m)
    \/ UNCHANGED receiverVars

LEMMA StepsReceiver == ASSUME [Next]_vars PROVE ReceiverAction
<1>1. ASSUME NEW s \in Slot, Post(s) PROVE ReceiverAction
  BY <1>1 DEF Post, ReceiverAction
<1>2. ASSUME NEW s \in Slot, Reply(s) \/ Unheard(s) PROVE ReceiverAction
  BY <1>2 DEF Reply, Unheard, ReceiverAction
<1>3. ASSUME NEW s \in Slot, Handle(s) PROVE ReceiverAction
  BY <1>3 DEF Handle, ReceiverAction
<1>4. CASE TimesOut \/ BridgeDies \/ SessionReopened
  BY <1>4 DEF TimesOut, BridgeDies, SessionReopened, ReceiverAction
<1>5. CASE ServiceDies
  BY <1>5 DEF ServiceDies, ReceiverAction
<1>6. CASE TransactionFails
  BY <1>6 DEF TransactionFails, ReceiverAction
<1>7. CASE Emit \/ ClaimNext \/ Restart \/ \E e \in Event : TimerFires(e)
  BY <1>7 DEF Emit, ClaimNext, Restart, TimerFires, ReceiverAction
<1>8. CASE Elsewhere
  BY <1>8 DEF Elsewhere, ReceiverAction
<1>9. CASE UNCHANGED vars
  BY <1>9 DEF vars, ReceiverAction
<1> QED BY <1>1, <1>2, <1>3, <1>4, <1>5, <1>6, <1>7, <1>8, <1>9 DEF Next

LEMMA WriteTypes ==
  ASSUME NEW S, NEW old \in S, NEW seen, NEW new \in S PROVE Write(old, seen, new) \in S
BY DEF Write

LEMMA ReceiptTypes ==
  ASSUME NEW old \in MessageStatus, NEW target \in {"sent", "delivered", "read", "failed"}
  PROVE ReceiptTo(old, target) \in MessageStatus
BY DEF ReceiptTo, MessageStatus

(* Records with several fields replaced.                                   *)
LEMMA FinishTypes ==
  ASSUME NEW r \in Requests, NEW a \in Answers
  PROVE [r EXCEPT !.phase = "done", !.answer = a] \in Requests
BY DEF Requests, Phase

LEMMA ReadTypes ==
  ASSUME NEW r \in Requests, NEW p \in Phase, NEW l \in Nat, NEW st \in AccountStatus,
         NEW ms \in MessageStatus, NEW u \in Nat
  PROVE [r EXCEPT !.phase = p, !.last = l, !.status = st, !.row = ms, !.unread = u] \in Requests
BY DEF Requests

LEMMA FreeTypes ==
  ASSUME NEW e \in Event, NEW n \in Nat
  PROVE /\ Free \in Requests
        /\ [Free EXCEPT !.phase = "arrived", !.event = e, !.seq = n] \in Requests
BY DEF Free, Requests, Phase, Answers, AccountStatus, MessageStatus

LEMMA FreeType == Free \in Requests
BY DEF Free, Requests, Phase, Answers, AccountStatus, MessageStatus

LEMMA CommitTypes ==
  ASSUME ReceiverTypeOK, NEW s \in Slot, Commit(s), request[s].event \in Event PROVE ReceiverTypeOK'
<1> DEFINE r == request[s]
<1>1. r \in Requests
  BY DEF ReceiverTypeOK
<1>2. /\ r.seq \in Nat /\ r.last \in Nat /\ r.unread \in Nat
      /\ r.status \in AccountStatus /\ r.row \in MessageStatus
  BY <1>1 DEF Requests
<1>3. request' \in [Slot -> Requests]
  BY <1>1, FinishTypes DEF Commit, Finish, ReceiverTypeOK, Answers
<1>4. stored' \in [Event -> Nat]
  BY <1>2 DEF Commit, ReceiverTypeOK
<1>5. account' \in [status : AccountStatus, last : Nat]
  BY <1>2, WriteTypes, ReceiverAssumption DEF Commit, AccountAfter, ReceiverTypeOK
<1>6. row' \in [Msg -> MessageStatus]
  <2>1. ASSUME NEW m \in Msg, r.event.kind # "status" PROVE RowAfter(r, m) \in MessageStatus
    <3>1. row[m] \in MessageStatus
      BY DEF ReceiverTypeOK
    <3>2. r.event.kind = "receipt" => ReceiptTo(r.row, r.event.says) \in MessageStatus
      BY <1>2, ReceiptTypes, ReceiverAssumption
    <3> QED BY <3>1, <3>2, WriteTypes DEF RowAfter, MessageStatus
  <2> QED BY <2>1 DEF Commit, ReceiverTypeOK
<1>7. unread' \in Nat /\ inbound' \subseteq Msg /\ readAny' \in BOOLEAN
  BY <1>2, ReceiverAssumption DEF Commit, Inserts, ReceiverTypeOK
<1> QED BY <1>3, <1>4, <1>5, <1>6, <1>7 DEF ReceiverTypeOK

LEMMA ReceiverTypes ==
  ASSUME SpoolInv, ThreadInv, ReceiverTypeOK, ReceiverAction PROVE ReceiverTypeOK'
<1>1. \A s \in Slot : request[s] \in Requests
  BY DEF ReceiverTypeOK
<1>2. \A s \in Slot : request[s].phase # "free" => request[s].event \in Event
  BY DEF ThreadInv, Posted, SpoolInv, SpoolTypeOK
<1>3. ASSUME NEW s \in Slot, KnownEvent(s) \/ UnknownMessage(s) \/ Fail(s) \/ Release(s)
      PROVE ReceiverTypeOK'
  <2>1. UNCHANGED tables
    BY <1>3 DEF KnownEvent, UnknownMessage, Fail, Release
  <2>2. (\E a \in Answers : Finish(s, a)) \/ request' = [request EXCEPT ![s] = Free]
    BY <1>3 DEF KnownEvent, UnknownMessage, Fail, Release, Answers
  <2>3. ASSUME NEW a \in Answers, Finish(s, a) PROVE request' \in [Slot -> Requests]
    <3>1. [request[s] EXCEPT !.phase = "done", !.answer = a] \in Requests
      BY <1>1, FinishTypes
    <3> QED BY <2>3, <3>1 DEF Finish, ReceiverTypeOK
  <2>4. request' = [request EXCEPT ![s] = Free] => request' \in [Slot -> Requests]
    BY FreeType DEF ReceiverTypeOK
  <2> QED BY <2>1, <2>2, <2>3, <2>4 DEF tables, ReceiverTypeOK
<1>4. ASSUME NEW s \in Slot, Conflict(s) PROVE ReceiverTypeOK'
  <2>1. [request[s] EXCEPT !.phase = "again"] \in Requests
    BY <1>1 DEF Requests, Phase
  <2> QED BY <1>1, <1>4, <2>1, FinishTypes DEF Conflict, Finish, tables, ReceiverTypeOK, Answers
<1>5. ASSUME NEW s \in Slot, Read(s) PROVE ReceiverTypeOK'
  <2>1. request[s].event.kind # "status" => row[request[s].event.msg] \in MessageStatus
    BY <1>2, <1>5, ReceiverAssumption DEF Read, ReceiverTypeOK
  <2>2. account.last \in Nat /\ account.status \in AccountStatus
    BY DEF ReceiverTypeOK
  <2> DEFINE p == IF request[s].phase = "arrived" THEN "open" ELSE "reopened"
             ms == IF request[s].event.kind = "status" THEN "none" ELSE row[request[s].event.msg]
             new == [request[s] EXCEPT !.phase = p, !.last = account.last, !.status = account.status,
                                       !.row = ms, !.unread = unread]
  <2>3. p \in Phase /\ ms \in MessageStatus /\ unread \in Nat
    BY <2>1 DEF Phase, MessageStatus, ReceiverTypeOK
  <2>4. new \in Requests
    BY <1>1, <2>2, <2>3, ReadTypes
  <2>5. request' = [request EXCEPT ![s] = new] /\ UNCHANGED tables
    BY <1>5 DEF Read
  <2> QED BY <2>4, <2>5 DEF tables, ReceiverTypeOK
<1>6. ASSUME NEW s \in Slot, Commit(s) PROVE ReceiverTypeOK'
  BY <1>2, <1>6, CommitTypes DEF Commit
<1>7. ASSUME NEW s \in Slot, Arrive(s, claim, seq[claim]), claim # NoEvent PROVE ReceiverTypeOK'
  <2>1. claim \in Event /\ seq[claim] \in Nat
    BY <1>7 DEF SpoolInv, SpoolTypeOK
  <2> QED BY <1>7, <2>1, FreeTypes DEF Arrive, tables, ReceiverTypeOK
<1>8. CASE ServerDies
  BY <1>8, FreeType DEF ServerDies, tables, ReceiverTypeOK
<1>9. CASE MarkRead
  BY <1>9 DEF MarkRead, ReceiverTypeOK
<1>10. ASSUME NEW m \in Msg, IdCommitted(m) PROVE ReceiverTypeOK'
  BY <1>10 DEF IdCommitted, ReceiverTypeOK, MessageStatus
<1>11. CASE UNCHANGED receiverVars
  BY <1>11 DEF receiverVars, tables, ReceiverTypeOK
<1> QED BY <1>3, <1>4, <1>5, <1>6, <1>7, <1>8, <1>9, <1>10, <1>11 DEF ReceiverAction, HandlerStep

-----------------------------------------------------------------------------
(* What is settled stays settled.                                          *)

LEMMA SpoolGrows ==
  ASSUME SpoolInv, SpoolAction
  PROVE /\ spooled \subseteq spooled' /\ dead \subseteq dead'
        /\ \A e \in spooled : ahead'[e] = ahead[e] /\ seq'[e] = seq[e]
<1> USE DEF SpoolInv, SpoolTypeOK, SequenceInv
<1>1. ASSUME NEW e \in Event, Number(e) \/ RefuseConflict(e) \/ Claim(e) \/ BackoffEnds(e)
      PROVE /\ spooled = spooled' /\ dead = dead' /\ ahead' = ahead
            /\ \A d \in spooled : seq'[d] = seq[d]
  BY <1>1 DEF Number, RefuseConflict, Claim, BackoffEnds, dirVars
<1>2. ASSUME NEW e \in Event, AppendEvent(e)
      PROVE /\ spooled \subseteq spooled' /\ dead = dead' /\ seq' = seq
            /\ \A d \in spooled : ahead'[d] = ahead[d]
  BY <1>2 DEF AppendEvent, NextToAppend
<1>3. ASSUME NEW o \in Outcome, Settle(o)
      PROVE spooled = spooled' /\ dead \subseteq dead' /\ seq' = seq /\ ahead' = ahead
  BY <1>3 DEF Settle
<1>4. ASSUME SpoolCrash \/ SpoolRestart \/ Reopen \/ UNCHANGED spoolVars
      PROVE spooled = spooled' /\ dead = dead' /\ seq' = seq /\ ahead' = ahead
  BY <1>4 DEF SpoolCrash, SpoolRestart, Reopen, Recover, spoolVars, dirVars
<1> QED BY <1>1, <1>2, <1>3, <1>4 DEF SpoolAction

(* The row of an event is written once, by the commit of its thread.       *)
LEMMA Recording ==
  ASSUME ReceiverAction
  PROVE \/ UNCHANGED stored
        \/ \E s \in Slot : Commit(s)
BY DEF ReceiverAction, HandlerStep, KnownEvent, UnknownMessage, Read, Conflict, Fail, Release, Arrive,
       ServerDies, MarkRead, IdCommitted, receiverVars, tables

LEMMA Numbered ==
  ASSUME SpoolInv, NEW e \in spooled PROVE e \in Event /\ seq[e] \in Nat /\ seq[e] # 0
BY DEF SpoolInv, SpoolTypeOK, SequenceInv

LEMMA CommitRecords ==
  ASSUME PipelineInv, NEW s \in Slot, Commit(s)
  PROVE /\ request[s].event \in Event \ Recorded
        /\ Posted(request[s].event)
        /\ request[s].seq = seq[request[s].event]
        /\ Recorded' = Recorded \cup {request[s].event}
        /\ \A e \in Event : stored'[e] = IF e = request[s].event THEN seq[e] ELSE stored[e]
<1> DEFINE e == request[s].event
<1>1. Posted(e) /\ request[s].seq = seq[e]
  BY DEF Commit, PipelineInv, ThreadInv
<1>2. e \in Event /\ seq[e] # 0 /\ seq[e] \in Nat
  BY <1>1, Numbered DEF Posted, PipelineInv
<1>3. e \notin Recorded
  BY <1>2 DEF Commit, Clash, SameKey
<1>4. stored' = [stored EXCEPT ![e] = seq[e]]
  BY <1>1 DEF Commit
<1>5. stored \in [Event -> Nat]
  BY DEF PipelineInv, ReceiverTypeOK
<1> QED BY <1>1, <1>2, <1>3, <1>4, <1>5 DEF Recorded

LEMMA RecordedGrows ==
  ASSUME PipelineInv, ReceiverAction
  PROVE Recorded \subseteq Recorded' /\ \A e \in Recorded : stored'[e] = stored[e]
<1>1. CASE UNCHANGED stored
  BY <1>1 DEF Recorded
<1>2. ASSUME NEW s \in Slot, Commit(s)
      PROVE Recorded \subseteq Recorded' /\ \A e \in Recorded : stored'[e] = stored[e]
  BY <1>2, CommitRecords DEF Recorded
<1> QED BY <1>1, <1>2, Recording

LEMMA PostedStays ==
  ASSUME PipelineInv, SpoolAction, ReceiverAction, NEW e, Posted(e)
  PROVE Posted(e)' /\ seq'[e] = seq[e]
BY SpoolGrows, RecordedGrows DEF Posted, PipelineInv

LEMMA ClaimPosted == ASSUME PipelineInv, claim # NoEvent PROVE Posted(claim)
BY DEF PipelineInv, SpoolInv, ClaimInv, RecordedInv, ForgottenIsRecorded, Posted

-----------------------------------------------------------------------------
(* ThreadInv for one thread; Others: a step leaves the other threads alone.*)
ThreadOK(s) ==
    LET r == request[s] IN
    r.phase # "free" =>
        /\ Posted(r.event)
        /\ r.seq = seq[r.event]
        /\ r.phase = "done" /\ r.answer \in {"accepted", "duplicate"} => r.event \in Recorded

LEMMA ThreadStays ==
  ASSUME PipelineInv, SpoolAction, ReceiverAction, NEW s \in Slot, request'[s] = request[s]
  PROVE ThreadOK(s)'
<1>1. CASE request[s].phase = "free"
  BY <1>1 DEF ThreadOK
<1>2. CASE request[s].phase # "free"
  <2>1. PICK r : r = request[s]
    OBVIOUS
  <2>2. Posted(r.event) /\ r.seq = seq[r.event]
    BY <1>2, <2>1 DEF PipelineInv, ThreadInv
  <2>3. Posted(r.event)' /\ r.seq = seq'[r.event]
    BY <2>2, PostedStays
  <2>4. r.phase = "done" /\ r.answer \in {"accepted", "duplicate"} => r.event \in Recorded'
    BY <1>2, <2>1, RecordedGrows DEF PipelineInv, ThreadInv
  <2>5. request'[s] = r
    BY <2>1
  <2> QED BY <2>3, <2>4, <2>5 DEF ThreadOK, Posted, Recorded
<1> QED BY <1>1, <1>2

(* A thread goes on with its event: it may only claim success if the event *)
(* is recorded.                                                            *)
LEMMA ThreadGoesOn ==
  ASSUME PipelineInv, SpoolAction, ReceiverAction, NEW s \in Slot,
         request[s].phase # "free",
         request'[s].event = request[s].event,
         request'[s].seq = request[s].seq,
         request'[s].phase = "done" /\ request'[s].answer \in {"accepted", "duplicate"}
            => request[s].event \in Recorded'
  PROVE ThreadOK(s)'
<1>1. PICK e : e = request[s].event
  OBVIOUS
<1>2. Posted(e) /\ request[s].seq = seq[e]
  BY <1>1 DEF PipelineInv, ThreadInv
<1>3. Posted(e)' /\ request[s].seq = seq'[e]
  BY <1>2, PostedStays
<1>4. request'[s].event = e /\ request'[s].seq = seq'[e]
  BY <1>1, <1>3
<1> QED BY <1>1, <1>3, <1>4 DEF ThreadOK, Posted, Recorded

LEMMA FinishedFields ==
  ASSUME NEW r \in Requests, NEW a \in Answers
  PROVE LET q == [r EXCEPT !.phase = "done", !.answer = a] IN
        /\ q \in Requests
        /\ q.phase = "done" /\ q.answer = a /\ q.event = r.event /\ q.seq = r.seq
BY DEF Requests, Phase

(* What the handlers make of their thread.                                 *)
LEMMA FinishEffect ==
  ASSUME ReceiverTypeOK, NEW s \in Slot, NEW a \in Answers, Finish(s, a)
  PROVE /\ \A t \in Slot \ {s} : request'[t] = request[t]
        /\ request'[s].phase = "done" /\ request'[s].answer = a
        /\ request'[s].event = request[s].event /\ request'[s].seq = request[s].seq
<1>1. request[s] \in Requests
  BY DEF ReceiverTypeOK
<1> DEFINE q == [request[s] EXCEPT !.phase = "done", !.answer = a]
<1>2. /\ q \in Requests
      /\ q.phase = "done" /\ q.answer = a
      /\ q.event = request[s].event /\ q.seq = request[s].seq
  BY <1>1, FinishedFields
<1>3. request' = [request EXCEPT ![s] = q] /\ request \in [Slot -> Requests]
  BY DEF Finish, ReceiverTypeOK
<1> HIDE DEF q
<1> QED BY <1>2, <1>3

LEMMA AgainEffect ==
  ASSUME ReceiverTypeOK, NEW s \in Slot, request' = [request EXCEPT ![s] = [@ EXCEPT !.phase = "again"]]
  PROVE /\ \A t \in Slot \ {s} : request'[t] = request[t]
        /\ request'[s].phase = "again"
        /\ request'[s].event = request[s].event /\ request'[s].seq = request[s].seq
BY DEF ReceiverTypeOK, Requests

LEMMA ReadFields ==
  ASSUME NEW r \in Requests, NEW p, NEW l, NEW st, NEW ms, NEW u
  PROVE LET q == [r EXCEPT !.phase = p, !.last = l, !.status = st, !.row = ms, !.unread = u] IN
        /\ q.phase = p /\ q.event = r.event /\ q.seq = r.seq
        /\ q.last = l /\ q.status = st /\ q.row = ms /\ q.unread = u
BY DEF Requests

LEMMA ReadEffect ==
  ASSUME ReceiverTypeOK, NEW s \in Slot, Read(s)
  PROVE /\ \A t \in Slot \ {s} : request'[t] = request[t]
        /\ request'[s].phase \in {"open", "reopened"}
        /\ request'[s].event = request[s].event /\ request'[s].seq = request[s].seq
        /\ request'[s].last = account.last /\ request'[s].status = account.status
        /\ request'[s].row = IF request[s].event.kind = "status" THEN "none" ELSE row[request[s].event.msg]
        /\ request'[s].unread = unread
<1> DEFINE p == IF request[s].phase = "arrived" THEN "open" ELSE "reopened"
           ms == IF request[s].event.kind = "status" THEN "none" ELSE row[request[s].event.msg]
           q == [request[s] EXCEPT !.phase = p, !.last = account.last, !.status = account.status,
                                   !.row = ms, !.unread = unread]
<1>1. request[s] \in Requests
  BY DEF ReceiverTypeOK
<1>2. /\ q.phase = p /\ q.event = request[s].event /\ q.seq = request[s].seq
      /\ q.last = account.last /\ q.status = account.status
      /\ q.row = ms /\ q.unread = unread
  BY <1>1, ReadFields
<1>3. request' = [request EXCEPT ![s] = q] /\ request \in [Slot -> Requests]
  BY DEF Read, ReceiverTypeOK
<1>4. p \in {"open", "reopened"}
  OBVIOUS
<1> HIDE DEF q, p
<1> QED BY <1>2, <1>3, <1>4

LEMMA ThreadsStep ==
  ASSUME PipelineInv, SpoolAction, ReceiverAction PROVE ThreadInv'
<1> USE DEF PipelineInv
<1>1. SUFFICES \A t \in Slot : ThreadOK(t)'
  BY DEF ThreadInv, ThreadOK
<1>2. ASSUME NEW s \in Slot, KnownEvent(s) PROVE ThreadOK(s)' /\ \A t \in Slot \ {s} : request'[t] = request[t]
  <2> DEFINE a == IF stored[request[s].event] = request[s].seq THEN "duplicate" ELSE "conflict"
  <2>1. Finish(s, a) /\ a \in Answers /\ request[s].phase # "free"
    BY <1>2 DEF KnownEvent, Answers
  <2>2. a = "duplicate" => request[s].event \in Recorded
    <3>1. Posted(request[s].event) /\ request[s].seq = seq[request[s].event]
      BY <2>1 DEF ThreadInv
    <3> QED BY <3>1, Numbered DEF Posted, Recorded
  <2>3. /\ \A t \in Slot \ {s} : request'[t] = request[t]
        /\ request'[s].phase = "done" /\ request'[s].answer = a
        /\ request'[s].event = request[s].event /\ request'[s].seq = request[s].seq
    BY <2>1, FinishEffect
  <2>4. a \in {"duplicate", "conflict"}
    OBVIOUS
  <2> HIDE DEF a
  <2>5. request[s].event \in Recorded => request[s].event \in Recorded'
    BY RecordedGrows
  <2>6. ThreadOK(s)'
    BY <2>1, <2>2, <2>3, <2>4, <2>5, ThreadGoesOn
  <2> QED BY <2>3, <2>6
<1>3. ASSUME NEW s \in Slot, UnknownMessage(s) \/ Fail(s)
      PROVE ThreadOK(s)' /\ \A t \in Slot \ {s} : request'[t] = request[t]
  <2>1. (Finish(s, "missing") \/ Finish(s, "error")) /\ request[s].phase # "free"
    BY <1>3 DEF UnknownMessage, Fail
  <2>2. /\ \A t \in Slot \ {s} : request'[t] = request[t]
        /\ request'[s].answer \notin {"accepted", "duplicate"}
        /\ request'[s].event = request[s].event /\ request'[s].seq = request[s].seq
    BY <2>1, FinishEffect DEF Answers
  <2> QED BY <2>1, <2>2, ThreadGoesOn
<1>4. ASSUME NEW s \in Slot, Conflict(s)
      PROVE ThreadOK(s)' /\ \A t \in Slot \ {s} : request'[t] = request[t]
  <2>1. request[s].phase # "free"
    BY <1>4 DEF Conflict
  <2>2. /\ \A t \in Slot \ {s} : request'[t] = request[t]
        /\ request'[s].phase = "again" \/ request'[s].answer = "error"
        /\ request'[s].event = request[s].event /\ request'[s].seq = request[s].seq
    BY <1>4, FinishEffect, AgainEffect DEF Conflict, Answers
  <2> QED BY <2>1, <2>2, ThreadGoesOn
<1>5. ASSUME NEW s \in Slot, Read(s)
      PROVE ThreadOK(s)' /\ \A t \in Slot \ {s} : request'[t] = request[t]
  <2>1. request[s].phase # "free"
    BY <1>5 DEF Read
  <2>2. /\ \A t \in Slot \ {s} : request'[t] = request[t]
        /\ request'[s].phase # "done"
        /\ request'[s].event = request[s].event /\ request'[s].seq = request[s].seq
    BY <1>5, ReadEffect
  <2> QED BY <2>1, <2>2, ThreadGoesOn
<1>6. ASSUME NEW s \in Slot, Commit(s)
      PROVE ThreadOK(s)' /\ \A t \in Slot \ {s} : request'[t] = request[t]
  <2>1. request[s].phase # "free" /\ Finish(s, "accepted")
    BY <1>6 DEF Commit
  <2>2. /\ \A t \in Slot \ {s} : request'[t] = request[t]
        /\ request'[s].event = request[s].event /\ request'[s].seq = request[s].seq
    BY <2>1, FinishEffect DEF Answers
  <2>3. request[s].event \in Recorded'
    BY <1>6, CommitRecords
  <2> QED BY <2>1, <2>2, <2>3, ThreadGoesOn
<1>7. ASSUME NEW s \in Slot, Release(s)
      PROVE ThreadOK(s)' /\ \A t \in Slot \ {s} : request'[t] = request[t]
  BY <1>7 DEF Release, ReceiverTypeOK, ThreadOK, Free
<1>8. ASSUME NEW s \in Slot, claim # NoEvent, Arrive(s, claim, seq[claim])
      PROVE ThreadOK(s)' /\ \A t \in Slot \ {s} : request'[t] = request[t]
  <2>1. PICK e : e = claim
    OBVIOUS
  <2>2. Posted(e)' /\ seq'[e] = seq[e]
    BY <1>8, <2>1, ClaimPosted, PostedStays
  <2>3. /\ \A t \in Slot \ {s} : request'[t] = request[t]
        /\ request'[s].event = e /\ request'[s].seq = seq'[e] /\ request'[s].phase = "arrived"
    BY <1>8, <2>1, <2>2 DEF Arrive, ReceiverTypeOK, Free
  <2> QED BY <2>2, <2>3 DEF ThreadOK, Posted, Recorded
<1>9. CASE ServerDies
  BY <1>9 DEF ServerDies, ThreadOK, Free
<1>10. ASSUME MarkRead \/ (\E m \in Msg : IdCommitted(m)) \/ UNCHANGED receiverVars
       PROVE \A t \in Slot : request'[t] = request[t]
  BY <1>10 DEF MarkRead, IdCommitted, receiverVars
<1>11. \A t \in Slot : request'[t] = request[t] => ThreadOK(t)'
  BY ThreadStays
<1> QED BY <1>2, <1>3, <1>4, <1>5, <1>6, <1>7, <1>8, <1>9, <1>10, <1>11 DEF ReceiverAction, HandlerStep

LEMMA HandlerKeepsEvent ==
  ASSUME ReceiverTypeOK, NEW s \in Slot, HandlerStep(s) \/ Fail(s), NEW t \in Slot, request[t].phase # "free"
  PROVE request'[t].phase # "free" /\ request'[t].event = request[t].event
<1>1. CASE KnownEvent(s) \/ UnknownMessage(s) \/ Commit(s) \/ Fail(s)
  <2>1. \E a \in Answers : Finish(s, a)
    BY <1>1 DEF KnownEvent, UnknownMessage, Commit, Fail, Answers
  <2> QED BY <2>1, FinishEffect
<1>2. CASE Conflict(s)
  BY <1>2, FinishEffect, AgainEffect DEF Conflict, Answers
<1>3. CASE Read(s)
  BY <1>3, ReadEffect
<1> QED BY <1>1, <1>2, <1>3 DEF HandlerStep

LEMMA ConnStep ==
  ASSUME PipelineInv, [Next]_vars PROVE ConnInv'
<1> USE DEF PipelineInv, ConnInv
<1>1. ASSUME NEW s \in Slot, Post(s) PROVE ConnInv'
  BY <1>1 DEF Post, Arrive, ReceiverTypeOK, Free, spoolVars
<1>2. CASE (\E s \in Slot : Reply(s)) \/ TimesOut \/ BridgeDies \/ ServiceDies
  BY <1>2 DEF Reply, TimesOut, BridgeDies, ServiceDies
<1>3. ASSUME NEW s \in Slot, Unheard(s) PROVE ConnInv'
  BY <1>3 DEF Unheard, Release, ReceiverTypeOK, spoolVars
<1>4. ASSUME NEW s \in Slot, Handle(s) PROVE ConnInv'
  BY <1>4, HandlerKeepsEvent DEF Handle, spoolVars
<1>5. CASE TransactionFails
  BY <1>5, HandlerKeepsEvent DEF TransactionFails, spoolVars
<1>6. CASE ClaimNext
  BY <1>6 DEF ClaimNext, Claim
<1>7. CASE Emit \/ Restart \/ SessionReopened
  BY <1>7 DEF Emit, EmitStep, Number, AppendEvent, RefuseConflict, Restart, SpoolRestart, Recover,
              SessionReopened, Reopen, receiverVars
<1>8. ASSUME NEW e \in Event, TimerFires(e) PROVE ConnInv'
  BY <1>8 DEF TimerFires, BackoffEnds, receiverVars
<1>9. CASE Elsewhere
  BY <1>9 DEF Elsewhere, MarkRead, IdCommitted, spoolVars
<1>10. CASE UNCHANGED vars
  BY <1>10 DEF vars, spoolVars, receiverVars
<1> QED BY <1>1, <1>2, <1>3, <1>4, <1>5, <1>6, <1>7, <1>8, <1>9, <1>10 DEF Next

(* A file is removed only on the answer to its own post.                   *)
LEMMA AcknowledgedIsRecorded ==
  ASSUME PipelineInv, [Next]_vars PROVE acked' \subseteq acked \cup Recorded
<1>1. ASSUME NEW s \in Slot, Reply(s) PROVE acked' \subseteq acked \cup Recorded
  <2>1. request[s].phase = "done" /\ request[s].event = claim /\ claim # NoEvent
    BY <1>1, PipelineAssumption DEF Reply, Release, PipelineInv, ConnInv
  <2>2. Classify(request[s].answer) = "accepted" => request[s].answer \in {"accepted", "duplicate"}
    BY DEF Classify
  <2>3. Classify(request[s].answer) = "accepted" => claim \in Recorded
    BY <2>1, <2>2 DEF PipelineInv, ThreadInv
  <2> QED BY <1>1, <2>3 DEF Reply, Settle
<1>2. CASE TimesOut \/ ServiceDies
  BY <1>2 DEF TimesOut, ServiceDies, Settle, spoolVars
<1>3. CASE BridgeDies \/ Restart \/ SessionReopened
  BY <1>3 DEF BridgeDies, SpoolCrash, Restart, SpoolRestart, SessionReopened, Reopen, Recover
<1>4. CASE Emit \/ ClaimNext \/ \E e \in Event : TimerFires(e)
  BY <1>4 DEF Emit, EmitStep, Number, AppendEvent, RefuseConflict, ClaimNext, Claim, TimerFires, BackoffEnds
<1>5. CASE TransactionFails \/ Elsewhere \/ UNCHANGED vars
  BY <1>5 DEF TransactionFails, Elsewhere, vars, spoolVars
<1>6. CASE \E s \in Slot : Post(s) \/ Unheard(s) \/ Handle(s)
  BY <1>6 DEF Post, Unheard, Handle, spoolVars
<1> QED BY <1>1, <1>2, <1>3, <1>4, <1>5, <1>6 DEF Next

LEMMA RecordedStep ==
  ASSUME PipelineInv, [Next]_vars, SpoolAction, ReceiverAction PROVE RecordedInv'
<1>1. ForgottenIsRecorded'
  BY AcknowledgedIsRecorded, RecordedGrows DEF PipelineInv, RecordedInv, ForgottenIsRecorded
<1>2. ASSUME NEW e \in Recorded' PROVE Posted(e)' /\ stored'[e] = seq'[e]
  <2>1. CASE e \in Recorded
    <3>1. Posted(e) /\ stored[e] = seq[e]
      BY <2>1 DEF PipelineInv, RecordedInv
    <3> QED BY <2>1, <3>1, PostedStays, RecordedGrows
  <2>2. CASE e \notin Recorded
    <3>1. PICK s \in Slot : Commit(s)
      BY <2>2, Recording DEF Recorded
    <3>2. e = request[s].event
      BY <2>2, <3>1, CommitRecords
    <3>3. Posted(e) /\ stored'[e] = seq[e]
      BY <3>1, <3>2, CommitRecords
    <3> QED BY <3>3, PostedStays
  <2> QED BY <2>1, <2>2
<1> QED BY <1>1, <1>2 DEF RecordedInv

LEMMA PipelineStarts == ASSUME Init PROVE PipelineInv
<1>1. SpoolInv
  BY SpoolStarts DEF Init
<1>2. ReceiverTypeOK
  BY FreeType DEF Init, ReceiverInit, ReceiverTypeOK, AccountStatus, MessageStatus
<1>3. ThreadInv /\ ConnInv
  BY DEF Init, ReceiverInit, Free, ThreadInv, ConnInv
<1>4. RecordedInv
  BY DEF Init, SpoolInit, ReceiverInit, RecordedInv, Recorded, ForgottenIsRecorded
<1> QED BY <1>1, <1>2, <1>3, <1>4 DEF PipelineInv

LEMMA PipelineStep == ASSUME PipelineInv, [Next]_vars PROVE PipelineInv'
<1>1. SpoolAction /\ ReceiverAction
  BY StepsSpool, StepsReceiver
<1>2. SpoolInv'
  BY <1>1, SpoolStep DEF PipelineInv
<1>3. ReceiverTypeOK'
  BY <1>1, ReceiverTypes DEF PipelineInv
<1>4. ThreadInv' /\ ConnInv' /\ RecordedInv'
  BY <1>1, ThreadsStep, ConnStep, RecordedStep
<1> QED BY <1>2, <1>3, <1>4 DEF PipelineInv

(* The bridge forgets an event only once the service has recorded it, and  *)
(* nothing appended is lost, whatever is lost, repeated or dies            *)
(* (FileSpool, EventSink, WhatsAppEventService).                           *)
THEOREM PipelineCorrect ==
  Spec => [](SpoolTypeOK /\ ReceiverTypeOK /\ NothingLost /\ ForgottenIsRecorded)
<1>1. PipelineInv => SpoolTypeOK /\ ReceiverTypeOK /\ NothingLost /\ ForgottenIsRecorded
  BY DEF PipelineInv, SpoolInv, RecordedInv
<1> QED BY <1>1, PipelineStarts, PipelineStep, PTL DEF Spec

(* Nothing appended is lost (FileSpool).                                   *)
THEOREM PipelineLosesNothing == Spec => []NothingLost
BY PipelineCorrect, PTL

-----------------------------------------------------------------------------
(* The steps that EventLog sees.                                           *)

LEMMA StoredStep ==
  ASSUME [Next]_vars PROVE UNCHANGED stored \/ ((\E s \in Slot : Commit(s)) /\ UNCHANGED spoolVars)
<1>1. CASE \E s \in Slot : Handle(s)
  BY <1>1 DEF Handle, HandlerStep, KnownEvent, UnknownMessage, Read, Conflict, tables
<1>2. CASE \E s \in Slot : Post(s) \/ Reply(s) \/ Unheard(s)
  BY <1>2 DEF Post, Arrive, Reply, Unheard, Release, tables
<1>3. CASE TimesOut \/ BridgeDies \/ ServiceDies \/ TransactionFails \/ SessionReopened
  BY <1>3 DEF TimesOut, BridgeDies, ServiceDies, ServerDies, TransactionFails, Fail, SessionReopened,
              receiverVars, tables
<1>4. CASE Emit \/ ClaimNext \/ Restart \/ (\E e \in Event : TimerFires(e)) \/ UNCHANGED vars
  BY <1>4 DEF Emit, ClaimNext, Restart, TimerFires, vars, receiverVars, tables
<1>5. CASE Elsewhere
  BY <1>5 DEF Elsewhere, MarkRead, IdCommitted
<1> QED BY <1>1, <1>2, <1>3, <1>4, <1>5 DEF Next

LEMMA SpoolSeen ==
  ASSUME SpoolAction
  PROVE \/ \E e \in Event : AppendEvent(e)
        \/ \E o \in Outcome : Settle(o)
        \/ UNCHANGED <<spooled, ahead, dead>>
<1>1. ASSUME NEW e \in Event, Number(e) \/ RefuseConflict(e) \/ Claim(e) \/ BackoffEnds(e)
      PROVE UNCHANGED <<spooled, ahead, dead>>
  BY <1>1 DEF Number, RefuseConflict, Claim, BackoffEnds, dirVars
<1>2. CASE SpoolCrash \/ SpoolRestart \/ Reopen \/ UNCHANGED spoolVars
  BY <1>2 DEF SpoolCrash, SpoolRestart, Reopen, Recover, spoolVars, dirVars
<1> QED BY <1>1, <1>2 DEF SpoolAction

LEMMA StepsInOrder ==
  ASSUME PipelineInv, [Next]_vars PROVE [Effects!Next]_<<spooled, ahead, Recorded, dead>>
<1>1. SpoolAction
  BY StepsSpool
<1>2. ASSUME NEW s \in Slot, Commit(s), UNCHANGED spoolVars PROVE Effects!Next
  <2>1. request[s].event \in Event /\ Effects!Apply(request[s].event)
    BY <1>2, CommitRecords DEF Effects!Apply, Effects!Ready, Posted, spoolVars, dirVars
  <2> QED BY <2>1 DEF Effects!Next
<1>3. ASSUME UNCHANGED stored, NEW e \in Event, AppendEvent(e) PROVE Effects!Next
  <2>1. Recorded' = Recorded
    BY <1>3 DEF Recorded
  <2>2. e \notin spooled
    BY <1>3 DEF AppendEvent, NextToAppend, PipelineInv, SpoolInv, SequenceInv
  <2>3. {d \in spooled : seq[d] < seq[e]} \in SUBSET spooled
    OBVIOUS
  <2>4. Effects!Accept(e)
    BY <1>3, <2>1, <2>2, <2>3 DEF Effects!Accept, AppendEvent
  <2> QED BY <2>4 DEF Effects!Next
<1>4. ASSUME UNCHANGED stored, NEW o \in Outcome, Settle(o)
      PROVE [Effects!Next]_<<spooled, ahead, Recorded, dead>>
  <2>1. Recorded' = Recorded
    BY <1>4 DEF Recorded
  <2>2. claim \in Event /\ Posted(claim)
    BY <1>4, ClaimPosted DEF Settle, PipelineInv, SpoolInv, SpoolTypeOK
  <2>3. CASE o = "rejected"
    <3>1. Effects!Drop(claim)
      BY <1>4, <2>1, <2>2, <2>3 DEF Effects!Drop, Effects!Ready, Settle, Posted
    <3> QED BY <2>2, <3>1 DEF Effects!Next
  <2>4. CASE o # "rejected"
    BY <1>4, <2>1, <2>4 DEF Settle
  <2> QED BY <2>3, <2>4
<1>5. ASSUME UNCHANGED stored, UNCHANGED <<spooled, ahead, dead>>
      PROVE UNCHANGED <<spooled, ahead, Recorded, dead>>
  BY <1>5 DEF Recorded
<1> QED BY <1>1, <1>2, <1>3, <1>4, <1>5, StoredStep, SpoolSeen

(* Each event takes effect once, after all that was spooled with smaller   *)
(* sequences: the bridge and the service implement EventLog                *)
(* (FileSpool.claim, EventSink.flushOnce, WhatsAppEventService.process).   *)
THEOREM PipelineInOrder == Spec => AppliedInOrder
<1>1. Init => Effects!Init
  BY DEF Init, SpoolInit, ReceiverInit, Recorded, Effects!Init
<1>2. PipelineInv /\ [Next]_vars => [Effects!Next]_<<spooled, ahead, Recorded, dead>>
  BY StepsInOrder
<1> QED BY <1>1, <1>2, PipelineStarts, PipelineStep, PTL DEF Spec, AppliedInOrder, Effects!Spec

-----------------------------------------------------------------------------
(* The status of the account.                                              *)

(* Every status ahead of a posted event is recorded, for none is dead.     *)
LEMMA StatusesInOrder ==
  ASSUME PipelineInv, StatusInv, NEW d, Posted(d), NEW e \in spooled \ Recorded, e.kind = "status"
  PROVE seq[d] <= seq[e]
<1>1. d \in spooled /\ ahead[d] = {x \in spooled : seq[x] < seq[d]} /\ ahead[d] \subseteq Recorded \cup dead
  BY DEF Posted, PipelineInv, SpoolInv, OrderInv
<1>2. e \notin dead
  BY DEF StatusInv
<1>3. seq[d] \in Nat /\ seq[e] \in Nat
  BY <1>1, Numbered DEF PipelineInv
<1> QED BY <1>1, <1>2, <1>3

LEMMA CommitsStatus ==
  ASSUME PipelineInv, StatusInv, NEW s \in Slot, Commit(s) PROVE StatusFollowsSequence'
<1>1. PICK e : e = request[s].event
  OBVIOUS
<1> DEFINE reports == {d \in Recorded : d.kind = "status"}
<1>2. /\ e \in Event \ Recorded /\ Posted(e)
      /\ request[s].seq = seq[e]
      /\ Recorded' = Recorded \cup {e}
      /\ \A d \in Event : stored'[d] = IF d = e THEN seq[d] ELSE stored[d]
  BY <1>1, CommitRecords
<1>3. account' = AccountAfter(request[s])
  BY DEF Commit
<1>4. \A d \in Recorded : d \in Event /\ Posted(d) /\ stored[d] = seq[d]
  BY DEF PipelineInv, RecordedInv, Recorded
<1>5. CASE e.kind # "status"
  <2>1. account' = account /\ reports' = reports
    BY <1>1, <1>2, <1>3, <1>5 DEF AccountAfter
  <2>2. \A d \in reports : stored'[d] = stored[d]
    BY <1>2, <1>4
  <2> QED BY <2>1, <2>2 DEF StatusInv, StatusFollowsSequence
<1>6. CASE e.kind = "status"
  <2>1. reports' = reports \cup {e}
    BY <1>2, <1>6
  <2>2. request[s].last = account.last /\ request[s].status = account.status
    BY <1>1, <1>2, <1>6 DEF Commit, StatusInv, StatusThreadOK
  <2>3. \A d \in reports : seq[d] <= seq[e]
    BY <1>2, <1>4, <1>6, StatusesInOrder DEF Posted
  <2>4. seq[e] > account.last
    <3>1. seq[e] \in Nat /\ seq[e] # 0
      BY <1>2, Numbered DEF Posted, PipelineInv
    <3>2. CASE reports = {}
      BY <3>1, <3>2 DEF StatusInv, StatusFollowsSequence
    <3>3. CASE reports # {}
      <4>1. PICK d \in reports : account = [status |-> d.says, last |-> stored[d]]
        BY <3>3 DEF StatusInv, StatusFollowsSequence
      <4>2. account.last = seq[d] /\ seq[d] # seq[e] /\ seq[d] \in Nat
        BY <1>2, <1>4, <3>1, <4>1, Numbered DEF PipelineInv, SpoolInv, SequenceInv, Posted
      <4> QED BY <2>3, <3>1, <4>2
    <3> QED BY <3>2, <3>3
  <2>5. account' = [status |-> e.says, last |-> seq[e]]
    BY <1>1, <1>2, <1>3, <1>6, <2>2, <2>4 DEF AccountAfter, Write
  <2>6. \A d \in reports' : stored'[d] <= stored'[e]
    <3>1. seq[e] \in Nat
      BY <1>2, Numbered DEF Posted, PipelineInv
    <3> QED BY <1>2, <1>4, <2>1, <2>3, <3>1
  <2>7. e \in reports' /\ stored'[e] = seq[e]
    BY <1>2, <2>1
  <2> QED BY <2>5, <2>6, <2>7 DEF StatusFollowsSequence
<1> QED BY <1>5, <1>6

LEMMA AccountStep ==
  ASSUME ReceiverAction PROVE UNCHANGED <<stored, account>> \/ \E s \in Slot : Commit(s)
BY DEF ReceiverAction, HandlerStep, KnownEvent, UnknownMessage, Read, Conflict, Fail, Release, Arrive,
       ServerDies, MarkRead, IdCommitted, receiverVars, tables

LEMMA StatusDead ==
  ASSUME PipelineInv, StatusInv, [Next]_vars, NEW e \in dead' PROVE e.kind # "status"
<1>1. ASSUME NEW s \in Slot, Reply(s) PROVE e.kind # "status"
  <2>1. request[s].phase = "done" /\ request[s].event = claim
    BY <1>1, PipelineAssumption DEF Reply, Release, PipelineInv, ConnInv
  <2>2. Classify(request[s].answer) = "rejected" => request[s].answer \in {"conflict", "missing"}
    BY DEF Classify
  <2>3. e \in dead \/ (e = claim /\ Classify(request[s].answer) = "rejected")
    BY <1>1 DEF Reply, Settle
  <2> QED BY <2>1, <2>2, <2>3 DEF StatusInv, StatusThreadOK
<1>2. CASE dead' = dead
  BY <1>2 DEF StatusInv
<1>3. CASE TimesOut \/ ServiceDies \/ BridgeDies \/ Restart \/ SessionReopened
  BY <1>2, <1>3 DEF TimesOut, ServiceDies, Settle, BridgeDies, SpoolCrash, Restart, SpoolRestart,
                    SessionReopened, Reopen, Recover, spoolVars, dirVars
<1>4. CASE Emit \/ ClaimNext \/ \E d \in Event : TimerFires(d)
  BY <1>2, <1>4 DEF Emit, EmitStep, Number, AppendEvent, RefuseConflict, ClaimNext, Claim, TimerFires,
                    BackoffEnds, dirVars
<1>5. CASE TransactionFails \/ Elsewhere \/ UNCHANGED vars \/ \E s \in Slot : Post(s) \/ Unheard(s) \/ Handle(s)
  BY <1>2, <1>5 DEF TransactionFails, Elsewhere, vars, Post, Unheard, Handle, spoolVars, dirVars
<1> QED BY <1>1, <1>3, <1>4, <1>5 DEF Next

LEMMA StatusThreadStays ==
  ASSUME PipelineInv, StatusInv, ReceiverAction, UNCHANGED account,
         NEW s \in Slot, request'[s] = request[s]
  PROVE StatusThreadOK(s)'
<1>1. PICK r : r = request[s]
  OBVIOUS
<1>2. StatusThreadOK(s) /\ r = request'[s]
  BY <1>1 DEF StatusInv
<1>3. Recorded \subseteq Recorded'
  BY RecordedGrows
<1> QED BY <1>1, <1>2, <1>3 DEF StatusThreadOK, Recorded

(* Two statuses cannot both be posted, unrecorded and different.           *)
LEMMA OneStatusOpen ==
  ASSUME PipelineInv, StatusInv, NEW d \in Event \ Recorded, NEW e \in Event \ Recorded,
         d.kind = "status", e.kind = "status", Posted(d), Posted(e)
  PROVE d = e
<1>1. d \in spooled /\ e \in spooled
  BY DEF Posted
<1>2. seq[d] <= seq[e] /\ seq[e] <= seq[d]
  BY <1>1, StatusesInOrder
<1>3. seq[d] \in Nat /\ seq[e] \in Nat /\ seq[e] # 0
  BY <1>1, Numbered DEF PipelineInv
<1>4. seq[d] = seq[e]
  BY <1>2, <1>3
<1> QED BY <1>3, <1>4 DEF PipelineInv, SpoolInv, SequenceInv

LEMMA StatusThreadsAtCommit ==
  ASSUME PipelineInv, StatusInv, ReceiverAction, NEW s \in Slot, Commit(s), NEW t \in Slot
  PROVE StatusThreadOK(t)'
<1>1. PICK e : e = request[s].event
  OBVIOUS
<1>2. e \in Event \ Recorded /\ Posted(e) /\ Recorded' = Recorded \cup {e}
  BY <1>1, CommitRecords
<1>3. Finish(s, "accepted") /\ account' = AccountAfter(request[s])
  BY DEF Commit
<1>4. CASE t = s
  <2>1. request'[t].phase = "done" /\ request'[t].answer = "accepted"
    BY <1>3, <1>4, FinishEffect DEF PipelineInv, Answers
  <2> QED BY <2>1 DEF StatusThreadOK
<1>5. CASE t # s
  <2>1. request'[t] = request[t]
    BY <1>3, <1>5, FinishEffect DEF PipelineInv, Answers
  <2>2. CASE account' = account
    BY <2>1, <2>2, StatusThreadStays
  <2>3. CASE account' # account
    <3>1. e.kind = "status"
      BY <1>1, <1>3, <2>3 DEF AccountAfter
    <3>2. PICK r : r = request[t]
      OBVIOUS
    <3>3. StatusThreadOK(t)
      BY DEF StatusInv
    <3>4. ASSUME r.phase # "free", r.event.kind = "status", r.event \notin Recorded
          PROVE r.event = e
      <4>1. Posted(r.event)
        BY <3>2, <3>4 DEF PipelineInv, ThreadInv
      <4>2. r.event \in Event
        BY <4>1 DEF Posted, PipelineInv, SpoolInv, SpoolTypeOK
      <4> QED BY <1>2, <3>1, <3>4, <4>1, <4>2, OneStatusOpen
    <3>5. r.phase # "free" /\ r.event.kind = "status" => r.event \in Recorded'
      BY <1>2, <3>4
    <3>6. r = request'[t]
      BY <2>1, <3>2
    <3> QED BY <3>2, <3>3, <3>5, <3>6 DEF StatusThreadOK, Recorded
  <2> QED BY <2>2, <2>3
<1> QED BY <1>4, <1>5

LEMMA StatusThreadsStep ==
  ASSUME PipelineInv, StatusInv, ReceiverAction, NEW t \in Slot PROVE StatusThreadOK(t)'
<1> USE DEF PipelineInv
<1>1. ASSUME NEW s \in Slot, Commit(s) PROVE StatusThreadOK(t)'
  BY <1>1, StatusThreadsAtCommit
<1>2. ASSUME UNCHANGED <<stored, account>>, request'[t] = request[t] PROVE StatusThreadOK(t)'
  BY <1>2, StatusThreadStays
<1>3. ASSUME NEW s \in Slot, KnownEvent(s), UNCHANGED <<stored, account>> PROVE StatusThreadOK(t)'
  <2> DEFINE a == IF stored[request[s].event] = request[s].seq THEN "duplicate" ELSE "conflict"
  <2>1. Finish(s, a) /\ a \in Answers /\ request[s].phase # "free"
    BY <1>3 DEF KnownEvent, Answers
  <2>2. /\ \A u \in Slot \ {s} : request'[u] = request[u]
        /\ request'[s].phase = "done" /\ request'[s].answer = a
        /\ request'[s].event = request[s].event
    BY <2>1, FinishEffect
  <2>3. request[s].event.kind = "status" => a = "duplicate"
    <3>1. Posted(request[s].event) /\ request[s].seq = seq[request[s].event]
      BY <2>1 DEF ThreadInv
    <3>2. request[s].event \in Event
      BY <3>1 DEF Posted, SpoolInv, SpoolTypeOK
    <3>3. request[s].event.kind = "status" => request[s].event \in Recorded
      BY <1>3, <3>2, ReceiverAssumption DEF KnownEvent, SameKey, Recorded
    <3> QED BY <3>1, <3>3 DEF RecordedInv
  <2> HIDE DEF a
  <2>4. StatusThreadOK(s)'
    BY <2>2, <2>3 DEF StatusThreadOK
  <2> QED BY <1>2, <1>3, <2>2, <2>4
<1>4. ASSUME NEW s \in Slot, UnknownMessage(s), UNCHANGED <<stored, account>> PROVE StatusThreadOK(t)'
  <2>1. Finish(s, "missing") /\ request[s].event.kind = "receipt"
    BY <1>4 DEF UnknownMessage
  <2>2. /\ \A u \in Slot \ {s} : request'[u] = request[u]
        /\ request'[s].event = request[s].event
    BY <2>1, FinishEffect DEF Answers
  <2> QED BY <1>2, <1>4, <2>1, <2>2 DEF StatusThreadOK
<1>5. ASSUME NEW s \in Slot, Fail(s) \/ Conflict(s), UNCHANGED <<stored, account>> PROVE StatusThreadOK(t)'
  <2>1. /\ \A u \in Slot \ {s} : request'[u] = request[u]
        /\ \/ request'[s].phase = "again"
           \/ request'[s].phase = "done" /\ request'[s].answer = "error"
    BY <1>5, FinishEffect, AgainEffect DEF Fail, Conflict, Answers
  <2> QED BY <1>2, <1>5, <2>1 DEF StatusThreadOK
<1>6. ASSUME NEW s \in Slot, Read(s), UNCHANGED <<stored, account>> PROVE StatusThreadOK(t)'
  <2>1. /\ \A u \in Slot \ {s} : request'[u] = request[u]
        /\ request'[s].phase \in {"open", "reopened"}
        /\ request'[s].last = account'.last /\ request'[s].status = account'.status
    BY <1>6, ReadEffect
  <2> QED BY <1>2, <1>6, <2>1 DEF StatusThreadOK
<1>7. ASSUME NEW s \in Slot, Release(s), UNCHANGED <<stored, account>> PROVE StatusThreadOK(t)'
  BY <1>2, <1>7 DEF Release, ReceiverTypeOK, StatusThreadOK, Free
<1>8. ASSUME NEW s \in Slot, Arrive(s, claim, seq[claim]), UNCHANGED <<stored, account>> PROVE StatusThreadOK(t)'
  <2>1. /\ \A u \in Slot \ {s} : request'[u] = request[u]
        /\ request'[s].phase = "arrived"
    BY <1>8 DEF Arrive, ReceiverTypeOK, Free
  <2> QED BY <1>2, <1>8, <2>1 DEF StatusThreadOK
<1>9. ASSUME ServerDies PROVE StatusThreadOK(t)'
  BY <1>9 DEF ServerDies, StatusThreadOK, Free
<1>10. ASSUME MarkRead \/ (\E m \in Msg : IdCommitted(m)) \/ UNCHANGED receiverVars
       PROVE request'[t] = request[t]
  BY <1>10 DEF MarkRead, IdCommitted, receiverVars
<1> QED BY <1>1, <1>2, <1>3, <1>4, <1>5, <1>6, <1>7, <1>8, <1>9, <1>10, AccountStep
        DEF ReceiverAction, HandlerStep

LEMMA StatusStarts == ASSUME Init PROVE StatusInv
BY DEF Init, SpoolInit, ReceiverInit, StatusInv, StatusFollowsSequence, StatusThreadOK, Recorded, Free

LEMMA StatusStep == ASSUME PipelineInv, StatusInv, [Next]_vars PROVE StatusInv'
<1>1. ReceiverAction
  BY StepsReceiver
<1>2. StatusFollowsSequence'
  BY <1>1, AccountStep, CommitsStatus DEF StatusInv, StatusFollowsSequence, Recorded
<1>3. \A e \in dead' : e.kind # "status"
  BY StatusDead
<1>4. \A s \in Slot : StatusThreadOK(s)'
  BY <1>1, StatusThreadsStep
<1> QED BY <1>2, <1>3, <1>4 DEF StatusInv

(* The account always has the status of the recorded status event with the *)
(* largest sequence, although a transaction writes what it read before,    *)
(* possibly long after its post was given up (_apply_account_status).      *)
THEOREM StatusCorrect == Spec => []StatusFollowsSequence
<1>1. StatusInv => StatusFollowsSequence
  BY DEF StatusInv
<1> QED BY <1>1, PipelineStarts, PipelineStep, StatusStarts, StatusStep, PTL DEF Spec

-----------------------------------------------------------------------------
(* The counter of the conversation, and the rows of its messages.          *)

(* A request that may still commit has read the counter as it is, or at    *)
(* least not too high; and only what can never commit is answered by 409.  *)
UnreadThreadOK(s) ==
    LET r == request[s] IN
    /\ r.phase = "done" /\ r.answer = "conflict" => SameKey(r.event) # {}
    /\ r.phase = "done" /\ r.answer = "missing" => r.event.kind = "receipt"
    /\ r.phase \in {"open", "reopened"} /\ r.event.kind = "inbound" /\ SameKey(r.event) = {} =>
         /\ r.unread <= Cardinality(inbound)
         /\ ~readAny => r.unread = Cardinality(inbound)

(* What was set aside is a receipt, or its identity is recorded.           *)
DeadExplained == \A e \in dead : e.kind = "receipt" \/ SameKey(e) # {}

UnreadInv ==
    /\ UnreadCounts
    /\ IsFiniteSet(inbound)
    /\ \A m \in inbound : row[m] # "none"
    /\ DeadExplained
    /\ \A s \in Slot : UnreadThreadOK(s)

(* No receipt of the message was set aside.                                *)
Undropped(m) == \A e \in dead : e.kind = "receipt" => e.msg # m

(* A receipt that may still commit has read the row as it is.              *)
RowThreadOK(s) ==
    LET r == request[s] IN
    r.phase \in {"open", "reopened"} /\ r.event.kind = "receipt" =>
        /\ r.row # "none"
        /\ row[r.event.msg] # "none"
        /\ r.event \notin Recorded /\ Undropped(r.event.msg) => r.row = row[r.event.msg]

RowInv == \A s \in Slot : RowThreadOK(s)

(* Of two posted events that are not recorded, one was set aside.          *)
LEMMA OneOfTwo ==
  ASSUME PipelineInv, NEW d \in Event \ Recorded, NEW e \in Event \ Recorded,
         Posted(d), Posted(e), d # e
  PROVE d \in dead \/ e \in dead
<1>1. d \in spooled /\ e \in spooled /\ ahead[d] \subseteq Recorded \cup dead /\ ahead[e] \subseteq Recorded \cup dead
  BY DEF Posted
<1>2. ahead[d] = {x \in spooled : seq[x] < seq[d]} /\ ahead[e] = {x \in spooled : seq[x] < seq[e]}
  BY <1>1 DEF PipelineInv, SpoolInv, OrderInv
<1>3. seq[d] \in Nat /\ seq[e] \in Nat /\ seq[d] # 0
  BY <1>1, Numbered DEF PipelineInv
<1>4. seq[d] # seq[e]
  BY <1>3 DEF PipelineInv, SpoolInv, SequenceInv
<1>5. CASE seq[d] < seq[e]
  BY <1>1, <1>2, <1>5
<1>6. CASE seq[e] < seq[d]
  BY <1>1, <1>2, <1>6
<1> QED BY <1>3, <1>4, <1>5, <1>6

LEMMA TablesStep ==
  ASSUME ReceiverAction
  PROVE \/ UNCHANGED tables
        \/ \E s \in Slot : Commit(s)
        \/ MarkRead
        \/ \E m \in Msg : IdCommitted(m)
BY DEF ReceiverAction, HandlerStep, KnownEvent, UnknownMessage, Read, Conflict, Fail, Release, Arrive,
       ServerDies, receiverVars

(* What a step makes of one thread.                                        *)
LEMMA ThreadEffect ==
  ASSUME PipelineInv, ReceiverAction, NEW t \in Slot
  PROVE \/ request'[t] = request[t]
        \/ request'[t].phase \in {"free", "arrived", "again"}
        \/ Read(t)
        \/ /\ request'[t].phase = "done"
           /\ request'[t].event = request[t].event
           /\ request'[t].answer = "conflict" => SameKey(request[t].event) # {}
           /\ request'[t].answer = "missing" => request[t].event.kind = "receipt"
<1> DEFINE Goal == \/ request'[t] = request[t]
                   \/ request'[t].phase \in {"free", "arrived", "again"}
                   \/ Read(t)
                   \/ /\ request'[t].phase = "done"
                      /\ request'[t].event = request[t].event
                      /\ request'[t].answer = "conflict" => SameKey(request[t].event) # {}
                      /\ request'[t].answer = "missing" => request[t].event.kind = "receipt"
<1> USE DEF PipelineInv
<1>1. ASSUME NEW s \in Slot, NEW a \in Answers, Finish(s, a),
             a = "conflict" => SameKey(request[s].event) # {},
             a = "missing" => request[s].event.kind = "receipt"
      PROVE Goal
  BY <1>1, FinishEffect
<1>2. ASSUME NEW s \in Slot, KnownEvent(s) PROVE Goal
  <2>1. \E a \in {"duplicate", "conflict"} : Finish(s, a)
    BY <1>2 DEF KnownEvent
  <2>2. SameKey(request[s].event) # {}
    BY <1>2 DEF KnownEvent
  <2> QED BY <1>1, <2>1, <2>2 DEF Answers
<1>3. ASSUME NEW s \in Slot, UnknownMessage(s) PROVE Goal
  BY <1>1, <1>3 DEF UnknownMessage, Answers
<1>4. ASSUME NEW s \in Slot, Commit(s) PROVE Goal
  BY <1>1, <1>4 DEF Commit, Answers
<1>5. ASSUME NEW s \in Slot, Fail(s) PROVE Goal
  BY <1>1, <1>5 DEF Fail, Answers
<1>6. ASSUME NEW s \in Slot, Conflict(s) PROVE Goal
  <2>1. CASE Finish(s, "error")
    BY <1>1, <2>1 DEF Answers
  <2>2. CASE request' = [request EXCEPT ![s] = [@ EXCEPT !.phase = "again"]]
    BY <2>2, AgainEffect
  <2> QED BY <1>6, <2>1, <2>2 DEF Conflict
<1>7. ASSUME NEW s \in Slot, Read(s) PROVE Goal
  BY <1>7, ReadEffect
<1>8. ASSUME NEW s \in Slot, Release(s) \/ Arrive(s, claim, seq[claim]) PROVE Goal
  <2>1. /\ Free.phase = "free"
        /\ [Free EXCEPT !.phase = "arrived", !.event = claim, !.seq = seq[claim]].phase = "arrived"
    BY DEF Free
  <2>2. \E q : request' = [request EXCEPT ![s] = q] /\ q.phase \in {"free", "arrived"}
    BY <1>8, <2>1 DEF Release, Arrive
  <2> QED BY <2>2 DEF ReceiverTypeOK
<1>9. CASE ServerDies
  BY <1>9 DEF ServerDies, Free
<1>10. CASE MarkRead \/ (\E m \in Msg : IdCommitted(m)) \/ UNCHANGED receiverVars
  BY <1>10 DEF MarkRead, IdCommitted, receiverVars
<1> QED BY <1>2, <1>3, <1>4, <1>5, <1>6, <1>7, <1>8, <1>9, <1>10 DEF ReceiverAction, HandlerStep

LEMMA SameKeyGrows ==
  ASSUME PipelineInv, ReceiverAction, NEW e
  PROVE SameKey(e) \subseteq SameKey(e)'
BY RecordedGrows DEF SameKey

(* A row once written stays.                                               *)
LEMMA RowStays ==
  ASSUME PipelineInv, ReceiverAction, NEW m \in Msg, row[m] # "none"
  PROVE row'[m] # "none"
<1>1. ASSUME NEW s \in Slot, Commit(s) PROVE row'[m] # "none"
  <2>1. request[s].event \in Event
    BY <1>1, CommitRecords
  <2>2. row'[m] = IF request[s].event.kind # "status" /\ m = request[s].event.msg
                  THEN RowAfter(request[s], m) ELSE row[m]
    BY <1>1 DEF Commit
  <2>3. request[s].event.kind = "receipt" => request[s].event.says \in {"sent", "delivered", "read", "failed"}
    BY <2>1, ReceiverAssumption
  <2>4. ASSUME NEW old, NEW target \in {"sent", "delivered", "read", "failed"}
        PROVE ReceiptTo(old, target) # "none"
    BY DEF ReceiptTo, Rank
  <2>5. RowAfter(request[s], m) # "none"
    BY <2>3, <2>4 DEF RowAfter, Write
  <2> QED BY <2>2, <2>5
<1>2. CASE UNCHANGED tables \/ MarkRead
  BY <1>2 DEF tables, MarkRead
<1>3. ASSUME NEW n \in Msg, IdCommitted(n) PROVE row'[m] # "none"
  BY <1>3 DEF IdCommitted, PipelineInv, ReceiverTypeOK
<1> QED BY <1>1, <1>2, <1>3, TablesStep

LEMMA DeadStays ==
  ASSUME PipelineInv, UnreadInv, [Next]_vars PROVE DeadExplained'
<1>0. SpoolAction /\ ReceiverAction
  BY StepsSpool, StepsReceiver
<1> SUFFICES ASSUME NEW e \in dead' PROVE e.kind = "receipt" \/ SameKey(e) # {}
  BY <1>0, SameKeyGrows DEF DeadExplained
<1>1. CASE e \in dead
  BY <1>1 DEF UnreadInv, DeadExplained
<1>2. CASE e \notin dead
  <2>1. ASSUME NEW s \in Slot, Reply(s) PROVE e.kind = "receipt" \/ SameKey(e) # {}
    <3>1. request[s].phase = "done" /\ request[s].event = claim
      BY <2>1, PipelineAssumption DEF Reply, Release, PipelineInv, ConnInv
    <3>2. Classify(request[s].answer) = "rejected" => request[s].answer \in {"conflict", "missing"}
      BY DEF Classify
    <3>3. e = claim /\ Classify(request[s].answer) = "rejected"
      BY <1>2, <2>1 DEF Reply, Settle
    <3>4. UnreadThreadOK(s)
      BY DEF UnreadInv
    <3> QED BY <3>1, <3>2, <3>3, <3>4 DEF UnreadThreadOK
  <2>2. CASE dead' = dead
    BY <1>2, <2>2
  <2>3. CASE TimesOut \/ ServiceDies \/ BridgeDies \/ Restart \/ SessionReopened
    BY <2>2, <2>3 DEF TimesOut, ServiceDies, Settle, BridgeDies, SpoolCrash, Restart, SpoolRestart,
                      SessionReopened, Reopen, Recover, spoolVars, dirVars
  <2>4. CASE Emit \/ ClaimNext \/ \E d \in Event : TimerFires(d)
    BY <2>2, <2>4 DEF Emit, EmitStep, Number, AppendEvent, RefuseConflict, ClaimNext, Claim,
                      TimerFires, BackoffEnds, dirVars
  <2>5. CASE TransactionFails \/ Elsewhere \/ UNCHANGED vars \/ \E s \in Slot : Post(s) \/ Unheard(s) \/ Handle(s)
    BY <2>2, <2>5 DEF TransactionFails, Elsewhere, vars, Post, Unheard, Handle, spoolVars, dirVars
  <2> QED BY <2>1, <2>3, <2>4, <2>5 DEF Next
<1> QED BY <1>1, <1>2

LEMMA CountOne ==
  ASSUME NEW S, IsFiniteSet(S), NEW x, x \notin S
  PROVE IsFiniteSet(S \cup {x}) /\ Cardinality(S \cup {x}) = Cardinality(S) + 1 /\ Cardinality(S) \in Nat
BY FS_AddElement, FS_CardinalityType

(* The commit of a thread keeps the count.                                 *)
LEMMA CommitCounts ==
  ASSUME PipelineInv, UnreadInv, NEW s \in Slot, Commit(s)
  PROVE /\ UnreadCounts'
        /\ IsFiniteSet(inbound')
        /\ \A m \in inbound' : m \in inbound \/ row'[m] # "none"
<1>1. PICK r : r = request[s]
  OBVIOUS
<1>2. r.event \in Event \ Recorded /\ Recorded' = Recorded \cup {r.event}
  BY <1>1, CommitRecords
<1>3. SameKey(r.event) = {}
  BY <1>1 DEF Commit, Clash
<1>4. (\A d, e \in Recorded : d.key = e.key => d = e)'
  BY <1>2, <1>3 DEF SameKey, UnreadInv, UnreadCounts
<1>5. r.unread \in Nat /\ unread \in Nat
  BY <1>1 DEF PipelineInv, ReceiverTypeOK, Requests
<1>6. IsFiniteSet(inbound) /\ Cardinality(inbound) \in Nat
  BY FS_CardinalityType DEF UnreadInv
<1>7. CASE Inserts(r) /\ r.event.kind = "inbound"
  <2>1. /\ unread' = r.unread + 1 /\ inbound' = inbound \cup {r.event.msg} /\ readAny' = readAny
        /\ row[r.event.msg] = "none" /\ r.phase \in {"open", "reopened"}
    BY <1>1, <1>7 DEF Commit, Clash
  <2>2. r.event.msg \in Msg /\ r.event.msg \notin inbound
    BY <1>2, <1>7, <2>1, ReceiverAssumption DEF UnreadInv
  <2>3. UnreadThreadOK(s)
    BY DEF UnreadInv
  <2>4. r.unread <= Cardinality(inbound) /\ (~readAny => r.unread = Cardinality(inbound))
    BY <1>1, <1>3, <1>7, <2>1, <2>3 DEF UnreadThreadOK
  <2>5. IsFiniteSet(inbound') /\ Cardinality(inbound') = Cardinality(inbound) + 1
    BY <1>6, <2>1, <2>2, CountOne
  <2>6. row'[r.event.msg] # "none"
    BY <1>1, <1>7, <2>2 DEF Commit, RowAfter
  <2>7. unread' <= Cardinality(inbound') /\ (~readAny' => unread' = Cardinality(inbound'))
    BY <1>5, <1>6, <2>1, <2>4, <2>5
  <2> QED BY <1>4, <2>1, <2>5, <2>6, <2>7 DEF UnreadCounts
<1>8. CASE ~(Inserts(r) /\ r.event.kind = "inbound")
  <2>1. UNCHANGED <<unread, inbound, readAny>>
    BY <1>1, <1>8 DEF Commit
  <2> QED BY <1>4, <1>6, <2>1 DEF UnreadInv, UnreadCounts
<1> QED BY <1>7, <1>8

LEMMA UnreadThreadsStep ==
  ASSUME PipelineInv, UnreadInv, ReceiverAction, NEW t \in Slot PROVE UnreadThreadOK(t)'
<1>1. PICK r : r = request'[t]
  OBVIOUS
<1>2. UnreadThreadOK(t) /\ SameKey(r.event) \subseteq SameKey(r.event)'
  BY SameKeyGrows DEF UnreadInv
<1>3. CASE request'[t] = request[t]
  <2>1. UnreadThreadOK(t) /\ r = request[t] /\ SameKey(r.event) \subseteq SameKey(r.event)'
    BY <1>1, <1>2, <1>3
  <2>2. ASSUME r.phase \in {"open", "reopened"}, r.event.kind = "inbound", SameKey(r.event)' = {}
        PROVE /\ r.unread <= Cardinality(inbound')
              /\ ~readAny' => r.unread = Cardinality(inbound')
    <3>1. /\ r.unread <= Cardinality(inbound)
          /\ ~readAny => r.unread = Cardinality(inbound)
      BY <2>1, <2>2 DEF UnreadThreadOK
    <3>2. CASE inbound' = inbound /\ (readAny' = readAny \/ readAny')
      BY <3>1, <3>2
    <3>3. CASE UNCHANGED tables \/ MarkRead \/ \E m \in Msg : IdCommitted(m)
      BY <3>2, <3>3 DEF tables, MarkRead, IdCommitted
    <3>4. ASSUME NEW s \in Slot, Commit(s), inbound' # inbound PROVE FALSE
      <4>1. PICK d : d = request[s].event
        OBVIOUS
      <4>2. d \in Event \ Recorded /\ Posted(d) /\ Recorded' = Recorded \cup {d}
        BY <3>4, <4>1, CommitRecords
      <4>3. d.kind = "inbound" /\ SameKey(d) = {}
        BY <3>4, <4>1 DEF Commit, Clash
      <4>4. Posted(r.event)
        BY <2>1, <2>2 DEF PipelineInv, ThreadInv
      <4>5. r.event \in Event
        BY <4>4 DEF Posted, PipelineInv, SpoolInv, SpoolTypeOK
      <4>6. SameKey(r.event) = {} /\ r.event \notin Recorded' /\ d # r.event
        BY <2>1, <2>2, <4>2, <4>5 DEF SameKey
      <4>7. r.event \notin Recorded
        BY <4>2, <4>6
      <4>8. d \in dead \/ r.event \in dead
        BY <4>2, <4>4, <4>5, <4>6, <4>7, OneOfTwo
      <4> QED BY <2>2, <4>3, <4>6, <4>8 DEF UnreadInv, DeadExplained
    <3>5. ASSUME NEW s \in Slot, Commit(s) PROVE readAny' = readAny
      BY <3>5 DEF Commit
    <3> QED BY <3>2, <3>3, <3>4, <3>5, TablesStep
  <2> QED BY <1>1, <2>1, <2>2 DEF UnreadThreadOK
<1>4. CASE r.phase \in {"free", "arrived", "again"}
  BY <1>1, <1>4 DEF UnreadThreadOK
<1>5. CASE Read(t)
  <2>1. r.phase \in {"open", "reopened"} /\ r.unread = unread
    BY <1>1, <1>5, ReadEffect DEF PipelineInv
  <2>2. UNCHANGED <<unread, inbound, readAny>>
    BY <1>5 DEF Read, tables
  <2>3. unread <= Cardinality(inbound) /\ (~readAny => unread = Cardinality(inbound))
    BY DEF UnreadInv, UnreadCounts
  <2> QED BY <1>1, <2>1, <2>2, <2>3 DEF UnreadThreadOK
<1>6. CASE /\ r.phase = "done"
           /\ r.event = request[t].event
           /\ r.answer = "conflict" => SameKey(request[t].event) # {}
           /\ r.answer = "missing" => request[t].event.kind = "receipt"
  <2>1. r.answer = "conflict" => SameKey(r.event) # {}
    BY <1>6
  <2>2. r.answer = "conflict" => SameKey(r.event)' # {}
    BY <1>2, <2>1
  <2> QED BY <1>1, <1>6, <2>2 DEF UnreadThreadOK
<1> QED BY <1>1, <1>3, <1>4, <1>5, <1>6, ThreadEffect

LEMMA UnreadStep == ASSUME PipelineInv, UnreadInv, [Next]_vars PROVE UnreadInv'
<1>1. ReceiverAction
  BY StepsReceiver
<1>2. DeadExplained' /\ \A s \in Slot : UnreadThreadOK(s)'
  BY <1>1, DeadStays, UnreadThreadsStep
<1>3. inbound \subseteq Msg /\ \A m \in inbound : row'[m] # "none"
  BY <1>1, RowStays DEF PipelineInv, ReceiverTypeOK, UnreadInv
<1>4. ASSUME NEW s \in Slot, Commit(s)
      PROVE UnreadCounts' /\ IsFiniteSet(inbound') /\ \A m \in inbound' : row'[m] # "none"
  BY <1>3, <1>4, CommitCounts
<1>5. CASE UNCHANGED tables \/ \E m \in Msg : IdCommitted(m)
  <2>1. UNCHANGED <<stored, unread, inbound, readAny>>
    BY <1>5 DEF tables, IdCommitted
  <2>2. UnreadCounts' /\ IsFiniteSet(inbound') /\ \A m \in inbound' : row'[m] # "none"
    BY <1>3, <2>1 DEF UnreadInv, UnreadCounts, Recorded
  <2> QED BY <1>2, <2>2 DEF UnreadInv
<1>6. CASE MarkRead
  <2>1. UNCHANGED <<stored, inbound>> /\ unread' = 0 /\ readAny' = TRUE
    BY <1>6 DEF MarkRead
  <2>2. Cardinality(inbound) \in Nat
    BY FS_CardinalityType DEF UnreadInv
  <2>3. UnreadCounts' /\ IsFiniteSet(inbound') /\ \A m \in inbound' : row'[m] # "none"
    BY <1>3, <2>1, <2>2 DEF UnreadInv, UnreadCounts, Recorded
  <2> QED BY <1>2, <2>3 DEF UnreadInv
<1> QED BY <1>1, <1>2, <1>4, <1>5, <1>6, TablesStep DEF UnreadInv

LEMMA UnreadStarts == ASSUME Init PROVE UnreadInv
<1>1. IsFiniteSet(inbound) /\ Cardinality(inbound) = 0
  BY FS_EmptySet DEF Init, ReceiverInit
<1> QED BY <1>1 DEF Init, SpoolInit, ReceiverInit, UnreadInv, UnreadCounts, UnreadThreadOK,
                    DeadExplained, Recorded, Free

(* Of several events of one identity one takes effect, and the counter is  *)
(* the number of messages received until somebody reads, whatever is       *)
(* repeated or runs at once (_upsert_message, WhatsAppEventService).       *)
THEOREM UnreadCorrect == Spec => []UnreadCounts
<1>1. UnreadInv => UnreadCounts
  BY DEF UnreadInv
<1> QED BY <1>1, PipelineStarts, PipelineStep, UnreadStarts, UnreadStep, PTL DEF Spec

-----------------------------------------------------------------------------
LEMMA RowThreadsStep ==
  ASSUME PipelineInv, RowInv, SpoolAction, ReceiverAction, NEW t \in Slot PROVE RowThreadOK(t)'
<1>1. PICK r : r = request'[t]
  OBVIOUS
<1>2. CASE request'[t] = request[t] /\ r.phase \in {"open", "reopened"} /\ r.event.kind = "receipt"
  <2>1. RowThreadOK(t) /\ r = request[t]
    BY <1>1, <1>2 DEF RowInv
  <2>2. /\ r.row # "none" /\ row[r.event.msg] # "none"
        /\ r.event \notin Recorded /\ Undropped(r.event.msg) => r.row = row[r.event.msg]
    BY <1>2, <2>1 DEF RowThreadOK
  <2>3. Posted(r.event)
    BY <1>2, <2>1 DEF PipelineInv, ThreadInv
  <2>4. r.event \in Event
    BY <2>3 DEF Posted, PipelineInv, SpoolInv, SpoolTypeOK
  <2>5. r.event.msg \in Msg
    BY <1>2, <2>4, ReceiverAssumption
  <2>6. row'[r.event.msg] # "none"
    BY <2>2, <2>5, RowStays
  <2>7. Recorded \subseteq Recorded' /\ (Undropped(r.event.msg)' => Undropped(r.event.msg))
    BY RecordedGrows, SpoolGrows DEF Undropped, PipelineInv
  <2>8. ASSUME r.event \notin Recorded', Undropped(r.event.msg)' PROVE r.row = row'[r.event.msg]
    <3>1. r.row = row[r.event.msg] /\ r.event \notin Recorded /\ Undropped(r.event.msg)
      BY <2>2, <2>7, <2>8
    <3>2. CASE UNCHANGED tables \/ MarkRead
      BY <3>1, <3>2 DEF tables, MarkRead
    <3>3. ASSUME NEW m \in Msg, IdCommitted(m) PROVE r.row = row'[r.event.msg]
      BY <2>2, <3>1, <3>3 DEF IdCommitted, PipelineInv, ReceiverTypeOK
    <3>4. ASSUME NEW s \in Slot, Commit(s), row'[r.event.msg] # row[r.event.msg] PROVE FALSE
      <4>1. PICK d : d = request[s].event
        OBVIOUS
      <4>2. d \in Event \ Recorded /\ Posted(d) /\ Recorded' = Recorded \cup {d}
        BY <3>4, <4>1, CommitRecords
      <4>3. d.msg = r.event.msg /\ (d.kind = "receipt" \/ Inserts(request[s]))
        BY <2>5, <3>4, <4>1 DEF Commit, RowAfter
      <4>4. ~Inserts(request[s])
        BY <2>2, <3>4, <4>1, <4>3 DEF Commit, Clash
      <4>5. d # r.event
        BY <2>8, <4>2
      <4>6. d \in dead \/ r.event \in dead
        BY <2>3, <2>4, <3>1, <4>2, <4>5, OneOfTwo
      <4> QED BY <1>2, <3>1, <4>3, <4>4, <4>6 DEF Undropped
    <3> QED BY <3>1, <3>2, <3>3, <3>4, TablesStep
  <2> QED BY <1>1, <2>2, <2>6, <2>8 DEF RowThreadOK
<1>3. CASE Read(t)
  <2>1. /\ r.event = request[t].event
        /\ r.event.kind = "receipt" => r.row = row[r.event.msg] /\ row[r.event.msg] # "none"
    BY <1>1, <1>3, ReadEffect DEF PipelineInv, Read
  <2>2. row' = row
    BY <1>3 DEF Read, tables
  <2> QED BY <1>1, <2>1, <2>2 DEF RowThreadOK
<1>4. CASE r.phase \notin {"open", "reopened"} \/ r.event.kind # "receipt"
  BY <1>1, <1>4 DEF RowThreadOK
<1> QED BY <1>1, <1>2, <1>3, <1>4, ThreadEffect

(* What a receipt makes of the row it read never ranks lower.              *)
LEMMA ReceiptRaises ==
  ASSUME NEW old, NEW target PROVE Rank(ReceiptTo(old, target)) >= Rank(old)
<1>1. Rank(old) \in Nat /\ Rank(target) \in Nat
  BY DEF Rank
<1>2. CASE target = "failed"
  <2>1. Rank("failed") = 0
    BY DEF Rank
  <2> QED BY <1>1, <1>2, <2>1 DEF ReceiptTo
<1>3. CASE target # "failed"
  BY <1>1, <1>3 DEF ReceiptTo
<1> QED BY <1>2, <1>3

LEMMA RowRaises ==
  ASSUME PipelineInv, RowInv, ReceiverAction, NEW m \in Msg, Undropped(m)
  PROVE Rank(row'[m]) >= Rank(row[m])
<1>0. \A x : Rank(x) \in Nat
  BY DEF Rank
<1>1. CASE row'[m] = row[m]
  BY <1>0, <1>1
<1>2. CASE row[m] = "none"
  <2>1. Rank(row[m]) = 0
    BY <1>2 DEF Rank
  <2> QED BY <1>0, <2>1
<1>3. ASSUME NEW s \in Slot, Commit(s), row'[m] # row[m], row[m] # "none"
      PROVE Rank(row'[m]) >= Rank(row[m])
  <2>1. PICK r : r = request[s]
    OBVIOUS
  <2>2. r.event \in Event \ Recorded
    BY <1>3, <2>1, CommitRecords
  <2>3. m = r.event.msg /\ ~Inserts(r) /\ r.event.kind = "receipt" /\ row'[m] = RowAfter(r, m)
    BY <1>3, <2>1 DEF Commit, Clash, RowAfter
  <2>4. RowThreadOK(s)
    BY DEF RowInv
  <2>5. r.row = row[m]
    BY <1>3, <2>1, <2>2, <2>3, <2>4 DEF Commit, RowThreadOK
  <2>6. row'[m] = ReceiptTo(row[m], r.event.says)
    BY <1>3, <2>3, <2>5 DEF RowAfter, Write
  <2> QED BY <2>6, ReceiptRaises
<1>4. CASE UNCHANGED tables \/ MarkRead
  BY <1>1, <1>4 DEF tables, MarkRead
<1>5. ASSUME NEW n \in Msg, IdCommitted(n) PROVE row[m] = "none" \/ row'[m] = row[m]
  BY <1>5 DEF IdCommitted, PipelineInv, ReceiverTypeOK
<1> QED BY <1>1, <1>2, <1>3, <1>4, <1>5, TablesStep

(* A message never steps back from delivered or read, as long as none of   *)
(* its receipts was set aside: what a late transaction read is still so    *)
(* when it commits (_apply_receipt, EventSink.flushOnce).                  *)
THEOREM ReceiptsMonotone == Spec => KeptReceiptsMonotone
<1>1. Init => RowInv
  BY DEF Init, ReceiverInit, RowInv, RowThreadOK, Free
<1>2. PipelineInv /\ RowInv /\ [Next]_vars => RowInv'
  BY StepsSpool, StepsReceiver, RowThreadsStep DEF RowInv
<1>3. PipelineInv /\ RowInv /\ [Next]_vars =>
        [\A m \in Msg : (\A e \in dead : e.kind = "receipt" => e.msg # m)
                           => Rank(row'[m]) >= Rank(row[m])]_<<row, dead>>
  BY StepsReceiver, RowRaises DEF Undropped
<1> QED BY <1>1, <1>2, <1>3, PipelineStarts, PipelineStep, PTL DEF Spec, KeptReceiptsMonotone

=============================================================================
