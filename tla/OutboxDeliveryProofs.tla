------------------------ MODULE OutboxDeliveryProofs ------------------------
(***************************************************************************)
(* For any number of messages, dispatcher incarnations, crashes and        *)
(* timeouts.                                                               *)
(*                                                                         *)
(* The dispatcher alone: the types of the outbox, and, when one dispatcher *)
(* runs at a time, that it keeps the rows of its round, that the outbox    *)
(* row and the message row of a message nobody can cancel agree, and that  *)
(* such a message has the lifecycle of MessageLifecycle.                   *)
(*                                                                         *)
(* The bridge alone implements IdempotentSend: a receipt on disk excludes  *)
(* every further delivery for its key.                                     *)
(*                                                                         *)
(* Together: every step of the composition is a step of each or leaves it  *)
(* unchanged, so the composition keeps the bridge's promise; a completed   *)
(* row names a message delivered for it; and duplicates are paid for by a  *)
(* crash of the bridge or an unconfirmed delivery.                         *)
(***************************************************************************)
EXTENDS OutboxDelivery, FiniteSetTheorems, TLAPS

(*                              The dispatcher                             *)

LEMMA CountType == ASSUME NEW n \in 0..AttemptsCap PROVE Count(n) \in 0..AttemptsCap
  BY OutboxAssumption DEF Count

(* Column updates of a row keep its type.                                  *)
LEMMA TimeUpdates ==
    ASSUME NEW f \in [Item -> Row], NEW i \in Item
    PROVE  /\ [f EXCEPT ![i].due = TRUE] \in [Item -> Row]
           /\ [f EXCEPT ![i].lapsed = TRUE] \in [Item -> Row]
<1>1. [f EXCEPT ![i].due = TRUE] \in [Item -> Row]
  BY DEF Row
<1>2. [f EXCEPT ![i].lapsed = TRUE] \in [Item -> Row]
  BY DEF Row
<1> QED BY <1>1, <1>2

LEMMA DueUpdates ==
    ASSUME NEW f \in [Item -> Row], NEW i \in Item, NEW s \in OutboxStatus, NEW d \in BOOLEAN
    PROVE  [f EXCEPT ![i].status = s, ![i].due = d] \in [Item -> Row]
  BY DEF Row

LEMMA CancelledUpdates ==
    ASSUME NEW f \in [Item -> Row], NEW i \in Item, NEW s \in OutboxStatus, NEW c \in BOOLEAN
    PROVE  [f EXCEPT ![i].status = s, ![i].cancelled = c] \in [Item -> Row]
  BY DEF Row

LEMMA FailureUpdates ==
    ASSUME NEW f \in [Item -> Row], NEW i \in Item, NEW s \in OutboxStatus
    PROVE  [f EXCEPT ![i].status = s, ![i].due = FALSE, ![i].cancelled = FALSE] \in [Item -> Row]
  BY DEF Row

LEMMA MsgUpdates ==
    ASSUME NEW f \in [Item -> MsgRow], NEW i \in Item,
           NEW s \in MessageStatus, NEW id \in Id \cup {NoId}
    PROVE  /\ [f EXCEPT ![i].status = s] \in [Item -> MsgRow]
           /\ [f EXCEPT ![i].status = s, ![i].waId = id] \in [Item -> MsgRow]
<1>1. [f EXCEPT ![i].status = s] \in [Item -> MsgRow]
  BY DEF MsgRow
<1>2. [f EXCEPT ![i].status = s, ![i].waId = id] \in [Item -> MsgRow]
  BY DEF MsgRow
<1> QED BY <1>1, <1>2

LEMMA WriteType ==
    ASSUME NEW S, NEW old \in S, NEW known, NEW new \in S
    PROVE  Write(old, known, new) \in S
  BY DEF Write

LEMMA InitType == OutboxInit => OutboxTypeOK
  BY OutboxAssumption, NamesAssumption
  DEF OutboxInit, OutboxTypeOK, Row, MsgRow, OutboxStatus, MessageStatus, Phase, Result,
      NoRead, NoMsg, Seen, Unseen

LEMMA NextItemType ==
    ASSUME OutboxTypeOK, NEW w \in Worker, NextItem(w), todo' \in [Worker -> SUBSET Item]
    PROVE  /\ phase' \in [Worker -> Phase]
           /\ cur' \in [Worker -> Item \cup {NoItem}]
           /\ result' \in [Worker -> Result]
           /\ read' \in [Worker -> [Item -> 0..AttemptsCap]]
           /\ seen' \in [Worker -> Seen]
<1>1. NoRead \in [Item -> 0..AttemptsCap] /\ Unseen \in Seen /\ Retryable \in Result
  BY OutboxAssumption DEF NoRead, Unseen, Seen, NoMsg, MsgRow, MessageStatus, Result
<1> QED BY <1>1 DEF NextItem, OutboxTypeOK, Phase

LEMMA ApiType ==
    ASSUME OutboxTypeOK, ApiStep \/ TimeStep \/ (\E id \in Id : Echo(id))
    PROVE  OutboxTypeOK'
<1>1. ASSUME NEW i \in Item, Enqueue(i) PROVE OutboxTypeOK'
  <2>1. (i \notin Scheduled) \in BOOLEAN /\ "pending" \in OutboxStatus /\ "queued" \in MessageStatus
    BY DEF OutboxStatus, MessageStatus
  <2>2. outbox' \in [Item -> Row]
    BY <1>1, <2>1, DueUpdates DEF Enqueue, OutboxTypeOK
  <2>3. message' \in [Item -> MsgRow]
    BY <1>1, <2>1, MsgUpdates DEF Enqueue, OutboxTypeOK
  <2> QED BY <1>1, <2>2, <2>3 DEF Enqueue, OutboxTypeOK, apiVars, workerVars
<1>2. ASSUME NEW i \in Item, CancelCommit(i) PROVE OutboxTypeOK'
  <2>1. outbox' \in [Item -> Row]
    BY <1>2, CancelledUpdates DEF CancelCommit, OutboxTypeOK, OutboxStatus
  <2>2. Write(message[i].status, cancelling[i], "failed") \in MessageStatus
    BY WriteType DEF OutboxTypeOK, MsgRow, MessageStatus
  <2>3. message' \in [Item -> MsgRow]
    BY <1>2, <2>2, MsgUpdates DEF CancelCommit, OutboxTypeOK
  <2> QED BY <1>2, <2>1, <2>3 DEF CancelCommit, OutboxTypeOK, workerVars, MessageStatus
<1>3. ASSUME NEW i \in Item, CancelRead(i) \/ CancelLost(i) PROVE OutboxTypeOK'
  <2>1. message[i].status \in MessageStatus
    BY DEF OutboxTypeOK, MsgRow
  <2> QED BY <1>3, <2>1 DEF CancelRead, CancelLost, OutboxTypeOK, rowVars, workerVars, MessageStatus
<1>4. ASSUME NEW i \in Item, DeleteConversation(i) \/ ReviveConversation(i) PROVE OutboxTypeOK'
  BY <1>4 DEF DeleteConversation, ReviveConversation, OutboxTypeOK, rowVars, workerVars
<1>5. ASSUME NEW i \in Item, BecomesDue(i) \/ LeaseLapses(i) PROVE OutboxTypeOK'
  <2>1. CASE BecomesDue(i)
    <3>1. outbox' \in [Item -> Row]
      BY <2>1, TimeUpdates DEF BecomesDue, OutboxTypeOK
    <3> QED BY <2>1, <3>1 DEF BecomesDue, OutboxTypeOK, apiVars, workerVars
  <2>2. CASE LeaseLapses(i)
    <3>1. outbox' \in [Item -> Row]
      BY <2>2, TimeUpdates DEF LeaseLapses, OutboxTypeOK
    <3> QED BY <2>2, <3>1 DEF LeaseLapses, OutboxTypeOK, apiVars, workerVars
  <2> QED BY <1>5, <2>1, <2>2
<1>6. ASSUME NEW id \in Id, Echo(id) PROVE OutboxTypeOK'
  BY <1>6 DEF Echo, OutboxTypeOK, rowVars, workerVars
<1> QED BY <1>1, <1>2, <1>3, <1>4, <1>5, <1>6 DEF ApiStep, TimeStep

LEMMA DispatcherType ==
    ASSUME OutboxTypeOK, CallInv, NEW w \in Worker,
           \/ Start(w) \/ Crash(w) \/ LocalStep(w)
           \/ \E i \in Item : CallBridge(w, i)
           \/ \E r \in Result : Answer(w, r)
    PROVE  OutboxTypeOK'
<1>0. NoRead \in [Item -> 0..AttemptsCap] /\ Unseen \in Seen /\ Retryable \in Result /\ Final \in Result
  BY OutboxAssumption DEF NoRead, Unseen, Seen, NoMsg, MsgRow, MessageStatus, Result
<1>1. ASSUME Start(w) PROVE OutboxTypeOK'
  BY <1>1 DEF Start, OutboxTypeOK, rowVars, apiVars, Phase
<1>2. ASSUME Crash(w) PROVE OutboxTypeOK'
  BY <1>0, <1>2 DEF Crash, OutboxTypeOK, rowVars, apiVars, Phase
<1>3. ASSUME ReadExpired(w) PROVE OutboxTypeOK'
  <2>1. \A i \in Item : outbox[i].attempts \in 0..AttemptsCap
    BY DEF OutboxTypeOK, Row
  <2>2. read' \in [Worker -> [Item -> 0..AttemptsCap]]
    BY <1>3, <2>1, OutboxAssumption DEF ReadExpired, OutboxTypeOK
  <2> QED BY <1>3, <2>2 DEF ReadExpired, OutboxTypeOK, rowVars, apiVars, Phase
<1>4. ASSUME ClaimBatch(w) PROVE OutboxTypeOK'
  <2>1. PICK batch \in SUBSET Claimable(w) :
          /\ outbox' = [i \in Item |->
              IF i \in batch
              THEN [outbox[i] EXCEPT !.status = "claimed", !.owner = w, !.lapsed = FALSE,
                      !.attempts = Count(IF i \in Returned(w) THEN read[w][i] ELSE @)]
              ELSE IF i \in Returned(w)
              THEN [outbox[i] EXCEPT !.status = "pending", !.owner = NoWorker, !.lapsed = FALSE]
              ELSE outbox[i]]
          /\ todo' = [todo EXCEPT ![w] = batch]
          /\ phase' = [phase EXCEPT ![w] = IF batch = {} THEN "idle" ELSE "working"]
    BY <1>4 DEF ClaimBatch
  <2>2. ASSUME NEW i \in Item
        PROVE  Count(IF i \in Returned(w) THEN read[w][i] ELSE outbox[i].attempts) \in 0..AttemptsCap
    BY CountType DEF OutboxTypeOK, Row
  <2>3. outbox' \in [Item -> Row]
    <3> SUFFICES ASSUME NEW i \in Item PROVE outbox'[i] \in Row
      BY <2>1
    <3>1. outbox[i] \in Row
      BY DEF OutboxTypeOK
    <3>2. CASE i \in batch
      BY <2>1, <2>2, <3>1, <3>2 DEF Row, OutboxStatus
    <3>3. CASE i \notin batch
      BY <2>1, <3>1, <3>3 DEF Row, OutboxStatus
    <3> QED BY <3>2, <3>3
  <2>4. todo' \in [Worker -> SUBSET Item]
    BY <2>1 DEF OutboxTypeOK, Claimable
  <2> QED BY <1>0, <1>4, <2>1, <2>3, <2>4 DEF ClaimBatch, OutboxTypeOK, apiVars, Phase
<1>5. ASSUME SkipLost(w) PROVE OutboxTypeOK'
  <2>1. todo' \in [Worker -> SUBSET Item]
    BY <1>5 DEF SkipLost, OutboxTypeOK
  <2> QED BY <1>5, <2>1, NextItemType DEF SkipLost, OutboxTypeOK, rowVars, apiVars
<1>6. ASSUME RejectInvalid(w) PROVE OutboxTypeOK'
  BY <1>0, <1>6 DEF RejectInvalid, OutboxTypeOK, rowVars, apiVars, Phase
<1>7. ASSUME NEW i \in Item, CallBridge(w, i) PROVE OutboxTypeOK'
  BY <1>7 DEF CallBridge, OutboxTypeOK, rowVars, apiVars, Phase
<1>8. ASSUME NEW r \in Result, Answer(w, r) PROVE OutboxTypeOK'
  BY <1>8 DEF Answer, OutboxTypeOK, rowVars, apiVars, Phase
<1>9. ASSUME FinalizeRead(w) PROVE OutboxTypeOK'
  <2>0. cur[w] \in Item
    BY <1>9 DEF FinalizeRead, CallInv
  <2>1. CASE Owns(w, cur[w])
    <3>1. outbox[cur[w]].attempts \in 0..AttemptsCap /\ outbox[cur[w]].cancelled \in BOOLEAN
      BY <2>0 DEF OutboxTypeOK, Row
    <3>2. message[cur[w]] \in MsgRow
      BY <2>0 DEF OutboxTypeOK
    <3>3. [msg |-> message[cur[w]], cancelled |-> outbox[cur[w]].cancelled] \in Seen
      BY <3>1, <3>2 DEF Seen
    <3>4. read' \in [Worker -> [Item -> 0..AttemptsCap]]
      BY <1>9, <2>0, <2>1, <3>1 DEF FinalizeRead, OutboxTypeOK
    <3>5. seen' \in [Worker -> Seen] /\ phase' \in [Worker -> Phase]
      BY <1>9, <2>1, <3>3 DEF FinalizeRead, OutboxTypeOK, Phase
    <3> QED BY <1>9, <2>1, <3>4, <3>5 DEF FinalizeRead, OutboxTypeOK, rowVars, apiVars
  <2>2. CASE ~Owns(w, cur[w])
    <3>1. NextItem(w) /\ todo' \in [Worker -> SUBSET Item]
      BY <1>9, <2>2 DEF FinalizeRead, OutboxTypeOK
    <3> QED BY <1>9, <2>2, <3>1, NextItemType DEF FinalizeRead, OutboxTypeOK, rowVars, apiVars
  <2> QED BY <2>1, <2>2
<1>10. ASSUME CommitSent(w) PROVE OutboxTypeOK'
  <2>1. cur[w] \in Item /\ result[w].id \in Id
    BY <1>10 DEF CommitSent, CallInv, OutboxTypeOK, Result, Sent, Retryable, Final
  <2>2. Write(outbox[cur[w]].cancelled, seen[w].cancelled, FALSE) \in BOOLEAN
    BY <2>1, WriteType DEF OutboxTypeOK, Row
  <2>3. outbox' \in [Item -> Row]
    <3> DEFINE c == Write(outbox[cur[w]].cancelled, seen[w].cancelled, FALSE)
    <3>1. outbox' = [outbox EXCEPT ![cur[w]].status = "completed", ![cur[w]].cancelled = c]
      BY <1>10 DEF CommitSent
    <3>2. c \in BOOLEAN /\ "completed" \in OutboxStatus
      BY <2>2 DEF OutboxStatus
    <3> HIDE DEF c
    <3> QED BY <2>1, <3>1, <3>2, CancelledUpdates DEF OutboxTypeOK
  <2>4. Write(message[cur[w]].status, seen[w].msg.status, "sent") \in MessageStatus
    BY <2>1, WriteType DEF OutboxTypeOK, MsgRow, MessageStatus
  <2>5. Write(message[cur[w]].waId, seen[w].msg.waId, result[w].id) \in Id \cup {NoId}
    BY <2>1, WriteType DEF OutboxTypeOK, MsgRow
  <2>6. message' \in [Item -> MsgRow]
    BY <1>10, <2>1, <2>4, <2>5, MsgUpdates DEF CommitSent, OutboxTypeOK
  <2>7. NextItem(w) /\ todo' \in [Worker -> SUBSET Item]
    BY <1>10 DEF CommitSent, OutboxTypeOK
  <2> QED BY <1>10, <2>3, <2>6, <2>7, NextItemType DEF CommitSent, OutboxTypeOK, apiVars
<1>11. ASSUME CommitConflict(w) PROVE OutboxTypeOK'
  <2>1. NextItem(w) /\ todo' \in [Worker -> SUBSET Item]
    BY <1>11 DEF CommitConflict, OutboxTypeOK
  <2> QED BY <1>11, <2>1, NextItemType DEF CommitConflict, OutboxTypeOK, rowVars, apiVars
<1>12. ASSUME CommitFailure(w) PROVE OutboxTypeOK'
  <2> DEFINE terminal == result[w].kind = "final" \/ read[w][cur[w]] >= MaxAttempts
  <2>1. cur[w] \in Item
    BY <1>12 DEF CommitFailure, CallInv
  <2>2. outbox' \in [Item -> Row]
    <3>1. (IF terminal THEN "dead" ELSE "pending") \in OutboxStatus
      BY DEF OutboxStatus
    <3>2. outbox' = [outbox EXCEPT ![cur[w]].status = IF terminal THEN "dead" ELSE "pending",
                                   ![cur[w]].due = FALSE, ![cur[w]].cancelled = FALSE]
      BY <1>12 DEF CommitFailure
    <3> QED BY <2>1, <3>1, <3>2, FailureUpdates DEF OutboxTypeOK
  <2>3. message' \in [Item -> MsgRow]
    <3>1. (IF terminal THEN "failed" ELSE "queued") \in MessageStatus
      BY DEF MessageStatus
    <3>2. Write(message[cur[w]].status, seen[w].msg.status,
                IF terminal THEN "failed" ELSE "queued") \in MessageStatus
      BY <2>1, <3>1, WriteType DEF OutboxTypeOK, MsgRow
    <3>3. message' = [message EXCEPT ![cur[w]].status =
                        Write(@, seen[w].msg.status, IF terminal THEN "failed" ELSE "queued")]
      BY <1>12 DEF CommitFailure
    <3> QED BY <2>1, <3>2, <3>3, MsgUpdates DEF OutboxTypeOK
  <2>4. NextItem(w) /\ todo' \in [Worker -> SUBSET Item]
    BY <1>12 DEF CommitFailure, OutboxTypeOK
  <2> QED BY <1>12, <2>2, <2>3, <2>4, NextItemType DEF CommitFailure, OutboxTypeOK, apiVars
<1> QED
  BY <1>1, <1>2, <1>3, <1>4, <1>5, <1>6, <1>7, <1>8, <1>9, <1>10, <1>11, <1>12 DEF LocalStep

-----------------------------------------------------------------------------
LEMMA CallInvInit == OutboxInit => CallInv
  BY DEF OutboxInit, CallInv

(* Only the dispatcher that takes a step changes its place in the code.    *)
LEMMA CallInvApi ==
    ASSUME CallInv, UNCHANGED workerVars PROVE CallInv'
  BY DEF CallInv, workerVars

LEMMA CallInvNextItem ==
    ASSUME OutboxTypeOK, CallInv, NEW w \in Worker, NextItem(w),
           \A v \in Worker \ {w} : todo'[v] = todo[v]
    PROVE  CallInv'
<1>1. \A v \in Worker \ {w} : phase'[v] = phase[v] /\ cur'[v] = cur[v]
  BY DEF NextItem, OutboxTypeOK
<1>2. cur'[w] = NoItem /\ phase'[w] = (IF todo'[w] = {} THEN "idle" ELSE "working")
  BY DEF NextItem, OutboxTypeOK
<1> QED BY <1>1, <1>2 DEF CallInv

LEMMA CallInvDispatcher ==
    ASSUME OutboxTypeOK, CallInv, NEW w \in Worker,
           \/ Start(w) \/ Crash(w) \/ LocalStep(w)
           \/ \E i \in Item : CallBridge(w, i)
           \/ \E r \in Result : Answer(w, r)
    PROVE  CallInv'
<1>1. ASSUME Start(w) PROVE CallInv'
  BY <1>1 DEF Start, CallInv, OutboxTypeOK
<1>2. ASSUME Crash(w) PROVE CallInv'
  BY <1>2 DEF Crash, CallInv, OutboxTypeOK
<1>3. ASSUME ReadExpired(w) PROVE CallInv'
  BY <1>3 DEF ReadExpired, CallInv, OutboxTypeOK
<1>4. ASSUME ClaimBatch(w) PROVE CallInv'
  BY <1>4 DEF ClaimBatch, CallInv, OutboxTypeOK
<1>5. ASSUME SkipLost(w) PROVE CallInv'
  BY <1>5, CallInvNextItem DEF SkipLost, OutboxTypeOK
<1>6. ASSUME RejectInvalid(w) PROVE CallInv'
  BY <1>6 DEF RejectInvalid, CallInv, OutboxTypeOK
<1>7. ASSUME NEW i \in Item, CallBridge(w, i) PROVE CallInv'
  BY <1>7 DEF CallBridge, CallInv, OutboxTypeOK
<1>8. ASSUME NEW r \in Result, Answer(w, r) PROVE CallInv'
  BY <1>8 DEF Answer, CallInv, OutboxTypeOK
<1>9. ASSUME FinalizeRead(w) PROVE CallInv'
  <2>1. CASE Owns(w, cur[w])
    BY <1>9, <2>1 DEF FinalizeRead, CallInv, OutboxTypeOK
  <2>2. CASE ~Owns(w, cur[w])
    BY <1>9, <2>2, CallInvNextItem DEF FinalizeRead
  <2> QED BY <2>1, <2>2
<1>10. ASSUME CommitSent(w) PROVE CallInv'
  BY <1>10, CallInvNextItem DEF CommitSent
<1>11. ASSUME CommitConflict(w) PROVE CallInv'
  BY <1>11, CallInvNextItem DEF CommitConflict, OutboxTypeOK
<1>12. ASSUME CommitFailure(w) PROVE CallInv'
  BY <1>12, CallInvNextItem DEF CommitFailure
<1> QED
  BY <1>1, <1>2, <1>3, <1>4, <1>5, <1>6, <1>7, <1>8, <1>9, <1>10, <1>11, <1>12 DEF LocalStep

(* The types hold in every behaviour, with any number of dispatchers at a  *)
(* time and a bridge that may answer anything (outbox.py).                 *)
THEOREM OutboxTypes == OutboxSpec => [](OutboxTypeOK /\ CallInv)
<1>1. OutboxTypeOK /\ CallInv /\ [OutboxNext]_outboxVars => (OutboxTypeOK /\ CallInv)'
  <2> SUFFICES ASSUME OutboxTypeOK, CallInv, [OutboxNext]_outboxVars
               PROVE  OutboxTypeOK' /\ CallInv'
    OBVIOUS
  <2>1. CASE ApiStep \/ TimeStep \/ \E id \in Id : Echo(id)
    <3>1. UNCHANGED workerVars
      BY <2>1 DEF ApiStep, TimeStep, Echo, Enqueue, CancelRead, CancelCommit, CancelLost,
                  DeleteConversation, ReviveConversation, BecomesDue, LeaseLapses
    <3> QED BY <2>1, <3>1, ApiType, CallInvApi
  <2>2. ASSUME NEW w \in Worker,
               \/ Start(w) \/ Crash(w) \/ LocalStep(w)
               \/ \E i \in Item : CallBridge(w, i)
               \/ \E r \in Result : Answer(w, r)
        PROVE  OutboxTypeOK' /\ CallInv'
    BY <2>2, DispatcherType, CallInvDispatcher
  <2>3. CASE UNCHANGED outboxVars
    BY <2>3 DEF outboxVars, rowVars, apiVars, workerVars, OutboxTypeOK, CallInv
  <2> QED BY <2>1, <2>2, <2>3 DEF OutboxNext
<1> QED BY <1>1, InitType, CallInvInit, PTL DEF OutboxSpec

-----------------------------------------------------------------------------
(* One dispatcher at a time.                                               *)

SoleInv == SoleDispatcherInv /\ RoundKeepsRows /\ StatusesAgree /\ UncancelledInv

(* What the invariant says of the running dispatcher.                      *)
OneInv(w) ==
    \A i \in Item :
        /\ InHand(w, i) => Owns(w, i) \/ outbox[i].status = "dead"
        /\ i \notin Scheduled =>
             /\ InHand(w, i) => Owns(w, i)
             /\ phase[w] = "claiming" /\ read[w][i] > 0 => outbox[i].status = "claimed"
             /\ phase[w] = "committing" /\ cur[w] = i => seen[w].msg = message[i]

(* One that does not run holds no row.                                     *)
LEMMA StoppedHoldsNothing ==
    ASSUME CallInv, NEW w \in Worker, ~Live(w) PROVE OneInv(w)
  BY NamesAssumption DEF CallInv, OneInv, InHand, Live

LEMMA SoleParts ==
    ASSUME Exclusive
    PROVE  SoleInv <=> /\ \A v, w \in Worker : Live(v) /\ Live(w) => v = w
                       /\ \A w \in Worker : OneInv(w)
                       /\ StatusesAgree
                       /\ UncancelledInv
  BY DEF SoleInv, SoleDispatcherInv, RoundKeepsRows, OneInv

LEMMA SoleInit == OutboxInit => SoleInv
<1> SUFFICES ASSUME OutboxInit PROVE SoleInv
  OBVIOUS
<1>1. \A w \in Worker : ~Live(w)
  BY DEF OutboxInit, Live
<1>2. \A w \in Worker : OneInv(w)
  BY <1>1, CallInvInit, StoppedHoldsNothing
<1>3. \A i \in Item : outbox[i].status = "absent" /\ message[i].status = "absent"
                      /\ message[i].waId = NoId /\ cancelling[i] = "absent"
  BY DEF OutboxInit, NoMsg
<1>4. StatusesAgree
  BY <1>3 DEF StatusesAgree, Active
<1>5. UncancelledInv
  BY <1>3 DEF UncancelledInv
<1>6. CASE Exclusive
  BY <1>1, <1>2, <1>4, <1>5, <1>6, SoleParts
<1>7. CASE ~Exclusive
  BY <1>4, <1>5, <1>7 DEF SoleInv, SoleDispatcherInv, RoundKeepsRows
<1> QED BY <1>6, <1>7

(* A step of the running dispatcher is judged by its own rows.             *)
LEMMA SoleStep ==
    ASSUME SoleInv, Exclusive, CallInv', NEW w \in Worker, Live(w),
           \A v \in Worker \ {w} : phase'[v] = phase[v],
           OneInv(w)', StatusesAgree', UncancelledInv'
    PROVE  SoleInv'
<1>1. \A v \in Worker \ {w} : ~Live(v) /\ ~Live(v)'
  BY SoleParts DEF Live
<1>2. \A v \in Worker : OneInv(v)'
  <2> SUFFICES ASSUME NEW v \in Worker \ {w} PROVE OneInv(v)'
    OBVIOUS
  <2> QED BY <1>1, NamesAssumption DEF CallInv, OneInv, InHand, Live
<1>3. (\A v, u \in Worker : Live(v) /\ Live(u) => v = u)'
  BY <1>1
<1> QED BY <1>2, <1>3, SoleParts DEF SoleInv, SoleDispatcherInv, RoundKeepsRows, OneInv

(* Statuses, owners, message rows and requests alone: SoleInv is kept.     *)
LEMMA SoleFrame ==
    ASSUME SoleInv, Exclusive, UNCHANGED <<workerVars, message, cancelling>>,
           \A i \in Item : outbox'[i].status = outbox[i].status /\ outbox'[i].owner = outbox[i].owner
    PROVE  SoleInv'
<1>1. \A w \in Worker : Live(w)' <=> Live(w)
  BY DEF workerVars, Live
<1>2. \A w \in Worker, i \in Item : (InHand(w, i)' <=> InHand(w, i)) /\ (Owns(w, i)' <=> Owns(w, i))
  BY DEF workerVars, InHand, Owns
<1>3. \A w \in Worker : OneInv(w)'
  BY <1>2, SoleParts DEF OneInv, workerVars
<1>4. StatusesAgree'
  BY DEF SoleInv, StatusesAgree, Active
<1>5. UncancelledInv'
  BY DEF SoleInv, UncancelledInv
<1>6. (\A v, w \in Worker : Live(v) /\ Live(w) => v = w)'
  BY <1>1, SoleParts
<1> QED BY <1>3, <1>4, <1>5, <1>6 DEF SoleInv, SoleDispatcherInv, RoundKeepsRows, OneInv

(* A step outside the dispatchers that changes row i: no dispatcher has it *)
(* in hand, or it is a schedule.                                           *)
LEMMA SoleOtherRow ==
    ASSUME SoleInv, Exclusive, UNCHANGED workerVars, NEW i \in Item,
           \A j \in Item \ {i} : outbox'[j] = outbox[j] /\ message'[j] = message[j],
           outbox[i].status = "absent" \/ (i \in Scheduled /\ outbox'[i].status = "dead"),
           StatusesAgree', UncancelledInv'
    PROVE  SoleInv'
<1>1. \A w \in Worker : Live(w)' <=> Live(w)
  BY DEF workerVars, Live
<1>2. ASSUME NEW w \in Worker PROVE OneInv(w)'
  <2>1. OneInv(w)
    BY SoleParts
  <2>2. \A j \in Item : InHand(w, j)' <=> InHand(w, j)
    BY DEF workerVars, InHand
  <2>3. phase'[w] = phase[w] /\ cur'[w] = cur[w] /\ read'[w] = read[w] /\ seen'[w] = seen[w]
    BY DEF workerVars
  <2>4. outbox[i].status = "absent" => ~InHand(w, i) /\ cur[w] # i
    BY <2>1 DEF OneInv, InHand, Owns
  <2> SUFFICES ASSUME NEW j \in Item
               PROVE  /\ InHand(w, j) => Owns(w, j)' \/ outbox'[j].status = "dead"
                      /\ j \notin Scheduled =>
                          /\ InHand(w, j) => Owns(w, j)'
                          /\ phase[w] = "claiming" /\ read[w][j] > 0 => outbox'[j].status = "claimed"
                          /\ phase[w] = "committing" /\ cur[w] = j => seen[w].msg = message'[j]
    BY <2>2, <2>3 DEF OneInv
  <2>5. CASE j # i
    BY <2>1, <2>5 DEF OneInv, Owns
  <2>6. CASE j = i /\ outbox[i].status = "absent"
    BY <2>1, <2>4, <2>6 DEF OneInv
  <2>7. CASE j = i /\ i \in Scheduled /\ outbox'[i].status = "dead"
    BY <2>7
  <2> QED BY <2>5, <2>6, <2>7
<1>3. (\A v, w \in Worker : Live(v) /\ Live(w) => v = w)'
  BY <1>1, SoleParts
<1> QED BY <1>2, <1>3 DEF SoleInv, SoleDispatcherInv, RoundKeepsRows, OneInv

LEMMA TimeFrame ==
    ASSUME NEW f \in [Item -> Row], NEW i \in Item, NEW j \in Item
    PROVE  /\ [f EXCEPT ![i].due = TRUE][j].status = f[j].status
           /\ [f EXCEPT ![i].due = TRUE][j].owner = f[j].owner
           /\ [f EXCEPT ![i].lapsed = TRUE][j].status = f[j].status
           /\ [f EXCEPT ![i].lapsed = TRUE][j].owner = f[j].owner
<1> USE DEF Row
<1>1. [f EXCEPT ![i].due = TRUE][j].status = f[j].status
  OBVIOUS
<1>2. [f EXCEPT ![i].due = TRUE][j].owner = f[j].owner
  OBVIOUS
<1>3. [f EXCEPT ![i].lapsed = TRUE][j].status = f[j].status
  OBVIOUS
<1>4. [f EXCEPT ![i].lapsed = TRUE][j].owner = f[j].owner
  OBVIOUS
<1> QED BY <1>1, <1>2, <1>3, <1>4

LEMMA SoleApi ==
    ASSUME OutboxTypeOK, SoleInv, Exclusive,
           ApiStep \/ TimeStep \/ (\E id \in Id : Echo(id))
    PROVE  SoleInv'
<1>1. ASSUME NEW i \in Item, Enqueue(i) PROVE SoleInv'
  <2>1. /\ \A j \in Item \ {i} : outbox'[j] = outbox[j] /\ message'[j] = message[j]
        /\ outbox'[i].status = "pending" /\ outbox[i].status = "absent"
        /\ message'[i].status = "queued" /\ message'[i].waId = message[i].waId
        /\ cancelling' = cancelling
    BY <1>1 DEF Enqueue, OutboxTypeOK, Row, MsgRow, apiVars
  <2>2. i \notin Scheduled => message[i].waId = NoId
    BY <2>1 DEF SoleInv, StatusesAgree, UncancelledInv
  <2>3. StatusesAgree'
    BY <2>1 DEF SoleInv, StatusesAgree, Active
  <2>4. UncancelledInv'
    BY <2>1, <2>2 DEF SoleInv, UncancelledInv
  <2> QED BY <1>1, <2>1, <2>3, <2>4, SoleOtherRow DEF Enqueue
<1>2. ASSUME NEW i \in Item, CancelRead(i) \/ CancelLost(i) PROVE SoleInv'
  <2>1. UNCHANGED <<outbox, message, workerVars>>
    BY <1>2 DEF CancelRead, CancelLost, rowVars
  <2>2. \A j \in Item \ Scheduled : cancelling'[j] = "absent"
    BY <1>2 DEF CancelRead, CancelLost, SoleInv, UncancelledInv, OutboxTypeOK
  <2>3. StatusesAgree' /\ UncancelledInv'
    BY <2>1, <2>2 DEF SoleInv, StatusesAgree, UncancelledInv, Active
  <2>4. \A w \in Worker : Live(w)' <=> Live(w)
    BY <2>1 DEF workerVars, Live
  <2>6. \A w \in Worker : OneInv(w)'
    <3>1. \A w \in Worker : OneInv(w)
      BY SoleParts
    <3> QED BY <2>1, <3>1 DEF workerVars, OneInv, InHand, Owns
  <2>5. (\A v, w \in Worker : Live(v) /\ Live(w) => v = w)'
    BY <2>4, SoleParts
  <2> QED BY <2>3, <2>5, <2>6 DEF SoleInv, SoleDispatcherInv, RoundKeepsRows, OneInv
<1>3. ASSUME NEW i \in Item, CancelCommit(i) PROVE SoleInv'
  <2>1. i \in Scheduled
    BY <1>3 DEF CancelCommit, SoleInv, UncancelledInv
  <2>2. /\ \A j \in Item \ {i} : /\ outbox'[j] = outbox[j] /\ message'[j] = message[j]
                                 /\ cancelling'[j] = cancelling[j]
        /\ outbox'[i].status = "dead"
    BY <1>3 DEF CancelCommit, OutboxTypeOK, Row, MsgRow
  <2>3. StatusesAgree' /\ UncancelledInv'
    BY <2>1, <2>2 DEF SoleInv, StatusesAgree, UncancelledInv, Active
  <2> QED BY <1>3, <2>1, <2>2, <2>3, SoleOtherRow DEF CancelCommit
<1>4. ASSUME NEW i \in Item, DeleteConversation(i) \/ ReviveConversation(i) PROVE SoleInv'
  BY <1>4, SoleFrame DEF DeleteConversation, ReviveConversation, rowVars
<1>5. ASSUME NEW i \in Item, BecomesDue(i) \/ LeaseLapses(i) PROVE SoleInv'
  <2>1. outbox' = [outbox EXCEPT ![i].due = TRUE] \/ outbox' = [outbox EXCEPT ![i].lapsed = TRUE]
    BY <1>5 DEF BecomesDue, LeaseLapses
  <2>2. ASSUME NEW j \in Item
        PROVE  outbox'[j].status = outbox[j].status /\ outbox'[j].owner = outbox[j].owner
    <3>1. outbox \in [Item -> Row]
      BY DEF OutboxTypeOK
    <3>2. CASE outbox' = [outbox EXCEPT ![i].due = TRUE]
      BY <3>1, <3>2, TimeFrame
    <3>3. CASE outbox' = [outbox EXCEPT ![i].lapsed = TRUE]
      BY <3>1, <3>3, TimeFrame
    <3> QED BY <2>1, <3>2, <3>3
  <2> QED BY <1>5, <2>2, SoleFrame DEF BecomesDue, LeaseLapses, apiVars
<1>6. ASSUME NEW id \in Id, Echo(id) PROVE SoleInv'
  BY <1>6, SoleFrame DEF Echo, rowVars
<1> QED BY <1>1, <1>2, <1>3, <1>4, <1>5, <1>6 DEF ApiStep, TimeStep

(* The rows are not touched.                                               *)
LEMMA SoleRowsKept ==
    ASSUME SoleInv, UNCHANGED <<rowVars, apiVars>> PROVE StatusesAgree' /\ UncancelledInv'
  BY DEF SoleInv, StatusesAgree, UncancelledInv, Active, rowVars, apiVars

(* The dispatcher goes on to the next row: those left are still its own.   *)
LEMMA SoleNextItem ==
    ASSUME OutboxTypeOK, NEW w \in Worker, OneInv(w), NextItem(w), todo'[w] \subseteq todo[w],
           \A j \in todo'[w] : outbox'[j] = outbox[j]
    PROVE  /\ OneInv(w)'
           /\ \A v \in Worker \ {w} : phase'[v] = phase[v]
<1>1. phase'[w] \in {"idle", "working"} /\ cur'[w] = NoItem
  BY DEF NextItem, OutboxTypeOK
<1>2. \A j \in Item : InHand(w, j)' => InHand(w, j) /\ outbox'[j] = outbox[j]
  BY <1>1, NamesAssumption DEF InHand
<1>3. OneInv(w)'
  BY <1>1, <1>2, NamesAssumption DEF OneInv, Owns
<1>4. \A v \in Worker \ {w} : phase'[v] = phase[v]
  BY DEF NextItem, OutboxTypeOK
<1> QED BY <1>3, <1>4

LEMMA SoleClaim ==
    ASSUME OutboxTypeOK, CallInv, SoleInv, Exclusive, NEW w \in Worker, ClaimBatch(w)
    PROVE  OneInv(w)' /\ StatusesAgree' /\ UncancelledInv'
<1>1. PICK batch \in SUBSET Claimable(w) :
        /\ outbox' = [i \in Item |->
            IF i \in batch
            THEN [outbox[i] EXCEPT !.status = "claimed", !.owner = w, !.lapsed = FALSE,
                    !.attempts = Count(IF i \in Returned(w) THEN read[w][i] ELSE @)]
            ELSE IF i \in Returned(w)
            THEN [outbox[i] EXCEPT !.status = "pending", !.owner = NoWorker, !.lapsed = FALSE]
            ELSE outbox[i]]
        /\ todo' = [todo EXCEPT ![w] = batch]
        /\ phase' = [phase EXCEPT ![w] = IF batch = {} THEN "idle" ELSE "working"]
  BY DEF ClaimBatch
<1>2. /\ phase[w] = "claiming" /\ cur[w] = NoItem /\ cur' = cur
      /\ phase'[w] \in {"idle", "working"} /\ todo'[w] = batch
      /\ message' = message /\ cancelling' = cancelling
  BY <1>1 DEF ClaimBatch, CallInv, OutboxTypeOK, apiVars
<1>3. \A i \in batch : outbox'[i].status = "claimed" /\ outbox'[i].owner = w
  <2> SUFFICES ASSUME NEW i \in batch PROVE outbox'[i].status = "claimed" /\ outbox'[i].owner = w
    OBVIOUS
  <2>1. i \in Item /\ outbox[i] \in Row
    BY DEF Claimable, OutboxTypeOK
  <2> QED BY <1>1, <2>1 DEF Row
<1>4. ASSUME NEW i \in Item \ Scheduled
      PROVE  /\ outbox'[i].status # outbox[i].status =>
                  outbox[i].status \in {"pending", "claimed"} /\ outbox'[i].status \in {"pending", "claimed"}
  <2>1. outbox[i] \in Row
    BY DEF OutboxTypeOK
  <2>2. i \in Returned(w) => outbox[i].status = "claimed"
    BY <1>2, SoleParts DEF OneInv, Returned
  <2>3. i \in batch => outbox[i].status \in {"pending", "claimed"}
    BY <2>2 DEF Claimable
  <2>4. i \notin batch => outbox'[i].status = IF i \in Returned(w) THEN "pending" ELSE outbox[i].status
    BY <1>1, <2>1 DEF Row
  <2> QED BY <1>3, <2>2, <2>3, <2>4
<1>5. StatusesAgree'
  BY <1>2, <1>4 DEF SoleInv, StatusesAgree, Active
<1>6. UncancelledInv'
  BY <1>2 DEF SoleInv, UncancelledInv
<1>7. OneInv(w)'
  BY <1>2, <1>3, NamesAssumption DEF OneInv, InHand, Owns
<1> QED BY <1>5, <1>6, <1>7

(* A commit that writes the row in hand, and the message it was read with. *)
LEMMA SoleCommit ==
    ASSUME OutboxTypeOK, CallInv, SoleInv, Exclusive, NEW w \in Worker,
           CommitSent(w) \/ CommitFailure(w)
    PROVE  /\ OneInv(w)' /\ StatusesAgree' /\ UncancelledInv'
           /\ \A v \in Worker \ {w} : phase'[v] = phase[v]
<1>1. /\ phase[w] = "committing" /\ cur[w] \in Item \ todo[w]
      /\ NextItem(w) /\ todo' = todo /\ cancelling' = cancelling
  BY DEF CommitSent, CommitFailure, CallInv, apiVars
<1>2. \A j \in Item \ {cur[w]} : outbox'[j] = outbox[j] /\ message'[j] = message[j]
  BY <1>1 DEF CommitSent, CommitFailure, OutboxTypeOK
<1>3. cur[w] \notin Scheduled =>
        /\ outbox[cur[w]].status = "claimed" /\ seen[w].msg = message[cur[w]]
        /\ message[cur[w]].status = "queued" /\ message[cur[w]].waId = NoId
  <2>1. cur[w] \notin Scheduled => outbox[cur[w]].status = "claimed" /\ seen[w].msg = message[cur[w]]
    BY <1>1, SoleParts DEF OneInv, InHand, Owns
  <2> QED BY <1>1, <2>1 DEF SoleInv, StatusesAgree, UncancelledInv, Active
<1>4. cur[w] \notin Scheduled =>
        \/ outbox'[cur[w]].status = "completed" /\ message'[cur[w]].status = "sent"
        \/ /\ message'[cur[w]].waId = NoId
           /\ \/ outbox'[cur[w]].status = "pending" /\ message'[cur[w]].status = "queued"
              \/ outbox'[cur[w]].status = "dead" /\ message'[cur[w]].status = "failed"
  <2> SUFFICES ASSUME cur[w] \notin Scheduled
               PROVE  \/ outbox'[cur[w]].status = "completed" /\ message'[cur[w]].status = "sent"
                      \/ /\ message'[cur[w]].waId = NoId
                         /\ \/ outbox'[cur[w]].status = "pending" /\ message'[cur[w]].status = "queued"
                            \/ outbox'[cur[w]].status = "dead" /\ message'[cur[w]].status = "failed"
    OBVIOUS
  <2>1. outbox[cur[w]] \in Row /\ message[cur[w]] \in MsgRow /\ outbox \in [Item -> Row]
        /\ message \in [Item -> MsgRow]
    BY <1>1 DEF OutboxTypeOK
  <2>2. CASE CommitSent(w)
    <3>1. outbox'[cur[w]].status = "completed"
      BY <1>1, <2>1, <2>2 DEF CommitSent, Row
    <3>2. message'[cur[w]].status = Write(message[cur[w]].status, seen[w].msg.status, "sent")
      BY <1>1, <2>1, <2>2 DEF CommitSent, MsgRow
    <3> QED BY <1>3, <3>1, <3>2 DEF Write
  <2>3. CASE CommitFailure(w)
    <3> DEFINE terminal == result[w].kind = "final" \/ read[w][cur[w]] >= MaxAttempts
    <3>1. outbox'[cur[w]].status = IF terminal THEN "dead" ELSE "pending"
      BY <1>1, <2>1, <2>3 DEF CommitFailure, Row
    <3>2. /\ message'[cur[w]].status =
                Write(message[cur[w]].status, seen[w].msg.status, IF terminal THEN "failed" ELSE "queued")
          /\ message'[cur[w]].waId = message[cur[w]].waId
      BY <1>1, <2>1, <2>3 DEF CommitFailure, MsgRow
    <3> HIDE DEF terminal
    <3> QED BY <1>3, <3>1, <3>2 DEF Write
  <2> QED BY <2>2, <2>3
<1>5. StatusesAgree'
  BY <1>1, <1>2, <1>4 DEF SoleInv, StatusesAgree, Active
<1>6. UncancelledInv'
  BY <1>1, <1>2, <1>4 DEF SoleInv, UncancelledInv
<1>7. \A j \in todo'[w] : outbox'[j] = outbox[j]
  BY <1>1, <1>2 DEF OutboxTypeOK
<1>8. OneInv(w)
  BY SoleParts
<1> QED BY <1>1, <1>5, <1>6, <1>7, <1>8, SoleNextItem

(* A step that leaves the rows alone.                                      *)
LEMMA SoleQuietStep ==
    ASSUME OutboxTypeOK, CallInv, SoleInv, Exclusive, NEW w \in Worker,
           \/ ReadExpired(w) \/ SkipLost(w) \/ RejectInvalid(w)
           \/ FinalizeRead(w) \/ CommitConflict(w)
           \/ \E i \in Item : CallBridge(w, i)
           \/ \E r \in Result : Answer(w, r)
    PROVE  /\ OneInv(w)'
           /\ \A v \in Worker \ {w} : phase'[v] = phase[v]
<1>0. OneInv(w)
  BY SoleParts
<1>1. CASE ReadExpired(w)
  <2>1. phase[w] = "idle" /\ phase'[w] = "claiming" /\ UNCHANGED <<outbox, message, todo, cur, seen>>
    BY <1>1 DEF ReadExpired, OutboxTypeOK, rowVars
  <2>2. \A i \in Item : ~InHand(w, i)'
    BY <2>1, NamesAssumption DEF CallInv, InHand
  <2>3. \A i \in Item : read'[w][i] > 0 => outbox[i].status = "claimed"
    BY <1>1 DEF ReadExpired, OutboxTypeOK
  <2>4. OneInv(w)'
    BY <2>1, <2>2, <2>3 DEF OneInv
  <2> QED BY <1>1, <2>4 DEF ReadExpired, OutboxTypeOK
<1>2. CASE SkipLost(w) \/ CommitConflict(w)
  <2>1. NextItem(w) /\ todo'[w] \subseteq todo[w] /\ outbox' = outbox
    BY <1>2 DEF SkipLost, CommitConflict, rowVars, OutboxTypeOK
  <2> QED BY <1>0, <2>1, SoleNextItem
<1>3. CASE RejectInvalid(w) \/ \E i \in Item : CallBridge(w, i)
  <2>1. /\ phase'[w] \in {"answered", "calling"} /\ UNCHANGED <<outbox, message>>
        /\ \A i \in Item : InHand(w, i)' => InHand(w, i)
    BY <1>3 DEF RejectInvalid, CallBridge, OutboxTypeOK, InHand, rowVars
  <2>2. OneInv(w)'
    BY <1>0, <2>1 DEF OneInv, Owns
  <2> QED BY <1>3, <2>2 DEF RejectInvalid, CallBridge, OutboxTypeOK
<1>4. CASE \E r \in Result : Answer(w, r)
  <2>1. phase'[w] = "answered" /\ UNCHANGED <<outbox, message, todo, cur>>
    BY <1>4 DEF Answer, OutboxTypeOK, rowVars
  <2>2. OneInv(w)'
    BY <1>0, <2>1 DEF OneInv, Owns, InHand
  <2> QED BY <1>4, <2>2 DEF Answer, OutboxTypeOK
<1>5. CASE FinalizeRead(w) /\ Owns(w, cur[w])
  <2>1. phase'[w] = "committing" /\ UNCHANGED <<outbox, message, todo, cur>>
    BY <1>5 DEF FinalizeRead, OutboxTypeOK, rowVars
  <2>2. seen'[w].msg = message[cur[w]]
    BY <1>5 DEF FinalizeRead, OutboxTypeOK
  <2>3. OneInv(w)'
    BY <1>0, <2>1, <2>2 DEF OneInv, Owns, InHand
  <2> QED BY <1>5, <2>3 DEF FinalizeRead, OutboxTypeOK
<1>6. CASE FinalizeRead(w) /\ ~Owns(w, cur[w])
  <2>1. NextItem(w) /\ todo' = todo /\ outbox' = outbox
    BY <1>6 DEF FinalizeRead, rowVars
  <2> QED BY <1>0, <2>1, SoleNextItem
<1> QED BY <1>1, <1>2, <1>3, <1>4, <1>5, <1>6

LEMMA SoleDispatcher ==
    ASSUME OutboxTypeOK, CallInv, CallInv', SoleInv, Exclusive, NEW w \in Worker,
           \/ Start(w) \/ Crash(w) \/ LocalStep(w)
           \/ \E i \in Item : CallBridge(w, i)
           \/ \E r \in Result : Answer(w, r)
    PROVE  SoleInv'
<1>1. CASE Start(w)
  <2>1. /\ \A v \in Worker : ~Live(v)
        /\ \A v \in Worker : v # w => phase'[v] = phase[v]
        /\ phase[w] = "off" /\ phase'[w] = "idle"
        /\ UNCHANGED <<rowVars, apiVars, todo, cur>>
    BY <1>1 DEF Start, OutboxTypeOK
  <2>2. \A v, u \in Worker : Live(v)' /\ Live(u)' => v = u
    BY <2>1 DEF Live
  <2>3. \A v \in Worker, i \in Item : ~InHand(v, i)'
    BY <2>1, NamesAssumption DEF CallInv, InHand, Live
  <2>4. \A v \in Worker : phase'[v] \notin {"claiming", "committing"}
    BY <2>1 DEF Live
  <2>5. \A v \in Worker : OneInv(v)'
    BY <2>3, <2>4 DEF OneInv
  <2> QED BY <2>1, <2>2, <2>5, SoleRowsKept
          DEF SoleInv, SoleDispatcherInv, RoundKeepsRows, OneInv
<1>2. CASE Crash(w)
  <2>1. /\ Live(w) /\ ~Live(w)' /\ UNCHANGED <<rowVars, apiVars>>
        /\ \A v \in Worker \ {w} : phase'[v] = phase[v]
    BY <1>2 DEF Crash, OutboxTypeOK, Live
  <2>2. OneInv(w)'
    BY <2>1, NamesAssumption DEF CallInv, OneInv, InHand, Live
  <2> QED BY <2>1, <2>2, SoleRowsKept, SoleStep
<1>3. CASE ClaimBatch(w)
  <2>1. Live(w) /\ \A v \in Worker \ {w} : phase'[v] = phase[v]
    BY <1>3 DEF ClaimBatch, OutboxTypeOK, Live
  <2> QED BY <1>3, <2>1, SoleClaim, SoleStep
<1>4. CASE CommitSent(w) \/ CommitFailure(w)
  <2>1. Live(w)
    BY <1>4 DEF CommitSent, CommitFailure, Live
  <2> QED BY <1>4, <2>1, SoleCommit, SoleStep
<1>5. CASE \/ ReadExpired(w) \/ SkipLost(w) \/ RejectInvalid(w)
           \/ FinalizeRead(w) \/ CommitConflict(w)
           \/ \E i \in Item : CallBridge(w, i)
           \/ \E r \in Result : Answer(w, r)
  <2>1. Live(w) /\ UNCHANGED <<rowVars, apiVars>>
    BY <1>5 DEF ReadExpired, SkipLost, RejectInvalid, FinalizeRead, CommitConflict,
                CallBridge, Answer, Live
  <2>2. OneInv(w)' /\ \A v \in Worker \ {w} : phase'[v] = phase[v]
    BY <1>5, SoleQuietStep
  <2> QED BY <2>1, <2>2, SoleRowsKept, SoleStep
<1> QED BY <1>1, <1>2, <1>3, <1>4, <1>5 DEF LocalStep

(* Without Exclusive, SoleInv says only that no cancel is open for what    *)
(* nobody can cancel.                                                      *)
LEMMA SoleManyDispatchers ==
    ASSUME SoleInv, ~Exclusive, OutboxTypeOK, [OutboxNext]_outboxVars
    PROVE  SoleInv'
<1>1. \A i \in Item \ Scheduled : cancelling[i] = "absent"
  BY DEF SoleInv, UncancelledInv
<1>2. \A i \in Item \ Scheduled : cancelling'[i] = "absent"
  <2>1. CASE UNCHANGED apiVars
    BY <1>1, <2>1 DEF apiVars
  <2>2. CASE ApiStep
    BY <1>1, <2>2 DEF ApiStep, Enqueue, CancelRead, CancelCommit, CancelLost, DeleteConversation,
                      ReviveConversation, apiVars, OutboxTypeOK
  <2>3. CASE \E id \in Id : Echo(id)
    BY <1>1, <2>3 DEF Echo
  <2>4. CASE TimeStep \/ UNCHANGED outboxVars
    BY <2>1, <2>4 DEF TimeStep, BecomesDue, LeaseLapses, outboxVars
  <2>5. ASSUME NEW w \in Worker,
               \/ Start(w) \/ Crash(w) \/ LocalStep(w)
               \/ \E i \in Item : CallBridge(w, i)
               \/ \E r \in Result : Answer(w, r)
        PROVE  UNCHANGED apiVars
    BY <2>5 DEF Start, Crash, LocalStep, ReadExpired, ClaimBatch, SkipLost, RejectInvalid,
                FinalizeRead, CommitSent, CommitConflict, CommitFailure, CallBridge, Answer
  <2> QED BY <2>1, <2>2, <2>3, <2>4, <2>5 DEF OutboxNext
<1> QED BY <1>2 DEF SoleInv, SoleDispatcherInv, RoundKeepsRows, StatusesAgree, UncancelledInv

LEMMA SoleNext ==
    ASSUME OutboxTypeOK, CallInv, CallInv', SoleInv, [OutboxNext]_outboxVars
    PROVE  SoleInv'
<1>1. CASE ~Exclusive
  BY <1>1, SoleManyDispatchers
<1>2. CASE Exclusive /\ UNCHANGED outboxVars
  BY <1>2, SoleFrame DEF outboxVars, rowVars, apiVars
<1>3. CASE Exclusive /\ OutboxNext
  BY <1>3, SoleApi, SoleDispatcher DEF OutboxNext
<1> QED BY <1>1, <1>2, <1>3

(* One dispatcher at a time keeps the rows of its round although it never  *)
(* renews a lease, and then the row of the queue and the message shown by  *)
(* the API agree (outbox.py).                                              *)
THEOREM OutboxSole == OutboxSpec => [](RoundKeepsRows /\ StatusesAgree)
<1>1. OutboxInit => SoleInv
  BY SoleInit
<1>2. OutboxTypeOK /\ CallInv /\ CallInv' /\ SoleInv /\ [OutboxNext]_outboxVars => SoleInv'
  BY SoleNext
<1>3. SoleInv => RoundKeepsRows /\ StatusesAgree
  BY DEF SoleInv
<1> QED BY <1>1, <1>2, <1>3, OutboxTypes, PTL DEF OutboxSpec

(* The two rows of a message nobody can cancel never tell different        *)
(* stories (enqueue_outbox_message, _deliver, _finalize_failure).          *)
THEOREM OutboxAgrees == OutboxSpec => []StatusesAgree
  BY OutboxSole, PTL

-----------------------------------------------------------------------------
(* The lifecycle a client sees.                                            *)

shown == [i \in Item \ Scheduled |-> message[i].status]
ids == [i \in Item \ Scheduled |-> message[i].waId]

LEMMA LifecycleStutter ==
    ASSUME \A i \in Item \ Scheduled : message'[i] = message[i]
    PROVE  UNCHANGED <<shown, ids>>
  BY DEF shown, ids

(* A commit is Send, or Fail, or shows nothing new.                        *)
LEMMA LifecycleCommit ==
    ASSUME OutboxTypeOK, CallInv, SoleInv, Exclusive, NEW w \in Worker,
           CommitSent(w) \/ CommitFailure(w)
    PROVE  [Lifecycle!Next]_<<shown, ids>>
<1> DEFINE i == cur[w]
<1>1. phase[w] = "committing" /\ i \in Item \ todo[w] /\ message \in [Item -> MsgRow]
  BY DEF CommitSent, CommitFailure, CallInv, OutboxTypeOK
<1>2. \A j \in Item \ {i} : message'[j] = message[j]
  BY <1>1 DEF CommitSent, CommitFailure
<1>3. CASE i \in Scheduled
  BY <1>2, <1>3, LifecycleStutter
<1>4. CASE i \notin Scheduled
  <2>1. outbox[i].status = "claimed" /\ seen[w].msg = message[i]
    BY <1>1, <1>4, SoleParts DEF OneInv, InHand, Owns
  <2>2. message[i].status = "queued" /\ message[i].waId = NoId
    BY <1>1, <1>4, <2>1 DEF SoleInv, StatusesAgree, UncancelledInv, Active
  <2>3. shown[i] = "queued" /\ ids[i] = NoId
    BY <1>1, <1>4, <2>2 DEF shown, ids
  <2>4. CASE CommitSent(w)
    <3>1. result[w].id \in Id /\ ~Taken(i, result[w].id)
      BY <2>4 DEF CommitSent, OutboxTypeOK, Result, Sent, Retryable, Final
    <3>2. /\ message'[i].status = Write(message[i].status, seen[w].msg.status, "sent")
          /\ message'[i].waId = Write(message[i].waId, seen[w].msg.waId, result[w].id)
      BY <1>1, <2>4 DEF CommitSent, MsgRow
    <3>3. message'[i].status = "sent" /\ message'[i].waId = result[w].id
      BY <2>1, <2>2, <3>1, <3>2, NamesAssumption DEF Write
    <3>4. shown' = [shown EXCEPT ![i] = "sent"] /\ ids' = [ids EXCEPT ![i] = result[w].id]
      BY <1>1, <1>2, <1>4, <3>3 DEF shown, ids
    <3>5. \A j \in Item \ Scheduled : ids[j] # result[w].id
      BY <1>1, <2>3, <3>1, NamesAssumption DEF ids, Taken
    <3> QED BY <1>1, <1>4, <2>3, <3>1, <3>4, <3>5 DEF Lifecycle!Next, Lifecycle!Send, shown, ids
  <2>5. CASE CommitFailure(w)
    <3> DEFINE terminal == result[w].kind = "final" \/ read[w][cur[w]] >= MaxAttempts
    <3>1. /\ message'[i].status =
                Write(message[i].status, seen[w].msg.status, IF terminal THEN "failed" ELSE "queued")
          /\ message'[i].waId = message[i].waId
      BY <1>1, <2>5 DEF CommitFailure, MsgRow
    <3> HIDE DEF terminal
    <3>2. message'[i].status = "queued" \/ message'[i].status = "failed"
      BY <2>1, <2>2, <3>1 DEF Write
    <3>3. ids' = ids
      BY <1>2, <3>1 DEF ids
    <3>4. CASE message'[i].status = "queued"
      BY <1>2, <2>2, <3>3, <3>4 DEF shown
    <3>5. CASE message'[i].status = "failed"
      <4>1. shown' = [shown EXCEPT ![i] = "failed"]
        BY <1>1, <1>2, <1>4, <3>5 DEF shown
      <4> QED BY <1>1, <1>4, <2>3, <3>3, <4>1 DEF Lifecycle!Next, Lifecycle!Fail, shown, ids
    <3> QED BY <3>2, <3>4, <3>5
  <2> QED BY <2>4, <2>5
<1> QED BY <1>3, <1>4

LEMMA LifecycleStep ==
    ASSUME OutboxTypeOK, CallInv, SoleInv, Exclusive, [OutboxNext]_outboxVars
    PROVE  [Lifecycle!Next]_<<shown, ids>>
<1>1. ASSUME NEW i \in Item, Enqueue(i) PROVE [Lifecycle!Next]_<<shown, ids>>
  <2>1. /\ outbox[i].status = "absent" /\ message \in [Item -> MsgRow]
        /\ message' = [message EXCEPT ![i].status = "queued"]
    BY <1>1 DEF Enqueue, OutboxTypeOK
  <2>2. /\ \A j \in Item \ {i} : message'[j] = message[j]
        /\ message'[i].status = "queued" /\ message'[i].waId = message[i].waId
    BY <2>1 DEF MsgRow
  <2>3. CASE i \in Scheduled
    BY <2>2, <2>3, LifecycleStutter
  <2>4. CASE i \notin Scheduled
    <3>1. message[i].status = "absent"
      BY <2>1, <2>4 DEF SoleInv, StatusesAgree
    <3>2. shown[i] = "absent" /\ shown' = [shown EXCEPT ![i] = "queued"] /\ ids' = ids
      BY <2>2, <2>4, <3>1 DEF shown, ids
    <3>3. Lifecycle!Accept(i)
      BY <3>2 DEF Lifecycle!Accept, shown, ids
    <3> QED BY <2>4, <3>3 DEF Lifecycle!Next
  <2> QED BY <2>3, <2>4
<1>2. ASSUME NEW i \in Item, CancelCommit(i) PROVE [Lifecycle!Next]_<<shown, ids>>
  <2>1. i \in Scheduled
    BY <1>2 DEF CancelCommit, SoleInv, UncancelledInv
  <2>2. \A j \in Item \ {i} : message'[j] = message[j]
    BY <1>2 DEF CancelCommit, OutboxTypeOK
  <2> QED BY <2>1, <2>2, LifecycleStutter
<1>3. ASSUME NEW i \in Item,
             \/ CancelRead(i) \/ CancelLost(i) \/ DeleteConversation(i) \/ ReviveConversation(i)
             \/ BecomesDue(i) \/ LeaseLapses(i)
      PROVE  message' = message
  BY <1>3 DEF CancelRead, CancelLost, DeleteConversation, ReviveConversation, BecomesDue,
              LeaseLapses, rowVars
<1>4. CASE \E x \in Id : Echo(x)
  BY <1>4, LifecycleStutter DEF Echo, rowVars
<1>5. ASSUME NEW w \in Worker,
             \/ Start(w) \/ Crash(w) \/ LocalStep(w)
             \/ \E i \in Item : CallBridge(w, i)
             \/ \E r \in Result : Answer(w, r)
      PROVE  [Lifecycle!Next]_<<shown, ids>>
  <2>1. CASE CommitSent(w) \/ CommitFailure(w)
    BY <2>1, LifecycleCommit
  <2>2. CASE ~(CommitSent(w) \/ CommitFailure(w))
    <3>1. message' = message
      BY <1>5, <2>2 DEF Start, Crash, LocalStep, ReadExpired, ClaimBatch, SkipLost, RejectInvalid,
                        FinalizeRead, CommitConflict, CallBridge, Answer, rowVars
    <3> QED BY <3>1, LifecycleStutter
  <2> QED BY <2>1, <2>2
<1>6. CASE UNCHANGED outboxVars
  BY <1>6, LifecycleStutter DEF outboxVars, rowVars
<1>7. CASE ApiStep \/ TimeStep
  BY <1>1, <1>2, <1>3, <1>7, LifecycleStutter DEF ApiStep, TimeStep
<1> QED BY <1>4, <1>5, <1>6, <1>7 DEF OutboxNext

(* One dispatcher at a time implements the lifecycle: a message nobody can *)
(* cancel is accepted once, then sent with an id of its own or failed, and *)
(* neither is ever revised (enqueue_outbox_message, _deliver,              *)
(* _finalize_failure).                                                     *)
THEOREM OutboxLifecycle == ASSUME Exclusive PROVE OutboxSpec => LifecycleKept
<1>1. OutboxInit => Lifecycle!Init
  BY DEF OutboxInit, Lifecycle!Init, NoMsg
<1>2. OutboxInit => SoleInv
  BY SoleInit
<1>3. OutboxTypeOK /\ CallInv /\ CallInv' /\ SoleInv /\ [OutboxNext]_outboxVars => SoleInv'
  BY SoleNext
<1>4. OutboxTypeOK /\ CallInv /\ SoleInv /\ [OutboxNext]_outboxVars
        => [Lifecycle!Next]_<<[i \in Item \ Scheduled |-> message[i].status],
                              [i \in Item \ Scheduled |-> message[i].waId]>>
  BY LifecycleStep DEF shown, ids
<1> QED BY <1>1, <1>2, <1>3, <1>4, OutboxTypes, PTL DEF OutboxSpec, LifecycleKept, Lifecycle!Spec

-----------------------------------------------------------------------------
(*                               The bridge                                *)

P == INSTANCE IdempotentSend WITH receipt <- file

BridgeInv == BridgeTypeOK /\ ReceiptInv

LEMMA BridgeInitInv == BridgeInit => BridgeInv
  BY NamesAssumption, BridgeAssumption
  DEF BridgeInit, BridgeInv, BridgeTypeOK, ReceiptInv, Loaded, NoEntries, OpState

(* A request handled for some clients changes operations and replies only, *)
(* and starts an operation only where no receipt exists.                   *)
LEMMA HandleInv ==
    ASSUME NEW k \in Item, NEW clients \in SUBSET Worker, BridgeInv, Handle(k, clients),
           UNCHANGED <<up, online, entries, file, opId, delivered>>
    PROVE  /\ op' \in [Item -> OpState]
           /\ waiting' \in [Item -> SUBSET Worker]
           /\ reply' \in [Worker -> Response \cup {NoReply}]
           /\ ReceiptInv'
<1>1. entries[k] # NoId => Ok(entries[k]) \in Response
  BY DEF BridgeInv, BridgeTypeOK, Response
<1>2. Offline \in Response
  BY DEF Response
<1>3. op' \in [Item -> OpState] /\ waiting' \in [Item -> SUBSET Worker]
  BY DEF BridgeInv, BridgeTypeOK, Handle, OpState
<1>4. reply' \in [Worker -> Response \cup {NoReply}]
  BY <1>1, <1>2 DEF BridgeInv, BridgeTypeOK, Handle
<1>5. ReceiptInv'
  BY DEF BridgeInv, BridgeTypeOK, ReceiptInv, Loaded, Handle
<1> QED BY <1>3, <1>4, <1>5

LEMMA OpFailsInv ==
    ASSUME NEW k \in Item, BridgeInv, OpFails(k),
           UNCHANGED <<up, online, entries, file>>,
           \A j \in Item : delivered[j] \subseteq delivered'[j],
           op[k] # "none"
    PROVE  /\ op' \in [Item -> OpState]
           /\ opId' \in [Item -> Id \cup {NoId}]
           /\ waiting' \in [Item -> SUBSET Worker]
           /\ reply' \in [Worker -> Response \cup {NoReply}]
           /\ ReceiptInv'
<1>1. Internal \in Response
  BY DEF Response
<1>2. /\ op' \in [Item -> OpState]
      /\ opId' \in [Item -> Id \cup {NoId}]
      /\ waiting' \in [Item -> SUBSET Worker]
      /\ reply' \in [Worker -> Response \cup {NoReply}]
  BY <1>1 DEF BridgeInv, BridgeTypeOK, OpFails, OpState
<1>3. ReceiptInv'
  BY DEF BridgeInv, BridgeTypeOK, ReceiptInv, Loaded, OpFails
<1> QED BY <1>2, <1>3

LEMMA BridgeStepInv == BridgeInv /\ [BridgeNext]_bridgeVars => BridgeInv'
<1> SUFFICES ASSUME BridgeInv, [BridgeNext]_bridgeVars PROVE BridgeInv'
  OBVIOUS
<1> USE BridgeAssumption
<1>1. ASSUME NEW w \in Worker, HandleRequest(w) PROVE BridgeInv'
  <2>1. request[w] \in Item
    BY <1>1 DEF HandleRequest, BridgeInv, BridgeTypeOK
  <2>2. /\ op' \in [Item -> OpState]
        /\ waiting' \in [Item -> SUBSET Worker]
        /\ reply' \in [Worker -> Response \cup {NoReply}]
        /\ ReceiptInv'
    BY <1>1, <2>1, HandleInv DEF HandleRequest
  <2> QED BY <1>1, <2>2 DEF HandleRequest, BridgeInv, BridgeTypeOK
<1>2. ASSUME NEW k \in Item, HandleOrphan(k) PROVE BridgeInv'
  <2>1. /\ op' \in [Item -> OpState]
        /\ waiting' \in [Item -> SUBSET Worker]
        /\ reply' \in [Worker -> Response \cup {NoReply}]
        /\ ReceiptInv'
    BY <1>2, HandleInv DEF HandleOrphan
  <2> QED BY <1>2, <2>1 DEF HandleOrphan, BridgeInv, BridgeTypeOK
<1>3. ASSUME NEW k \in Item, SendSucceeds(k) PROVE BridgeInv'
  BY <1>3 DEF SendSucceeds, BridgeInv, BridgeTypeOK, ReceiptInv, Loaded, OpState
<1>4. ASSUME NEW k \in Item, SendFails(k) PROVE BridgeInv'
  <2>1. /\ delivered' \in [Item -> SUBSET Id]
        /\ \A j \in Item : delivered[j] \subseteq delivered'[j]
    BY <1>4 DEF SendFails, BridgeInv, BridgeTypeOK
  <2>2. unconfirmed' \in 0..MaxUnconfirmed
    BY <1>4 DEF SendFails, BridgeInv, BridgeTypeOK
  <2>3. /\ op' \in [Item -> OpState]
        /\ opId' \in [Item -> Id \cup {NoId}]
        /\ waiting' \in [Item -> SUBSET Worker]
        /\ reply' \in [Worker -> Response \cup {NoReply}]
        /\ ReceiptInv'
    BY <1>4, <2>1, OpFailsInv DEF SendFails
  <2> QED BY <1>4, <2>1, <2>2, <2>3 DEF SendFails, BridgeInv, BridgeTypeOK
<1>5. ASSUME NEW k \in Item, PutReceipt(k) PROVE BridgeInv'
  BY <1>5 DEF PutReceipt, BridgeInv, BridgeTypeOK, ReceiptInv, Loaded, OpState
<1>6. ASSUME NEW k \in Item, FlushReceipts(k) PROVE BridgeInv'
  BY <1>6 DEF FlushReceipts, BridgeInv, BridgeTypeOK, ReceiptInv, Loaded, OpState
<1>7. ASSUME NEW k \in Item, LateFails(k) PROVE BridgeInv'
  <2>1. /\ op' \in [Item -> OpState]
        /\ opId' \in [Item -> Id \cup {NoId}]
        /\ waiting' \in [Item -> SUBSET Worker]
        /\ reply' \in [Worker -> Response \cup {NoReply}]
        /\ ReceiptInv'
    BY <1>7, OpFailsInv DEF LateFails
  <2> QED BY <1>7, <2>1 DEF LateFails, BridgeInv, BridgeTypeOK
<1>8. ASSUME NEW k \in Item, EmitSent(k) PROVE BridgeInv'
  <2>1. Ok(opId[k]) \in Response
    BY <1>8 DEF EmitSent, BridgeInv, BridgeTypeOK, ReceiptInv, Response
  <2>2. reply' \in [Worker -> Response \cup {NoReply}]
    BY <1>8, <2>1 DEF EmitSent, BridgeInv, BridgeTypeOK
  <2>3. ReceiptInv'
    BY <1>8 DEF EmitSent, BridgeInv, BridgeTypeOK, ReceiptInv, Loaded
  <2> QED BY <1>8, <2>2, <2>3 DEF EmitSent, BridgeInv, BridgeTypeOK, OpState
<1>9. CASE GoOffline
  BY <1>9 DEF GoOffline, BridgeInv, BridgeTypeOK, ReceiptInv, Loaded
<1>10. CASE Connect
  BY <1>10 DEF Connect, BridgeInv, BridgeTypeOK, ReceiptInv, Loaded
<1>11. CASE BridgeCrash
  <2>1. BridgeTypeOK'
    <3>1. crashes' \in 0..MaxCrashes
      BY <1>11 DEF BridgeCrash, BridgeInv, BridgeTypeOK
    <3>2. op' \in [Item -> OpState]
      BY <1>11 DEF BridgeCrash, OpState
    <3>3. waiting' \in [Item -> SUBSET Worker]
      BY <1>11 DEF BridgeCrash
    <3>4. request' \in [Worker -> Item \cup {NoItem}] /\ reply' \in [Worker -> Response \cup {NoReply}]
      BY <1>11 DEF BridgeCrash
    <3>5. NoEntries \in [Item -> Id \cup {NoId}]
      BY DEF NoEntries
    <3> QED BY <1>11, <3>1, <3>2, <3>3, <3>4, <3>5 DEF BridgeCrash, BridgeInv, BridgeTypeOK
  <2>2. \A k \in Item : op'[k] = "none" /\ entries'[k] = NoId
    BY <1>11 DEF BridgeCrash, NoEntries
  <2>3. online' = FALSE /\ UNCHANGED <<file, delivered>>
    BY <1>11 DEF BridgeCrash
  <2>4. ReceiptInv'
    BY <2>2, <2>3 DEF BridgeInv, ReceiptInv
  <2> QED BY <2>1, <2>4 DEF BridgeInv
<1>12. CASE BridgeRestart
  BY <1>12 DEF BridgeRestart, BridgeInv, BridgeTypeOK, ReceiptInv, Loaded
<1>13. ASSUME NEW w \in Worker, NEW k \in Item, Request(w, k) PROVE BridgeInv'
  BY <1>13 DEF Request, BridgeInv, BridgeTypeOK, ReceiptInv, Loaded
<1>14. ASSUME NEW w \in Worker, TakeReply(w) PROVE BridgeInv'
  BY <1>14 DEF TakeReply, BridgeInv, BridgeTypeOK, ReceiptInv, Loaded
<1>15. ASSUME NEW w \in Worker, Abandon(w) PROVE BridgeInv'
  BY <1>15 DEF Abandon, BridgeInv, BridgeTypeOK, ReceiptInv, Loaded
<1>16. CASE UNCHANGED bridgeVars
  BY <1>16 DEF bridgeVars, BridgeInv, BridgeTypeOK, ReceiptInv, Loaded
<1> QED
  BY <1>1, <1>2, <1>3, <1>4, <1>5, <1>6, <1>7, <1>8, <1>9, <1>10, <1>11, <1>12,
     <1>13, <1>14, <1>15, <1>16 DEF BridgeNext, BridgeStep, OpStep

(* Every bridge step is a step of the promise or changes nothing of it.    *)
LEMMA BridgeRefines == BridgeInv /\ [BridgeNext]_bridgeVars => [P!Next]_<<delivered, file>>
<1> SUFFICES ASSUME BridgeInv, [BridgeNext]_bridgeVars, ~UNCHANGED <<delivered, file>>
             PROVE  P!Next
  OBVIOUS
<1>1. ASSUME NEW k \in Item, NEW id \in Id, id \notin Delivered,
             op[k] = "sending", delivered' = [delivered EXCEPT ![k] = @ \cup {id}],
             UNCHANGED file
      PROVE  P!Next
  <2>1. file[k] = NoId
    BY <1>1 DEF BridgeInv, ReceiptInv
  <2>2. \A j \in Item : id \notin delivered[j]
    BY <1>1 DEF Delivered
  <2>3. P!Deliver(k)
    BY <1>1, <2>1, <2>2 DEF P!Deliver
  <2> QED BY <2>3 DEF P!Next
<1>2. ASSUME NEW k \in Item, FlushReceipts(k) PROVE P!Next
  <2>1. Loaded
    BY <1>2 DEF FlushReceipts, BridgeInv, ReceiptInv
  <2>2. file' = entries /\ delivered' = delivered
    BY <1>2 DEF FlushReceipts
  <2>3. entries \in [Item -> Id \cup {NoId}]
    BY DEF BridgeInv, BridgeTypeOK
  <2>4. ASSUME NEW j \in Item, entries[j] # file[j]
        PROVE  file[j] = NoId /\ entries[j] \in delivered[j]
    <3>1. file[j] = NoId
      BY <2>1, <2>4 DEF Loaded
    <3> QED BY <3>1, <2>4 DEF BridgeInv, ReceiptInv
  <2>5. P!Record
    BY <2>2, <2>3, <2>4 DEF P!Record
  <2> QED BY <2>5 DEF P!Next
<1>3. ASSUME NEW k \in Item, SendSucceeds(k) PROVE P!Next
  BY <1>1, <1>3 DEF SendSucceeds
<1>4. ASSUME NEW k \in Item, SendFails(k) PROVE P!Next
  <2>1. UNCHANGED file /\ op[k] = "sending"
    BY <1>4 DEF SendFails
  <2>2. PICK id \in Id \ Delivered : delivered' = [delivered EXCEPT ![k] = @ \cup {id}]
    BY <1>4, <2>1 DEF SendFails
  <2> QED BY <1>1, <2>1, <2>2
<1>5. ASSUME NEW k \in Item, HandleOrphan(k) \/ PutReceipt(k) \/ LateFails(k) \/ EmitSent(k)
      PROVE  FALSE
  BY <1>5 DEF HandleOrphan, PutReceipt, LateFails, EmitSent
<1>6. ASSUME NEW w \in Worker, HandleRequest(w) \/ TakeReply(w) \/ Abandon(w) PROVE FALSE
  BY <1>6 DEF HandleRequest, TakeReply, Abandon
<1>7. ASSUME NEW w \in Worker, NEW k \in Item, Request(w, k) PROVE FALSE
  BY <1>7 DEF Request
<1>8. ~(GoOffline \/ Connect \/ BridgeCrash \/ BridgeRestart)
  BY DEF GoOffline, Connect, BridgeCrash, BridgeRestart
<1>9. ~UNCHANGED bridgeVars
  BY DEF bridgeVars
<1> QED
  BY <1>2, <1>3, <1>4, <1>5, <1>6, <1>7, <1>8, <1>9 DEF BridgeNext, BridgeStep, OpStep

-----------------------------------------------------------------------------
LEMMA BridgeInvariant == BridgeSpec => []BridgeInv
  BY BridgeInitInv, BridgeStepInv, PTL DEF BridgeSpec

(* The receipt invariant and the types hold in every behaviour of the      *)
(* bridge (AccountSession.send, SendReceiptStore).                         *)
THEOREM BridgeCorrect == BridgeSpec => [](BridgeTypeOK /\ ReceiptInv)
  BY BridgeInvariant, PTL DEF BridgeInv

(* The bridge implements the abstract idempotent send.                     *)
THEOREM BridgeKeepsPromise == BridgeSpec => P!Spec
<1>1. BridgeInit => P!Init
  BY DEF BridgeInit, P!Init, NoEntries
<1> QED BY <1>1, BridgeInvariant, BridgeRefines, PTL DEF BridgeSpec, P!Spec

(* What a key still has to deliver is paid for: without a receipt, and     *)
(* with no delivery acknowledged to a running operation, all its           *)
(* deliveries are due to crashes and unconfirmed sends.                    *)
PaidFor(k) ==
    /\ IsFiniteSet(delivered[k])
    /\ Cardinality(delivered[k]) <= 1 + crashes + unconfirmed
    /\ entries[k] = NoId /\ file[k] = NoId /\ op[k] # "acked"
         => Cardinality(delivered[k]) <= crashes + unconfirmed
    /\ op[k] \in {"flushing", "emitting"} => entries[k] # NoId

AllPaid == \A k \in Item : PaidFor(k)

LEMMA DeliverOne ==
    ASSUME NEW D, IsFiniteSet(D), NEW id, id \notin D
    PROVE  /\ IsFiniteSet(D \cup {id})
           /\ Cardinality(D \cup {id}) = Cardinality(D) + 1
           /\ Cardinality(D) \in Nat
  BY FS_AddElement, FS_CardinalityType

LEMMA PaidInit == BridgeInit => AllPaid
<1> SUFFICES ASSUME BridgeInit, NEW k \in Item PROVE PaidFor(k)
  BY DEF AllPaid
<1>1. delivered[k] = {} /\ op[k] = "none" /\ crashes = 0 /\ unconfirmed = 0
  BY DEF BridgeInit
<1>2. IsFiniteSet(delivered[k]) /\ Cardinality(delivered[k]) = 0
  BY <1>1, FS_EmptySet
<1> QED BY <1>1, <1>2 DEF PaidFor

(* Steps that neither deliver nor lose a receipt, and finish no sending.   *)
LEMMA PaidFrame ==
    ASSUME NEW k \in Item, PaidFor(k), UNCHANGED <<crashes, unconfirmed>>,
           delivered'[k] = delivered[k], file'[k] = file[k],
           entries'[k] = NoId => entries[k] = NoId /\ (op[k] = "acked" => op'[k] = "acked"),
           op'[k] \in {"flushing", "emitting"} => entries'[k] # NoId
    PROVE  PaidFor(k)'
  BY DEF PaidFor

LEMMA PaidStep == BridgeInv /\ AllPaid /\ [BridgeNext]_bridgeVars => AllPaid'
<1> SUFFICES ASSUME BridgeInv, AllPaid, [BridgeNext]_bridgeVars, NEW j \in Item PROVE PaidFor(j)'
  BY DEF AllPaid
<1>0. PaidFor(j) /\ crashes \in Nat /\ unconfirmed \in Nat /\ Cardinality(delivered[j]) \in Nat
  BY BridgeAssumption, FS_CardinalityType DEF AllPaid, PaidFor, BridgeInv, BridgeTypeOK
<1>1. ASSUME NEW k \in Item, NEW id \in Id \ Delivered, op[k] = "sending",
             delivered' = [delivered EXCEPT ![k] = @ \cup {id}]
      PROVE  /\ IsFiniteSet(delivered'[j])
             /\ Cardinality(delivered'[j]) \in Nat
             /\ j # k => delivered'[j] = delivered[j]
             /\ j = k => /\ Cardinality(delivered'[j]) = Cardinality(delivered[j]) + 1
                         /\ Cardinality(delivered[j]) <= crashes + unconfirmed
  <2>1. delivered \in [Item -> SUBSET Id]
    BY DEF BridgeInv, BridgeTypeOK
  <2>2. CASE j # k
    BY <1>0, <1>1, <2>1, <2>2 DEF PaidFor
  <2>3. CASE j = k
    <3>1. id \notin delivered[j]
      BY <1>1 DEF Delivered
    <3>2. delivered'[j] = delivered[j] \cup {id}
      BY <1>1, <2>1, <2>3
    <3>3. entries[j] = NoId /\ file[j] = NoId
      BY <1>1, <2>3 DEF BridgeInv, ReceiptInv
    <3>4. Cardinality(delivered[j]) <= crashes + unconfirmed
      BY <1>0, <1>1, <2>3, <3>3 DEF PaidFor
    <3>5. IsFiniteSet(delivered[j])
      BY <1>0 DEF PaidFor
    <3>6. /\ IsFiniteSet(delivered'[j])
          /\ Cardinality(delivered'[j]) = Cardinality(delivered[j]) + 1
      BY <3>1, <3>2, <3>5, DeliverOne
    <3>7. Cardinality(delivered'[j]) \in Nat
      BY <1>0, <3>6
    <3> QED BY <2>3, <3>4, <3>6, <3>7
  <2> QED BY <2>2, <2>3
<1>2. ASSUME NEW k \in Item, SendSucceeds(k) PROVE PaidFor(j)'
  <2>1. PICK id \in Id \ Delivered : delivered' = [delivered EXCEPT ![k] = @ \cup {id}]
    BY <1>2 DEF SendSucceeds
  <2>2. op[k] = "sending" /\ UNCHANGED <<crashes, unconfirmed, entries, file>>
    BY <1>2 DEF SendSucceeds
  <2>3. op'[k] = "acked" /\ (j # k => op'[j] = op[j])
    BY <1>2 DEF SendSucceeds, BridgeInv, BridgeTypeOK
  <2>4. /\ IsFiniteSet(delivered'[j])
        /\ Cardinality(delivered'[j]) \in Nat
        /\ j # k => delivered'[j] = delivered[j]
        /\ j = k => /\ Cardinality(delivered'[j]) = Cardinality(delivered[j]) + 1
                    /\ Cardinality(delivered[j]) <= crashes + unconfirmed
    BY <1>1, <2>1, <2>2
  <2>5. CASE j # k
    BY <1>0, <2>2, <2>3, <2>4, <2>5, PaidFrame DEF PaidFor
  <2>6. CASE j = k
    BY <1>0, <2>2, <2>3, <2>4, <2>6 DEF PaidFor
  <2> QED BY <2>5, <2>6
<1>3. ASSUME NEW k \in Item, SendFails(k) PROVE PaidFor(j)'
  <2>1. op[k] = "sending" /\ UNCHANGED <<crashes, entries, file>>
    BY <1>3 DEF SendFails
  <2>2. op'[k] = "none" /\ (j # k => op'[j] = op[j])
    BY <1>3 DEF SendFails, OpFails, BridgeInv, BridgeTypeOK
  <2>3. CASE UNCHANGED <<delivered, unconfirmed>>
    BY <1>0, <2>1, <2>2, <2>3, PaidFrame DEF PaidFor
  <2>4. ASSUME unconfirmed' = unconfirmed + 1,
               NEW id \in Id \ Delivered, delivered' = [delivered EXCEPT ![k] = @ \cup {id}]
        PROVE  PaidFor(j)'
    <3>1. /\ IsFiniteSet(delivered'[j])
          /\ Cardinality(delivered'[j]) \in Nat
          /\ j # k => delivered'[j] = delivered[j]
          /\ j = k => /\ Cardinality(delivered'[j]) = Cardinality(delivered[j]) + 1
                      /\ Cardinality(delivered[j]) <= crashes + unconfirmed
      BY <1>1, <2>1, <2>4
    <3>2. CASE j # k
      BY <1>0, <2>1, <2>2, <2>4, <3>1, <3>2 DEF PaidFor
    <3>3. CASE j = k
      BY <1>0, <2>1, <2>2, <2>4, <3>1, <3>3 DEF PaidFor
    <3> QED BY <3>2, <3>3
  <2> QED BY <1>3, <2>3, <2>4 DEF SendFails
<1>4. ASSUME NEW k \in Item, PutReceipt(k) PROVE PaidFor(j)'
  <2>1. opId[k] # NoId
    BY <1>4, NamesAssumption DEF PutReceipt, BridgeInv, BridgeTypeOK, ReceiptInv
  <2>2. /\ UNCHANGED <<crashes, unconfirmed, delivered, file>>
        /\ entries'[k] # NoId
        /\ j # k => entries'[j] = entries[j] /\ op'[j] = op[j]
    BY <1>4, <2>1 DEF PutReceipt, BridgeInv, BridgeTypeOK
  <2> QED BY <1>0, <2>2, PaidFrame DEF PaidFor
<1>5. ASSUME NEW k \in Item, FlushReceipts(k) PROVE PaidFor(j)'
  <2>1. /\ UNCHANGED <<crashes, unconfirmed, delivered, entries>>
        /\ op[k] = "flushing" /\ op'[k] = "emitting"
        /\ j # k => op'[j] = op[j]
        /\ file'[j] = entries[j]
    BY <1>5 DEF FlushReceipts, BridgeInv, BridgeTypeOK
  <2>2. file[j] # NoId => entries[j] # NoId
    BY <1>5 DEF FlushReceipts, BridgeInv, ReceiptInv, Loaded
  <2> QED BY <1>0, <2>1, <2>2 DEF PaidFor
<1>6. ASSUME NEW k \in Item, LateFails(k) \/ EmitSent(k) PROVE PaidFor(j)'
  <2>1. /\ UNCHANGED <<crashes, unconfirmed, delivered, entries, file>>
        /\ op[k] \in {"flushing", "emitting"} /\ op'[k] = "none"
        /\ j # k => op'[j] = op[j]
    BY <1>6 DEF LateFails, OpFails, EmitSent, BridgeInv, BridgeTypeOK
  <2> QED BY <1>0, <2>1 DEF PaidFor
<1>7. ASSUME NEW k \in Item, NEW c \in SUBSET Worker, Handle(k, c),
             UNCHANGED <<crashes, unconfirmed, delivered, entries, file>>
      PROVE  PaidFor(j)'
  <2>1. op'[j] = op[j] \/ (op[j] = "none" /\ op'[j] = "sending")
    BY <1>7 DEF Handle, BridgeInv, BridgeTypeOK
  <2> QED BY <1>0, <1>7, <2>1 DEF PaidFor
<1>8. ASSUME NEW w \in Worker, HandleRequest(w) PROVE PaidFor(j)'
  <2>1. request[w] \in Item
    BY <1>8 DEF HandleRequest, BridgeInv, BridgeTypeOK
  <2> QED BY <1>7, <1>8, <2>1 DEF HandleRequest
<1>9. ASSUME NEW k \in Item, HandleOrphan(k) PROVE PaidFor(j)'
  BY <1>7, <1>9 DEF HandleOrphan
<1>10. CASE Connect
  <2>1. UNCHANGED <<crashes, unconfirmed, delivered, file, op>>
    BY <1>10 DEF Connect
  <2>2. entries'[j] = IF file[j] # NoId THEN file[j] ELSE entries[j]
    BY <1>10 DEF Connect
  <2> QED BY <1>0, <2>1, <2>2 DEF PaidFor
<1>11. CASE BridgeCrash
  <2>1. crashes' = crashes + 1 /\ UNCHANGED <<delivered, unconfirmed>> /\ op'[j] = "none"
    BY <1>11 DEF BridgeCrash
  <2> QED BY <1>0, <2>1 DEF PaidFor
<1>12. CASE UNCHANGED <<entries, file, op, delivered, crashes, unconfirmed>>
  BY <1>0, <1>12 DEF PaidFor
<1>13. CASE GoOffline \/ BridgeRestart
  BY <1>12, <1>13 DEF GoOffline, BridgeRestart
<1>14. ASSUME NEW w \in Worker, TakeReply(w) \/ Abandon(w) \/ \E k \in Item : Request(w, k)
       PROVE  PaidFor(j)'
  BY <1>12, <1>14 DEF TakeReply, Abandon, Request
<1>15. CASE UNCHANGED bridgeVars
  BY <1>12, <1>15 DEF bridgeVars
<1> QED
  BY <1>2, <1>3, <1>4, <1>5, <1>6, <1>8, <1>9, <1>10, <1>11, <1>13, <1>14, <1>15
  DEF BridgeNext, BridgeStep, OpStep

(* However many requests, retries and clients there are, a message is      *)
(* delivered at most once more than the bridge crashed or sendMessage      *)
(* threw after delivering (AccountSession.send, SendReceiptStore.put).     *)
THEOREM BridgeDuplicates == BridgeSpec => []DuplicatesExplained
<1>1. AllPaid => DuplicatesExplained
  BY DEF AllPaid, PaidFor, DuplicatesExplained
<1> QED BY <1>1, PaidInit, PaidStep, BridgeInvariant, PTL DEF BridgeSpec

-----------------------------------------------------------------------------
(*                          Dispatcher and bridge                          *)

LEMMA DeliveryStepsBridge == [Next]_vars => [BridgeNext]_bridgeVars
<1> SUFFICES ASSUME [Next]_vars PROVE [BridgeNext]_bridgeVars
  OBVIOUS
<1>1. ASSUME NEW w \in Worker, DispatcherDies(w) PROVE BridgeNext
  BY <1>1 DEF DispatcherDies, BridgeNext
<1>2. ASSUME NEW w \in Worker, DispatcherStep(w) PROVE [BridgeNext]_bridgeVars
  BY <1>2 DEF DispatcherStep, Call, Respond, CallTimesOut, BridgeNext
<1>3. CASE BridgeStep
  BY <1>3 DEF BridgeNext
<1>4. CASE OwnMessage
  BY <1>4 DEF OwnMessage
<1>5. CASE UNCHANGED vars
  BY <1>5 DEF vars
<1> QED BY <1>1, <1>2, <1>3, <1>4, <1>5 DEF Next

(* In the composition the bridge answers only what OutboxSpec allows for.  *)
LEMMA DeliveryStepsOutbox == BridgeInv /\ [Next]_vars => [OutboxNext]_outboxVars
<1> SUFFICES ASSUME BridgeInv, [Next]_vars PROVE [OutboxNext]_outboxVars
  OBVIOUS
<1>1. ASSUME NEW w \in Worker, DispatcherDies(w) PROVE OutboxNext
  BY <1>1 DEF DispatcherDies, OutboxNext
<1>2. ASSUME NEW w \in Worker, Respond(w) PROVE OutboxNext
  <2>1. reply[w] \in Response
    BY <1>2 DEF Respond, BridgeInv, BridgeTypeOK
  <2>2. Classify(reply[w]) \in Result
    BY <2>1 DEF Classify, Response, Result, Ok, Offline, Internal
  <2> QED BY <1>2, <2>2 DEF Respond, OutboxNext
<1>3. ASSUME NEW w \in Worker, CallTimesOut(w) PROVE OutboxNext
  <2>1. Retryable \in Result
    BY DEF Result
  <2> QED BY <1>3, <2>1 DEF CallTimesOut, OutboxNext
<1>4. ASSUME NEW w \in Worker, Call(w) \/ (LocalStep(w) /\ UNCHANGED bridgeVars) PROVE OutboxNext
  BY <1>4 DEF Call, OutboxNext
<1>5. CASE OwnMessage
  <2>1. PICK id \in Delivered : Echo(id)
    BY <1>5 DEF OwnMessage
  <2>2. id \in Id
    BY DEF Delivered, BridgeInv, BridgeTypeOK
  <2> QED BY <2>1, <2>2 DEF OutboxNext
<1>6. CASE UNCHANGED vars
  BY <1>6 DEF vars
<1>7. ASSUME NEW w \in Worker, Start(w) PROVE OutboxNext
  BY <1>7 DEF OutboxNext
<1>8. CASE ApiStep \/ TimeStep
  BY <1>8 DEF OutboxNext
<1> QED BY <1>1, <1>2, <1>3, <1>4, <1>5, <1>6, <1>7, <1>8 DEF Next, DispatcherStep

LEMMA DeliveryIsBridge == Spec => BridgeSpec
  BY DeliveryStepsBridge, PTL DEF Spec, Init, BridgeSpec

LEMMA DeliveryIsOutbox == Spec => OutboxSpec
  BY DeliveryStepsOutbox, DeliveryIsBridge, BridgeInvariant, PTL DEF Spec, Init, OutboxSpec

-----------------------------------------------------------------------------
(* A call is in one place at a time: on its way, waiting for an operation, *)
(* or answered; and it is about the message the dispatcher has open.       *)
CallPlace(w) ==
    /\ request[w] # NoItem => phase[w] = "calling" /\ request[w] = cur[w] /\ reply[w] = NoReply
    /\ \A k \in Item : w \in waiting[k] =>
         phase[w] = "calling" /\ cur[w] = k /\ request[w] = NoItem /\ reply[w] = NoReply
    /\ reply[w] # NoReply => phase[w] = "calling"

(* An id on its way to the database was delivered for that message.        *)
AnswerTrue(w) ==
    /\ reply[w].status = 200 => reply[w].id \in delivered[cur[w]]
    /\ phase[w] \in {"answered", "committing"} /\ result[w].kind = "sent"
         => result[w].id \in delivered[cur[w]]

CallsTrue == \A w \in Worker : CallPlace(w) /\ AnswerTrue(w)

LEMMA DeliveredGrows ==
    BridgeInv /\ [BridgeNext]_bridgeVars => \A k \in Item : delivered[k] \subseteq delivered'[k]
<1> SUFFICES ASSUME BridgeInv, [BridgeNext]_bridgeVars, NEW k \in Item
             PROVE  delivered[k] \subseteq delivered'[k]
  OBVIOUS
<1>1. ASSUME NEW j \in Item, SendSucceeds(j) \/ SendFails(j) PROVE delivered[k] \subseteq delivered'[k]
  BY <1>1 DEF SendSucceeds, SendFails, BridgeInv, BridgeTypeOK
<1>2. ASSUME NEW j \in Item,
             HandleOrphan(j) \/ PutReceipt(j) \/ FlushReceipts(j) \/ LateFails(j) \/ EmitSent(j)
      PROVE  UNCHANGED delivered
  BY <1>2 DEF HandleOrphan, PutReceipt, FlushReceipts, LateFails, EmitSent
<1>3. ASSUME NEW w \in Worker,
             HandleRequest(w) \/ TakeReply(w) \/ Abandon(w) \/ (\E j \in Item : Request(w, j))
      PROVE  UNCHANGED delivered
  BY <1>3 DEF HandleRequest, TakeReply, Abandon, Request
<1>4. CASE GoOffline \/ Connect \/ BridgeCrash \/ BridgeRestart
  BY <1>4 DEF GoOffline, Connect, BridgeCrash, BridgeRestart
<1>5. CASE UNCHANGED bridgeVars
  BY <1>5 DEF bridgeVars
<1> QED BY <1>1, <1>2, <1>3, <1>4, <1>5 DEF BridgeNext, BridgeStep, OpStep

(* What does not touch a dispatcher's call keeps it true.                  *)
LEMMA CallFrame ==
    ASSUME CallInv, NEW w \in Worker, CallPlace(w), AnswerTrue(w),
           phase'[w] = phase[w], cur'[w] = cur[w], result'[w] = result[w],
           request'[w] = request[w], reply'[w] = reply[w],
           \A k \in Item : w \in waiting'[k] => w \in waiting[k],
           \A k \in Item : delivered[k] \subseteq delivered'[k]
    PROVE  CallPlace(w)' /\ AnswerTrue(w)'
<1>1. CallPlace(w)'
  BY DEF CallPlace
<1>2. AnswerTrue(w)'
  <2>1. reply[w].status = 200 => phase[w] = "calling"
    BY DEF CallPlace, NoReply
  <2>2. phase[w] \in {"calling", "answered", "committing"} => cur[w] \in Item
    BY DEF CallInv
  <2> QED BY <2>1, <2>2 DEF AnswerTrue
<1> QED BY <1>1, <1>2

(* A response for those who wait for the operation of k.                   *)
LEMMA CallAnswered ==
    ASSUME BridgeInv, CallInv, NEW w \in Worker, CallPlace(w), AnswerTrue(w), NEW k \in Item,
           NEW r, r # NoReply, r.status = 200 => r.id \in delivered[k],
           waiting' = [waiting EXCEPT ![k] = {}],
           reply' = [v \in Worker |-> IF v \in waiting[k] THEN r ELSE reply[v]],
           UNCHANGED <<phase, cur, result, request>>,
           \A j \in Item : delivered[j] \subseteq delivered'[j]
    PROVE  CallPlace(w)' /\ AnswerTrue(w)'
<1>0. /\ waiting'[k] = {}
      /\ \A j \in Item : j # k => waiting'[j] = waiting[j]
  BY DEF BridgeInv, BridgeTypeOK
<1>1. CASE w \notin waiting[k]
  <2>1. reply'[w] = reply[w]
    BY <1>1
  <2> QED BY <1>0, <2>1, CallFrame
<1>2. CASE w \in waiting[k]
  <2>1. reply'[w] = r /\ phase[w] = "calling" /\ cur[w] = k /\ request[w] = NoItem
    BY <1>2 DEF CallPlace
  <2>2. \A j \in Item : w \notin waiting'[j]
    BY <1>0, <2>1 DEF CallPlace
  <2>3. CallPlace(w)'
    BY <2>1, <2>2 DEF CallPlace
  <2>4. AnswerTrue(w)'
    BY <2>1 DEF AnswerTrue
  <2> QED BY <2>3, <2>4
<1> QED BY <1>1, <1>2

LEMMA CallHandled ==
    ASSUME BridgeInv, CallInv, NEW w \in Worker, CallPlace(w), AnswerTrue(w), NEW k \in Item,
           NEW clients \in SUBSET Worker, Handle(k, clients),
           w \in clients => request[w] = k /\ request'[w] = NoItem,
           w \notin clients => request'[w] = request[w],
           UNCHANGED <<phase, cur, result, delivered>>
    PROVE  CallPlace(w)' /\ AnswerTrue(w)'
<1>0. k # NoItem
  BY NamesAssumption
<1>1. CASE w \notin clients
  <2>1. reply'[w] = reply[w] /\ (\A j \in Item : w \in waiting'[j] => w \in waiting[j])
    BY <1>1 DEF Handle, BridgeInv, BridgeTypeOK
  <2> QED BY <1>1, <2>1, CallFrame
<1>2. CASE w \in clients
  <2>1. /\ phase[w] = "calling" /\ cur[w] = k /\ reply[w] = NoReply
        /\ \A j \in Item : w \notin waiting[j]
    BY <1>0, <1>2 DEF CallPlace
  <2>2. CASE entries[k] # NoId
    <3>1. reply'[w] = Ok(entries[k]) /\ UNCHANGED waiting
      BY <1>2, <2>2 DEF Handle
    <3>2. entries[k] \in delivered[k]
      BY <2>2 DEF BridgeInv, ReceiptInv
    <3>3. CallPlace(w)'
      BY <1>2, <2>1, <3>1 DEF CallPlace
    <3>4. AnswerTrue(w)'
      BY <2>1, <3>1, <3>2 DEF AnswerTrue, Ok
    <3> QED BY <3>3, <3>4
  <2>3. CASE entries[k] = NoId /\ op[k] = "none" /\ ~online
    <3>1. reply'[w] = Offline /\ UNCHANGED waiting
      BY <1>2, <2>3 DEF Handle
    <3>2. CallPlace(w)'
      BY <1>2, <2>1, <3>1 DEF CallPlace
    <3>3. AnswerTrue(w)'
      BY <2>1, <3>1 DEF AnswerTrue, Offline
    <3> QED BY <3>2, <3>3
  <2>4. CASE entries[k] = NoId /\ (op[k] # "none" \/ online)
    <3>1. reply' = reply /\ (\A j \in Item : j # k => waiting'[j] = waiting[j])
      BY <2>4 DEF Handle, BridgeInv, BridgeTypeOK
    <3>2. CallPlace(w)'
      BY <1>2, <2>1, <3>1 DEF CallPlace
    <3>3. AnswerTrue(w)'
      BY <2>1, <3>1 DEF AnswerTrue, NoReply
    <3> QED BY <3>2, <3>3
  <2> QED BY <2>2, <2>3, <2>4
<1> QED BY <1>1, <1>2

LEMMA CallBridgeStep ==
    ASSUME BridgeInv, CallInv, CallsTrue, BridgeStep, UNCHANGED outboxVars PROVE CallsTrue'
<1> SUFFICES ASSUME NEW w \in Worker PROVE CallPlace(w)' /\ AnswerTrue(w)'
  BY DEF CallsTrue
<1>0. CallPlace(w) /\ AnswerTrue(w) /\ UNCHANGED <<phase, cur, result>>
  BY DEF CallsTrue, outboxVars, workerVars
<1>1. \A k \in Item : delivered[k] \subseteq delivered'[k]
  BY DeliveredGrows DEF BridgeNext
<1>2. ASSUME NEW v \in Worker, HandleRequest(v) PROVE CallPlace(w)' /\ AnswerTrue(w)'
  <2> DEFINE k == request[v]
  <2>1. k \in Item
    BY <1>2 DEF HandleRequest, BridgeInv, BridgeTypeOK
  <2>2. Handle(k, {v}) /\ UNCHANGED delivered
    BY <1>2 DEF HandleRequest
  <2>3. /\ w \in {v} => request[w] = k /\ request'[w] = NoItem
        /\ w \notin {v} => request'[w] = request[w]
    BY <1>2 DEF HandleRequest, BridgeInv, BridgeTypeOK
  <2>4. {v} \in SUBSET Worker
    OBVIOUS
  <2> HIDE DEF k
  <2>5. PICK j \in Item : j = k
    BY <2>1
  <2>6. Handle(j, {v}) /\ (w \in {v} => request[w] = j /\ request'[w] = NoItem)
    BY <2>2, <2>3, <2>5
  <2> QED BY <1>0, <2>2, <2>3, <2>4, <2>6, CallHandled
<1>3. ASSUME NEW k \in Item, HandleOrphan(k) PROVE CallPlace(w)' /\ AnswerTrue(w)'
  <2>1. Handle(k, {}) /\ UNCHANGED <<delivered, request>>
    BY <1>3 DEF HandleOrphan
  <2>2. {} \in SUBSET Worker
    OBVIOUS
  <2> QED BY <1>0, <2>1, <2>2, CallHandled
<1>4. ASSUME NEW k \in Item, SendFails(k) \/ LateFails(k) PROVE CallPlace(w)' /\ AnswerTrue(w)'
  <2>1. /\ waiting' = [waiting EXCEPT ![k] = {}]
        /\ reply' = [v \in Worker |-> IF v \in waiting[k] THEN Internal ELSE reply[v]]
        /\ UNCHANGED request
    BY <1>4 DEF SendFails, LateFails, OpFails
  <2>2. Internal # NoReply /\ Internal.status # 200
    BY DEF Internal, NoReply
  <2> QED BY <1>0, <1>1, <2>1, <2>2, CallAnswered
<1>5. ASSUME NEW k \in Item, EmitSent(k) PROVE CallPlace(w)' /\ AnswerTrue(w)'
  <2>1. /\ waiting' = [waiting EXCEPT ![k] = {}]
        /\ reply' = [v \in Worker |-> IF v \in waiting[k] THEN Ok(opId[k]) ELSE reply[v]]
        /\ UNCHANGED request
    BY <1>5 DEF EmitSent
  <2>2. Ok(opId[k]) # NoReply /\ Ok(opId[k]).id \in delivered[k]
    BY <1>5 DEF EmitSent, Ok, NoReply, BridgeInv, ReceiptInv
  <2> QED BY <1>0, <1>1, <2>1, <2>2, CallAnswered
<1>6. ASSUME NEW k \in Item, SendSucceeds(k) \/ PutReceipt(k) \/ FlushReceipts(k)
      PROVE  UNCHANGED <<request, waiting, reply>>
  BY <1>6 DEF SendSucceeds, PutReceipt, FlushReceipts
<1>7. GoOffline \/ Connect \/ BridgeRestart => UNCHANGED <<request, waiting, reply>>
  BY DEF GoOffline, Connect, BridgeRestart
<1>8. CASE UNCHANGED <<request, waiting, reply>>
  BY <1>0, <1>1, <1>8, CallFrame
<1>9. CASE BridgeCrash
  <2>1. /\ request'[w] = NoItem /\ reply'[w] = NoReply
        /\ \A k \in Item : waiting'[k] = {}
        /\ delivered' = delivered
    BY <1>9 DEF BridgeCrash
  <2>2. CallPlace(w)'
    BY <2>1 DEF CallPlace
  <2>3. AnswerTrue(w)'
    BY <1>0, <2>1 DEF AnswerTrue, NoReply
  <2> QED BY <2>2, <2>3
<1> QED BY <1>2, <1>3, <1>4, <1>5, <1>6, <1>7, <1>8, <1>9 DEF BridgeStep, OpStep

(* The step of one dispatcher says nothing of the calls of the others.     *)
LEMMA CallOthers ==
    ASSUME OutboxTypeOK, CallInv, BridgeInv, CallsTrue, NEW w \in Worker,
           DispatcherDies(w) \/ DispatcherStep(w) \/ (Start(w) /\ UNCHANGED bridgeVars),
           NEW v \in Worker, v # w
    PROVE  CallPlace(v)' /\ AnswerTrue(v)'
<1>1. /\ CallPlace(v) /\ AnswerTrue(v)
      /\ delivered' = delivered
  BY DEF CallsTrue, DispatcherDies, DispatcherStep, Call, Respond, CallTimesOut, Request,
         TakeReply, Abandon, bridgeVars
<1>2. phase'[v] = phase[v] /\ cur'[v] = cur[v] /\ result'[v] = result[v]
  <2>1. CASE DispatcherDies(w)
    BY <2>1 DEF DispatcherDies, Crash, OutboxTypeOK
  <2>2. CASE Start(w)
    BY <2>2 DEF Start, OutboxTypeOK
  <2>3. CASE Call(w)
    BY <2>3 DEF Call, CallBridge, OutboxTypeOK
  <2>4. CASE Respond(w) \/ CallTimesOut(w)
    BY <2>4 DEF Respond, CallTimesOut, Answer, OutboxTypeOK
  <2>5. CASE LocalStep(w)
    BY <2>5 DEF LocalStep, ReadExpired, ClaimBatch, SkipLost, RejectInvalid, FinalizeRead,
                CommitSent, CommitConflict, CommitFailure, NextItem, OutboxTypeOK
  <2> QED BY <2>1, <2>2, <2>3, <2>4, <2>5 DEF DispatcherStep
<1>3. /\ request'[v] = request[v] /\ reply'[v] = reply[v]
      /\ \A k \in Item : v \in waiting'[k] => v \in waiting[k]
  BY DEF DispatcherDies, DispatcherStep, Call, Respond, CallTimesOut, Request,
         TakeReply, Abandon, bridgeVars, BridgeInv, BridgeTypeOK
<1> QED BY <1>1, <1>2, <1>3, CallFrame

LEMMA CallOwnStep ==
    ASSUME OutboxTypeOK, CallInv, CallInv', BridgeInv, CallsTrue, NEW w \in Worker,
           DispatcherDies(w) \/ DispatcherStep(w) \/ (Start(w) /\ UNCHANGED bridgeVars)
    PROVE  CallPlace(w)' /\ AnswerTrue(w)'
<1>0. CallPlace(w) /\ AnswerTrue(w)
  BY DEF CallsTrue
<1>1. CASE DispatcherDies(w)
  <2>1. /\ phase'[w] = "stopped" /\ request'[w] = NoItem /\ reply'[w] = NoReply
        /\ \A k \in Item : w \notin waiting'[k]
    BY <1>1 DEF DispatcherDies, Crash, Abandon, OutboxTypeOK, BridgeInv, BridgeTypeOK
  <2> QED BY <2>1 DEF CallPlace, AnswerTrue, NoReply
<1>2. CASE CallTimesOut(w)
  <2>1. /\ result'[w] = Retryable /\ request'[w] = NoItem /\ reply'[w] = NoReply
        /\ \A k \in Item : w \notin waiting'[k]
    BY <1>2 DEF CallTimesOut, Answer, Abandon, OutboxTypeOK, BridgeInv, BridgeTypeOK
  <2> QED BY <2>1 DEF CallPlace, AnswerTrue, NoReply, Retryable
<1>3. CASE Respond(w)
  <2>1. /\ reply[w] # NoReply /\ reply'[w] = NoReply
        /\ UNCHANGED <<request, waiting, delivered, cur>>
        /\ result'[w] = Classify(reply[w])
    BY <1>3 DEF Respond, Answer, TakeReply, OutboxTypeOK, BridgeInv, BridgeTypeOK
  <2>2. CallPlace(w)'
    BY <1>0, <2>1 DEF CallPlace
  <2>3. result'[w].kind = "sent" => reply[w].status = 200 /\ result'[w].id = reply[w].id
    BY <2>1 DEF Classify, Sent, Retryable, Final
  <2>4. AnswerTrue(w)'
    BY <1>0, <2>1, <2>3 DEF AnswerTrue, NoReply
  <2> QED BY <2>2, <2>4
<1>4. CASE Call(w)
  <2>1. PICK i \in Item : CallBridge(w, i) /\ Request(w, i)
    BY <1>4 DEF Call
  <2>2. /\ phase'[w] = "calling" /\ cur'[w] = i /\ request'[w] \in {i, NoItem}
        /\ reply'[w] = NoReply /\ \A k \in Item : w \notin waiting'[k]
    BY <2>1 DEF CallBridge, Request, OutboxTypeOK, BridgeInv, BridgeTypeOK
  <2> QED BY <2>2 DEF CallPlace, AnswerTrue, NoReply
<1>5. CASE (LocalStep(w) \/ Start(w)) /\ UNCHANGED bridgeVars
  <2>1. phase[w] # "calling" /\ UNCHANGED <<request, reply, waiting, delivered>>
    BY <1>5 DEF LocalStep, ReadExpired, ClaimBatch, SkipLost, RejectInvalid, FinalizeRead,
                CommitSent, CommitConflict, CommitFailure, Start, bridgeVars
  <2>2. request[w] = NoItem /\ reply[w] = NoReply /\ \A k \in Item : w \notin waiting[k]
    BY <1>0, <2>1 DEF CallPlace
  <2>3. CallPlace(w)'
    BY <2>1, <2>2 DEF CallPlace
  <2>4. \/ phase'[w] \notin {"answered", "committing"}
        \/ result'[w] = Final
        \/ phase[w] = "answered" /\ cur'[w] = cur[w] /\ result'[w] = result[w]
    <3>1. CASE Start(w)
      BY <3>1 DEF Start, OutboxTypeOK
    <3>2. CASE ReadExpired(w) \/ ClaimBatch(w)
      BY <3>2 DEF ReadExpired, ClaimBatch, OutboxTypeOK
    <3>3. CASE NextItem(w)
      BY <3>3 DEF NextItem, OutboxTypeOK
    <3>4. CASE RejectInvalid(w)
      BY <3>4 DEF RejectInvalid, OutboxTypeOK
    <3>5. CASE FinalizeRead(w)
      BY <3>3, <3>5 DEF FinalizeRead
    <3> QED BY <1>5, <3>1, <3>2, <3>3, <3>4, <3>5
            DEF LocalStep, SkipLost, CommitSent, CommitConflict, CommitFailure
  <2>5. AnswerTrue(w)'
    BY <1>0, <2>1, <2>2, <2>4 DEF AnswerTrue, NoReply, Final
  <2> QED BY <2>3, <2>5
<1> QED BY <1>1, <1>2, <1>3, <1>4, <1>5 DEF DispatcherStep

LEMMA CallsStep ==
    ASSUME OutboxTypeOK, CallInv, CallInv', BridgeInv, CallsTrue, [Next]_vars PROVE CallsTrue'
<1>1. CASE BridgeStep /\ UNCHANGED outboxVars
  BY <1>1, CallBridgeStep
<1>2. ASSUME NEW w \in Worker,
             DispatcherDies(w) \/ DispatcherStep(w) \/ (Start(w) /\ UNCHANGED bridgeVars)
      PROVE  CallsTrue'
  BY <1>2, CallOthers, CallOwnStep DEF CallsTrue
<1>3. CASE UNCHANGED <<workerVars, bridgeVars>>
  BY <1>3 DEF CallsTrue, CallPlace, AnswerTrue, workerVars, bridgeVars
<1>4. ApiStep \/ TimeStep \/ OwnMessage => UNCHANGED workerVars
  BY DEF ApiStep, TimeStep, OwnMessage, Enqueue, CancelRead, CancelCommit, CancelLost,
         DeleteConversation, ReviveConversation, BecomesDue, LeaseLapses, Echo
<1>5. OwnMessage => UNCHANGED bridgeVars
  BY DEF OwnMessage
<1> QED BY <1>1, <1>2, <1>3, <1>4, <1>5 DEF Next, vars, outboxVars

LEMMA CompletedStep ==
    ASSUME OutboxTypeOK, CallInv, BridgeInv, CallsTrue, CompletedWasDelivered, [Next]_vars
    PROVE  CompletedWasDelivered'
<1>1. \A k \in Item : delivered[k] \subseteq delivered'[k]
  BY DeliveryStepsBridge, DeliveredGrows
<1>2. CASE \A i \in Item : message'[i].waId = message[i].waId
  BY <1>1, <1>2 DEF CompletedWasDelivered
<1>3. ASSUME NEW w \in Worker, CommitSent(w) PROVE CompletedWasDelivered'
  <2>1. phase[w] = "committing" /\ result[w].kind = "sent" /\ cur[w] \in Item
    BY <1>3 DEF CommitSent, CallInv
  <2>2. result[w].id \in delivered[cur[w]]
    BY <2>1 DEF CallsTrue, AnswerTrue
  <2>3. /\ message'[cur[w]].waId \in {message[cur[w]].waId, result[w].id}
        /\ \A i \in Item \ {cur[w]} : message'[i] = message[i]
    BY <1>3, <2>1 DEF CommitSent, OutboxTypeOK, MsgRow, Write
  <2> QED BY <1>1, <2>1, <2>2, <2>3 DEF CompletedWasDelivered
<1>4. ASSUME NEW w \in Worker, CommitFailure(w) PROVE \A i \in Item : message'[i].waId = message[i].waId
  BY <1>4 DEF CommitFailure, CallInv, OutboxTypeOK, MsgRow
<1>5. ASSUME NEW i \in Item, Enqueue(i) \/ CancelCommit(i)
      PROVE  \A j \in Item : message'[j].waId = message[j].waId
  <2>1. PICK s : message' = [message EXCEPT ![i].status = s]
    BY <1>5 DEF Enqueue, CancelCommit
  <2> QED BY <2>1 DEF OutboxTypeOK, MsgRow
<1>6. ASSUME NEW i \in Item,
             \/ CancelRead(i) \/ CancelLost(i) \/ DeleteConversation(i) \/ ReviveConversation(i)
             \/ BecomesDue(i) \/ LeaseLapses(i)
      PROVE  message' = message
  BY <1>6 DEF CancelRead, CancelLost, DeleteConversation, ReviveConversation, BecomesDue,
              LeaseLapses, rowVars
<1>7. OwnMessage \/ (BridgeStep /\ UNCHANGED outboxVars) \/ UNCHANGED vars => message' = message
  BY DEF OwnMessage, Echo, vars, outboxVars, rowVars
<1>8. ASSUME NEW w \in Worker,
             DispatcherDies(w) \/ DispatcherStep(w) \/ (Start(w) /\ UNCHANGED bridgeVars),
             ~CommitSent(w), ~CommitFailure(w)
      PROVE  message' = message
  BY <1>8 DEF DispatcherDies, DispatcherStep, LocalStep, Start, Crash, Call, Respond, CallTimesOut,
              CallBridge, Answer, ReadExpired, ClaimBatch, SkipLost, RejectInvalid, FinalizeRead,
              CommitConflict, rowVars
<1> QED
  BY <1>2, <1>3, <1>4, <1>5, <1>6, <1>7, <1>8 DEF Next, ApiStep, TimeStep, DispatcherStep, LocalStep

(* A completed row carries the id of a message WhatsApp delivered for that *)
(* very row, whatever the retries, lapsed leases and stale answers before  *)
(* (OutboxDispatcher._deliver, AccountSession.send).                       *)
THEOREM DeliveryCompleted == Spec => []CompletedWasDelivered
<1>1. Init => CallsTrue /\ CompletedWasDelivered
  BY DEF Init, OutboxInit, BridgeInit, CallsTrue, CallPlace, AnswerTrue, CompletedWasDelivered,
         NoReply, NoMsg
<1>2. Spec => [](OutboxTypeOK /\ CallInv)
  BY DeliveryIsOutbox, OutboxTypes
<1>3. Spec => []BridgeInv
  BY DeliveryIsBridge, BridgeInvariant
<1>4. OutboxTypeOK /\ CallInv /\ CallInv' /\ BridgeInv /\ CallsTrue /\ [Next]_vars => CallsTrue'
  BY CallsStep
<1>5. OutboxTypeOK /\ CallInv /\ BridgeInv /\ CallsTrue /\ CompletedWasDelivered /\ [Next]_vars
        => CompletedWasDelivered'
  BY CompletedStep
<1> QED BY <1>1, <1>2, <1>3, <1>4, <1>5, PTL DEF Spec

(* Dispatchers and bridge together: a duplicate takes a crash of the       *)
(* bridge or a delivery that nobody learns of (BridgeClient.send).         *)
THEOREM DeliveryDuplicates == Spec => []DuplicatesExplained
  BY DeliveryIsBridge, BridgeDuplicates

(* The composition keeps what the dispatcher promises on its own.          *)
THEOREM DeliverySole == Spec => [](RoundKeepsRows /\ StatusesAgree)
  BY DeliveryIsOutbox, OutboxSole

(* So the lifecycle holds with this bridge: no retry or restart of either  *)
(* side revises what a client was shown (BridgeClient.send).               *)
THEOREM DeliveryLifecycle == ASSUME Exclusive PROVE Spec => LifecycleKept
  BY DeliveryIsOutbox, OutboxLifecycle

(* Once a receipt is on disk, no retry, second dispatcher, late request or *)
(* restart delivers the message again, for any number of messages and      *)
(* dispatchers (AccountSession.send, SendReceiptStore, OutboxDispatcher).  *)
THEOREM DeliveryKeepsPromise == Spec => PromiseKept
<1>1. Spec => BridgeSpec
  BY DeliveryIsBridge
<1>2. P!Spec => PromiseKept
  <2>1. P!Init => Promise!Init
    BY DEF P!Init, Promise!Init
  <2>2. [P!Next]_<<delivered, file>> => [Promise!Next]_<<delivered, file>>
    BY DEF P!Next, Promise!Next, P!Record, Promise!Record, P!Deliver, Promise!Deliver
  <2> QED BY <2>1, <2>2, PTL DEF P!Spec, PromiseKept, Promise!Spec
<1> QED BY <1>1, <1>2, BridgeKeepsPromise

=============================================================================
