--------------------------- MODULE EventPipeline ---------------------------
(***************************************************************************)
(* From the callback to the database: the spool and the sink of an account *)
(* (EventSpool), the service that receives its events (EventReceiver), and *)
(* the HTTP call between them, which may be lost, time out or be answered  *)
(* for nobody.                                                             *)
(***************************************************************************)
EXTENDS EventSpool, EventReceiver

CONSTANTS
    NoSlot,
    MaxFaults  \* bound: deaths, timeouts, failing transactions, reopenings

ASSUME PipelineAssumption == NoSlot \notin Slot /\ MaxFaults \in Nat

VARIABLES
    conn,   \* the thread that serves the current post, NoSlot before it
    faults

vars == <<spoolVars, receiverVars, conn, faults>>

Init == SpoolInit /\ ReceiverInit /\ conn = NoSlot /\ faults = 0

-----------------------------------------------------------------------------
Fault == faults < MaxFaults /\ faults' = faults + 1

(* #post: the claimed event goes to a thread of the service.               *)
Post(s) ==
    /\ spoolUp
    /\ claim # NoEvent
    /\ conn = NoSlot
    /\ Arrive(s, claim, seq[claim])
    /\ conn' = s
    /\ UNCHANGED <<spoolVars, faults>>

(* Mutant: any answer completes the claim.                                 *)
ClassifyAny(a) == "accepted"

(* #flushOne: what the answer of the service means for the claimed file.   *)
Classify(a) ==
    CASE a \in {"accepted", "duplicate"} -> "accepted"
      [] a \in {"conflict", "missing"} -> "rejected"  \* both are 409
      [] OTHER -> "failed"

Reply(s) ==
    /\ conn = s
    /\ Release(s)
    /\ Settle(Classify(request[s].answer))
    /\ conn' = NoSlot
    /\ UNCHANGED faults

(* The post is aborted or its connection lost; the request may go on.      *)
TimesOut ==
    /\ Fault
    /\ Settle("failed")
    /\ conn' = NoSlot
    /\ UNCHANGED receiverVars

Unheard(s) == conn # s /\ Release(s) /\ UNCHANGED <<spoolVars, conn, faults>>

BridgeDies == Fault /\ SpoolCrash /\ conn' = NoSlot /\ UNCHANGED receiverVars

(* The connection of a running post breaks with the server.                *)
ServiceDies ==
    /\ Fault
    /\ ServerDies
    /\ conn' = NoSlot
    /\ IF conn = NoSlot THEN UNCHANGED spoolVars ELSE Settle("failed")

TransactionFails == Fault /\ (\E s \in Slot : Fail(s)) /\ UNCHANGED <<spoolVars, conn>>

SessionReopened == Fault /\ Reopen /\ UNCHANGED <<receiverVars, conn>>

Emit == EmitStep /\ UNCHANGED <<receiverVars, conn, faults>>

ClaimNext == (\E e \in Event : Claim(e)) /\ UNCHANGED <<receiverVars, conn, faults>>

TimerFires(e) == BackoffEnds(e) /\ UNCHANGED <<receiverVars, conn, faults>>

Restart == SpoolRestart /\ UNCHANGED <<receiverVars, conn, faults>>

Handle(s) == HandlerStep(s) /\ UNCHANGED <<spoolVars, conn, faults>>

(* The rest of the service: the dispatcher and the conversation's reader.  *)
Elsewhere ==
    /\ MarkRead \/ \E m \in Msg : IdCommitted(m)
    /\ UNCHANGED <<spoolVars, conn, faults>>

Next ==
    \/ Emit
    \/ ClaimNext
    \/ \E e \in Event : TimerFires(e)
    \/ Restart
    \/ \E s \in Slot : Post(s) \/ Reply(s) \/ Unheard(s) \/ Handle(s)
    \/ TimesOut
    \/ BridgeDies
    \/ ServiceDies
    \/ TransactionFails
    \/ SessionReopened
    \/ Elsewhere

Spec == Init /\ [][Next]_vars

(* The sink polls, a post ends by its timeout, threads run, and a process  *)
(* that died is started again (EventSink #schedule and #post, the systemd  *)
(* units under deploy/). The emitters and the rest of the service owe      *)
(* nothing.                                                                *)
Fairness ==
    /\ WF_vars(ClaimNext)
    /\ WF_vars(\E s \in Slot : Post(s))
    /\ \A s \in Slot : WF_vars(Reply(s)) /\ WF_vars(Unheard(s)) /\ WF_vars(Handle(s))
    /\ \A e \in Event : WF_vars(TimerFires(e))
    /\ WF_vars(Restart)

FairSpec == Spec /\ Fairness

-----------------------------------------------------------------------------
(* Properties.                                                             *)

(* Each event takes effect once, and only when the events spooled with     *)
(* smaller sequences took effect or were set aside: redelivery, requests   *)
(* that outlive their post and deaths of either side included              *)
(* (docs/sdd/02-system-architecture.md:178-183).                           *)
Effects == INSTANCE EventLog WITH accepted <- spooled, applied <- Recorded, dropped <- dead

AppliedInOrder == Effects!Spec

(* What the bridge forgets, the service has recorded: a file is removed    *)
(* only once the transaction of its event is committed (FileSpool.complete).*)
ForgottenIsRecorded == acked \subseteq Recorded

(* What was spooled is in the end recorded or set aside, and its file gone *)
(* from the queue, however often a post failed.                            *)
Drains ==
    \A e \in Event :
        e \in spooled ~> /\ e \in Recorded \cup dead
                         /\ e \notin pending \cup inflight

(* A message that was delivered or read never steps back, as long as none  *)
(* of its receipts was set aside: a request that outlives its post meets   *)
(* its own repetition only (_apply_receipt, EventSink.flushOnce).          *)
KeptReceiptsMonotone ==
    [][\A m \in Msg :
          (\A e \in dead : e.kind = "receipt" => e.msg # m) => Rank(row'[m]) >= Rank(row[m])]_<<row, dead>>

=============================================================================
