--------------------------- MODULE OutboxDelivery ---------------------------
(***************************************************************************)
(* The dispatcher and the bridge together: BridgeClient.send               *)
(* (bridge/client.py) turns a claimed row into a request, and the response *)
(* into an id or a BridgeError; from-me upserts come back as events for    *)
(* the messages WhatsApp delivered.                                        *)
(***************************************************************************)
EXTENDS Outbox, BridgeSend

CONSTANT OwnEvents  \* the library reports the account's own messages as upserts

vars == <<outboxVars, bridgeVars>>

(* BridgeClient._request: the status decides; the body's flag is unread.   *)
Classify(r) ==
    IF r.status = 200 THEN Sent(r.id)
    ELSE IF r.status >= 500 THEN Retryable ELSE Final

Call(w) == \E i \in Item : CallBridge(w, i) /\ Request(w, i)

Respond(w) ==
    /\ reply[w] # NoReply
    /\ Answer(w, Classify(reply[w]))
    /\ TakeReply(w)

(* requests.Timeout and requests.ConnectionError are retryable.            *)
CallTimesOut(w) == Answer(w, Retryable) /\ Abandon(w)

DispatcherDies(w) == Crash(w) /\ Abandon(w)

OwnMessage == OwnEvents /\ \E id \in Delivered : Echo(id) /\ UNCHANGED bridgeVars

Init == OutboxInit /\ BridgeInit

DispatcherStep(w) ==
    \/ LocalStep(w) /\ UNCHANGED bridgeVars
    \/ Call(w)
    \/ Respond(w)
    \/ CallTimesOut(w)

Next ==
    \/ ApiStep /\ UNCHANGED bridgeVars
    \/ TimeStep /\ UNCHANGED bridgeVars
    \/ OwnMessage
    \/ \E w \in Worker :
         \/ Start(w) /\ UNCHANGED bridgeVars
         \/ DispatcherDies(w)
         \/ DispatcherStep(w)
    \/ BridgeStep /\ UNCHANGED outboxVars

Spec == Init /\ [][Next]_vars

(* The dispatcher thread keeps running its loop (standalone_api.py,        *)
(* outbox_loop) and requests has a read timeout; a process that died is    *)
(* started again; time passes. Nothing is assumed of the bridge.           *)
Fairness ==
    /\ \A w \in Worker : WF_vars(DispatcherStep(w))
    /\ WF_vars(\E w \in Worker : Start(w) /\ UNCHANGED bridgeVars)
    /\ \A i \in Item : WF_vars(BecomesDue(i) /\ UNCHANGED bridgeVars)
    /\ \A i \in Item : WF_vars(LeaseLapses(i) /\ UNCHANGED bridgeVars)

FairSpec == Spec /\ Fairness

-----------------------------------------------------------------------------
(* Properties.                                                             *)

(* The bridge keeps the promise of IdempotentSend: once a receipt is on    *)
(* disk no retry, second dispatcher, late request or restart delivers the  *)
(* message again (AccountSession.send, SendReceiptStore).                  *)
Promise == INSTANCE IdempotentSend WITH receipt <- file

PromiseKept == Promise!Spec

(* A message is delivered twice only if the bridge died or sendMessage     *)
(* threw after delivering: every other retry meets a receipt or joins the  *)
(* operation in flight.                                                    *)
DuplicatesExplained ==
    \A k \in Item : Cardinality(delivered[k]) <= 1 + crashes + unconfirmed

(* A completed row carries the id of a message WhatsApp delivered for that *)
(* very row, whatever retries and stale answers came before                *)
(* (OutboxDispatcher._deliver, docs/sdd/04-api-and-events.md:403).         *)
CompletedWasDelivered ==
    \A i \in Item : message[i].waId # NoId => message[i].waId \in delivered[i]

(* Whatever times out, crashes or goes offline, an accepted message ends   *)
(* up sent or failed, as long as a dispatcher is left to serve it; the one *)
(* other outcome is a message whose id a from-me upsert took before the    *)
(* dispatcher committed: its row is claimed again and again.               *)
AcceptedSettles ==
    \A i \in Item : Active(i) ~> \/ Settled(i)
                                 \/ echoed \cap delivered[i] # {}
                                 \/ \A w \in Worker : phase[w] = "stopped"

=============================================================================
