----------------------------- MODULE BridgeSend -----------------------------
(***************************************************************************)
(* The send path of the Node bridge for one account: AccountSession.send   *)
(* and #sendNow (account-session.js) over the SendReceiptStore             *)
(* (send-receipt-store.js), reached by HTTP requests of the dispatchers.   *)
(* One operation per idempotency key is in flight; callers of the same key *)
(* share its outcome. Each await of the operation is a point where other   *)
(* requests, a crash of the process or a client timeout can come between.  *)
(*                                                                         *)
(* The receipt store keeps at least 100 keys and drops the oldest; Item is *)
(* smaller than that, so no receipt is evicted here.                       *)
(***************************************************************************)
EXTENDS Messages

CONSTANTS
    MaxCrashes,     \* bound: how often the bridge process may die
    MaxUnconfirmed  \* bound: how often sendMessage throws after delivering

ASSUME BridgeAssumption == MaxCrashes \in Nat /\ MaxUnconfirmed \in Nat

VARIABLES
    up,           \* the bridge process runs
    online,       \* state === 'online' with a socket
    entries,      \* receipt store, in memory: key -> wa id
    file,         \* receipt store, send-receipts.json
    op,           \* op[k]: where the in-flight operation of key k is
    opId,         \* opId[k]: the id sendMessage returned to it
    delivered,    \* delivered[k]: messages WhatsApp delivered for key k
    request,      \* request[w]: the key of w's request, not handled yet
    orphan,       \* keys of unhandled requests whose client has timed out
    waiting,      \* waiting[k]: clients waiting for the operation of key k
    reply,        \* reply[w]: the response on its way to w
    crashes,      \* deaths of the bridge process so far
    unconfirmed   \* deliveries so far whose sendMessage threw

bridgeVars == <<up, online, entries, file, op, opId, delivered, request, orphan,
                waiting, reply, crashes, unconfirmed>>

-----------------------------------------------------------------------------
OpState == {"none", "sending", "acked", "flushing", "emitting"}

(* Responses of POST /accounts/{id}/send: 200 with an id, 409              *)
(* account_offline, 404 account_not_found after a restart (same class),    *)
(* 500 for any other exception; the last two carry a retryable flag.       *)
NoReply == [status |-> 0, id |-> NoId, retryable |-> FALSE]
Ok(id) == [status |-> 200, id |-> id, retryable |-> FALSE]
Offline == [status |-> 409, id |-> NoId, retryable |-> TRUE]
Internal == [status |-> 500, id |-> NoId, retryable |-> TRUE]
Response == {Ok(id) : id \in Id} \cup {Offline, Internal}

Delivered == UNION {delivered[k] : k \in Item}

BridgeTypeOK ==
    /\ up \in BOOLEAN
    /\ online \in BOOLEAN
    /\ entries \in [Item -> Id \cup {NoId}]
    /\ file \in [Item -> Id \cup {NoId}]
    /\ op \in [Item -> OpState]
    /\ opId \in [Item -> Id \cup {NoId}]
    /\ delivered \in [Item -> SUBSET Id]
    /\ request \in [Worker -> Item \cup {NoItem}]
    /\ orphan \in SUBSET Item
    /\ waiting \in [Item -> SUBSET Worker]
    /\ reply \in [Worker -> Response \cup {NoReply}]
    /\ crashes \in 0..MaxCrashes
    /\ unconfirmed \in 0..MaxUnconfirmed

NoEntries == [k \in Item |-> NoId]

BridgeInit ==
    /\ up = TRUE
    /\ online = TRUE
    /\ entries = NoEntries
    /\ file = NoEntries
    /\ op = [k \in Item |-> "none"]
    /\ opId = NoEntries
    /\ delivered = [k \in Item |-> {}]
    /\ request = [w \in Worker |-> NoItem]
    /\ orphan = {}
    /\ waiting = [k \in Item |-> {}]
    /\ reply = [w \in Worker |-> NoReply]
    /\ crashes = 0
    /\ unconfirmed = 0

-----------------------------------------------------------------------------
(* The client's side of a call.                                            *)

Request(w, k) ==
    /\ request[w] = NoItem /\ reply[w] = NoReply /\ \A j \in Item : w \notin waiting[j]
    /\ request' = [request EXCEPT ![w] = IF up THEN k ELSE NoItem]
    /\ UNCHANGED <<up, online, entries, file, op, opId, delivered, orphan, waiting, reply, crashes, unconfirmed>>

TakeReply(w) ==
    /\ reply[w] # NoReply
    /\ reply' = [reply EXCEPT ![w] = NoReply]
    /\ UNCHANGED <<up, online, entries, file, op, opId, delivered, request, orphan, waiting, crashes, unconfirmed>>

(* Timeout, refused connection or death of the client: nobody hears the    *)
(* answer, yet a request already sent is handled and an operation goes on. *)
Abandon(w) ==
    /\ request' = [request EXCEPT ![w] = NoItem]
    /\ orphan' = orphan \cup ({request[w]} \ {NoItem})
    /\ waiting' = [k \in Item |-> waiting[k] \ {w}]
    /\ reply' = [reply EXCEPT ![w] = NoReply]
    /\ UNCHANGED <<up, online, entries, file, op, opId, delivered, crashes, unconfirmed>>

-----------------------------------------------------------------------------
(* send(): a receipt answers at once, an operation in flight is joined, an *)
(* offline account refuses, and otherwise #sendNow calls sendMessage.      *)
Handle(k, clients) ==
    \/ /\ entries[k] # NoId
       /\ reply' = [w \in Worker |-> IF w \in clients THEN Ok(entries[k]) ELSE reply[w]]
       /\ UNCHANGED <<op, waiting>>
    \/ /\ entries[k] = NoId
       /\ op[k] # "none"
       /\ waiting' = [waiting EXCEPT ![k] = @ \cup clients]
       /\ UNCHANGED <<op, reply>>
    \/ /\ entries[k] = NoId
       /\ op[k] = "none"
       /\ ~online
       /\ reply' = [w \in Worker |-> IF w \in clients THEN Offline ELSE reply[w]]
       /\ UNCHANGED <<op, waiting>>
    \/ /\ entries[k] = NoId
       /\ op[k] = "none"
       /\ online
       /\ op' = [op EXCEPT ![k] = "sending"]
       /\ waiting' = [waiting EXCEPT ![k] = clients]
       /\ UNCHANGED reply

HandleRequest(w) ==
    /\ up
    /\ request[w] # NoItem
    /\ Handle(request[w], {w})
    /\ request' = [request EXCEPT ![w] = NoItem]
    /\ UNCHANGED <<up, online, entries, file, opId, delivered, orphan, crashes, unconfirmed>>

HandleOrphan(k) ==
    /\ up
    /\ k \in orphan
    /\ Handle(k, {})
    /\ orphan' = orphan \ {k}
    /\ UNCHANGED <<up, online, entries, file, opId, delivered, request, crashes, unconfirmed>>

(* The operation ends with an exception for all its callers.               *)
OpFails(k) ==
    /\ op' = [op EXCEPT ![k] = "none"]
    /\ opId' = [opId EXCEPT ![k] = NoId]
    /\ waiting' = [waiting EXCEPT ![k] = {}]
    /\ reply' = [w \in Worker |-> IF w \in waiting[k] THEN Internal ELSE reply[w]]

(* socket.sendMessage delivers the message and resolves with its id.       *)
SendSucceeds(k) ==
    /\ op[k] = "sending"
    /\ \E id \in Id \ Delivered :
         /\ delivered' = [delivered EXCEPT ![k] = @ \cup {id}]
         /\ opId' = [opId EXCEPT ![k] = id]
    /\ op' = [op EXCEPT ![k] = "acked"]
    /\ UNCHANGED <<up, online, entries, file, request, orphan, waiting, reply, crashes, unconfirmed>>

(* Mutant: a failed send goes on with the id that was chosen for it.       *)
SendFailsUnseen(k) ==
    /\ op[k] = "sending"
    /\ \E id \in Id \ Delivered : opId' = [opId EXCEPT ![k] = id]
    /\ op' = [op EXCEPT ![k] = "acked"]
    /\ UNCHANGED <<up, online, entries, file, delivered, request, orphan, waiting, reply, crashes, unconfirmed>>

(* sendMessage throws, or resolves without an id: nothing was delivered,   *)
(* or the message was and nobody learns its id.                            *)
SendFails(k) ==
    /\ op[k] = "sending"
    /\ OpFails(k)
    /\ \/ UNCHANGED <<delivered, unconfirmed>>
       \/ /\ unconfirmed < MaxUnconfirmed
          /\ unconfirmed' = unconfirmed + 1
          /\ \E id \in Id \ Delivered : delivered' = [delivered EXCEPT ![k] = @ \cup {id}]
    /\ UNCHANGED <<up, online, entries, file, request, orphan, crashes>>

(* Mutant: the id is not entered into the map.                             *)
PutReceiptNowhere(k) ==
    /\ op[k] = "acked"
    /\ op' = [op EXCEPT ![k] = "flushing"]
    /\ UNCHANGED <<up, online, entries, file, opId, delivered, request, orphan, waiting, reply, crashes, unconfirmed>>

(* SendReceiptStore.put: the map first, ...                                *)
PutReceipt(k) ==
    /\ op[k] = "acked"
    /\ entries' = [entries EXCEPT ![k] = opId[k]]
    /\ op' = [op EXCEPT ![k] = "flushing"]
    /\ UNCHANGED <<up, online, file, opId, delivered, request, orphan, waiting, reply, crashes, unconfirmed>>

(* ... then the whole map replaces the file, ...                           *)
FlushReceipts(k) ==
    /\ op[k] = "flushing"
    /\ file' = entries
    /\ op' = [op EXCEPT ![k] = "emitting"]
    /\ UNCHANGED <<up, online, entries, opId, delivered, request, orphan, waiting, reply, crashes, unconfirmed>>

(* ... unless the write fails, or the spooling of message.sent after it:   *)
(* the map keeps the receipt, and a retry is answered with it.             *)
LateFails(k) ==
    /\ op[k] \in {"flushing", "emitting"}
    /\ OpFails(k)
    /\ UNCHANGED <<up, online, entries, file, delivered, request, orphan, crashes, unconfirmed>>

(* message.sent is spooled and flushed, and the id is returned to all.     *)
EmitSent(k) ==
    /\ op[k] = "emitting"
    /\ op' = [op EXCEPT ![k] = "none"]
    /\ opId' = [opId EXCEPT ![k] = NoId]
    /\ waiting' = [waiting EXCEPT ![k] = {}]
    /\ reply' = [w \in Worker |-> IF w \in waiting[k] THEN Ok(opId[k]) ELSE reply[w]]
    /\ UNCHANGED <<up, online, entries, file, delivered, request, orphan, crashes, unconfirmed>>

(* Mutant: the receipts are dropped with the socket.                       *)
GoOfflineForgets ==
    /\ up
    /\ online
    /\ online' = FALSE
    /\ entries' = NoEntries
    /\ UNCHANGED <<up, file, op, opId, delivered, request, orphan, waiting, reply, crashes, unconfirmed>>

(* Mutant: the receipt file is not read again after a restart.             *)
ConnectUnloaded ==
    /\ up
    /\ ~online
    /\ online' = TRUE
    /\ UNCHANGED <<up, entries, file, op, opId, delivered, request, orphan, waiting, reply, crashes, unconfirmed>>

(* The socket drops; the account reconnects after initialize() has read    *)
(* the receipt file into the map.                                          *)
GoOffline ==
    /\ up
    /\ online
    /\ online' = FALSE
    /\ UNCHANGED <<up, entries, file, op, opId, delivered, request, orphan, waiting, reply, crashes, unconfirmed>>

Connect ==
    /\ up
    /\ ~online
    /\ entries' = [k \in Item |-> IF file[k] # NoId THEN file[k] ELSE entries[k]]
    /\ online' = TRUE
    /\ UNCHANGED <<up, file, op, opId, delivered, request, orphan, waiting, reply, crashes, unconfirmed>>

BridgeCrash ==
    /\ up
    /\ crashes < MaxCrashes
    /\ crashes' = crashes + 1
    /\ up' = FALSE
    /\ online' = FALSE
    /\ entries' = NoEntries
    /\ op' = [k \in Item |-> "none"]
    /\ opId' = NoEntries
    /\ request' = [w \in Worker |-> NoItem]
    /\ orphan' = {}
    /\ waiting' = [k \in Item |-> {}]
    /\ reply' = [w \in Worker |-> NoReply]
    /\ UNCHANGED <<file, delivered, unconfirmed>>

BridgeRestart ==
    /\ ~up
    /\ up' = TRUE
    /\ UNCHANGED <<online, entries, file, op, opId, delivered, request, orphan, waiting, reply, crashes, unconfirmed>>

-----------------------------------------------------------------------------
OpStep(k) ==
    \/ HandleOrphan(k)
    \/ SendSucceeds(k)
    \/ SendFails(k)
    \/ PutReceipt(k)
    \/ FlushReceipts(k)
    \/ LateFails(k)
    \/ EmitSent(k)

BridgeStep ==
    \/ \E w \in Worker : HandleRequest(w)
    \/ \E k \in Item : OpStep(k)
    \/ GoOffline
    \/ Connect
    \/ BridgeCrash
    \/ BridgeRestart

(* On its own, the bridge meets clients that may ask for any key.          *)
BridgeNext ==
    \/ BridgeStep
    \/ \E w \in Worker : TakeReply(w) \/ Abandon(w) \/ \E k \in Item : Request(w, k)

BridgeSpec == BridgeInit /\ [][BridgeNext]_bridgeVars

-----------------------------------------------------------------------------
(* The map holds every receipt of the file: true from the first Connect of *)
(* a process on, and while an operation runs.                              *)
Loaded == \A k \in Item : file[k] # NoId => entries[k] = file[k]

(* Why no receipt is ever overtaken by a second delivery: receipts name    *)
(* delivered messages, an online process has loaded them all, and an       *)
(* operation that may still deliver has no receipt anywhere                *)
(* (AccountSession.initialize and send, SendReceiptStore.start and put).   *)
ReceiptInv ==
    /\ \A k \in Item : entries[k] # NoId => entries[k] \in delivered[k]
    /\ \A k \in Item : file[k] # NoId => file[k] \in delivered[k]
    /\ online \/ (\E k \in Item : op[k] # "none") => Loaded
    /\ \A k \in Item : op[k] \in {"sending", "acked"} => entries[k] = NoId /\ file[k] = NoId
    /\ \A k \in Item : op[k] \in {"acked", "flushing", "emitting"} => opId[k] \in delivered[k]

=============================================================================
