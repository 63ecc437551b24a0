--------------------------- MODULE EventReceiver ---------------------------
(***************************************************************************)
(* The service's side of the events of one account: every request runs in  *)
(* a thread of its own and in a transaction that reads first and commits   *)
(* last (api/internal/whatsapp_events.py, events/whatsapp.py). Nothing     *)
(* locks what was read; the unique indexes on (account, event_id) and      *)
(* (account, wa_message_id) are checked when the rows are written, and a   *)
(* violation is answered by one retry in a new session.                    *)
(*                                                                         *)
(* Left out: contacts, chats and history batches; titles and previews;     *)
(* the deletion of the account; the auto-reply job (a module of its own);  *)
(* messages of several conversations. All messages are of one              *)
(* conversation, the worst case for its counter.                           *)
(***************************************************************************)
EXTENDS Naturals, FiniteSets, Events

CONSTANTS
    Msg,   \* WhatsApp ids of messages
    Slot   \* threads that handle requests

MessageStatus == {"none", "received", "sent", "delivered", "read", "failed"}
AccountStatus == {"offline", "connecting", "qr_pending", "online", "logged_out", "error"}
Answers == {"none", "accepted", "duplicate", "conflict", "missing", "error"}
Phase == {"free", "arrived", "open", "again", "reopened", "done"}

(* Status events have identities of their own: #emitEvent draws a uuid.    *)
ASSUME ReceiverAssumption ==
    \A e \in Event :
        /\ e.kind \in {"status", "inbound", "own", "receipt"}
        /\ e.kind = "status" =>
              e.says \in AccountStatus /\ \A d \in Event : d.key = e.key => d = e
        /\ e.kind = "receipt" => e.says \in {"sent", "delivered", "read", "failed"}
        /\ e.kind # "status" => e.msg \in Msg

VARIABLES
    request,  \* request[s]: what thread s is doing
    stored,   \* stored[e]: column sequence of the row of event e, 0 if none
    account,  \* columns status and last_event_sequence
    row,      \* row[m]: status of the message with this id, "none" if no row
    unread,   \* unread_count of the conversation
    inbound,  \* history: messages received from the other side
    readAny   \* history: the conversation was marked as read

tables == <<stored, account, row, unread, inbound, readAny>>
receiverVars == <<request, tables>>

-----------------------------------------------------------------------------
Recorded == {e \in Event : stored[e] # 0}

(* _apply_receipt: sent, delivered and read never step back.               *)
Rank(status) ==
    CASE status = "sent" -> 1
      [] status = "delivered" -> 2
      [] status = "read" -> 3
      [] OTHER -> 0

Free == [phase |-> "free", event |-> NoEvent, seq |-> 0, answer |-> "none",
         last |-> 0, status |-> "offline", row |-> "none", unread |-> 0]

(* What a thread knows: its event and the sequence it came with, and what  *)
(* its transaction read (last and status of the account, row, unread).     *)
Requests == [phase : Phase, event : Event \cup {NoEvent}, seq : Nat, answer : Answers,
             last : Nat, status : AccountStatus, row : MessageStatus, unread : Nat]

ReceiverTypeOK ==
    /\ request \in [Slot -> Requests]
    /\ stored \in [Event -> Nat]
    /\ account \in [status : AccountStatus, last : Nat]
    /\ row \in [Msg -> MessageStatus]
    /\ unread \in Nat
    /\ inbound \subseteq Msg
    /\ readAny \in BOOLEAN

ReceiverInit ==
    /\ request = [s \in Slot |-> Free]
    /\ stored = [e \in Event |-> 0]
    /\ account = [status |-> "offline", last |-> 0]
    /\ row = [m \in Msg |-> "none"]
    /\ unread = 0
    /\ inbound = {}
    /\ readAny = FALSE

-----------------------------------------------------------------------------
Arrive(s, e, n) ==
    /\ request[s].phase = "free"
    /\ request' = [request EXCEPT ![s] = [Free EXCEPT !.phase = "arrived", !.event = e, !.seq = n]]
    /\ UNCHANGED tables

Finish(s, a) == request' = [request EXCEPT ![s] = [@ EXCEPT !.phase = "done", !.answer = a]]

(* Mutant: two occurrences of one identity are taken for two events.       *)
SameContent(e) == Recorded \cap {e}

SameKey(e) == {d \in Recorded : d.key = e.key}

(* process finds the event, or another one of its identity; the hash       *)
(* covers the sequence, so only a redelivery is a duplicate.               *)
KnownEvent(s) ==
    LET r == request[s] IN
    /\ r.phase \in {"arrived", "again"}
    /\ SameKey(r.event) # {}
    /\ Finish(s, IF stored[r.event] = r.seq THEN "duplicate" ELSE "conflict")
    /\ UNCHANGED tables

(* A receipt for a message without a row: 409 with retryable set.          *)
UnknownMessage(s) ==
    LET r == request[s] IN
    /\ r.phase \in {"arrived", "again"}
    /\ SameKey(r.event) = {}
    /\ r.event.kind = "receipt"
    /\ row[r.event.msg] = "none"
    /\ Finish(s, "missing")
    /\ UNCHANGED tables

(* The transaction has read what it will decide on.                        *)
Read(s) ==
    LET r == request[s] IN
    /\ r.phase \in {"arrived", "again"}
    /\ SameKey(r.event) = {}
    /\ r.event.kind = "receipt" => row[r.event.msg] # "none"
    /\ request' = [request EXCEPT ![s] = [r EXCEPT
          !.phase = IF r.phase = "arrived" THEN "open" ELSE "reopened",
          !.last = account.last,
          !.status = account.status,
          !.row = IF r.event.kind = "status" THEN "none" ELSE row[r.event.msg],
          !.unread = unread]]
    /\ UNCHANGED tables

(* The ORM writes a column only if its value differs from the one read.    *)
Write(old, seen, new) == IF new = seen THEN old ELSE new

Inserts(r) == r.event.kind \in {"inbound", "own"} /\ r.row = "none"

Clash(r) ==
    \/ SameKey(r.event) # {}
    \/ Inserts(r) /\ row[r.event.msg] # "none"

(* _apply_account_status                                                   *)
AccountAfter(r) ==
    IF r.event.kind = "status" /\ r.seq > r.last
    THEN [status |-> Write(account.status, r.status, r.event.says), last |-> r.seq]
    ELSE account

(* Mutant: a receipt sets the status it reports.                           *)
ReceiptSets(old, target) == target

(* _apply_receipt                                                          *)
ReceiptTo(old, target) ==
    IF target = "failed"
    THEN IF Rank(old) = 0 THEN "failed" ELSE old
    ELSE IF Rank(target) < Rank(old) THEN old ELSE target

RowAfter(r, m) ==
    IF Inserts(r) THEN IF r.event.kind = "own" THEN "sent" ELSE "received"
    ELSE IF r.event.kind = "receipt"
    THEN Write(row[m], r.row, ReceiptTo(r.row, r.event.says))
    ELSE row[m]

(* process runs to its end and the transaction commits.                    *)
Commit(s) ==
    LET r == request[s]
        new == Inserts(r) /\ r.event.kind = "inbound" IN
    /\ r.phase \in {"open", "reopened"}
    /\ ~Clash(r)
    /\ Finish(s, "accepted")
    /\ stored' = [stored EXCEPT ![r.event] = r.seq]
    /\ account' = AccountAfter(r)
    /\ row' = [m \in Msg |-> IF r.event.kind # "status" /\ m = r.event.msg THEN RowAfter(r, m) ELSE row[m]]
    /\ unread' = IF new THEN r.unread + 1 ELSE unread
    /\ inbound' = IF new THEN inbound \cup {r.event.msg} ELSE inbound
    /\ UNCHANGED readAny

(* An IntegrityError: one retry, and a second one is an error 500.         *)
Conflict(s) ==
    LET r == request[s] IN
    /\ r.phase \in {"open", "reopened"}
    /\ Clash(r)
    /\ IF r.phase = "open" THEN request' = [request EXCEPT ![s] = [@ EXCEPT !.phase = "again"]] ELSE Finish(s, "error")
    /\ UNCHANGED tables

(* The database fails in the middle of a transaction: error 500.           *)
Fail(s) ==
    /\ request[s].phase \in {"arrived", "open", "again", "reopened"}
    /\ Finish(s, "error")
    /\ UNCHANGED tables

(* The answer is taken, or thrown away if nobody waits for it.             *)
Release(s) ==
    /\ request[s].phase = "done"
    /\ request' = [request EXCEPT ![s] = Free]
    /\ UNCHANGED tables

ServerDies ==
    /\ request' = [s \in Slot |-> Free]
    /\ UNCHANGED tables

(* OutboxDispatcher saves the id of an outbound message.                   *)
IdCommitted(m) ==
    /\ row[m] = "none"
    /\ row' = [row EXCEPT ![m] = "sent"]
    /\ UNCHANGED <<request, stored, account, unread, inbound, readAny>>

(* mark_conversation_read, one statement wide.                             *)
MarkRead ==
    /\ unread # 0
    /\ unread' = 0
    /\ readAny' = TRUE
    /\ UNCHANGED <<request, stored, account, row, inbound>>

HandlerStep(s) == KnownEvent(s) \/ UnknownMessage(s) \/ Read(s) \/ Commit(s) \/ Conflict(s)

-----------------------------------------------------------------------------
(* Properties.                                                             *)

(* The account has the status of the event with the largest sequence among *)
(* the recorded status events, whatever order the transactions had         *)
(* (docs/sdd/03-data-model.md:183, _apply_account_status).                 *)
StatusFollowsSequence ==
    LET reports == {e \in Recorded : e.kind = "status"} IN
    IF reports = {} THEN account = [status |-> "offline", last |-> 0]
    ELSE \E e \in reports :
           /\ \A d \in reports : stored[d] <= stored[e]
           /\ account = [status |-> e.says, last |-> stored[e]]

(* Of several events that claim one identity, one takes effect, and it     *)
(* counts once: the counter never exceeds the messages received, and until *)
(* somebody reads the conversation it is their number (_upsert_message).   *)
UnreadCounts ==
    /\ \A d, e \in Recorded : d.key = e.key => d = e
    /\ unread <= Cardinality(inbound)
    /\ ~readAny => unread = Cardinality(inbound)

=============================================================================
