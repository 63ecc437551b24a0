------------------------------ MODULE Messages ------------------------------
(***************************************************************************)
(* The names the dispatcher and the bridge share: logical outbound         *)
(* messages, the dispatchers, and the ids WhatsApp gives to what it        *)
(* delivers.                                                               *)
(***************************************************************************)
EXTENDS Naturals, FiniteSets

CONSTANTS
    Item,      \* outbox rows; each has its own idempotency key
    Worker,    \* dispatcher incarnations: each process start draws a fresh uuid
    Id,        \* WhatsApp message ids
    NoItem, NoWorker, NoId

ASSUME NamesAssumption ==
    /\ NoItem \notin Item
    /\ NoWorker \notin Worker
    /\ NoId \notin Id

=============================================================================
