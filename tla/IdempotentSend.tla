--------------------------- MODULE IdempotentSend ---------------------------
(***************************************************************************)
(* What the bridge promises about one idempotency key: it may deliver the  *)
(* message again as long as no receipt of it is on disk (at-least-once),   *)
(* and never afterwards; a receipt names a delivered message and is final. *)
(***************************************************************************)
CONSTANTS Item, Id, NoId

VARIABLES
    delivered,  \* delivered[k]: messages WhatsApp delivered for key k
    receipt     \* receipt[k]: the durable receipt of key k

Init ==
    /\ delivered = [k \in Item |-> {}]
    /\ receipt = [k \in Item |-> NoId]

Deliver(k) ==
    /\ receipt[k] = NoId
    /\ \E id \in Id :
         /\ \A j \in Item : id \notin delivered[j]
         /\ delivered' = [delivered EXCEPT ![k] = @ \cup {id}]
    /\ UNCHANGED receipt

(* One write of the file may record several keys.                          *)
Record ==
    /\ receipt' \in [Item -> Id \cup {NoId}]
    /\ \A k \in Item : receipt'[k] # receipt[k] =>
                         receipt[k] = NoId /\ receipt'[k] \in delivered[k]
    /\ UNCHANGED delivered

Next == Record \/ \E k \in Item : Deliver(k)

Spec == Init /\ [][Next]_<<delivered, receipt>>

=============================================================================
