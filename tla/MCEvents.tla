------------------------------ MODULE MCEvents ------------------------------
(* The occurrences of the small instances.                                 *)

Status(n, value) == [key |-> <<"status", n>>, kind |-> "status", msg |-> "", says |-> value]

(* "message:<id>" is the key of every upsert of a message; n tells its     *)
(* occurrences apart.                                                      *)
Upsert(m, direction, n) == [key |-> <<"message", m>>, kind |-> direction, msg |-> m, says |-> n]

Receipt(m, value) == [key |-> <<m, value>>, kind |-> "receipt", msg |-> m, says |-> value]

Traffic == {Status("1", "connecting"), Status("2", "online"),
            Upsert("a", "inbound", "first"), Upsert("a", "inbound", "again")}

Receipts == {Receipt("a", "delivered"), Receipt("a", "read")}

OwnMessage == Receipts \cup {Upsert("a", "own", "first")}

MC_NoEvent == [key |-> <<"none", "">>, kind |-> "none", msg |-> "", says |-> ""]

=============================================================================
