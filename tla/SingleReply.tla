---------------------------- MODULE SingleReply ----------------------------
(***************************************************************************)
(* What the automatic replies promise about one inbound message: it is     *)
(* taken up once at most, and then answered once or left alone, for good.  *)
(***************************************************************************)
CONSTANT Inbound

VARIABLES outcome, replies   \* replies: messages with an automatic reply

Init ==
    /\ outcome = [m \in Inbound |-> "none"]
    /\ replies = {}

(* The reconciler takes up several at once, a recovery leaves several.     *)
Move(S, from, to) ==
    /\ \A m \in S : outcome[m] = from
    /\ outcome' = [m \in Inbound |-> IF m \in S THEN to ELSE outcome[m]]
    /\ UNCHANGED replies

Reply(m) ==
    /\ outcome[m] = "open"
    /\ outcome' = [outcome EXCEPT ![m] = "replied"]
    /\ replies' = replies \cup {m}

Next ==
    \/ \E S \in SUBSET Inbound : Move(S, "none", "open") \/ Move(S, "open", "left")
    \/ \E m \in Inbound : Reply(m)

Spec == Init /\ [][Next]_<<outcome, replies>>

=============================================================================
