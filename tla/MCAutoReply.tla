---------------------------- MODULE MCAutoReply ----------------------------
EXTENDS AutoReply, TLC

Workers == Permutations(Worker)

(* The first message is tried twice, the second once.                      *)
Attempts == [m \in Job |-> IF m = 1 THEN 2 ELSE 1]

=============================================================================
