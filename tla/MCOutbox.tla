------------------------------ MODULE MCOutbox ------------------------------
EXTENDS Outbox, TLC

(* Dispatchers and ids are interchangeable for the safety properties.      *)
Symmetry == Permutations(Worker) \cup Permutations(Id)

=============================================================================
