------------------------------ MODULE MCRelay ------------------------------
EXTENDS Relay, TLC

Contacts == {1, 2}

(* The first contact may not be listed (yet, or any more).                  *)
Listings == {{2}, {1, 2}}
Runners == Permutations(Runner)

=============================================================================
