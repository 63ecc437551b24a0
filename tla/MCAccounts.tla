----------------------------- MODULE MCAccounts -----------------------------
(* One request of the console at a time, beside the reconciler and a late  *)
(* call: no symmetry, because the run checks liveness.                     *)
EXTENDS Accounts, TLC

=============================================================================
