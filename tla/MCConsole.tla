----------------------------- MODULE MCConsole -----------------------------
EXTENDS Consoles, TLC

Threads == Permutations(Thread)

=============================================================================
