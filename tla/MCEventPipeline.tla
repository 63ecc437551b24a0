-------------------------- MODULE MCEventPipeline --------------------------
EXTENDS EventPipeline, MCEvents, TLC

Threads == Permutations(Slot)

=============================================================================
