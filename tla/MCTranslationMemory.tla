------------------------ MODULE MCTranslationMemory ------------------------
EXTENDS TranslationMemory, TLC

CONSTANTS hello, bye

Sources == [m \in Message |-> IF m = 1 THEN hello ELSE bye]

Threads == Permutations(Thread \ Lone)

=============================================================================
