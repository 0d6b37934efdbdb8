------------------------- MODULE MCRequestScheduler -------------------------
EXTENDS RequestScheduler, TLC

\* An answer may name a date that is past, or ask to wait.
Delays == {-1, 2}

Threads == Permutations(Caller)
=============================================================================
