---------------------------- MODULE MCThreadInfo ----------------------------
\* Instances of A stay with a thread, those of B do not, and those of C do not use
\* the default allocator.  Broken is an exception of its own.
EXTENDS ThreadInfo, TLC

MCIndex == [A |-> 1, B |-> 2, C |-> 3]
MCSuper == [NSException |-> "", Special |-> "NSException", Broken |-> ""]
Symmetry == Permutations(Thread) \cup Permutations(Block)
=============================================================================
