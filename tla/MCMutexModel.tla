---------------------------- MODULE MCMutexModel ----------------------------
EXTENDS MutexModel, TLC

CONSTANTS t1, t2, t3, s1, s2, i1, i2
MCThreads == {t1, t2, t3}
MCStatements == {s1, s2}
MCIterators == {i1, i2}
BothModes == {Plain, ReadWrite}

\* No definition names a particular thread, iterator or statement.
Symmetry == Permutations(MCThreads) \cup Permutations(MCIterators)
              \cup Permutations(MCStatements)
=============================================================================
