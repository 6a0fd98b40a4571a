--------------------------- MODULE MCClientServer ---------------------------
EXTENDS ClientServer, TLC

CONSTANTS t1, t2
MCThreads == {t1, t2}
MCIteratorIds == {0, 1}
Symmetry == Permutations(MCThreads)
=============================================================================
