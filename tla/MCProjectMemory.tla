-------------------------- MODULE MCProjectMemory --------------------------
EXTENDS ProjectMemory, TLC

CONSTANTS t1, t2

MCTexts == {t1, t2}
MCCategoryOf == [t \in MCTexts |-> 1]
MCCaps == [c \in {1} |-> 1]

Symmetry == Permutations(Sessions) \cup Permutations(MCTexts)
=============================================================================
