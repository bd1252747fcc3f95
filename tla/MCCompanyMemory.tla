---------------------------- MODULE MCCompanyMemory ----------------------------
\* A small company: one industry to choose, a service and a case to tell.
EXTENDS CompanyMemory, TLC

CONSTANTS i1, i2, c1, c2

MCItems == {i1, i2}
MCCallers == {c1, c2}
Symmetry == Permutations(MCItems) \cup Permutations(MCCallers)
=============================================================================
