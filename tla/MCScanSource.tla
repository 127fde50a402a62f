---------------------------- MODULE MCScanSource ----------------------------
EXTENDS ScanSource

\* The polls are interchangeable (checked for invariants only).
Symmetry == Permutations(Polls)
=============================================================================
