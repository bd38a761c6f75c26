------------------------------ MODULE MCAckMap ------------------------------
EXTENDS AckMap, TLC

\* Callers are interchangeable.
Symmetry == Permutations(Calls)
=============================================================================
