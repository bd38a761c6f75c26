--------------------------- MODULE MCLocalAdapter ---------------------------
EXTENDS LocalAdapter, TLC

\* Sockets, and rooms, are interchangeable.
Symmetry == Permutations(Sids) \cup Permutations(Rooms)
=============================================================================
