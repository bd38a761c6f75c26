-------------------------- MODULE MCEngineSession --------------------------
EXTENDS EngineSession, TLC

\* Polling requests, and websockets, are interchangeable.
Symmetry == Permutations(Polls) \cup Permutations(Conns)
=============================================================================
