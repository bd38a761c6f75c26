----------------------------- MODULE MCRemoteAck -----------------------------
EXTENDS RemoteAck, TLC

\* The other servers are interchangeable.
Symmetry == Permutations(Nodes)
=============================================================================
