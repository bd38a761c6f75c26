----------------------------- MODULE MCNamespace -----------------------------
(* Namespace on small instances: connect attempts and closing tasks are     *)
(* interchangeable, so the safety runs use symmetry; the liveness run does  *)
(* not.                                                                     *)
EXTENDS Namespace, TLC

Symmetry == Permutations(Conns) \cup Permutations(Workers)
=============================================================================
