----------------------------- MODULE MCRetained -----------------------------
(* Small clusters for Retained.                                            *)
EXTENDS Retained, TLC

Symmetry == Permutations(Node) \cup Permutations(Topic)
=============================================================================
