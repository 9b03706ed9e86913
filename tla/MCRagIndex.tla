----------------------------- MODULE MCRagIndex -----------------------------
(* Two files and two operations in flight, of any kinds.                   *)
EXTENDS RagIndex, TLC

Symmetry == Permutations(Ops) \cup Permutations(Files)
=============================================================================
