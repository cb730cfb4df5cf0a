---------------------------- MODULE MCStateCache ----------------------------
(* StateCache for TLC: values are interchangeable, and so are writers. *)
EXTENDS StateCache, TLC

Symmetry == Permutations(Values) \cup Permutations(Writers)
=============================================================================
