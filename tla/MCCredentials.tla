--------------------------- MODULE MCCredentials ---------------------------
(* Credentials for TLC: when every pair is current, pairs are interchangeable. *)
EXTENDS Credentials, TLC

Symmetry == Permutations(Pairs)
=============================================================================
