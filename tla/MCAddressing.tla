---------------------------- MODULE MCAddressing ----------------------------
(* Small instances of Addressing for TLC: the constants are in the .cfg.    *)
EXTENDS Addressing
=============================================================================
