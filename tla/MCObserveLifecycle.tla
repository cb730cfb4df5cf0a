------------------------- MODULE MCObserveLifecycle -------------------------
(* Small instances of ObserveLifecycle for TLC.  The times keep the order of *)
(* lib/const.py, which is all the code compares: poll <= grace <= retry and  *)
(* poll <= sweep <= refresh.                                                 *)
EXTENDS ObserveLifecycle, TLC

AllSurfaces == {Hrefs}
ShiftingSurfaces == SUBSET Hrefs
HrefSymmetry == Permutations(Hrefs) \cup Permutations(Addrs)
=============================================================================
