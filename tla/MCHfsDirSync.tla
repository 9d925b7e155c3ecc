--------------------------- MODULE MCHfsDirSync ---------------------------
(* Model-checking instance of HfsDirSync: three kernel threads on one     *)
(* directory, enough for a scan, a waiting writer and a third thread that *)
(* arrives between a wake-up and the woken thread running.                *)
EXTENDS HfsDirSync, TLC

CONSTANTS t1, t2, t3, d1

MCThreads == {t1, t2, t3}
MCDirs == {d1}

ThreadSymmetry == Permutations(MCThreads)
=============================================================================
