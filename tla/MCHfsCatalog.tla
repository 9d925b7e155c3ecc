---------------------------- MODULE MCHfsCatalog ----------------------------
(* Model values and bounds for checking HfsCatalog with TLC.               *)
EXTENDS HfsCatalog, TLC

CONSTANTS t1, t2, t3, n1, n2

MCThreads1 == {t1}
MCThreads2 == {t1, t2}
MCThreads3 == {t1, t2, t3}
MCNoSyncers == {}
MCSyncers2 == {t2}
MCNoHdr1 == [n \in {n1} |-> NoName]
MCNoHdr2 == [n \in {n1, n2} |-> NoName]
MCHdr2 == (n1 :> NoName @@ n2 :> n1)  \* n2 is "%n1"
MCAllSites == {"get_read", "write_entry", "cr_ins_thd", "cr_ins_rec", "cr_undo_thd",
               "dl_bdel", "dl_bdel_thd", "mv_ins", "mv_bdel", "mv_thd", "mv_dthd",
               "mv_undo", "sc_open"}
MCMoveSites == {"mv_ins", "mv_bdel", "mv_thd", "mv_dthd", "mv_undo"}
MCReadSites == {"get_read"}
MCNames1 == {n1}
MCNames2 == {n1, n2}

ThreadSymmetry2 == Permutations(MCThreads2)
ThreadSymmetry3 == Permutations(MCThreads3)
=============================================================================
