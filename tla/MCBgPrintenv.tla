---------------------------- MODULE MCBgPrintenv ----------------------------
(***************************************************************************)
(* Small instances of BgPrintenv for TLC: two partitions that each hold   *)
(* a valid record of revision 1 or 2 or a torn one, and a file that is    *)
(* missing, valid or torn.                                                 *)
(***************************************************************************)
EXTENDS BgPrintenv

\* The -p texts "1", "2" and "x".
MC_PartArgs == {[num |-> 1, tail |-> FALSE], [num |-> 2, tail |-> FALSE],
                [num |-> NoNum, tail |-> TRUE]}

MC_Content(rev) == [revision |-> rev, ustate |-> USTATE_OK,
                    kernelfile |-> NoKernel,
                    user |-> [k \in UserKeys |-> Absent]]
MC_Rec(rev) == [c |-> MC_Content(rev), crc |-> MC_Content(rev)]

\* A partition whose last write was cut short before its crc32.
MC_TornRec == [c |-> MC_Content(2), crc |-> NoCrc]

MC_InitRecs == {MC_Rec(1), MC_Rec(2), MC_TornRec}
MC_InitFiles == {NoFile, MC_Rec(1), MC_TornRec}
=============================================================================
