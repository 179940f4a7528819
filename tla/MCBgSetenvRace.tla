--------------------------- MODULE MCBgSetenvRace ---------------------------
(***************************************************************************)
(* Two bg_setenv -u processes over the two partitions of the real build, *)
(* which start as valid records of revisions 1 and 2 in either order, or *)
(* both of revision 2.                                                     *)
(***************************************************************************)
EXTENDS BgSetenvRace

MC_Content(rev) == [revision |-> rev, ustate |-> USTATE_OK,
                    kernelfile |-> NoKernel,
                    user |-> [k \in UserKeys |-> Absent]]
MC_Rec(rev) == [c |-> MC_Content(rev), crc |-> MC_Content(rev)]

MC_InitRecs == {MC_Rec(1), MC_Rec(2)}
=============================================================================
