---------------------------- MODULE MCBgSetenv ----------------------------
(***************************************************************************)
(* Small instances of BgSetenv for TLC: two partitions, one kernel name,  *)
(* one user variable, and a handful of argument texts chosen so that      *)
(* every validation branch of parse_setenv_opt is taken.                  *)
(***************************************************************************)
EXTENDS BgSetenv

\* The argument texts "0", "-1" and "2x" ...
MC_ArgsJournal == {[num |-> 0, tail |-> FALSE], [num |-> -1, tail |-> FALSE],
                   [num |-> 2, tail |-> TRUE]}

\* ... or "1" and "2" ...
MC_ArgsAB == {[num |-> 1, tail |-> FALSE], [num |-> 2, tail |-> FALSE]}

\* ... or "0", "-1", "2x" and "65538".
MC_ArgsEdge == {[num |-> 0, tail |-> FALSE], [num |-> -1, tail |-> FALSE],
               [num |-> 2, tail |-> TRUE], [num |-> 65538, tail |-> FALSE]}

MC_NumArgs == {-1, 0, 1, 2, 65538}

\* A valid record of the given revision with ustate OK and no user vars.
MC_Content(rev) == [revision |-> rev, ustate |-> USTATE_OK,
                    kernelfile |-> NoKernel,
                    user |-> [k \in UserKeys |-> Absent]]
MC_Rec(rev) == [c |-> MC_Content(rev), crc |-> MC_Content(rev)]

\* Partitions start valid with revision 0 or 1 (ties included) ...
MC_InitRecs01 == {MC_Rec(0), MC_Rec(1)}

\* ... or with revision 1 or 2.
MC_InitRecs12 == {MC_Rec(1), MC_Rec(2)}

\* The file is missing, valid, or holds a record whose crc32 is wrong.
MC_InitFiles == {NoFile, MC_Rec(1),
                 [c |-> MC_Content(1), crc |-> MC_Content(0)]}
=============================================================================
