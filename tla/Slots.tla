------------------------------- MODULE Slots -------------------------------
(***************************************************************************)
(* The redundant config partitions of EFI Boot Guard and the library's    *)
(* selection among them (bgenv_open_latest, bgenv_open_oldest), shared by *)
(* bg_setenv and bg_printenv.                                             *)
(***************************************************************************)
EXTENDS EnvData

CONSTANT NParts   \* ENV_NUM_CONFIG_PARTS

ASSUME NPartsAssumption == NParts \in Nat \ {0}

Parts == 0 .. NParts - 1
NoPart == -1                 \* which_part when -p was not given

(***************************************************************************)
(* The library's partition selection (spec 4.4): latest and oldest are   *)
(* taken among the partitions whose crc32 verifies; ties are broken in an *)
(* unspecified way, so any maximal (minimal) partition may be returned.   *)
(***************************************************************************)
ValidParts(d) == {i \in Parts : Valid(d[i])}
LatestParts(d) ==
    {i \in ValidParts(d) : \A j \in ValidParts(d) :
        d[j].c.revision <= d[i].c.revision}
OldestParts(d) ==
    {i \in ValidParts(d) : \A j \in ValidParts(d) :
        d[i].c.revision <= d[j].c.revision}

=============================================================================
