------------------------------ MODULE ABStore ------------------------------
(***************************************************************************)
(* What the redundant store promises (spec 4.4 and 5), with no process,   *)
(* journal or snapshot in sight: an update is one atomic step that        *)
(* rewrites exactly one slot, an oldest valid one, with the latest valid  *)
(* record carried forward, its revision incremented and the new kernel    *)
(* set, sealed with its crc32; a write cut short leaves that slot torn.   *)
(* An update that is refused or finds no valid slot changes nothing.      *)
(***************************************************************************)
EXTENDS Slots

CONSTANT InitRecs   \* records the slots may hold

VARIABLE disk       \* the record stored in each slot

\* clone_for_update of spec 4.4 followed by a journal setting the kernel.
NextRecord(latest, k) ==
    LET c == [latest.c EXCEPT !.revision = (latest.c.revision + 1) % RevMod,
                              !.kernelfile = k]
    IN  [c |-> c, crc |-> c]

Init == disk \in [Parts -> InitRecs]

\* One update: slot t, an oldest, gets the successor of latest slot l.
Update ==
    \E l \in LatestParts(disk), t \in OldestParts(disk), k \in Kernels :
        \/ disk' = [disk EXCEPT ![t] = NextRecord(disk[l], k)]
        \/ disk' = [disk EXCEPT ![t] = Torn(disk[t], NextRecord(disk[l], k))]

Spec == Init /\ [][Update]_disk

=============================================================================
