---------------------------- MODULE BgSetenvRace ----------------------------
(***************************************************************************)
(* Several bg_setenv -u -k KERNEL processes running at once over the same *)
(* config partitions (src/tools/bg_setenv.c, bg_setenv).  Each process    *)
(* reads every partition in bgenv_init, clones the latest record into the *)
(* oldest partition in memory, applies its journal, and only later        *)
(* writes with bgenv_write.  The code takes no lock in between; spec 5    *)
(* leaves cross-process exclusion to the storage collaborator, which is   *)
(* the constant Locked: TRUE when it serialises sessions from bgenv_init  *)
(* to bgenv_finalize, FALSE when it does not.  Spec 1 makes arbitration  *)
(* between concurrent writers a non-goal and spec 5 assumes one session *)
(* at a time, so the runs and the proofs ask their questions under      *)
(* Locked.  Argument parsing and the other modes are BgSetenv's; here a *)
(* run is the -u path only.                                              *)
(***************************************************************************)
EXTENDS Slots

CONSTANTS
    Procs,      \* the bg_setenv processes
    MaxRuns,    \* how many runs each process makes
    InitRecs,   \* records the partitions may hold
    Locked      \* the storage serialises sessions (spec 5)

ASSUME RaceAssumption ==
    /\ MaxRuns \in Nat
    /\ InitRecs \subseteq Rec
    /\ Locked \in BOOLEAN

VARIABLES
    disk,     \* the record stored in each config partition
    rpc,      \* rpc[p]: where process p is: idle, init or write
    kern,     \* kern[p]: the kernel name -k gave to p's current run
    env,      \* env[p]: env_new->data of p, journal applied and crc sealed
    target,   \* target[p]: the partition env_new of p was opened on
    runs,     \* runs[p]: the runs of p that have returned
    lock      \* the sessions the storage currently admits, if Locked

vars == <<disk, rpc, kern, env, target, runs, lock>>

TypeOK ==
    /\ disk \in [Parts -> Rec]
    /\ rpc \in [Procs -> {"idle", "init", "write"}]
    /\ kern \in [Procs -> Kernels \cup {NoKernel}]
    /\ env \in [Procs -> Rec]
    /\ target \in [Procs -> Parts \cup {NoPart}]
    /\ runs \in [Procs -> 0 .. MaxRuns]
    /\ lock \subseteq Procs

Init ==
    /\ disk \in [Parts -> InitRecs]
    /\ rpc = [p \in Procs |-> "idle"]
    /\ kern = [p \in Procs |-> NoKernel]
    /\ env = [p \in Procs |-> ZeroRec]
    /\ target = [p \in Procs |-> NoPart]
    /\ runs = [p \in Procs |-> 0]
    /\ lock = {}

\* The storage collaborator admits a new session (spec 5): always when it
\* does no arbitration, else only when no other session is open.
MayEnter(p) == Locked => lock = {}

\* Fault-injection variant of AutoRecord: the clone keeps the revision
\* of the latest record (the + 1 dropped).
AutoRecordNoIncrement(latest, k) ==
    LET c == [latest.c EXCEPT !.kernelfile = k]
    IN  [c |-> c, crc |-> c]

\* The -u clone of bg_setenv (memcpy of the latest, revision + 1) with
\* the journal of -k k applied by update_environment and its crc32.
AutoRecord(latest, k) ==
    LET c == [latest.c EXCEPT !.revision = (latest.c.revision + 1) % RevMod,
                              !.kernelfile = k]
    IN  [c |-> c, crc |-> c]

\* Process p returns from bg_setenv and the storage session ends.
Return(p) ==
    /\ rpc' = [rpc EXCEPT ![p] = "idle"]
    /\ runs' = [runs EXCEPT ![p] = @ + 1]
    /\ lock' = lock \ {p}

\* main -> bg_setenv -u -k k: argp_parse journals SET kernelfile k.
Start(p) ==
    /\ rpc[p] = "idle" /\ runs[p] < MaxRuns
    /\ \E k \in Kernels : kern' = [kern EXCEPT ![p] = k]
    /\ rpc' = [rpc EXCEPT ![p] = "init"]
    /\ UNCHANGED <<disk, env, target, runs, lock>>

\* bgenv_init() failed: bg_setenv returns 1 before any session opens.
BgenvInitFail(p) ==
    /\ rpc[p] = "init"
    /\ Return(p)
    /\ UNCHANGED <<disk, kern, env, target>>

\* Fault-injection variant of Open: env_new opened with
\* bgenv_open_latest instead of bgenv_open_oldest.
OpenIntoLatest(p) ==
    /\ rpc[p] = "init" /\ MayEnter(p)
    /\ IF ValidParts(disk) = {}
       THEN /\ Return(p)
            /\ UNCHANGED <<disk, kern, env, target>>
       ELSE \E l \in LatestParts(disk) :
               /\ env' = [env EXCEPT ![p] = AutoRecord(disk[l], kern[p])]
               /\ target' = [target EXCEPT ![p] = l]
               /\ rpc' = [rpc EXCEPT ![p] = "write"]
               /\ lock' = IF Locked THEN {p} ELSE lock
               /\ UNCHANGED <<disk, kern, runs>>

\* bgenv_init reads the partitions; bgenv_open_latest and
\* bgenv_open_oldest select among what it read, or fail and the run
\* returns 1; the clone and update_environment work on memory only.
Open(p) ==
    /\ rpc[p] = "init" /\ MayEnter(p)
    /\ IF ValidParts(disk) = {}
       THEN /\ Return(p)
            /\ UNCHANGED <<disk, kern, env, target>>
       ELSE \E l \in LatestParts(disk), o \in OldestParts(disk) :
               /\ env' = [env EXCEPT ![p] = AutoRecord(disk[l], kern[p])]
               /\ target' = [target EXCEPT ![p] = o]
               /\ rpc' = [rpc EXCEPT ![p] = "write"]
               /\ lock' = IF Locked THEN {p} ELSE lock
               /\ UNCHANGED <<disk, kern, runs>>

\* bgenv_write(env_new): stored, refused, or cut short before the crc32;
\* then bgenv_close, bgenv_finalize and return.
Write(p) ==
    /\ rpc[p] = "write"
    /\ \/ disk' = [disk EXCEPT ![target[p]] = env[p]]
       \/ disk' = [disk EXCEPT ![target[p]] = Torn(disk[target[p]], env[p])]
       \/ disk' = disk
    /\ Return(p)
    /\ UNCHANGED <<kern, env, target>>

Next == \E p \in Procs : Start(p) \/ BgenvInitFail(p) \/ Open(p) \/ Write(p)

\* Safety only: the code never waits, and a hypothetical lock that other
\* processes keep re-taking gives a waiting session no fairness the code
\* could justify, so no liveness is asked of the race.
Spec == Init /\ [][Next]_vars

-----------------------------------------------------------------------------
(***************************************************************************)
(* Properties.                                                             *)
(***************************************************************************)

\* The concurrent processes implement the atomic A/B store of ABStore:
\* every change of the partitions is one update that rewrites an oldest
\* partition of the medium as it is at that moment with the successor of
\* a latest one.  It fails when a process writes what it computed from a
\* snapshot another process has since made stale.
AB == INSTANCE ABStore

ImplementsABStore == AB!Spec

\* An auto-update never destroys the newest record: when process p
\* writes while two partitions are valid, some latest partition of the
\* medium as it is at that moment is left as it was.  It fails when p
\* chose its target from partitions another process has rewritten since
\* p's bgenv_init, and so overwrites an update that already reported
\* success.
LatestKept ==
    \A p \in Procs :
        rpc[p] = "write" /\ rpc'[p] = "idle" /\ Cardinality(ValidParts(disk)) >= 2
            => \E i \in LatestParts(disk) : disk'[i] = disk[i]

AutoUpdateKeepsLatest == [][LatestKept]_vars

=============================================================================
