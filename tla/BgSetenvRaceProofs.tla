------------------------ MODULE BgSetenvRaceProofs ------------------------
(***************************************************************************)
(* Proofs about concurrent bg_setenv -u processes (BgSetenvRace), for     *)
(* every set of processes, number of partitions, number of runs and      *)
(* width of the revision.                                                 *)
(***************************************************************************)
EXTENDS BgSetenvRace, SlotsProofs

USE RevBitsAssumption, WidthAssumption, NPartsAssumption, RaceAssumption

(***************************************************************************)
(* The inductive invariant.  A process past Start has a kernel and a run  *)
(* to spend, and one about to write has a partition as target.  When the  *)
(* storage serialises sessions, a process about to write is the only one *)
(* admitted, so the medium is still what its bgenv_init read: its target *)
(* is an oldest partition and what it holds in memory is the clone of a  *)
(* latest one.                                                             *)
(***************************************************************************)
RInv ==
    /\ TypeOK
    /\ \A p \in Procs : rpc[p] # "idle" => runs[p] < MaxRuns /\ kern[p] \in Kernels
    /\ \A p \in Procs : rpc[p] = "write" => target[p] \in Parts
    /\ Locked =>
          \A p \in Procs : rpc[p] = "write" =>
              /\ lock = {p}
              /\ target[p] \in OldestParts(disk)
              /\ LatestParts(disk) # {}
              /\ \E l \in LatestParts(disk) :
                    env[p] = AutoRecord(disk[l], kern[p])

\* The -u clone with a kernel name from -k is a record.
LEMMA AutoRecordType ==
    ASSUME NEW r \in Rec, NEW k \in Kernels
    PROVE  AutoRecord(r, k) \in Rec
<1>1. r.c.revision + 1 \in Int
  BY DEF Rec, Content
<1>2. (r.c.revision + 1) % RevMod \in 0 .. RevMod - 1
  BY <1>1, WidthAssumption, ModRange, Zenon
<1>. QED  BY <1>2 DEF AutoRecord, Rec, Content

LEMMA InitRInv == Init => RInv
<1>. SUFFICES ASSUME Init PROVE RInv
  OBVIOUS
<1>1. disk \in [Parts -> Rec]
  BY DEF Init
<1>. QED  BY <1>1, ZeroRecType DEF Init, RInv, TypeOK

\* Process p starts a run.
LEMMA StartRInv ==
    ASSUME RInv, NEW p \in Procs, Start(p) PROVE RInv'
<1>1. TypeOK'
  BY DEF RInv, TypeOK, Start
<1>2. \A q \in Procs \ {p} : rpc'[q] = rpc[q]
  BY DEF RInv, TypeOK, Start
<1>. QED  BY <1>1, <1>2 DEF RInv, TypeOK, Start

\* Process p fails in bgenv_init, or finds no valid partition, and returns.
LEMMA OpenFailRInv ==
    ASSUME RInv, NEW p \in Procs, rpc[p] = "init", Return(p),
           UNCHANGED <<disk, kern, env, target>>
    PROVE  RInv'
<1>1. runs[p] + 1 \in 0 .. MaxRuns
  BY DEF RInv, TypeOK
<1>2. TypeOK'
  BY <1>1 DEF RInv, TypeOK, Return
<1>3. \A q \in Procs \ {p} : rpc'[q] = rpc[q] /\ runs'[q] = runs[q]
  BY DEF RInv, TypeOK, Return
<1>4. rpc'[p] = "idle"
  BY DEF RInv, TypeOK, Return
<1>5. Locked => \A q \in Procs : rpc'[q] = "write" => lock' = {q}
  BY <1>3, <1>4 DEF RInv, Return
<1>. QED  BY <1>2, <1>3, <1>4, <1>5 DEF RInv

\* Process p is admitted, clones latest partition l and targets oldest o.
LEMMA OpenRInv ==
    ASSUME RInv, NEW p \in Procs, rpc[p] = "init", MayEnter(p),
           NEW l \in LatestParts(disk), NEW o \in OldestParts(disk),
           env' = [env EXCEPT ![p] = AutoRecord(disk[l], kern[p])],
           target' = [target EXCEPT ![p] = o],
           rpc' = [rpc EXCEPT ![p] = "write"],
           lock' = IF Locked THEN {p} ELSE lock,
           UNCHANGED <<disk, kern, runs>>
    PROVE  RInv'
<1>1. l \in Parts /\ o \in Parts
  BY SelectionType
<1>2. AutoRecord(disk[l], kern[p]) \in Rec
  BY <1>1, AutoRecordType DEF RInv, TypeOK
<1>3. TypeOK'
  BY <1>1, <1>2 DEF RInv, TypeOK
<1>4. Locked => \A q \in Procs \ {p} : rpc[q] # "write"
  BY DEF RInv, MayEnter
<1>. QED  BY <1>1, <1>3, <1>4 DEF RInv, TypeOK

\* Process p writes its target and returns.
LEMMA WriteRInv ==
    ASSUME RInv, NEW p \in Procs, Write(p) PROVE RInv'
<1>1. target[p] \in Parts /\ env[p] \in Rec /\ disk[target[p]] \in Rec
  BY DEF RInv, TypeOK, Write
<1>2. disk' \in [Parts -> Rec]
  BY <1>1, TornType DEF Write, RInv, TypeOK
<1>3. runs[p] + 1 \in 0 .. MaxRuns
  BY DEF RInv, TypeOK, Write
<1>4. TypeOK'
  BY <1>2, <1>3 DEF RInv, TypeOK, Write, Return
<1>5. \A q \in Procs \ {p} : rpc'[q] = rpc[q] /\ runs'[q] = runs[q]
  BY DEF RInv, TypeOK, Write, Return
<1>6. rpc'[p] = "idle"
  BY DEF RInv, TypeOK, Write, Return
<1>7. Locked => \A q \in Procs \ {p} : rpc[q] # "write"
  BY DEF RInv, Write
<1>. QED  BY <1>4, <1>5, <1>6, <1>7 DEF RInv, Write

LEMMA StepRInv == RInv /\ [Next]_vars => RInv'
<1>. SUFFICES ASSUME RInv, [Next]_vars PROVE RInv'
  OBVIOUS
<1>1. ASSUME NEW p \in Procs, Start(p) PROVE RInv'
  BY <1>1, StartRInv
<1>5. ASSUME NEW p \in Procs, BgenvInitFail(p) PROVE RInv'
  BY <1>5, OpenFailRInv DEF BgenvInitFail
<1>2. ASSUME NEW p \in Procs, Open(p) PROVE RInv'
  <2>1. CASE ValidParts(disk) = {}
    BY <1>2, <2>1, OpenFailRInv DEF Open
  <2>2. CASE ValidParts(disk) # {}
    BY <1>2, <2>2, OpenRInv DEF Open
  <2>. QED  BY <2>1, <2>2
<1>3. ASSUME NEW p \in Procs, Write(p) PROVE RInv'
  BY <1>3, WriteRInv
<1>4. CASE UNCHANGED vars
  BY <1>4 DEF vars, RInv, TypeOK
<1>. QED  BY <1>1, <1>2, <1>3, <1>4, <1>5 DEF Next

\* Every reachable state of the concurrent processes is well-typed.
THEOREM RaceTypeCorrect == Spec => []TypeOK
<1>1. RInv => TypeOK
  BY DEF RInv
<1>. QED  BY InitRInv, StepRInv, <1>1, PTL DEF Spec

\* A step of the system changes no partition but, at most, the target of
\* the process that writes.
LEMMA DiskFrame ==
    ASSUME RInv, [Next]_vars
    PROVE  \/ disk' = disk
           \/ \E q \in Procs :
                 /\ Write(q)
                 /\ \A i \in Parts \ {target[q]} : disk'[i] = disk[i]
<1>1. ASSUME NEW q \in Procs, Write(q)
      PROVE  \A i \in Parts \ {target[q]} : disk'[i] = disk[i]
  BY <1>1 DEF Write, RInv, TypeOK
<1>. QED  BY <1>1 DEF Next, Start, BgenvInitFail, Return, Open, vars

\* With a storage that serialises sessions, a write of bg_setenv -u made
\* while two partitions are valid leaves some latest partition as it was.
LEMMA StepLatestKept ==
    ASSUME Locked, RInv, [Next]_vars PROVE [LatestKept]_vars
<1>. SUFFICES ASSUME NEW p \in Procs, rpc[p] = "write", rpc'[p] = "idle",
                     Cardinality(ValidParts(disk)) >= 2
              PROVE  \E i \in LatestParts(disk) : disk'[i] = disk[i]
  BY DEF LatestKept
<1>1. target[p] \in OldestParts(disk) /\ LatestParts(disk) # {}
  BY DEF RInv
<1>2. PICK i \in LatestParts(disk) : i # target[p]
  BY <1>1, LatestSurvives DEF RInv, TypeOK
<1>3. i \in Parts
  BY SelectionType
<1>4. CASE disk' = disk
  BY <1>2, <1>4
<1>5. ASSUME NEW q \in Procs, Write(q),
             \A j \in Parts \ {target[q]} : disk'[j] = disk[j]
      PROVE  \E j \in LatestParts(disk) : disk'[j] = disk[j]
  <2>1. q = p
    BY <1>5 DEF Write, RInv, TypeOK
  <2>. QED  BY <1>2, <1>3, <1>5, <2>1
<1>. QED  BY <1>4, <1>5, DiskFrame

\* Spec 5 makes the storage responsible for cross-process exclusion.  When
\* it serialises sessions from bgenv_init to bgenv_finalize, concurrent
\* bg_setenv -u processes never overwrite the newest record while another
\* partition is valid, for every number of processes, partitions and
\* runs, whatever each bgenv_write does.
THEOREM LockedLatestKept == Locked => (Spec => AutoUpdateKeepsLatest)
<1>. SUFFICES ASSUME Locked PROVE Spec => AutoUpdateKeepsLatest
  OBVIOUS
<1>1. RInv /\ [Next]_vars => [LatestKept]_vars
  BY StepLatestKept
<1>. QED  BY InitRInv, StepRInv, <1>1, PTL DEF Spec, AutoUpdateKeepsLatest

\* Every step of the concurrent processes is an update of the A/B store
\* or leaves the partitions alone.
LEMMA StepRefines ==
    ASSUME Locked, RInv, [Next]_vars PROVE [AB!Update]_disk
<1>1. ASSUME NEW p \in Procs, Write(p) PROVE [AB!Update]_disk
  <2>1. /\ target[p] \in OldestParts(disk)
        /\ kern[p] \in Kernels
        /\ \E l \in LatestParts(disk) : env[p] = AutoRecord(disk[l], kern[p])
    BY <1>1 DEF Write, RInv
  <2>2. PICK l \in LatestParts(disk) : env[p] = AB!NextRecord(disk[l], kern[p])
    BY <2>1 DEF AutoRecord, AB!NextRecord, AB!RevMod, RevMod
  <2>3. CASE disk' = disk
    BY <2>3
  <2>4. CASE disk' # disk
    <3>1. \/ disk' = [disk EXCEPT ![target[p]] = env[p]]
          \/ disk' = [disk EXCEPT ![target[p]] = Torn(disk[target[p]], env[p])]
      BY <1>1, <2>4 DEF Write
    <3>2. AB!LatestParts(disk) = LatestParts(disk)
          /\ AB!OldestParts(disk) = OldestParts(disk)
      BY DEF AB!LatestParts, AB!OldestParts, AB!ValidParts, AB!Valid,
             AB!Parts, LatestParts, OldestParts, ValidParts, Valid, Parts
    <3>3. AB!Torn(disk[target[p]], env[p]) = Torn(disk[target[p]], env[p])
      BY DEF AB!Torn, Torn
    <3>. QED  BY <2>1, <2>2, <3>1, <3>2, <3>3 DEF AB!Update
  <2>. QED  BY <2>3, <2>4
<1>2. CASE UNCHANGED disk
  BY <1>2
<1>. QED  BY <1>1, <1>2 DEF Next, Start, BgenvInitFail, Return, Open, vars

\* Spec 5 makes the storage responsible for cross-process exclusion.  When
\* it serialises sessions, concurrent bg_setenv -u processes implement the
\* atomic A/B store: every change of the partitions is a single update of
\* an oldest partition with the successor of a latest one, for every
\* number of processes, partitions and runs.
THEOREM LockedRefinesABStore == Locked => (Spec => ImplementsABStore)
<1>. SUFFICES ASSUME Locked PROVE Spec => AB!Spec
  BY DEF ImplementsABStore
<1>1. Init => AB!Init
  BY DEF Init, AB!Init, AB!Parts, Parts
<1>2. RInv /\ [Next]_vars => [AB!Update]_disk
  BY StepRefines
<1>. QED  BY InitRInv, StepRInv, <1>1, <1>2, PTL DEF Spec, AB!Spec

=============================================================================
