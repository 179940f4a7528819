------------------------- MODULE BgPrintenvProofs -------------------------
(***************************************************************************)
(* Proofs about bg_printenv (BgPrintenv), for every number of partitions  *)
(* and every set of records and argument texts.                           *)
(***************************************************************************)
EXTENDS BgPrintenv, SlotsProofs

USE NPartsAssumption, PrintenvAssumption

\* What has been shown comes from the partitions as they are: every record
\* verifies, -c shows a latest one, -p i partition i, and dump_envs the
\* partitions in index order.  A conjunct of the inductive invariant,
\* needed by ShortOnlyWhenUnreadable (dump_envs shows the partitions
\* before idx).
ShownFromDisk ==
    ~tofile =>
        /\ \A i \in 1 .. Len(shown) : Valid(shown[i])
        /\ current => Len(shown) <= 1 /\
              \A i \in 1 .. Len(shown) :
                  \E l \in LatestParts(disk) : shown[i] = disk[l]
        /\ part # NoPart => shown \in {<<>>, <<disk[part]>>}
        /\ ~current /\ part = NoPart =>
              \A i \in 1 .. Len(shown) : shown[i] = disk[i - 1]

(***************************************************************************)
(* The inductive invariant.  Nothing is shown before the partitions are   *)
(* dumped; a run that reaches bgenv_init has at most one of -c/-p and no  *)
(* -f; and while dump_envs loops, it has shown exactly the partitions     *)
(* before idx.                                                            *)
(***************************************************************************)
PInv ==
    /\ TypeOK
    /\ ShownFromDisk
    /\ ppc \in {"idle", "parse", "open"} => shown = <<>>
    /\ ppc = "open" => ~tofile /\ ~(current /\ part # NoPart)
    /\ ppc = "dump" => ~tofile /\ ~current /\ part = NoPart /\ Len(shown) = idx

LEMMA InitPInv == Init => PInv
<1>. SUFFICES ASSUME Init PROVE PInv
  OBVIOUS
<1>1. disk \in [Parts -> Rec] /\ file \in Rec \cup {NoFile}
  BY DEF Init
<1>2. shown = <<>> /\ shown \in Seq(Rec) /\ Len(shown) <= NParts
  BY DEF Init, Idle
<1>3. current \in BOOLEAN /\ tofile \in BOOLEAN
  BY Zenon DEF Init, Idle
<1>4. TypeOK
  BY <1>1, <1>2, <1>3 DEF Init, Idle, TypeOK, NoStatus
<1>. QED  BY <1>2, <1>4 DEF Init, Idle, PInv, ShownFromDisk

\* The flags -c and -f stay Booleans (a fact for Zenon, which SMT misses).
LEMMA BoolsKept ==
    ASSUME PInv, [Next]_vars PROVE current' \in BOOLEAN /\ tofile' \in BOOLEAN
<1>1. current \in BOOLEAN /\ tofile \in BOOLEAN
  BY DEF PInv, TypeOK
<1>2. CASE PrintenvStart \/ ParseDone \/ PrintInitFail \/ DumpLatestEnv
           \/ DumpEnvByIndex \/ OptOutputUnknown
  <2>1. ASSUME NEW s, NEW out, Return(s, out) PROVE UNCHANGED <<current, tofile>>
    BY <2>1 DEF Return
  <2>. QED  BY <1>1, <1>2, <2>1, Zenon
            DEF PrintenvStart, ParseDone, PrintInitFail, DumpLatestEnv,
                DumpEnvByIndex, OptOutputUnknown, runVars
<1>3. CASE OptPart \/ DumpEnvsStep \/ DumpEnvsEnd
  BY <1>1, <1>3, Zenon DEF OptPart, DumpEnvsStep, DumpEnvsEnd, Return
<1>4. CASE OptCurrent \/ OptFile \/ DumpEnvsStart \/ PrintenvExit
  BY <1>1, <1>4, Zenon DEF OptCurrent, OptFile, DumpEnvsStart, PrintenvExit
<1>5. CASE UNCHANGED vars
  BY <1>1, <1>5, Zenon DEF vars
<1>. QED  BY <1>2, <1>3, <1>4, <1>5 DEF Next

\* A return with nothing printed.
LEMMA ReturnEmpty ==
    ASSUME PInv, NEW s \in {0, 1}, Return(s, <<>>),
           current' \in BOOLEAN, tofile' \in BOOLEAN
    PROVE  PInv'
BY DEF Return, PInv, TypeOK, ShownFromDisk

\* A step of option parsing.
LEMMA ParseStep ==
    ASSUME PInv, current' \in BOOLEAN, tofile' \in BOOLEAN,
           OptCurrent \/ OptPart \/ OptFile \/ OptOutputUnknown \/ PrintenvStart
    PROVE  PInv'
<1>1. CASE OptCurrent \/ OptFile \/ PrintenvStart
  BY <1>1 DEF OptCurrent, OptFile, PrintenvStart, runVars, PInv, TypeOK,
              ShownFromDisk
<1>2. CASE OptOutputUnknown
  BY <1>2, ReturnEmpty DEF OptOutputUnknown
<1>3. CASE OptPart
  <2>1. PICK t \in Args :
           IF ParseIntOk(t) /\ t.num \in Parts
           THEN /\ part' = t.num
                /\ UNCHANGED <<disk, file, ppc, current, tofile, shown, idx,
                               status>>
           ELSE Return(1, <<>>)
    BY <1>3 DEF OptPart
  <2>2. CASE ParseIntOk(t) /\ t.num \in Parts
    <3>1. ppc = "parse" /\ shown = <<>>
      BY <1>3 DEF OptPart, PInv
    <3>2. part' \in Parts /\ shown' = <<>> /\ ppc' = "parse"
      BY <2>1, <2>2, <3>1
    <3>3. TypeOK'
      BY <2>1, <2>2, <3>2 DEF PInv, TypeOK
    <3>4. ShownFromDisk'
      BY <3>2 DEF ShownFromDisk
    <3>. QED  BY <3>2, <3>3, <3>4 DEF PInv
  <2>3. CASE ~(ParseIntOk(t) /\ t.num \in Parts)
    BY <2>1, <2>3, ReturnEmpty
  <2>. QED  BY <2>2, <2>3
<1>. QED  BY <1>1, <1>2, <1>3

\* The end of parsing: the conflict check, the file, or bgenv_init.
LEMMA ParseDoneStep ==
    ASSUME PInv, ParseDone, current' \in BOOLEAN, tofile' \in BOOLEAN
    PROVE  PInv'
<1>. DEFINE counter == (IF tofile THEN 1 ELSE 0)
                       + (IF part # NoPart THEN 1 ELSE 0)
                       + (IF current THEN 1 ELSE 0)
<1>1. CASE counter > 1
  <2>1. Return(1, <<>>)
    BY <1>1 DEF ParseDone
  <2>. QED  BY <2>1, ReturnEmpty
<1>2. CASE ~(counter > 1) /\ tofile /\ file = NoFile
  <2>1. Return(1, <<>>)
    BY <1>2 DEF ParseDone
  <2>. QED  BY <2>1, ReturnEmpty
<1>3. CASE ~(counter > 1) /\ tofile /\ file # NoFile
  <2>1. Return(0, <<file>>)
    BY <1>3 DEF ParseDone
  <2>2. file \in Rec /\ 1 <= NParts
    BY <1>3 DEF PInv, TypeOK
  <2>. QED  BY <1>3, <2>1, <2>2 DEF Return, PInv, TypeOK, ShownFromDisk
<1>4. CASE ~(counter > 1) /\ ~tofile
  <2>1. ppc' = "open" /\ UNCHANGED <<disk, file, runVars>>
    BY <1>4 DEF ParseDone
  <2>2. ~(current /\ part # NoPart)
    BY <1>4 DEF PInv, TypeOK
  <2>3. shown = <<>> /\ UNCHANGED <<shown, current, part, tofile>>
    BY <2>1 DEF runVars, PInv, ParseDone
  <2>4. TypeOK'
    BY <2>1 DEF runVars, PInv, TypeOK
  <2>5. ShownFromDisk'
    BY <2>3 DEF ShownFromDisk
  <2>. QED  BY <1>4, <2>1, <2>2, <2>3, <2>4, <2>5 DEF PInv
<1>. QED  BY <1>1, <1>2, <1>3, <1>4

\* The three ways of printing from the partitions, and bgenv_init failing.
LEMMA OpenStep ==
    ASSUME PInv, current' \in BOOLEAN, tofile' \in BOOLEAN,
           PrintInitFail \/ DumpLatestEnv \/ DumpEnvByIndex \/ DumpEnvsStart
    PROVE  PInv'
<1>1. CASE PrintInitFail
  BY <1>1, ReturnEmpty DEF PrintInitFail
<1>2. CASE DumpLatestEnv
  <2>1. CASE ValidParts(disk) = {}
    BY <1>2, <2>1, ReturnEmpty DEF DumpLatestEnv
  <2>2. ASSUME NEW l \in LatestParts(disk), Return(0, <<disk[l]>>)
        PROVE  PInv'
    <3>1. l \in Parts /\ Valid(disk[l])
      BY SelectionType DEF LatestParts, ValidParts
    <3>2. disk[l] \in Rec /\ 1 <= NParts
      BY <3>1 DEF PInv, TypeOK
    <3>3. current /\ part = NoPart /\ ~tofile
      BY <1>2 DEF DumpLatestEnv, PInv
    <3>. QED  BY <2>2, <3>1, <3>2, <3>3 DEF Return, PInv, TypeOK,
                                             ShownFromDisk
  <2>. QED  BY <1>2, <2>1, <2>2, Zenon DEF DumpLatestEnv
<1>3. CASE DumpEnvByIndex
  <2>1. part \in Parts /\ ~current /\ ~tofile
    BY <1>3 DEF DumpEnvByIndex, PInv, TypeOK, NoPart
  <2>2. CASE Valid(disk[part])
    <3>1. Return(0, <<disk[part]>>)
      BY <1>3, <2>2 DEF DumpEnvByIndex
    <3>2. disk[part] \in Rec /\ 1 <= NParts /\ part # NoPart
      BY <2>1 DEF PInv, TypeOK, Parts, NoPart
    <3>3. TypeOK'
      BY <3>1, <3>2 DEF Return, PInv, TypeOK
    <3>4. shown' = <<disk[part]>> /\ disk' = disk /\ part' = part
          /\ current' = current /\ tofile' = tofile
      BY <3>1 DEF Return
    <3>5. \A i \in 1 .. Len(shown') : Valid(shown'[i])
      BY <2>2, <3>4
    <3>6. ShownFromDisk'
      BY <2>1, <3>2, <3>4, <3>5 DEF ShownFromDisk
    <3>. QED  BY <2>1, <3>1, <3>3, <3>6 DEF Return, PInv
  <2>3. CASE ~Valid(disk[part])
    BY <1>3, <2>3, ReturnEmpty DEF DumpEnvByIndex
  <2>. QED  BY <2>2, <2>3
<1>4. CASE DumpEnvsStart
  BY <1>4 DEF DumpEnvsStart, PInv, TypeOK, ShownFromDisk
<1>. QED  BY <1>1, <1>2, <1>3, <1>4

\* One iteration of dump_envs shows partition idx after partitions
\* 0 .. idx - 1, or stops there.
LEMMA DumpStep ==
    ASSUME PInv, DumpEnvsStep, current' \in BOOLEAN, tofile' \in BOOLEAN
    PROVE  PInv'
<1>1. ppc = "dump" /\ idx \in 0 .. NParts - 1 /\ Len(shown) = idx
      /\ ~tofile /\ ~current /\ part = NoPart
  BY DEF DumpEnvsStep, PInv, TypeOK
<1>2. CASE Valid(disk[idx])
  <2>1. shown' = Append(shown, disk[idx]) /\ idx' = idx + 1
        /\ UNCHANGED <<disk, file, ppc, current, part, tofile, status>>
    BY <1>2 DEF DumpEnvsStep
  <2>2. disk[idx] \in Rec /\ shown \in Seq(Rec)
    BY <1>1 DEF PInv, TypeOK, Parts
  <2>3. \A i \in 1 .. Len(shown) : shown[i] = disk[i - 1] /\ Valid(shown[i])
    BY <1>1 DEF PInv, ShownFromDisk
  <2>4. /\ shown' \in Seq(Rec) /\ Len(shown') = idx + 1
        /\ \A i \in 1 .. Len(shown') :
              shown'[i] = disk'[i - 1] /\ Valid(shown'[i])
    BY <1>1, <1>2, <2>1, <2>2, <2>3
  <2>. QED  BY <1>1, <2>1, <2>4 DEF PInv, TypeOK, ShownFromDisk
<1>3. CASE ~Valid(disk[idx])
  <2>1. Return(0, shown)
    BY <1>3 DEF DumpEnvsStep
  <2>. QED  BY <1>1, <2>1 DEF Return, PInv, TypeOK, ShownFromDisk
<1>. QED  BY <1>2, <1>3

LEMMA StepPInv == PInv /\ [Next]_vars => PInv'
<1>. SUFFICES ASSUME PInv, [Next]_vars PROVE PInv'
  OBVIOUS
<1>0. current' \in BOOLEAN /\ tofile' \in BOOLEAN
  BY BoolsKept
<1>1. CASE OptCurrent \/ OptPart \/ OptFile \/ OptOutputUnknown
           \/ PrintenvStart
  BY <1>0, <1>1, ParseStep
<1>2. CASE ParseDone
  BY <1>0, <1>2, ParseDoneStep
<1>3. CASE PrintInitFail \/ DumpLatestEnv \/ DumpEnvByIndex \/ DumpEnvsStart
  BY <1>0, <1>3, OpenStep
<1>4. CASE DumpEnvsStep
  BY <1>0, <1>4, DumpStep
<1>5. CASE DumpEnvsEnd
  BY <1>0, <1>5 DEF DumpEnvsEnd, Return, PInv, TypeOK, ShownFromDisk
<1>6. CASE PrintenvExit
  BY <1>0, <1>6 DEF PrintenvExit, PInv, TypeOK, ShownFromDisk, NoStatus
<1>7. CASE UNCHANGED vars
  BY <1>0, <1>7 DEF vars, PInv, TypeOK, ShownFromDisk
<1>. QED  BY <1>1, <1>2, <1>3, <1>4, <1>5, <1>6, <1>7 DEF Next

\* bg_printenv's state stays well-typed for every number of partitions:
\* the loop index of dump_envs stays within 0 .. NParts and what it has
\* shown is a sequence of at most NParts records.
THEOREM PrintenvTypeCorrect == Spec => []TypeOK
<1>1. PInv => TypeOK
  BY DEF PInv
<1>. QED  BY InitPInv, StepPInv, <1>1, PTL DEF Spec

-----------------------------------------------------------------------------
(***************************************************************************)
(* A zero status with less printed than asked for.  The runs that return *)
(* 0 are the -f file, -c, -p and dump_envs; each prints all it was asked  *)
(* for unless the partition it needed does not verify.  PInv supplies     *)
(* that dump_envs has shown exactly the partitions before idx.            *)
(***************************************************************************)

\* A step that does not return 0 from the partitions keeps the property.
LEMMA ShortNotDone ==
    ASSUME ShortOnlyWhenUnreadable,
           \/ ppc' # "done"
           \/ status' # 0
           \/ tofile'
           \/ UNCHANGED vars
    PROVE  ShortOnlyWhenUnreadable'
BY DEF ShortOnlyWhenUnreadable, vars

\* Every step keeps ShortOnlyWhenUnreadable.
LEMMA StepShort ==
    ASSUME PInv, ShortOnlyWhenUnreadable, [Next]_vars
    PROVE  ShortOnlyWhenUnreadable'
<1>1. CASE PrintenvStart \/ OptCurrent \/ OptFile \/ DumpEnvsStart
           \/ PrintenvExit \/ OptOutputUnknown \/ PrintInitFail
  BY <1>1, ShortNotDone
     DEF PrintenvStart, OptCurrent, OptFile, DumpEnvsStart, PrintenvExit,
         OptOutputUnknown, PrintInitFail, Return
<1>2. CASE OptPart
  BY <1>2, ShortNotDone DEF OptPart, Return
<1>3. CASE ParseDone
  BY <1>3, ShortNotDone DEF ParseDone, Return
<1>4. CASE DumpLatestEnv
  <2>1. current /\ current' = current /\ disk' = disk /\ ppc' = "done"
    BY <1>4 DEF DumpLatestEnv, Return
  <2>2. CASE ValidParts(disk) = {}
    BY <1>4, <2>1, <2>2 DEF DumpLatestEnv, Return, ShortOnlyWhenUnreadable
  <2>3. CASE ValidParts(disk) # {}
    <3>1. PICK l \in LatestParts(disk) : Return(0, <<disk[l]>>)
      BY <1>4, <2>3 DEF DumpLatestEnv
    <3>. QED  BY <2>1, <3>1 DEF Return, ShortOnlyWhenUnreadable
  <2>. QED  BY <2>2, <2>3
<1>5. CASE DumpEnvByIndex
  <2>1. ~current /\ part # NoPart
    BY <1>5 DEF DumpEnvByIndex
  <2>. QED  BY <1>5, <2>1 DEF DumpEnvByIndex, Return, ShortOnlyWhenUnreadable
<1>6. CASE DumpEnvsStep
  <2>1. /\ ppc = "dump" /\ idx < NParts /\ idx \in 0 .. NParts
        /\ ~current /\ part = NoPart /\ Len(shown) = idx
    BY <1>6 DEF DumpEnvsStep, PInv, TypeOK
  <2>2. CASE Valid(disk[idx])
    BY <1>6, <2>2, ShortNotDone DEF DumpEnvsStep
  <2>3. CASE ~Valid(disk[idx])
    BY <1>6, <2>1, <2>3 DEF DumpEnvsStep, Return, ShortOnlyWhenUnreadable
  <2>. QED  BY <2>2, <2>3
<1>7. CASE DumpEnvsEnd
  <2>1. /\ idx = NParts /\ ~current /\ part = NoPart /\ Len(shown) = idx
    BY <1>7 DEF DumpEnvsEnd, PInv
  <2>. QED  BY <1>7, <2>1 DEF DumpEnvsEnd, Return, ShortOnlyWhenUnreadable
<1>8. CASE UNCHANGED vars
  BY <1>8, ShortNotDone
<1>. QED  BY <1>1, <1>2, <1>3, <1>4, <1>5, <1>6, <1>7, <1>8 DEF Next

\* bg_printenv returns 0 having printed less than it was asked for only
\* when a partition it was asked for does not verify: no valid one for
\* -c, partition i for -p i, and for dump_envs the partition right after
\* those it printed -- for every number of partitions.
THEOREM ShortOnlyWhenUnreadableHolds == Spec => []ShortOnlyWhenUnreadable
<1>1. Init => PInv /\ ShortOnlyWhenUnreadable
  BY InitPInv DEF Init, Idle, ShortOnlyWhenUnreadable
<1>2. PInv /\ ShortOnlyWhenUnreadable /\ [Next]_vars
        => PInv' /\ ShortOnlyWhenUnreadable'
  BY StepPInv, StepShort
<1>. QED  BY <1>1, <1>2, PTL DEF Spec

=============================================================================
