-------------------------- MODULE BgSetenvProofs --------------------------
(***************************************************************************)
(* Proofs about the bg_setenv sessions of BgSetenv, for every number of   *)
(* partitions, every width of the revision and ustate fields, every bound *)
(* on the journal and every set of keys, kernels and argument texts.      *)
(***************************************************************************)
EXTENDS BgSetenv, SlotsProofs

USE RevBitsAssumption, UstateBitsAssumption, NumArgsAssumption,
    KeysAssumption, WidthAssumption, NPartsAssumption, ArgsAssumption,
    MaxJournalAssumption, InitAssumption

(***************************************************************************)
(* Lemmas on the record operators of EnvData.                             *)
(***************************************************************************)

\* What strtol reads from a text is an integer, or NoNum.
LEMMA NumIsInt == NumArgs \cup (USTATE_OK .. USTATE_FAILED) \subseteq Int
<1>1. NumArgs \subseteq Int
  BY NumArgsAssumption
<1>2. USTATE_OK .. USTATE_FAILED \subseteq Int
  BY DEF USTATE_OK, USTATE_FAILED
<1>. QED  BY <1>1, <1>2

\* Changing the revision of a record's content to one in range, as the -u
\* clone does, gives a record.
LEMMA SetRevisionType ==
    ASSUME NEW r \in Rec, NEW n \in 0 .. RevMod - 1
    PROVE  [r EXCEPT !.c.revision = n] \in Rec
BY DEF Rec, Content

\* bgenv_set of a journal entry's data under its key keeps the content
\* well-formed: kernelfile gets a kernel name, revision the int that
\* strtol read taken modulo 2^RevBits, a user variable a text.
LEMMA BgenvSetType ==
    ASSUME NEW c \in Content, NEW a \in Action, a.key # "ustate"
    PROVE  /\ a.task = "SET" => BgenvSet(c, a.key, a.data) \in Content
           /\ a.task = "DEL" => BgenvSet(c, a.key, Empty) \in Content
<1>1. CASE a \in [task : {"SET"}, key : {"kernelfile"}, data : Kernels]
  BY <1>1 DEF BgenvSet, Content
<1>2. CASE a \in [task : {"SET"}, key : {"revision"}, data : NumText]
  <2>0. a.data \in NumText
    BY <1>2
  <2>1. a.data.num \in Int
    BY <2>0, NumIsInt DEF NumText
  <2>2. a.data.num % RevMod \in 0 .. RevMod - 1
    BY <2>1, WidthAssumption, ModRange, Zenon
  <2>. QED  BY <1>2, <2>2 DEF BgenvSet, Content
<1>3. CASE a \in [task : {"SET"}, key : {"ustate"} \cup UserKeys, data : Text]
  <2>1. a.key \in UserKeys
    BY <1>3
  <2>. QED  BY <1>3, <2>1, KeysAssumption DEF BgenvSet, Content
<1>4. CASE a \in [task : {"DEL"}, key : UserKeys, data : {Empty}]
  BY <1>4, KeysAssumption DEF BgenvSet, Content, Empty, Text
<1>. QED  BY <1>1, <1>2, <1>3, <1>4 DEF Action

\* The global-state setter keeps ustate in USTATE_OK .. USTATE_FAILED for
\* any integer it is handed that the (uint16_t) cast produced.
LEMMA SetGlobalStateType ==
    ASSUME NEW c \in Content, NEW u \in 0 .. UstateMod - 1
    PROVE  SetGlobalState(c, u) \in Content
BY DEF SetGlobalState, Content, USTATE_OK, USTATE_FAILED

\* journal_process_action keeps the content well-formed.
LEMMA ProcessActionType ==
    ASSUME NEW c \in Content, NEW a \in Action
    PROVE  ProcessAction(c, a) \in Content
<1>1. CASE a.task = "SET" /\ a.key = "ustate"
  <2>1. a.data \in Text
    BY <1>1, KeysAssumption DEF Action
  <2>2. CASE a.data.num = NoNum
    BY <1>1, <2>2 DEF ProcessAction
  <2>3. CASE a.data.num # NoNum
    <3>0. a.data.num \in NumArgs \cup (USTATE_OK .. USTATE_FAILED) \cup {NoNum}
      BY <2>1 DEF Text
    <3>1. a.data.num \in Int
      BY <3>0, <2>3, NumIsInt
    <3>2. a.data.num % UstateMod \in 0 .. UstateMod - 1
      BY <3>1, WidthAssumption, ModRange, Zenon
    <3>. QED  BY <1>1, <2>3, <3>2, SetGlobalStateType DEF ProcessAction
  <2>. QED  BY <2>2, <2>3
<1>2. CASE ~(a.task = "SET" /\ a.key = "ustate")
  <2>1. a.task \in {"SET", "DEL"}
    BY DEF Action
  <2>2. CASE a.task = "SET"
    BY <1>2, <2>2, BgenvSetType DEF ProcessAction
  <2>3. CASE a.task = "DEL"
    <3>1. a.key # "ustate"
      BY <2>3, KeysAssumption DEF Action
    <3>. QED  BY <2>3, <3>1, BgenvSetType DEF ProcessAction
  <2>. QED  BY <2>1, <2>2, <2>3
<1>. QED  BY <1>1, <1>2

(***************************************************************************)
(* Type correctness.  TypeOK alone is not inductive: the history hist is  *)
(* bounded only because, while the options are parsed, it is the journal *)
(* itself, and the journal is what JournalAdd bounds.                     *)
(***************************************************************************)
IInv ==
    /\ TypeOK
    /\ pc \in {"idle", "parse"} => hist = journal

\* A failing or returning run leaves a well-typed idle process.
LEMMA ExitType ==
    ASSUME Exit, disk' \in [Parts -> Rec], file' \in Rec \cup {NoFile}
    PROVE  IInv'
<1>1. /\ journal' \in Seq(Action) /\ Len(journal') <= MaxJournal
      /\ hist' \in Seq(Action) /\ Len(hist') <= MaxJournal
      /\ hist' = journal'
  BY DEF Exit
<1>2. /\ env' \in Rec
      /\ target' \in Parts \cup {FileTarget}
      /\ cur' \in Parts \cup {NoPart} /\ part' \in Parts \cup {NoPart}
  BY ZeroRecType DEF Exit
<1>. QED  BY <1>1, <1>2 DEF Exit, IInv, TypeOK, PCs

\* The initial states are well-typed idle processes.
LEMMA InitIInv == Init => IInv
<1>. SUFFICES ASSUME Init PROVE IInv
  OBVIOUS
<1>1. disk \in [Parts -> Rec]
  BY InitAssumption DEF Init
<1>2. file \in Rec \cup {NoFile}
  BY InitAssumption DEF Init
<1>3. /\ journal \in Seq(Action) /\ Len(journal) <= MaxJournal
      /\ hist \in Seq(Action) /\ Len(hist) <= MaxJournal
      /\ hist = journal
  BY DEF Init, Idle
<1>4. /\ env \in Rec
      /\ target \in Parts \cup {FileTarget}
      /\ cur \in Parts \cup {NoPart} /\ part \in Parts \cup {NoPart}
  BY ZeroRecType DEF Init, Idle
<1>. QED  BY <1>1, <1>2, <1>3, <1>4 DEF Init, Idle, IInv, TypeOK, PCs

\* An option that journals a well-formed entry keeps the invariant.
LEMMA JournalAddIInv ==
    ASSUME IInv, pc = "parse", NEW a \in Action, JournalAdd(a)
    PROVE  IInv'
<1>1. CASE Fail
  BY <1>1, ExitType DEF Fail, IInv, TypeOK
<1>2. CASE /\ journal' = Append(journal, a)
           /\ hist' = Append(hist, a)
           /\ UNCHANGED <<disk, file, pc, optVars, env, target, cur>>
  <2>1. Len(journal) < MaxJournal /\ hist = journal
    BY DEF JournalAdd, IInv
  <2>. QED  BY <1>2, <2>1 DEF IInv, TypeOK, optVars
<1>. QED  BY <1>1, <1>2 DEF JournalAdd

\* A step that opens the record to update keeps the invariant.
LEMMA OpenedIInv ==
    ASSUME IInv, NEW r \in Rec, NEW t \in Parts \cup {FileTarget},
           NEW c \in Parts \cup {NoPart}, Opened(r, t, c)
    PROVE  IInv'
BY DEF Opened, IInv, TypeOK, optVars, PCs

\* The entries the options journal are well-formed.
LEMMA OptionEntries ==
    /\ \A k \in Kernels : SetAct("kernelfile", k) \in Action
    /\ \A t \in Args : ParseIntOk(t) => SetAct("revision", t) \in Action
    /\ \A i \in USTATE_OK .. USTATE_FAILED :
          SetAct("ustate", [num |-> i, tail |-> FALSE]) \in Action
    /\ \A k \in UserKeys \cup {"ustate"}, v \in Args : SetAct(k, v) \in Action
    /\ \A k \in UserKeys : [task |-> "DEL", key |-> k, data |-> Empty] \in Action
<1>1. \A t \in Args : ParseIntOk(t) => t \in NumText
  BY ArgsAssumption DEF ParseIntOk, Text, NumText
<1>. QED  BY <1>1, ArgsAssumption DEF SetAct, Action, Text

\* Every step of bg_setenv keeps the invariant.
LEMMA StepIInv == IInv /\ [Next]_vars => IInv'
<1>. SUFFICES ASSUME IInv, [Next]_vars PROVE IInv'
  OBVIOUS
<1>. USE DEF IInv, TypeOK
<1>1. CASE SetenvStart
  BY <1>1 DEF SetenvStart, runVars, PCs
<1>2. CASE OptKernel
  BY <1>2, JournalAddIInv, OptionEntries, ExitType DEF OptKernel, Fail
<1>3. CASE OptRevision
  BY <1>3, JournalAddIInv, OptionEntries, ExitType DEF OptRevision, Fail
<1>4. CASE OptUstate
  BY <1>4, JournalAddIInv, OptionEntries, ExitType DEF OptUstate, Fail
<1>5. CASE OptUstateName
  BY <1>5, JournalAddIInv, OptionEntries, InitAssumption DEF OptUstateName
<1>6. CASE OptConfirm
  <2>. USTATE_OK \in USTATE_OK .. USTATE_FAILED
    BY DEF USTATE_OK, USTATE_FAILED
  <2>. QED  BY <1>6, JournalAddIInv, OptionEntries DEF OptConfirm
<1>7. CASE OptUservar
  BY <1>7, JournalAddIInv, OptionEntries DEF OptUservar
<1>8. CASE OptUpdate
  BY <1>8 DEF OptUpdate
<1>9. CASE OptPreserve
  BY <1>9 DEF OptPreserve
<1>10. CASE OptPart
  <2>1. ASSUME NEW t \in Args, ParseIntOk(t) /\ t.num \in Parts,
               part' = t.num,
               UNCHANGED <<disk, file, pc, journal, auto, preserve,
                           tofile, env, target, cur, hist>>
        PROVE  IInv'
    BY <2>1
  <2>. QED  BY <1>10, <2>1, ExitType DEF OptPart, Fail
<1>11. CASE OptFile
  BY <1>11 DEF OptFile
<1>12. CASE ParseDone
  BY <1>12, ExitType DEF ParseDone, Fail, runVars, PCs
<1>13. CASE BgenvInitFail
  BY <1>13, ExitType DEF BgenvInitFail, Fail
<1>14. CASE OpenAuto
  <2>1. CASE ValidParts(disk) = {}
    BY <1>14, <2>1, ExitType DEF OpenAuto, Fail
  <2>2. ASSUME NEW l \in LatestParts(disk), NEW o \in OldestParts(disk),
               Opened([disk[l] EXCEPT !.c.revision =
                                  (disk[l].c.revision + 1) % RevMod], o, l)
        PROVE  IInv'
    <3>1. l \in Parts /\ o \in Parts
      BY SelectionType
    <3>2. (disk[l].c.revision + 1) % RevMod \in 0 .. RevMod - 1
      <4>1. disk[l] \in Rec
        BY <3>1
      <4>2. disk[l].c.revision \in Int
        BY <4>1 DEF Rec, Content
      <4>3. disk[l].c.revision + 1 \in Int /\ RevMod \in Nat \ {0}
        BY <4>2, WidthAssumption
      <4>. QED  BY <4>3, ModRange, Zenon
    <3>3. [disk[l] EXCEPT !.c.revision =
                      (disk[l].c.revision + 1) % RevMod] \in Rec
      BY <3>1, <3>2, SetRevisionType
    <3>. QED  BY <2>2, <3>1, <3>3, OpenedIInv
  <2>. QED  BY <1>14, <2>1, <2>2 DEF OpenAuto
<1>15. CASE OpenByIndex
  <2>1. part \in Parts
    BY <1>15 DEF OpenByIndex, NoPart
  <2>. QED  BY <1>15, <2>1, OpenedIInv, ExitType DEF OpenByIndex, Fail
<1>16. CASE OpenLatest
  <2>1. CASE ValidParts(disk) = {}
    BY <1>16, <2>1, ExitType DEF OpenLatest, Fail
  <2>2. ASSUME NEW l \in LatestParts(disk), Opened(disk[l], l, NoPart)
        PROVE  IInv'
    BY <2>2, SelectionType, OpenedIInv
  <2>. QED  BY <1>16, <2>1, <2>2 DEF OpenLatest
<1>17. CASE FileLoad
  <2>1. file # NoFile => file \in Rec
    OBVIOUS
  <2>. QED  BY <1>17, <2>1, ZeroRecType, OpenedIInv, ExitType
            DEF FileLoad, GetEnv, Fail
<1>18. CASE ProcessJournal
  <2>1. Head(journal) \in Action /\ env.c \in Content
    BY <1>18 DEF ProcessJournal, Rec
  <2>2. ProcessAction(env.c, Head(journal)) \in Content
    BY <2>1, ProcessActionType
  <2>3. Tail(journal) \in Seq(Action) /\ Len(Tail(journal)) <= MaxJournal
    BY <1>18 DEF ProcessJournal
  <2>. QED  BY <1>18, <2>2, <2>3 DEF ProcessJournal, optVars, Rec
<1>19. CASE UpdateCrc
  BY <1>19 DEF UpdateCrc, optVars, Rec, PCs
<1>20. CASE WriteSlot
  <2>1. target \in Parts
    BY <1>20 DEF WriteSlot, FileTarget
  <2>2. Torn(disk[target], env) \in Rec
    BY <2>1, TornType
  <2>3. disk' \in [Parts -> Rec]
    BY <1>20, <2>1, <2>2 DEF WriteSlot
  <2>. QED  BY <1>20, <2>3, ExitType DEF WriteSlot
<1>21. CASE WriteFile
  BY <1>21, ExitType DEF WriteFile
<1>22. CASE UNCHANGED vars
  BY <1>22 DEF vars
<1>. QED  BY <1>1, <1>2, <1>3, <1>4, <1>5, <1>6, <1>7, <1>8, <1>9, <1>10,
            <1>11, <1>12, <1>13, <1>14, <1>15, <1>16, <1>17, <1>18, <1>19,
            <1>20, <1>21, <1>22 DEF Next

\* bg_setenv's state stays well-typed: the partitions and the file hold
\* records, the journal and its history hold well-formed entries within
\* MaxJournal, and the target and the cloned partition are partitions
\* (or the file) in every reachable state, whatever the constants.
THEOREM TypeCorrect == Spec => []TypeOK
<1>1. Init => IInv
  BY InitIInv
<1>2. IInv /\ [Next]_vars => IInv'
  BY StepIInv
<1>3. IInv => TypeOK
  BY DEF IInv
<1>. QED  BY <1>1, <1>2, <1>3, PTL DEF Spec

-----------------------------------------------------------------------------
(***************************************************************************)
(* The A/B fallback of an auto-update.  From the moment the -u branch     *)
(* opens the partitions until the write, the partitions are untouched, so *)
(* the partition it cloned is still a latest valid one and the target it  *)
(* chose is still an oldest valid one.  When the two coincide all valid   *)
(* partitions hold the same revision, so any other valid one is a         *)
(* fallback; otherwise the cloned partition itself is.                    *)
(***************************************************************************)
AutoInv ==
    /\ cur # NoPart => pc \in {"apply", "write"}
    /\ pc \in {"apply", "write"} /\ cur # NoPart =>
          cur \in LatestParts(disk) /\ target \in OldestParts(disk)

\* A step of option parsing either journals, sets a flag, or fails.
LEMMA ParseStepAuto ==
    ASSUME AutoInv, pc = "parse",
           \/ \E a : JournalAdd(a)
           \/ Fail
           \/ pc' = "parse" /\ cur' = cur
    PROVE  AutoInv'
BY DEF JournalAdd, Fail, Exit, AutoInv, optVars

\* Every step keeps AutoInv.
LEMMA StepAutoInv == IInv /\ AutoInv /\ [Next]_vars => AutoInv'
<1>. SUFFICES ASSUME IInv, AutoInv, [Next]_vars PROVE AutoInv'
  OBVIOUS
<1>1. CASE SetenvStart
  BY <1>1 DEF SetenvStart, runVars, AutoInv
<1>2. CASE OptKernel \/ OptRevision \/ OptUstate \/ OptUstateName
           \/ OptConfirm \/ OptUservar
  BY <1>2, ParseStepAuto
     DEF OptKernel, OptRevision, OptUstate, OptUstateName, OptConfirm,
         OptUservar
<1>3. CASE OptUpdate \/ OptPreserve \/ OptPart \/ OptFile
  BY <1>3, ParseStepAuto DEF OptUpdate, OptPreserve, OptPart, OptFile
<1>4. CASE ParseDone
  BY <1>4 DEF ParseDone, Fail, Exit, runVars, AutoInv
<1>5. CASE BgenvInitFail \/ WriteSlot \/ WriteFile
  BY <1>5 DEF BgenvInitFail, WriteSlot, WriteFile, Fail, Exit, AutoInv
<1>6. CASE OpenAuto
  <2>1. CASE ValidParts(disk) = {}
    BY <1>6, <2>1 DEF OpenAuto, Fail, Exit, AutoInv
  <2>2. ASSUME NEW l \in LatestParts(disk), NEW o \in OldestParts(disk),
               Opened([disk[l] EXCEPT !.c.revision =
                                  (disk[l].c.revision + 1) % RevMod], o, l)
        PROVE  AutoInv'
    BY <2>2 DEF Opened, AutoInv
  <2>. QED  BY <1>6, <2>1, <2>2 DEF OpenAuto
<1>7. CASE OpenByIndex \/ OpenLatest \/ FileLoad
  BY <1>7 DEF OpenByIndex, OpenLatest, FileLoad, GetEnv, Opened, Fail, Exit,
              AutoInv
<1>8. CASE ProcessJournal \/ UpdateCrc
  BY <1>8 DEF ProcessJournal, UpdateCrc, AutoInv
<1>9. CASE UNCHANGED vars
  BY <1>9 DEF vars, AutoInv
<1>. QED  BY <1>1, <1>2, <1>3, <1>4, <1>5, <1>6, <1>7, <1>8, <1>9 DEF Next

\* While a run is about to write, a step changes at most the target.
LEMMA WriteFrame ==
    ASSUME IInv, [Next]_vars, pc = "write"
    PROVE  \A i \in Parts \ {target} : disk'[i] = disk[i]
<1>1. CASE WriteSlot
  BY <1>1 DEF WriteSlot, IInv, TypeOK
<1>2. CASE WriteFile \/ UNCHANGED vars
  BY <1>2 DEF WriteFile, vars
<1>3. CASE SetenvStart \/ OptKernel \/ OptRevision \/ OptUstate
           \/ OptUstateName \/ OptConfirm \/ OptUservar \/ OptUpdate
           \/ OptPreserve \/ OptPart \/ OptFile \/ ParseDone
  BY <1>3 DEF SetenvStart, OptKernel, OptRevision, OptUstate, OptUstateName,
              OptConfirm, OptUservar, OptUpdate, OptPreserve, OptPart,
              OptFile, ParseDone
<1>4. CASE BgenvInitFail \/ OpenAuto \/ OpenByIndex \/ OpenLatest
           \/ FileLoad \/ ProcessJournal \/ UpdateCrc
  BY <1>4 DEF BgenvInitFail, OpenAuto, OpenByIndex, OpenLatest, FileLoad, GetEnv,
              ProcessJournal, UpdateCrc
<1>. QED  BY <1>1, <1>2, <1>3, <1>4 DEF Next

\* The fallback exists before the write: a valid partition other than the
\* target holding the revision of the cloned one.
LEMMA FallbackBeforeWrite ==
    ASSUME IInv, AutoInv, pc = "write", cur # NoPart,
           Cardinality(ValidParts(disk)) >= 2
    PROVE  \E i \in Parts \ {target} :
              /\ Valid(disk[i])
              /\ disk[i].c.revision = disk[cur].c.revision
<1>1. cur \in LatestParts(disk) /\ target \in OldestParts(disk)
  BY DEF AutoInv
<1>2. CASE cur # target
  BY <1>1, <1>2 DEF LatestParts, ValidParts
<1>3. CASE cur = target
  <2>1. PICK j \in ValidParts(disk) : j # target
    BY ValidPartsFinite, OtherElement
  <2>2. j \in Parts /\ cur \in Parts
    BY <1>1, SelectionType
  <2>3. disk[j].c.revision \in Int /\ disk[cur].c.revision \in Int
    BY <2>2 DEF IInv, TypeOK, Rec, Content
  <2>4. disk[j].c.revision <= disk[cur].c.revision
    BY <1>1, <2>1 DEF LatestParts
  <2>5. disk[cur].c.revision <= disk[j].c.revision
    BY <1>1, <1>3, <2>1 DEF OldestParts
  <2>6. Valid(disk[j])
    BY <2>1 DEF ValidParts
  <2>. QED  BY <2>2, <2>1, <2>3, <2>4, <2>5, <2>6
<1>. QED  BY <1>2, <1>3

\* bg_setenv -u never destroys the A/B fallback: if two partitions are
\* valid when the clone is written, some partition other than the target
\* stays valid and untouched and holds the revision of the record that was
\* the latest, whether bgenv_write stores, fails or is torn, for every
\* number of partitions and every width of the revision.
THEOREM AutoUpdateFallback == Spec => AutoUpdateKeepsFallback
<1>1. Init => IInv /\ AutoInv
  BY InitIInv DEF Init, Idle, AutoInv
<1>2. IInv /\ AutoInv /\ [Next]_vars => IInv' /\ AutoInv'
  BY StepIInv, StepAutoInv
<1>3. IInv /\ AutoInv /\ [Next]_vars => [FallbackKept]_vars
  <2>. SUFFICES ASSUME IInv, AutoInv, [Next]_vars,
                       pc = "write", cur # NoPart,
                       Cardinality(ValidParts(disk)) >= 2
                PROVE  \E i \in Parts \ {target} :
                          /\ disk'[i] = disk[i] /\ Valid(disk[i])
                          /\ disk[i].c.revision = disk[cur].c.revision
    BY DEF FallbackKept
  <2>. QED  BY WriteFrame, FallbackBeforeWrite
<1>. QED  BY <1>1, <1>2, <1>3, PTL DEF Spec, AutoUpdateKeepsFallback

-----------------------------------------------------------------------------
(***************************************************************************)
(* Each mode writes the partition it names.  TargetAsRequested is not     *)
(* inductive: it needs the refusal of -u with -p to outlive parsing, and  *)
(* "open" and "file" to say whether -f was given.                          *)
(***************************************************************************)
TInv ==
    /\ pc \in {"open", "file", "apply", "write"} => ~(auto /\ part # NoPart)
    /\ pc = "open" => ~tofile
    /\ pc = "file" => tofile
    /\ TargetAsRequested

\* Every step keeps TInv.
LEMMA StepTInv == IInv /\ TInv /\ [Next]_vars => TInv'
<1>. SUFFICES ASSUME IInv, TInv, [Next]_vars PROVE TInv'
  OBVIOUS
<1>1. CASE SetenvStart
  BY <1>1 DEF SetenvStart, TInv, TargetAsRequested
<1>2. CASE OptKernel \/ OptRevision \/ OptUstate \/ OptUstateName
           \/ OptConfirm \/ OptUservar
  BY <1>2 DEF OptKernel, OptRevision, OptUstate, OptUstateName, OptConfirm,
              OptUservar, JournalAdd, Fail, Exit, TInv, TargetAsRequested
<1>3. CASE OptUpdate \/ OptPreserve \/ OptPart \/ OptFile
  BY <1>3 DEF OptUpdate, OptPreserve, OptPart, OptFile, Fail, Exit, TInv,
              TargetAsRequested
<1>4. CASE ParseDone
  BY <1>4 DEF ParseDone, Fail, Exit, runVars, TInv, TargetAsRequested
<1>5. CASE BgenvInitFail \/ WriteSlot \/ WriteFile
  BY <1>5 DEF BgenvInitFail, WriteSlot, WriteFile, Fail, Exit, TInv,
              TargetAsRequested
<1>6. CASE OpenAuto
  <2>1. CASE ValidParts(disk) = {}
    BY <1>6, <2>1 DEF OpenAuto, Fail, Exit, TInv, TargetAsRequested
  <2>2. ASSUME NEW l \in LatestParts(disk), NEW o \in OldestParts(disk),
               Opened([disk[l] EXCEPT !.c.revision =
                                  (disk[l].c.revision + 1) % RevMod], o, l)
        PROVE  TInv'
    BY <1>6, <2>2 DEF OpenAuto, Opened, optVars, TInv, TargetAsRequested
  <2>. QED  BY <1>6, <2>1, <2>2 DEF OpenAuto
<1>7. CASE OpenByIndex
  BY <1>7 DEF OpenByIndex, Opened, optVars, Fail, Exit, TInv,
              TargetAsRequested
<1>8. CASE OpenLatest
  <2>1. CASE ValidParts(disk) = {}
    BY <1>8, <2>1 DEF OpenLatest, Fail, Exit, TInv, TargetAsRequested
  <2>2. ASSUME NEW l \in LatestParts(disk), Opened(disk[l], l, NoPart)
        PROVE  TInv'
    BY <1>8, <2>2 DEF OpenLatest, Opened, optVars, TInv, TargetAsRequested
  <2>. QED  BY <1>8, <2>1, <2>2 DEF OpenLatest
<1>9. CASE FileLoad
  BY <1>9 DEF FileLoad, GetEnv, Opened, optVars, Fail, Exit, TInv,
              TargetAsRequested
<1>10. CASE ProcessJournal \/ UpdateCrc
  BY <1>10 DEF ProcessJournal, UpdateCrc, optVars, TInv, TargetAsRequested
<1>11. CASE UNCHANGED vars
  BY <1>11 DEF vars, TInv, TargetAsRequested
<1>. QED  BY <1>1, <1>2, <1>3, <1>4, <1>5, <1>6, <1>7, <1>8, <1>9, <1>10,
             <1>11 DEF Next

\* Each mode of bg_setenv works on the partition it names, for every
\* number of partitions: -p i on partition i and never as an auto-update
\* (the refusal of -u with -p), -u on an oldest valid partition, and
\* neither on a latest one, from the open until the write.
THEOREM TargetAsRequestedHolds == Spec => []TargetAsRequested
<1>1. Init => IInv /\ TInv
  BY InitIInv DEF Init, Idle, TInv, TargetAsRequested
<1>2. IInv /\ TInv /\ [Next]_vars => IInv' /\ TInv'
  BY StepIInv, StepTInv
<1>3. TInv => TargetAsRequested
  BY DEF TInv
<1>. QED  BY <1>1, <1>2, <1>3, PTL DEF Spec

=============================================================================
