----------------------------- MODULE BgSetenv -----------------------------
(***************************************************************************)
(* Sessions of bg_setenv (src/tools/bg_setenv.c) against the redundant   *)
(* environment partitions and the stand-alone environment file.  One      *)
(* session is one run of the program: its options fill the journal        *)
(* (parse_setenv_opt), bg_setenv resolves the target record (auto-update, *)
(* -p index, latest, or -f file), update_environment drains the journal    *)
(* into it and recomputes its crc32, and the record is written back.      *)
(* Sessions follow one another; a power loss during a write leaves the    *)
(* target torn.                                                            *)
(***************************************************************************)
EXTENDS Slots

CONSTANTS
    Args,         \* argument texts given to -r, -s, -i, -p and -x values
    TooLong,      \* a -k argument longer than ENV_STRING_LENGTH
    NoFile,       \* the environment file is missing or shorter than a record
    MaxJournal,   \* bound on the journal entries of one session
    InitRecs,     \* records the partitions may hold initially
    InitFiles,    \* what the environment file may hold initially
    NamedStates,  \* the states given to -s by name
    EnvFiles      \* the paths given to -f (one file, or none)

ASSUME ArgsAssumption == Args \subseteq Text
ASSUME MaxJournalAssumption == MaxJournal \in Nat
ASSUME InitAssumption ==
    /\ InitRecs \subseteq Rec
    /\ InitFiles \subseteq Rec \cup {NoFile}
    /\ NoFile \notin Rec
    /\ TooLong \notin Kernels
    /\ NamedStates \subseteq USTATE_OK .. USTATE_FAILED

FileTarget == -1             \* the target of -f: the environment file

VARIABLES
    disk,      \* the record stored in each config partition
    file,      \* the environment file (BGENV.DAT)
    pc,        \* where the current run of bg_setenv is
    journal,   \* the STAILQ of env_action entries (head)
    auto,      \* arguments.auto_update (-u)
    preserve,  \* arguments.preserve_env (-P)
    part,      \* arguments.common.which_part, NoPart if not specified
    tofile,    \* arguments.common.envfilepath is set (-f)
    env,       \* the in-memory record being updated (env_new / data)
    target,    \* where env is written: a partition or FileTarget
    cur,       \* env_current, the partition -u clones, else NoPart
    hist       \* history: every entry added to the journal in this run

vars == <<disk, file, pc, journal, auto, preserve, part, tofile, env,
          target, cur, hist>>
optVars == <<auto, preserve, part, tofile>>
runVars == <<journal, auto, preserve, part, tofile, env, target, cur, hist>>

PCs == {"idle", "parse", "open", "file", "apply", "write"}

TypeOK ==
    /\ disk \in [Parts -> Rec]
    /\ file \in Rec \cup {NoFile}
    /\ pc \in PCs
    /\ journal \in Seq(Action) /\ Len(journal) <= MaxJournal
    /\ hist \in Seq(Action) /\ Len(hist) <= MaxJournal
    /\ auto \in BOOLEAN /\ preserve \in BOOLEAN /\ tofile \in BOOLEAN
    /\ part \in Parts \cup {NoPart}
    /\ env \in Rec
    /\ target \in Parts \cup {FileTarget}
    /\ cur \in Parts \cup {NoPart}

\* The state of a process that is not running bg_setenv.
Idle ==
    /\ pc = "idle"
    /\ journal = <<>> /\ hist = <<>>
    /\ auto = FALSE /\ preserve = FALSE /\ part = NoPart /\ tofile = FALSE
    /\ env = ZeroRec /\ target = FileTarget /\ cur = NoPart

Init ==
    /\ disk \in [Parts -> InitRecs]
    /\ file \in InitFiles
    /\ Idle

\* bg_setenv returns and the process exits: its journal, its arguments and
\* its in-memory record are gone.
Exit ==
    /\ pc' = "idle"
    /\ journal' = <<>> /\ hist' = <<>>
    /\ auto' = FALSE /\ preserve' = FALSE /\ part' = NoPart
    /\ tofile' = FALSE
    /\ env' = ZeroRec /\ target' = FileTarget /\ cur' = NoPart

\* An error return of bg_setenv: nothing is written.
Fail ==
    /\ Exit
    /\ UNCHANGED <<disk, file>>

(***************************************************************************)
(* main -> bg_setenv: memset(&arguments), STAILQ_INIT(&head), argp_parse. *)
(***************************************************************************)
SetenvStart ==
    /\ pc = "idle"
    /\ pc' = "parse"
    /\ UNCHANGED <<disk, file, runVars>>

\* Fault-injection variant of JournalAdd: STAILQ_INSERT_HEAD for
\* STAILQ_INSERT_TAIL.
JournalAddAtHead(a) ==
    /\ Len(journal) < MaxJournal
    /\ \/ /\ journal' = <<a>> \o journal
          /\ hist' = Append(hist, a)
          /\ UNCHANGED <<disk, file, pc, optVars, env, target, cur>>
       \/ Fail

\* journal_add_action: append at the tail, or ENOMEM, which makes
\* parse_setenv_opt return an error and argp_parse abort the run.
JournalAdd(a) ==
    /\ Len(journal) < MaxJournal
    /\ \/ /\ journal' = Append(journal, a)
          /\ hist' = Append(hist, a)
          /\ UNCHANGED <<disk, file, pc, optVars, env, target, cur>>
       \/ Fail

SetAct(key, data) == [task |-> "SET", key |-> key, data |-> data]

\* -k KERNEL (-a KERNEL_ARGS is the same with "kernelparams").
OptKernel ==
    /\ pc = "parse"
    /\ \E k \in Kernels \cup {TooLong} :
          IF k = TooLong THEN Fail ELSE JournalAdd(SetAct("kernelfile", k))

\* -r REVISION: any int is accepted and its text is journalled.
OptRevision ==
    /\ pc = "parse"
    /\ \E t \in Args :
          IF ParseIntOk(t) THEN JournalAdd(SetAct("revision", t)) ELSE Fail

\* -s USTATE given as a number: 0..3, journalled as "%u".
OptUstate ==
    /\ pc = "parse"
    /\ \E t \in Args :
          IF ParseIntOk(t) /\ t.num \in USTATE_OK .. USTATE_FAILED
          THEN JournalAdd(SetAct("ustate", [num |-> t.num, tail |-> FALSE]))
          ELSE Fail

\* -s USTATE given as a name: parse_int failed and str2ustate matched
\* ustatemap[i] for one of the states the operator names.
OptUstateName ==
    /\ pc = "parse"
    /\ \E i \in NamedStates :
          JournalAdd(SetAct("ustate", [num |-> i, tail |-> FALSE]))

\* -c: journal SET ustate "0".
OptConfirm ==
    /\ pc = "parse"
    /\ JournalAdd(SetAct("ustate", [num |-> USTATE_OK, tail |-> FALSE]))

\* -x KEY=VAL through set_uservars: SET with a value, DEL without one.
\* The key "ustate" is not filtered and reaches the ustate special case.
OptUservar ==
    /\ pc = "parse"
    /\ \/ \E k \in UserKeys \cup {"ustate"}, v \in Args :
             JournalAdd(SetAct(k, v))
       \/ \E k \in UserKeys :
             JournalAdd([task |-> "DEL", key |-> k, data |-> Empty])

\* -u and -P set flags.
OptUpdate ==
    /\ pc = "parse" /\ auto' = TRUE
    /\ UNCHANGED <<disk, file, pc, journal, preserve, part, tofile,
                   env, target, cur, hist>>

OptPreserve ==
    /\ pc = "parse" /\ preserve' = TRUE
    /\ UNCHANGED <<disk, file, pc, journal, auto, part, tofile,
                   env, target, cur, hist>>

\* -p ENV_PART in parse_common_opt: an int in 0..ENV_NUM_CONFIG_PARTS-1.
OptPart ==
    /\ pc = "parse"
    /\ \E t \in Args :
          IF ParseIntOk(t) /\ t.num \in Parts
          THEN /\ part' = t.num
               /\ UNCHANGED <<disk, file, pc, journal, auto, preserve,
                              tofile, env, target, cur, hist>>
          ELSE Fail

\* -f ENVFILE in parse_common_opt.
OptFile ==
    /\ pc = "parse" /\ EnvFiles # {} /\ tofile' = TRUE
    /\ UNCHANGED <<disk, file, pc, journal, auto, preserve, part,
                   env, target, cur, hist>>

\* Fault-injection variant of ParseDone: the check that refuses -u
\* together with -p is missing.
ParseDoneNoRefusal ==
    /\ pc = "parse"
    /\ pc' = IF tofile THEN "file" ELSE "open"
    /\ UNCHANGED <<disk, file, runVars>>

\* argp_parse returned: reject -u with -p, then file mode or partitions.
ParseDone ==
    /\ pc = "parse"
    /\ IF auto /\ part # NoPart
       THEN Fail
       ELSE /\ pc' = IF tofile THEN "file" ELSE "open"
            /\ UNCHANGED <<disk, file, runVars>>

\* bgenv_init() failed.
BgenvInitFail ==
    /\ pc = "open"
    /\ Fail

\* The record to update is in memory: process the journal.
Opened(r, t, c) ==
    /\ env' = r /\ target' = t /\ cur' = c
    /\ pc' = "apply"
    /\ UNCHANGED <<disk, file, journal, optVars, hist>>

\* Fault-injection variant of OpenAuto: env_new opened with
\* bgenv_open_latest instead of bgenv_open_oldest.
OpenAutoIntoLatest ==
    /\ pc = "open" /\ auto
    /\ IF ValidParts(disk) = {}
       THEN Fail
       ELSE \E l \in LatestParts(disk) :
               Opened([disk[l] EXCEPT !.c.revision =
                                  (disk[l].c.revision + 1) % RevMod],
                      l, l)

\* Fault-injection variant of OpenAuto: the clone keeps the revision of
\* the latest record (the + 1 dropped).
OpenAutoNoIncrement ==
    /\ pc = "open" /\ auto
    /\ IF ValidParts(disk) = {}
       THEN Fail
       ELSE \E l \in LatestParts(disk), o \in OldestParts(disk) :
               Opened(disk[l], o, l)

\* -u: clone the latest record into the oldest partition, revision + 1.
OpenAuto ==
    /\ pc = "open" /\ auto
    /\ IF ValidParts(disk) = {}
       THEN Fail
       ELSE \E l \in LatestParts(disk), o \in OldestParts(disk) :
               Opened([disk[l] EXCEPT !.c.revision =
                                  (disk[l].c.revision + 1) % RevMod],
                      o, l)

\* -p i: bgenv_open_by_index.
OpenByIndex ==
    /\ pc = "open" /\ ~auto /\ part # NoPart
    /\ IF Valid(disk[part]) THEN Opened(disk[part], part, NoPart) ELSE Fail

\* Neither -u nor -p: bgenv_open_latest.
OpenLatest ==
    /\ pc = "open" /\ ~auto /\ part = NoPart
    /\ IF ValidParts(disk) = {}
       THEN Fail
       ELSE \E l \in LatestParts(disk) : Opened(disk[l], l, NoPart)

\* get_env: fopen "rb" and fread one record, with no crc32 check; it
\* fails when the file is missing or shorter than a record.
GetEnv(f) == f # NoFile

\* dumpenv_to_file up to update_environment: a zeroed record, or with -P
\* the file's bytes as get_env read them.
FileLoad ==
    /\ pc = "file"
    /\ IF ~preserve
       THEN Opened(ZeroRec, FileTarget, NoPart)
       ELSE IF GetEnv(file) THEN Opened(file, FileTarget, NoPart) ELSE Fail

\* Fault-injection variant of ProcessJournal: the head is processed but
\* never removed (STAILQ_REMOVE_HEAD missing).
ProcessJournalKeepHead ==
    /\ pc = "apply" /\ journal # <<>>
    /\ env' = [env EXCEPT !.c = ProcessAction(env.c, Head(journal))]
    /\ UNCHANGED <<disk, file, pc, journal, optVars, target, cur, hist>>

\* update_environment: one iteration of the drain loop (process the head,
\* STAILQ_REMOVE_HEAD, free) ...
ProcessJournal ==
    /\ pc = "apply" /\ journal # <<>>
    /\ env' = [env EXCEPT !.c = ProcessAction(env.c, Head(journal))]
    /\ journal' = Tail(journal)
    /\ UNCHANGED <<disk, file, pc, optVars, target, cur, hist>>

\* ... and, once the queue is empty, crc32 over the record.
UpdateCrc ==
    /\ pc = "apply" /\ journal = <<>>
    /\ env' = [env EXCEPT !.crc = env.c]
    /\ pc' = "write"
    /\ UNCHANGED <<disk, file, journal, optVars, target, cur, hist>>

\* bgenv_write(env_new): stored, refused before touching the medium, or
\* cut short by an I/O error or a power loss; then the run exits.
WriteSlot ==
    /\ pc = "write" /\ target # FileTarget
    /\ \/ disk' = [disk EXCEPT ![target] = env]
       \/ disk' = [disk EXCEPT ![target] = Torn(disk[target], env)]
       \/ disk' = disk
    /\ Exit
    /\ UNCHANGED file

\* fopen(path, "wb") truncates the file, then fwrite and fclose.  If fopen
\* fails the file is untouched; after the truncation a failed fwrite or a
\* power loss leaves a short file.
WriteFile ==
    /\ pc = "write" /\ target = FileTarget
    /\ file' \in {file, env, NoFile}
    /\ Exit
    /\ UNCHANGED disk

Next ==
    \/ SetenvStart
    \/ OptKernel \/ OptRevision \/ OptUstate \/ OptUstateName \/ OptConfirm
    \/ OptUservar \/ OptUpdate \/ OptPreserve \/ OptPart \/ OptFile
    \/ ParseDone \/ BgenvInitFail \/ OpenAuto \/ OpenByIndex \/ OpenLatest
    \/ FileLoad \/ ProcessJournal \/ UpdateCrc \/ WriteSlot \/ WriteFile

\* The steps a run takes after its argument vector is parsed.
RunStep ==
    \/ ParseDone \/ BgenvInitFail \/ OpenAuto \/ OpenByIndex \/ OpenLatest
    \/ FileLoad \/ ProcessJournal \/ UpdateCrc \/ WriteSlot \/ WriteFile

\* bg_setenv is single-threaded and its argument vector is finite, so a
\* run that has started keeps taking steps until it returns.
Spec == Init /\ [][Next]_vars /\ WF_vars(RunStep)

-----------------------------------------------------------------------------
(***************************************************************************)
(* Reference semantics of a journal (spec 4.3): entries apply in the      *)
(* order they were added, so for every field the last entry that takes   *)
(* effect decides its value and a field no entry touches keeps the value  *)
(* of the baseline.  A SET of ustate takes effect when strtol finds       *)
(* digits and the setter accepts the truncated state; DEL stores "".      *)
(***************************************************************************)
Effective(a) ==
    a.task = "SET" /\ a.key = "ustate"
        => a.data.num # NoNum /\ a.data.num % UstateMod <= USTATE_FAILED

StoredValue(a) ==
    CASE a.task = "DEL"      -> Empty
      [] a.key = "revision" -> a.data.num % RevMod
      [] a.key = "ustate"   -> a.data.num % UstateMod
      [] OTHER              -> a.data

LastWrite(h, key, old) ==
    LET I == {i \in DOMAIN h : h[i].key = key /\ Effective(h[i])}
    IN  IF I = {} THEN old
        ELSE StoredValue(h[CHOOSE i \in I : \A j \in I : j <= i])

Expected(c, h) ==
    [revision   |-> LastWrite(h, "revision", c.revision),
     ustate     |-> LastWrite(h, "ustate", c.ustate),
     kernelfile |-> LastWrite(h, "kernelfile", c.kernelfile),
     user       |-> [k \in UserKeys |-> LastWrite(h, k, c.user[k])]]

\* The baseline the journal is applied to, while a run is in "apply" or
\* "write" (nothing is stored before the write): for auto-update the
\* latest record with its revision incremented (spec 4.4
\* clone_for_update), else the partition or file that was opened, else a
\* zeroed record.
Baseline ==
    IF cur # NoPart THEN [disk[cur].c EXCEPT !.revision = (@ + 1) % RevMod]
    ELSE IF target # FileTarget THEN disk[target].c
    ELSE IF preserve THEN file.c
    ELSE ZeroRec.c

(***************************************************************************)
(* Properties.                                                             *)
(***************************************************************************)

\* When bg_setenv is about to write, the record holds exactly the baseline
\* (the opened record, or the latest one cloned with revision + 1) with
\* every journal entry applied in FIFO order, last write winning, and a
\* crc32 that matches it: update_environment's drain loop, the clone in
\* the -u branch and the final crc32 together.
JournalApplied ==
    pc = "write" => env.c = Expected(Baseline, hist) /\ Valid(env)

\* An auto-update never destroys the fallback: if at least two partitions
\* are valid when it writes, then whatever the write does (store, fail,
\* or tear on a power loss) some partition other than the target stays
\* valid and untouched and holds the revision of the record that was the
\* latest.  This is the A/B guarantee bg_setenv -u relies on.
FallbackKept ==
    pc = "write" /\ cur # NoPart /\ Cardinality(ValidParts(disk)) >= 2 =>
        \E i \in Parts \ {target} :
            /\ disk'[i] = disk[i] /\ Valid(disk[i])
            /\ disk[i].c.revision = disk[cur].c.revision
AutoUpdateKeepsFallback == [][FallbackKept]_vars

\* Each mode writes the partition it names (spec 3, 4.4): from the open to
\* the write, a run given -p i works on partition i and is no
\* auto-update; -u works on an oldest valid partition of the medium, and
\* neither on a latest one.  Breaking it takes -u and -p on one command
\* line getting past the refusal of lines 870-875 into the -u branch,
\* which never looks at which_part.
TargetAsRequested ==
    pc \in {"apply", "write"} /\ ~tofile =>
        IF part # NoPart THEN ~auto /\ target = part
        ELSE IF auto THEN target \in OldestParts(disk)
        ELSE target \in LatestParts(disk)

\* Every run of bg_setenv returns: the journal drain terminates and the
\* run reaches its exit whatever the I/O outcomes.
RunEnds == pc # "idle" ~> pc = "idle"

\* Spec 4.3: a journalled ustate payload that is not a decimal number in
\* the valid range is rejected, so a run only ever changes ustate to a
\* number some SET of ustate spells exactly.  bg_setenv's -x KEY=VAL
\* path reaches journal_process_action with any text.
UstateAsRequested ==
    pc = "write" =>
        \/ env.c.ustate = Baseline.ustate
        \/ \E i \in DOMAIN hist :
              /\ hist[i].task = "SET" /\ hist[i].key = "ustate"
              /\ ParseIntOk(hist[i].data)
              /\ hist[i].data.num = env.c.ustate

\* Spec 4.1: a record whose crc32 does not verify is never trusted as
\* data: bg_setenv -f -P builds on the file only if its crc32 verifies.
FileBaselineVerified ==
    pc \in {"apply", "write"} /\ target = FileTarget /\ preserve =>
        Valid(file)

\* Spec 3 and 4.4: the record stored by an auto-update becomes the
\* latest: unless the journal set the revision itself, its revision is
\* above that of every other valid partition.
BecomesLatest ==
    /\ pc = "write" /\ cur # NoPart /\ disk'[target] = env
    /\ \A i \in DOMAIN hist : hist[i].key # "revision"
    => \A i \in ValidParts(disk') \ {target} :
           disk'[i].c.revision < env.c.revision
AutoUpdateBecomesLatest == [][BecomesLatest]_vars

\* The auto-update becomes the latest whenever the revision it clones is
\* below the largest one, 2^32 - 1 in the code: BecomesLatest fails only
\* where revision + 1 wraps to 0 at line 936.
BecomesLatestBelowWrap ==
    cur # NoPart /\ disk[cur].c.revision < RevMod - 1 => BecomesLatest
AutoUpdateBecomesLatestBelowWrap == [][BecomesLatestBelowWrap]_vars

\* Spec 1 and 5: the redundant partitions are never all corrupt at once.
SomeSlotValid == ValidParts(disk) # {}

=============================================================================
