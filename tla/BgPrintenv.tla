---------------------------- MODULE BgPrintenv ----------------------------
(***************************************************************************)
(* Runs of bg_printenv (src/tools/bg_setenv.c): parse -c, -p, -f and -o,  *)
(* refuse more than one of -c/-f/-p, then print the environment file, the *)
(* latest partition, one partition, or every partition in index order,   *)
(* and return.  bg_printenv writes nothing: the partitions and the file  *)
(* are whatever earlier runs of bg_setenv left.  What is printed is kept *)
(* as the sequence of records shown, the wording of dump_env left out.   *)
(***************************************************************************)
EXTENDS Slots

CONSTANTS
    Args,         \* argument texts given to -p
    NoFile,       \* the environment file is missing or shorter than a record
    InitRecs,     \* records the partitions may hold
    InitFiles,    \* what the environment file may hold
    EnvFiles      \* the paths given to -f (one file, or none)

ASSUME PrintenvAssumption ==
    /\ Args \subseteq Text
    /\ InitRecs \subseteq Rec
    /\ InitFiles \subseteq Rec \cup {NoFile}
    /\ NoFile \notin Rec

NoStatus == -1   \* bg_printenv has not returned yet

VARIABLES
    disk,      \* the record stored in each config partition
    file,      \* the environment file
    ppc,       \* where the current run of bg_printenv is
    current,   \* arguments.current (-c)
    part,      \* arguments.common.which_part, NoPart if not specified
    tofile,    \* arguments.common.envfilepath is set (-f)
    shown,     \* the records dump_env printed in this run, in order
    idx,       \* the loop index of dump_envs
    status     \* the value bg_printenv returned

vars == <<disk, file, ppc, current, part, tofile, shown, idx, status>>
runVars == <<current, part, tofile, shown, idx, status>>

TypeOK ==
    /\ disk \in [Parts -> Rec]
    /\ file \in Rec \cup {NoFile}
    /\ ppc \in {"idle", "parse", "open", "dump", "done"}
    /\ current \in BOOLEAN /\ tofile \in BOOLEAN
    /\ part \in Parts \cup {NoPart}
    /\ shown \in Seq(Rec) /\ Len(shown) <= NParts
    /\ idx \in 0 .. NParts
    /\ status \in {NoStatus, 0, 1}

Idle ==
    /\ ppc = "idle"
    /\ current = FALSE /\ part = NoPart /\ tofile = FALSE
    /\ shown = <<>> /\ idx = 0 /\ status = NoStatus

Init ==
    /\ disk \in [Parts -> InitRecs]
    /\ file \in InitFiles
    /\ Idle

\* bg_printenv returns s, having printed out.
Return(s, out) ==
    /\ ppc' = "done" /\ status' = s /\ shown' = out
    /\ UNCHANGED <<disk, file, current, part, tofile, idx>>

\* main -> bg_printenv: arguments with all output fields, argp_parse.
PrintenvStart ==
    /\ ppc = "idle" /\ ppc' = "parse"
    /\ UNCHANGED <<disk, file, runVars>>

\* -c in parse_printenv_opt.
OptCurrent ==
    /\ ppc = "parse" /\ current' = TRUE
    /\ UNCHANGED <<disk, file, ppc, part, tofile, shown, idx, status>>

\* Fault-injection variant of OptPart: the range check accepts
\* i <= ENV_NUM_CONFIG_PARTS.
OptPartOffByOne ==
    /\ ppc = "parse"
    /\ \E t \in Args :
          IF ParseIntOk(t) /\ t.num \in 0 .. NParts
          THEN /\ part' = t.num
               /\ UNCHANGED <<disk, file, ppc, current, tofile, shown, idx,
                              status>>
          ELSE Return(1, <<>>)

\* -p ENV_PART in parse_common_opt: an int in 0..ENV_NUM_CONFIG_PARTS-1,
\* else argp_parse fails and bg_printenv returns its error.
OptPart ==
    /\ ppc = "parse"
    /\ \E t \in Args :
          IF ParseIntOk(t) /\ t.num \in Parts
          THEN /\ part' = t.num
               /\ UNCHANGED <<disk, file, ppc, current, tofile, shown, idx,
                              status>>
          ELSE Return(1, <<>>)

\* -f ENVFILE in parse_common_opt.
OptFile ==
    /\ ppc = "parse" /\ EnvFiles # {} /\ tofile' = TRUE
    /\ UNCHANGED <<disk, file, ppc, current, part, shown, idx, status>>

\* -o with a field parse_output_fields does not know.  A list of known
\* fields only selects what dump_env prints and is left out.
OptOutputUnknown ==
    /\ ppc = "parse"
    /\ Return(1, <<>>)

\* argp_parse returned: at most one of -c/-f/-p, then the file
\* (printenv_from_file: get_env freads the record, no crc32 check), or on
\* to the partitions.
ParseDone ==
    /\ ppc = "parse"
    /\ LET counter == (IF tofile THEN 1 ELSE 0)
                       + (IF part # NoPart THEN 1 ELSE 0)
                       + (IF current THEN 1 ELSE 0)
       IN  IF counter > 1 THEN Return(1, <<>>)
           ELSE IF ~tofile THEN /\ ppc' = "open"
                                /\ UNCHANGED <<disk, file, runVars>>
           ELSE IF file = NoFile THEN Return(1, <<>>)
           ELSE Return(0, <<file>>)

\* bgenv_init() failed.
PrintInitFail ==
    /\ ppc = "open"
    /\ Return(1, <<>>)

\* -c: dump_latest_env prints the latest record, or only a message.
DumpLatestEnv ==
    /\ ppc = "open" /\ current
    /\ IF ValidParts(disk) = {}
       THEN Return(0, <<>>)
       ELSE \E l \in LatestParts(disk) : Return(0, <<disk[l]>>)

\* -p i: dump_env_by_index prints partition i if it opens.
DumpEnvByIndex ==
    /\ ppc = "open" /\ ~current /\ part # NoPart
    /\ Return(0, IF Valid(disk[part]) THEN <<disk[part]>> ELSE <<>>)

\* Neither: dump_envs loops over the partitions.
DumpEnvsStart ==
    /\ ppc = "open" /\ ~current /\ part = NoPart
    /\ ppc' = "dump" /\ idx' = 0
    /\ UNCHANGED <<disk, file, current, part, tofile, shown, status>>

\* One iteration of dump_envs: print partition idx, or, when
\* bgenv_open_by_index fails, print an error and return from the loop;
\* bg_printenv then returns 0 all the same.
DumpEnvsStep ==
    /\ ppc = "dump" /\ idx < NParts
    /\ IF Valid(disk[idx])
       THEN /\ shown' = Append(shown, disk[idx]) /\ idx' = idx + 1
            /\ UNCHANGED <<disk, file, ppc, current, part, tofile, status>>
       ELSE Return(0, shown)

\* Fault-injection variant of DumpEnvsEnd: the loop bound is one short
\* (i < ENV_NUM_CONFIG_PARTS - 1).
DumpEnvsEndEarly ==
    /\ ppc = "dump" /\ idx = NParts - 1
    /\ Return(0, shown)

\* The loop of dump_envs ran to its end; bgenv_finalize, return 0.
DumpEnvsEnd ==
    /\ ppc = "dump" /\ idx = NParts
    /\ Return(0, shown)

\* The process exits; a later bg_printenv starts afresh.
PrintenvExit ==
    /\ ppc = "done" /\ ppc' = "idle"
    /\ current' = FALSE /\ part' = NoPart /\ tofile' = FALSE
    /\ shown' = <<>> /\ idx' = 0 /\ status' = NoStatus
    /\ UNCHANGED <<disk, file>>

Next ==
    \/ PrintenvStart \/ OptCurrent \/ OptPart \/ OptFile \/ OptOutputUnknown
    \/ ParseDone \/ PrintInitFail \/ DumpLatestEnv \/ DumpEnvByIndex
    \/ DumpEnvsStart \/ DumpEnvsStep \/ DumpEnvsEnd \/ PrintenvExit

Spec == Init /\ [][Next]_vars

-----------------------------------------------------------------------------
(***************************************************************************)
(* Properties.                                                             *)
(***************************************************************************)

\* Spec 7: every failure path returns a distinguishable non-zero status.
\* A bg_printenv that returns 0 has printed everything it was asked for:
\* one record for -c or -p, every partition otherwise.
FailureReported ==
    ppc = "done" /\ status = 0 /\ ~tofile =>
        Len(shown) = IF current \/ part # NoPart THEN 1 ELSE NParts

\* The extent of the divergence FailureReported shows: bg_printenv
\* returns 0 having printed less than it was asked for only when a
\* partition it was asked for does not verify -- none for -c, partition i
\* for -p i, and for dump_envs the partition right after those printed.
ShortOnlyWhenUnreadable ==
    ppc = "done" /\ status = 0 /\ ~tofile =>
        \/ Len(shown) = IF current \/ part # NoPart THEN 1 ELSE NParts
        \/ current /\ ValidParts(disk) = {}
        \/ ~current /\ part # NoPart /\ ~Valid(disk[part])
        \/ ~current /\ part = NoPart /\ Len(shown) < NParts
           /\ ~Valid(disk[Len(shown)])

=============================================================================
