------------------------------ MODULE EnvData ------------------------------
(***************************************************************************)
(* The environment record of EFI Boot Guard (BG_ENVDATA) and the journal  *)
(* of bg_setenv that edits it (src/tools/bg_setenv.c).                     *)
(*                                                                         *)
(* Data abstraction.  A record is its content (revision, ustate, kernel    *)
(* file and user variables) together with the CRC32 stored in it.  CRC32   *)
(* is modelled as an injective digest: the crc field holds the content it  *)
(* was computed over, so a record is valid exactly when crc = content.     *)
(* Argument texts typed on the command line are abstracted to what         *)
(* strtol reads from them: the value of their leading decimal digits       *)
(* (NoNum when there are none) and whether other characters follow.       *)
(***************************************************************************)
EXTENDS Integers, Sequences, FiniteSets

CONSTANTS
    RevBits,      \* width of BG_ENVDATA.revision (uint32_t in the code)
    UstateBits,   \* width of the cast (uint16_t)t in journal_process_action
    NumArgs,      \* the integers an argument text may spell
    NoNum,        \* what strtol reads from a text without leading digits
    Kernels,      \* kernel file names within ENV_STRING_LENGTH
    NoKernel,     \* the kernelfile field of a zeroed record
    UserKeys,     \* keys of user variables
    Absent,       \* a user variable the record does not hold
    NoCrc         \* a crc32 field that matches no content (a zeroed crc)

ASSUME RevBitsAssumption == RevBits \in Nat \ {0}
ASSUME UstateBitsAssumption == UstateBits \in Nat \ {0}
ASSUME NumArgsAssumption == NumArgs \subseteq Int /\ NoNum \notin Int
ASSUME KeysAssumption ==
    UserKeys \cap {"kernelfile", "revision", "ustate"} = {}

RevMod == 2^RevBits
UstateMod == 2^UstateBits

ASSUME WidthAssumption == RevMod \in Nat \ {0} /\ UstateMod \in Nat \ {0}

\* USTATE_OK .. USTATE_FAILED, the persisted range of ustate (ebgenv.h).
USTATE_OK == 0
USTATE_FAILED == 3

\* An argument text as strtol reads it; Empty is the text "".  The texts
\* "0" .. "3" that bg_setenv formats for -s and -c are among them.
Text == [num : NumArgs \cup (USTATE_OK .. USTATE_FAILED) \cup {NoNum},
         tail : BOOLEAN]
Empty == [num |-> NoNum, tail |-> FALSE]

\* The content of BG_ENVDATA that bg_setenv reads or writes.
Content == [revision   : 0 .. RevMod - 1,
            ustate     : USTATE_OK .. USTATE_FAILED,
            kernelfile : Kernels \cup {NoKernel},
            user       : [UserKeys -> Text \cup {Absent}]]

\* A record as stored: its content and its crc32 field.
Rec == [c : Content, crc : Content \cup {NoCrc}]

\* The crc32 check of the library's reader: crc32 over the record without
\* its crc field equals the stored crc32.
Valid(r) == r.crc = r.c

\* memset(&data, 0, sizeof(BG_ENVDATA)) in dumpenv_to_file.
ZeroRec == [c   |-> [revision |-> 0, ustate |-> USTATE_OK,
                     kernelfile |-> NoKernel,
                     user |-> [k \in UserKeys |-> Absent]],
            crc |-> NoCrc]

\* A write of new over old cut short before its crc32 reached the medium:
\* the data is new and the crc32 is not, so the record no longer verifies
\* unless the old crc32 happens to match the new data.
Torn(old, new) ==
    IF old.crc = new.c THEN new ELSE [c |-> new.c, crc |-> NoCrc]

(***************************************************************************)
(* Journal entries (struct env_action): the task, the key and the data.   *)
(* The uservar type tag is left out: only the library interprets it.      *)
(***************************************************************************)
\* -k journals a kernel name, -r a text with digits, -s, -c and -x any
\* text, and -x without a value a DEL whose data is "".
NumText == [num : NumArgs \cup (USTATE_OK .. USTATE_FAILED), tail : BOOLEAN]
Action ==
    [task : {"SET"}, key : {"kernelfile"}, data : Kernels] \cup
    [task : {"SET"}, key : {"revision"}, data : NumText] \cup
    [task : {"SET"}, key : {"ustate"} \cup UserKeys, data : Text] \cup
    [task : {"DEL"}, key : UserKeys, data : {Empty}]

\* parse_int: strtol consumed the whole text and found digits.
ParseIntOk(t) == t.num # NoNum /\ ~t.tail

\* bgenv_set(env, key, type, data, len) of the library (spec 4.3):
\* it writes data into the field or user variable named by key.
BgenvSet(c, key, v) ==
    CASE key = "kernelfile" -> [c EXCEPT !.kernelfile = v]
      [] key = "revision"   -> [c EXCEPT !.revision = v.num % RevMod]
      [] OTHER              -> [c EXCEPT !.user[key] = v]

\* Fault-injection variant of SetGlobalState: a setter without its range
\* check.
SetGlobalStateUnchecked(c, u) == [c EXCEPT !.ustate = u]

\* ebg_env_setglobalstate of the library (spec 4.3, section 6): it fails
\* for a state outside the persisted range, else writes it to the record.
SetGlobalState(c, u) ==
    IF u <= USTATE_FAILED THEN [c EXCEPT !.ustate = u] ELSE c

\* journal_process_action: apply one journal entry to the record content.
\* A SET of "ustate" reads its data with strtol and no check of what
\* follows the digits, truncates it to uint16_t and hands it to the
\* global-state setter; without digits it is dropped with a message.
ProcessAction(c, a) ==
    IF a.task = "SET" /\ a.key = "ustate"
    THEN IF a.data.num = NoNum
         THEN c
         ELSE SetGlobalState(c, a.data.num % UstateMod)
    ELSE IF a.task = "SET"
         THEN BgenvSet(c, a.key, a.data)
         ELSE BgenvSet(c, a.key, Empty)

=============================================================================
