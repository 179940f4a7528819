# TLA+ verification of bg_setenv / bg_printenv

This directory models `src/tools/bg_setenv.c`, the command-line tool of EFI
Boot Guard that edits the redundant boot-environment records. It holds TLA+
modules, TLC configurations, and TLAPS proofs. The binary is named either
`bg_setenv` or `bg_printenv`, and `main` dispatches on that name.

## The system and its parts

The tool is one single-threaded process. A run of `bg_setenv` goes through
these steps:

1. **Argument parsing** (`parse_common_opt`, `parse_setenv_opt`).
   - Every editing option appends an entry to the **action journal**, a
     process-wide STAILQ (`journal_add_action`).
   - `-u` (auto-update), `-P` (preserve), `-p N` (partition index) and
     `-f FILE` set fields of `arguments` instead.
   - `-s` validates its value: `parse_int`, then `str2ustate`, then a range
     check of 0..3.
   - `-x KEY=VAL` is journalled as it is typed (`set_uservars`).
2. **Mode selection** (`bg_setenv`).
   - `-u` together with `-p` is refused.
   - With `-f`, the run goes through `dumpenv_to_file`: it starts from a
     zeroed record, or with `-P` from the file's bytes (`get_env`). It applies
     the journal, then rewrites the file (`fopen "wb"`, then `fwrite`).
   - Otherwise `bgenv_init` runs, and the target is chosen:
     - `-u` clones the latest partition, with revision + 1, into the oldest.
     - `-p N` takes partition N.
     - With neither, the latest partition is taken.
3. **Journal replay** (`update_environment`). The loop takes the head entry,
   applies it (`journal_process_action`) and removes it, until the queue is
   empty. Then the record's crc32 is computed.
   - `journal_process_action` handles SET of `ustate` specially: `strtol`,
     then a `(uint16_t)` cast, then the library's `ebg_env_setglobalstate`.
   - Any other SET goes to `bgenv_set`, and a DEL stores "".
4. **Write** (`bgenv_write`), close, and exit.

The library (`bgenv_*`, `ebg_env_setglobalstate`, the record layout and its
crc32 check) is not under `src/`. Its behaviour is modelled from the
specification (spec 4.1, 4.3, 4.4 and 6) and is marked `spec_modelled` in
`PROJECT.json`.

`bg_printenv` only reads: it prints the partitions, the latest record, one
record, or a file. The output formatting (`dump_env`, `dump_uservars`) is
also read-only.

Several `bg_setenv` processes may run at once. Nothing in the code
serialises them: each reads the partitions in `bgenv_init`, chooses latest
and oldest from what it read, and writes much later. Spec 5 leaves
cross-process exclusion to the storage collaborator.

## Modules

| Module | Models |
| --- | --- |
| `Slots` | The partitions (`Parts`) and the library's selection among the valid ones (`ValidParts`, `LatestParts`, `OldestParts`). Shared by the three system modules. |
| `EnvData` | The record (`Content`, `Rec`, `Valid`, `ZeroRec`, `Torn`), what `strtol`/`parse_int` read from a text (`Text`, `ParseIntOk`), journal entries (`Action`), `bgenv_set`, the global-state setter, and `journal_process_action` (`ProcessAction`). |
| `BgSetenv` | The partitions, the environment file, and consecutive runs of `bg_setenv`. There is one action per option and per step of `bg_setenv`, `dumpenv_to_file` and `update_environment`. It also holds the reference semantics of a journal (`Expected`) and the properties. |
| `MCBgSetenv` | The values TLC uses: argument texts, initial records and the initial file. |
| `BgPrintenv` | Runs of `bg_printenv`: `-c`, `-p`, `-f`, an unknown `-o` field, the `-c/-f/-p` conflict, `printenv_from_file`, `bgenv_init` failing, `dump_latest_env`, `dump_env_by_index`, and the loop of `dump_envs` one partition per step. `shown` is the sequence of records printed, and `status` what `bg_printenv` returned. |
| `MCBgPrintenv` | Partitions holding valid or torn records, and a missing, valid or torn file. |
| `BgSetenvRace` | Processes `Procs`, each running `bg_setenv -u -k K` up to `MaxRuns` times. There are four steps: `Start` (parsing), `BgenvInitFail`, `Open` (the snapshot of `bgenv_init`, the clone, `update_environment`) and `Write` (`bgenv_write` through return). The constant `Locked` says whether the storage admits one session at a time (spec 5); the runs and proofs take the design's assumption that it does. |
| `ABStore` | The abstract specification of the store (spec 4.4, 5). Its state is `disk` only. One `Update` step rewrites an oldest valid slot with the successor of a latest one (revision + 1, new kernel, sealed), or leaves it torn. `BgSetenvRace` instantiates it as `AB` with the identity mapping. |
| `MCBgSetenvRace` | Two processes, two kernels, two partitions. |
| `SlotsProofs` | Lemmas shared by the proofs: record types, `ModRange`, finiteness, and `LatestSurvives`. |
| `BgSetenvProofs` | The TLAPS proofs about `BgSetenv`. |
| `BgSetenvRaceProofs` | The TLAPS proofs about `BgSetenvRace`. |
| `BgPrintenvProofs` | The TLAPS proofs about `BgPrintenv`: `TypeOK` and `ShortOnlyWhenUnreadable`. |
| `JournalProofs` | The TLAPS proofs about the journal of `BgSetenv`: `JournalApplied`, the auto-update below the wrap, and the extent of the ustate divergence. |

### Data abstraction

- **CRC32.** The `crc` field of a record holds the content it was computed
  over. A record is valid when `crc = c`, so CRC32 is modelled as an
  injective digest. A torn write leaves the new content under the old crc.
- **Argument texts.** A text is the record `[num, tail]`:
  - `num` is the value of its leading decimal digits, or `NoNum` if it has
    none;
  - `tail` says whether other characters follow.
  
  This is exactly what `strtol` and `parse_int` tell apart. Kernel names and
  keys are model values.
- **Widths.** The revision is kept modulo `2^RevBits`, and the ustate cast
  modulo `2^UstateBits` (16). Both wrap where the code wraps.

### State

The state is the partitions (`disk`), the file (`file`, or `NoFile` when it is
missing or short), and the run's variables:

- `pc`: the step the run is at;
- `journal`;
- the flags `auto`, `preserve`, `part` and `tofile`;
- `env`, the in-memory record;
- `target`, a partition or the file;
- `cur`, the partition `-u` cloned.

`hist` is a history variable: every entry journalled in this run. `Exit` models
the process ending, and resets every run variable.

### How actions correspond to the code

- Every action takes the whole handler, including its error returns:
  - `JournalAdd` may fail with ENOMEM (`Fail`), and argp then aborts the run.
  - `OptPart` fails outside 0..N-1.
  - `OptKernel` fails on a too-long name.
  - `OptUstate` fails on a non-int or an out-of-range value.
- `ProcessJournal` is one iteration of the drain loop. `UpdateCrc` is the
  loop's exit together with the crc32.
- `WriteSlot` stores, refuses, or tears the target. `WriteFile` leaves the
  file untouched (fopen failed), writes it, or truncates it (failure after
  `fopen "wb"`).

## Runs

| Run | Checks | Shows |
| --- | --- | --- |
| `journal` (pass) | `TypeOK`, `JournalApplied` | At the write, the record is its baseline with the journal applied in FIFO order, last effective write winning, and its crc32 matches. The baseline is the `-u` clone with revision+1, the opened partition, the `-P` file, or zeros. |
| `ab_fallback` (pass) | `TargetAsRequested`, `AutoUpdateKeepsFallback`, `RunEnds` | Each mode works on the partition it names from the open to the write: `-p i` on partition `i` and never as an auto-update, `-u` on an oldest valid partition, neither on a latest one. It fails if `-u` with `-p` gets past the refusal at lines 870-875, since the `-u` branch ignores `which_part`. If two partitions are valid when `-u` writes, then whatever the write does, another partition stays valid, untouched, and holds the revision of the latest record. Every run also ends. |
| `file_unverified` (violation) | `FileBaselineVerified` | `-f -P` builds on a file whose crc32 does not verify, and re-seals it. |
| `ustate_payload` (violation) | `UstateAsRequested` | `-x ustate=2x` sets TESTING, and `-x ustate=65538` sets 2. |
| `revision_wrap` (violation) | `AutoUpdateBecomesLatest` | `-r -1`, then `-u`, writes revision 0, which is not the latest. |
| `revision_nowrap` (pass) | `AutoUpdateBecomesLatestBelowWrap` | With the same `-r -1` input and 2-bit revisions, an auto-update whose cloned revision is below the largest one always becomes the latest. The wrap is the only way `AutoUpdateBecomesLatest` fails. |
| `slots_corrupt` (violation) | `SomeSlotValid` | Two interrupted `-u` runs leave no valid partition. |
| `printed` (pass) | `TypeOK`, `ShortOnlyWhenUnreadable` | Whatever the partitions hold, torn ones included, a status of 0 with less printed than asked for happens only when a partition asked for does not verify: the `printenv_status` finding is the only way output goes missing. |
| `printenv_status` (violation) | `FailureReported` | `bg_printenv -p i` of a corrupt partition prints nothing and returns 0, and so does a `dump_envs` that stopped early. Spec 7 asks for a non-zero status. |
| `race_locked` (pass) | `AutoUpdateKeepsLatest`, `ImplementsABStore` | With sessions serialised, a `-u` write made while two partitions are valid always leaves a latest partition as it was. The processes implement `ABStore`: their interleaving is indistinguishable, on the medium, from atomic updates. |

`PROJECT.json` lists the findings from the five violation runs. No run asks what happens without the storage lock: spec 1 leaves arbitration between concurrent writers out of scope and spec 5 assumes one session at a time, so two unserialised `-u` processes losing an update would only restate the spec.

Each property of a passing run has a mutant, a plausible bug in the mapped
code, that TLC catches:

- an unchecked ustate setter;
- a head insert into the journal;
- the refusal of `-u` together with `-p` missing, which
  `TargetAsRequested` catches;
- `-u` writing into the latest partition instead of the oldest;
- a drain loop that never removes its head;
- `bg_printenv -p` accepting N;
- a `-u` process targeting the latest partition;
- a clone that keeps the revision of the latest record (the `+ 1`
  dropped), which `ImplementsABStore` catches;
- a clone that keeps the revision of the latest record, which
  `AutoUpdateBecomesLatestBelowWrap` catches;
- a `dump_envs` loop bound one short, which `ShortOnlyWhenUnreadable`
  catches.

### Bounds

- **Partitions.** `NParts = 2` is `ENV_NUM_CONFIG_PARTS` of the real build.
  The `journal` run uses one partition plus the file.
- **`-p`.** `ab_fallback` gives `-p 1` and `-p 2`: 1 names the second
  partition, which the `-u` branch would not pick when it is the latest,
  and 2 is out of range.
- **Journal.** `MaxJournal` is 2 in `journal` and 1 in `ab_fallback`. Two
  entries are enough to order two writes on one key. Runs follow one another
  without limit, so in the `ab_fallback` run the partitions go through every
  sequence of stored, refused and torn writes.
- **Revisions.** A 1- or 2-bit revision makes the wrap reachable in the
  passing runs. The `revision_wrap` run uses 16 bits together with the text
  `-1`. `revision_nowrap` uses 2 bits, two partitions and `-r -1` among
  the inputs, so that revisions 2 and 3 are cloned and the wrap happens;
  only the hypothesis of the property excludes it.
- **Texts.** The argument texts are `0`, `-1`, `2x`, `65538`, `1` and `2`.
  They cover no digits, trailing characters, negative values, and values
  beyond 16 bits.

- **Processes.** `race_locked` uses two processes with
  two runs each. This is enough for one process to complete a whole update
  between another's `bgenv_init` and its `bgenv_write`, and for runs to
  overtake each other. With `RevBits = 3` no revision wraps within four
  runs, so a violation is never the wrap of `revision_wrap`. Once every
  run is spent the system stops, so the run sets `CHECK_DEADLOCK FALSE`.
- **bg_printenv.** The partitions are every combination of revisions 1
  and 2 and a torn record. The `-p` texts are `1`, `2` (out of range) and
  `x`.

### Fairness

`WF_vars(RunStep)` covers the steps after parsing. `bg_setenv` is one
single-threaded process with a finite argv and no waiting, so once parsing is
done it runs to its return. Option actions are not fair: a run may have any
number of options.

`BgSetenvRace` assumes no fairness and asks no liveness. Under `Locked`,
`Open(p)` is disabled while another session is open, and a lock that
the other processes keep re-taking is only intermittently free: weak
fairness would not rule out starvation, and the code, which never waits,
justifies no stronger fairness of a lock it does not take. `BgPrintenv`
has no liveness property and no fairness.

## Proofs (checked by `tlapm`)

The proofs hold for every value of the constants. They assume only
`NParts >= 1`, `RevBits, UstateBits >= 1`, argument texts in `Text`, initial
records in `Rec`, the named states in 0..3, and (`KeysAssumption`) user
keys distinct from the record's own keys `revision`, `ustate` and
`kernelfile`.

- **`TypeCorrect` (`BgSetenvProofs`): `Spec => []TypeOK`.** TypeOK is not inductive on its own.
  `hist` is bounded only because it equals `journal` while options are being
  parsed. The inductive invariant `IInv` therefore adds
  `pc \in {idle, parse} => hist = journal`. The step proof has one case per
  action. It rests on these lemmas:
  - `ProcessAction` keeps `Content`;
  - `BgenvSet` and `SetGlobalState` keep `Content`, since `x % 2^w` lies in
    range and the setter refuses values above 3;
  - the `-u` clone and `Torn` are records.
- **`AutoUpdateFallback`: `Spec => AutoUpdateKeepsFallback`.** This is the
  same property the `ab_fallback` run checks, proved for every number of
  partitions. The invariant `AutoInv` says that from `OpenAuto` until the
  write, `cur` is a latest valid partition and `target` an oldest valid one.
  This holds because no step touches `disk` in between. At the write there
  are two cases:
  - If `cur` is not `target`, then `cur` itself is the fallback.
  - If they are the same partition, then the oldest and the latest share one
    revision. A second valid partition exists because the set of valid
    partitions has cardinality at least 2 (`OtherElement`, from
    FiniteSetTheorems), and it has that revision.

  The write changes at most `target` (`WriteFrame`).

- **`TargetAsRequestedHolds` (`BgSetenvProofs`): `Spec =>
  []TargetAsRequested`.** This is the property `ab_fallback` checks,
  proved for every number of partitions. The invariant `TInv` adds that
  the refusal of `-u` with `-p` outlives parsing (the option flags are
  not changed after `ParseDone`) and that `pc` is `open` exactly without
  `-f` and `file` exactly with it. Each open action then sets the target
  its mode names, and no step before the write changes `disk`.
- **`SlotsProofs`.** This module holds the record and selection lemmas and
  the A/B core, `LatestSurvives`. If at least two partitions are valid,
  an oldest partition `t` is never the only latest one: either a latest
  lies elsewhere, or all valid revisions are equal and a second valid
  partition (`OtherElement`) is latest too.
- **`RaceTypeCorrect`: `BgSetenvRace!Spec => []TypeOK`.** This holds for
  every set of processes and every number of partitions and runs. The
  inductive invariant `RInv` adds three facts:
  - a process past `Start` has a kernel and a run left, which bounds
    `runs`;
  - a process about to write has a partition as its target;
  - under `Locked`, a process about to write is the only admitted session
    (`lock = {p}`), its target is an oldest partition of the current
    medium, and a latest partition exists.
- **`LockedLatestKept`: `Locked => (Spec => AutoUpdateKeepsLatest)`.** This
  is the property `race_locked` checks, proved for every number of
  processes and partitions. Because the writer is the only admitted
  session, no other process changed the medium since its `bgenv_init`.
  Its target is therefore still an oldest partition, and `LatestSurvives`
  gives a latest partition that the write does not touch (`DiskFrame`).
  Without the lock hypothesis two processes can open the same snapshot
  and write the same oldest partition, which spec 5's assumption excludes.
- **`LockedRefinesABStore`: `Locked => (Spec => ImplementsABStore)`.** This
  is the refinement `race_locked` checks. The mapping is the identity on
  `disk`, and the other variables are hidden. Initial partitions are
  initial in `ABStore`. `RInv` also records that, under `Locked`, a
  process about to write holds in memory the clone (`AutoRecord`) of a
  latest partition of the current medium. So its write is an `AB!Update`
  with that latest partition, its target and its kernel (`StepRefines`),
  or a stutter when the write is refused. Every other step leaves `disk`
  alone.

- **`PInv` (`BgPrintenvProofs`).** The inductive invariant of
  `BgPrintenv` holds `TypeOK`, `ShownFromDisk` (every record shown
  verifies, `-c` shows a latest one, `-p i` partition `i`, and
  `dump_envs` partitions `0 .. idx - 1` in order) and what the parser
  guarantees the dumps: nothing is shown before the partitions are
  opened; past `ParseDone` at most one of `-c`/`-p` is set and `-f` is
  not; during `dump_envs`, `Len(shown) = idx`. One lemma per group of
  actions (`ParseStep`, `ParseDoneStep`, `OpenStep`, `DumpStep`) makes up
  the step; `BoolsKept` carries the Boolean flags separately, with Zenon.
- **`PrintenvTypeCorrect` (`BgPrintenvProofs`): `BgPrintenv!Spec =>
  []TypeOK`.** It follows from `PInv`, which contains `TypeOK`.
- **`ShortOnlyWhenUnreadableHolds`: `BgPrintenv!Spec =>
  []ShortOnlyWhenUnreadable`.** This is the property `printed` checks.
  Together with `PInv` it is inductive: `-c` and `-p` return after
  one record or none, and `dump_envs` returns 0 either after `NParts`
  records or at the first partition `idx = Len(shown)` that does not
  verify (`ShortNotDone`, `StepShort`).
- **`JournalAppliedHolds` (`JournalProofs`): `Spec => []JournalApplied`.**
  This is the property `journal` checks, for every width, journal bound,
  set of keys and argument texts. `Expected` picks, for each key, the
  largest index of an effective write with CHOOSE. The invariant `JInv`
  splits `hist` while the journal drains into the processed prefix `Done`
  and the queue: `hist = Done \o journal`, and the record equals
  `Expected(Baseline, Done)`. Each drain step appends the head of the
  queue to `Done`. `LastWriteAppend`, `LastWriteOther` and
  `LastWriteSame` say how the chosen last write moves under `Append`, and
  `ExpectedAppend` that `ProcessAction` of the new entry computes the
  new `Expected`. The CHOOSE needs its maximum to exist. For every
  sequence this is an induction over data, which TLAPS cannot do here, so
  `JInv` carries it as state: `HasLast(Done)` holds for `<<>>` and is kept
  by each `Append` (`HasLastAppend`).
- **`AutoUpdateBelowWrapHolds`: `Spec =>
  AutoUpdateBecomesLatestBelowWrap`.** This is the property
  `revision_nowrap` checks, for every number of partitions and revision
  width. `AutoInv` makes `cur` a latest valid partition; `JInv` gives the
  written revision as the clone's (revision + 1, `CloneRevision`) when no
  entry keys `revision`; below the wrap that is above every valid
  revision, and the write changes only `target` (`WriteFrame`).
- **`UstateAsRequestedWhenExact`: `Spec => [](UstateTextsExact =>
  UstateAsRequested)`.** When every journalled ustate text with digits is
  a plain number the cast keeps, ustate only changes to a number some
  entry spells. So the `ustate_payload` divergence comes only from texts
  with trailing characters or beyond `2^UstateBits`. No run checks this
  implication: it rests on `JInv` and `Expected`, and states the extent of
  a finding rather than a property of the code.

### Only model-checked
- `RunEnds` of `BgSetenv`. TLAPS does not handle liveness or ENABLED.
- The violation runs.

## Not modelled

- **Options.**
  - `-a`, `-w` and `-i`: they journal keys the way `-k`/`-r` do.
  - `-v` and `-V`: they only print.
  - `argc < 2`: an early return.
- **Uservar type tags.** Only the library interprets them.
- **`-x` with the keys `kernelfile` or `revision`.** These go to `bgenv_set`
  like any key. The model restricts `-x` to user keys and `ustate`.
- **The unreachable `!env->data` check.**
- **Crashes before the write.** They are equivalent to `Fail`, because
  nothing is persisted earlier.
- **The output formatting.** `dump_env`, `dump_uservars` and the known
  `-o` fields only choose the text printed. `BgPrintenv` records which
  records are shown, not how.
- **`-v` of `bg_printenv`, and the compat `stat()` of `-f`.** `bg_printenv`
  never takes that path.
- **A torn read in the race.** `Open` reads every partition in one step.
  Under `Locked`, the case the runs ask about, no other process writes
  while a session reads.
- **Other modes in the race.** `BgSetenvRace` composes the `-u` path only.
  `-p` and latest-mode writers would race the same way through the same
  snapshot and write.

## Plan

1. A refinement of `ABStore` by `BgSetenv`'s single-process runs. It does
   not hold for `BgSetenv` as a whole: `-p` and latest-mode runs rewrite
   partitions that are not the oldest, and a journalled `revision` sets
   any revision. It needs a weaker abstract store, or a mapping restricted
   to `-u` runs without `-r`.
