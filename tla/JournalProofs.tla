--------------------------- MODULE JournalProofs ---------------------------
(***************************************************************************)
(* The proof that update_environment applies the journal of bg_setenv as *)
(* spec 4.3 says (JournalApplied of BgSetenv), for every width of the     *)
(* fields, every bound on the journal and every set of keys and texts.   *)
(*                                                                         *)
(* The drain loop of update_environment processes the head of the queue  *)
(* and removes it.  So while a run is in "apply", the history hist is the *)
(* prefix Done already processed followed by the queue that is left, and *)
(* the record in memory is the baseline with Done applied, which is what *)
(* the reference semantics Expected gives for Done.  Expected picks, for *)
(* each key, the last effective entry with a CHOOSE of the greatest index; *)
(* that such an index exists is carried along as HasLast, since it       *)
(* cannot be obtained by induction over sequences here.                   *)
(***************************************************************************)
EXTENDS BgSetenvProofs, SequenceTheorems

USE KeysAssumption, WidthAssumption, NPartsAssumption, InitAssumption

\* The keys the journal may name.
Keys == {"revision", "ustate", "kernelfile"} \cup UserKeys

\* The indices of h whose entry for key takes effect.
KeyIdx(h, key) == {i \in DOMAIN h : h[i].key = key /\ Effective(h[i])}

\* The set of indices is empty or has a greatest element.
HasMax(I) == I = {} \/ \E i \in I : \A j \in I : j <= i

\* For every key, the last effective entry of h is well defined.
HasLast(h) == \A key \in Keys : HasMax(KeyIdx(h, key))

\* The entries update_environment has already processed.
Done == SubSeq(hist, 1, Len(hist) - Len(journal))

\* The inductive invariant of the drain loop.
JInv ==
    /\ pc \in {"idle", "parse", "open", "file"} => hist = journal
    /\ pc \in {"apply", "write"} =>
          /\ Baseline \in Content
          /\ Len(journal) <= Len(hist)
          /\ hist = Done \o journal
          /\ HasLast(Done)
          /\ env.c = Expected(Baseline, Done)
    /\ pc = "write" => journal = <<>> /\ Valid(env)

-----------------------------------------------------------------------------
(***************************************************************************)
(* Lemmas on the reference semantics.                                     *)
(***************************************************************************)

\* Appending an entry either makes it the last effective write of its key
\* or leaves the effective indices of the key as they were.
LEMMA KeyIdxAppend ==
    ASSUME NEW h \in Seq(Action), NEW a \in Action, NEW key
    PROVE  KeyIdx(Append(h, a), key) =
              IF a.key = key /\ Effective(a)
              THEN KeyIdx(h, key) \cup {Len(h) + 1}
              ELSE KeyIdx(h, key)
<1>1. /\ DOMAIN Append(h, a) = 1 .. Len(h) + 1
      /\ \A i \in 1 .. Len(h) : Append(h, a)[i] = h[i]
      /\ Append(h, a)[Len(h) + 1] = a
      /\ DOMAIN h = 1 .. Len(h)
  BY AppendProperties, LenProperties
<1>. QED  BY <1>1 DEF KeyIdx

\* The last effective write of a key after an append.
LEMMA LastWriteAppend ==
    ASSUME NEW h \in Seq(Action), NEW a \in Action, NEW key, NEW old,
           HasMax(KeyIdx(h, key))
    PROVE  LastWrite(Append(h, a), key, old) =
              IF a.key = key /\ Effective(a) THEN StoredValue(a)
              ELSE LastWrite(h, key, old)
<1>. DEFINE I == KeyIdx(h, key)
            J == KeyIdx(Append(h, a), key)
            N == Len(h) + 1
<1>0. /\ DOMAIN Append(h, a) = 1 .. N
      /\ \A i \in 1 .. Len(h) : Append(h, a)[i] = h[i]
      /\ Append(h, a)[N] = a
      /\ DOMAIN h = 1 .. Len(h) /\ Len(h) \in Nat
  BY AppendProperties, LenProperties
<1>1. LastWrite(Append(h, a), key, old) =
         IF J = {} THEN old ELSE StoredValue(Append(h, a)[CHOOSE i \in J : \A j \in J : j <= i])
  BY DEF LastWrite, KeyIdx
<1>2. LastWrite(h, key, old) =
         IF I = {} THEN old ELSE StoredValue(h[CHOOSE i \in I : \A j \in I : j <= i])
  BY DEF LastWrite, KeyIdx
<1>3. CASE a.key = key /\ Effective(a)
  <2>1. J = I \cup {N}
    BY <1>3, KeyIdxAppend
  <2>2. I \subseteq 1 .. Len(h)
    BY <1>0 DEF KeyIdx
  <2>3. \E i \in J : \A j \in J : j <= i
    BY <2>1, <2>2, <1>0
  <2>4. (CHOOSE i \in J : \A j \in J : j <= i) = N
    BY <2>1, <2>2, <2>3, <1>0
  <2>5. J # {}
    BY <2>1
  <2>6. LastWrite(Append(h, a), key, old) = StoredValue(Append(h, a)[N])
    BY <1>1, <2>4, <2>5, Zenon
  <2>. QED  BY <2>6, <1>3, <1>0
<1>4. CASE ~(a.key = key /\ Effective(a))
  <2>1. J = I
    BY <1>4, KeyIdxAppend
  <2>2. CASE I = {}
    BY <1>1, <1>2, <1>4, <2>1, <2>2
  <2>3. CASE I # {}
    <3>1. (CHOOSE i \in I : \A j \in I : j <= i) \in I
      BY <2>3 DEF HasMax
    <3>2. I \subseteq 1 .. Len(h)
      BY <1>0 DEF KeyIdx
    <3>. QED  BY <1>0, <1>1, <1>2, <1>4, <2>1, <2>3, <3>1, <3>2
  <2>. QED  BY <2>2, <2>3
<1>. QED  BY <1>3, <1>4

\* An append keeps the last effective write of every key well defined.
LEMMA HasLastAppend ==
    ASSUME NEW h \in Seq(Action), NEW a \in Action, HasLast(h)
    PROVE  HasLast(Append(h, a))
<1>. SUFFICES ASSUME NEW key \in Keys PROVE HasMax(KeyIdx(Append(h, a), key))
  BY DEF HasLast
<1>1. KeyIdx(h, key) \subseteq 1 .. Len(h) /\ Len(h) \in Nat
  BY LenProperties DEF KeyIdx
<1>2. HasMax(KeyIdx(h, key))
  BY DEF HasLast
<1>3. CASE a.key = key /\ Effective(a)
  <2>1. KeyIdx(Append(h, a), key) = KeyIdx(h, key) \cup {Len(h) + 1}
    BY <1>3, KeyIdxAppend
  <2>. QED  BY <1>1, <2>1 DEF HasMax
<1>4. CASE ~(a.key = key /\ Effective(a))
  BY <1>2, <1>4, KeyIdxAppend
<1>. QED  BY <1>3, <1>4

\* The last write of a key that the appended entry does not name stays.
LEMMA LastWriteOther ==
    ASSUME NEW h \in Seq(Action), NEW a \in Action, HasLast(h),
           NEW key \in Keys, a.key # key, NEW old
    PROVE  LastWrite(Append(h, a), key, old) = LastWrite(h, key, old)
BY LastWriteAppend DEF HasLast

\* The last write of the key the appended entry names, if it takes effect.
LEMMA LastWriteSame ==
    ASSUME NEW h \in Seq(Action), NEW a \in Action, HasLast(h),
           a.key \in Keys, Effective(a), NEW old
    PROVE  LastWrite(Append(h, a), a.key, old) = StoredValue(a)
BY LastWriteAppend DEF HasLast

\* journal_process_action of one more entry computes the reference
\* semantics of the longer journal: the record with h applied, with the
\* entry a applied, is the record with h \o <<a>> applied.
LEMMA ExpectedAppend ==
    ASSUME NEW c \in Content, NEW h \in Seq(Action), NEW a \in Action,
           HasLast(h)
    PROVE  Expected(c, Append(h, a)) = ProcessAction(Expected(c, h), a)
<1>. DEFINE E == Expected(c, h)
            LW(k, o) == LastWrite(Append(h, a), k, o)
<1>0. /\ "revision" \in Keys /\ "ustate" \in Keys /\ "kernelfile" \in Keys
      /\ UserKeys \subseteq Keys
      /\ "revision" \notin UserKeys /\ "ustate" \notin UserKeys
      /\ "kernelfile" \notin UserKeys
  BY KeysAssumption DEF Keys
<1>1. CASE a \in [task : {"SET"}, key : {"kernelfile"}, data : Kernels]
  <2>1. Effective(a) /\ StoredValue(a) = a.data
    BY <1>1 DEF Effective, StoredValue
  <2>2. /\ LW("revision", c.revision) = E.revision
        /\ LW("ustate", c.ustate) = E.ustate
        /\ LW("kernelfile", c.kernelfile) = a.data
        /\ \A k \in UserKeys : LW(k, c.user[k]) = E.user[k]
    BY <1>0, <1>1, <2>1, LastWriteOther, LastWriteSame DEF Expected
  <2>. QED  BY <1>1, <2>2 DEF Expected, ProcessAction, BgenvSet
<1>2. CASE a \in [task : {"SET"}, key : {"revision"}, data : NumText]
  <2>1. Effective(a) /\ StoredValue(a) = a.data.num % RevMod
    BY <1>2 DEF Effective, StoredValue
  <2>2. LW("revision", c.revision) = a.data.num % RevMod
    BY <1>0, <1>2, <2>1, LastWriteSame
  <2>3. /\ LW("ustate", c.ustate) = E.ustate
        /\ LW("kernelfile", c.kernelfile) = E.kernelfile
        /\ \A k \in UserKeys : LW(k, c.user[k]) = E.user[k]
    BY <1>0, <1>2, LastWriteOther DEF Expected
  <2>. QED  BY <1>2, <2>2, <2>3 DEF Expected, ProcessAction, BgenvSet
<1>3. CASE a \in [task : {"SET"}, key : {"ustate"}, data : Text]
  <2>1. /\ LW("revision", c.revision) = E.revision
        /\ LW("kernelfile", c.kernelfile) = E.kernelfile
        /\ \A k \in UserKeys : LW(k, c.user[k]) = E.user[k]
    BY <1>0, <1>3, LastWriteOther DEF Expected
  <2>2. CASE Effective(a)
    <3>1. a.data.num # NoNum /\ a.data.num % UstateMod <= USTATE_FAILED
      BY <1>3, <2>2 DEF Effective
    <3>2. LW("ustate", c.ustate) = a.data.num % UstateMod
      BY <1>0, <1>3, <2>2, LastWriteSame DEF StoredValue
    <3>3. ProcessAction(E, a) = [E EXCEPT !.ustate = a.data.num % UstateMod]
      BY <1>3, <3>1 DEF ProcessAction, SetGlobalState
    <3>. QED  BY <2>1, <3>2, <3>3 DEF Expected
  <2>3. CASE ~Effective(a)
    <3>3. LW("ustate", c.ustate) = E.ustate
      BY <1>0, <1>3, <2>3, LastWriteAppend DEF HasLast, Expected
    <3>4. a.data.num = NoNum \/ ~(a.data.num % UstateMod <= USTATE_FAILED)
      BY <1>3, <2>3 DEF Effective
    <3>. QED  BY <1>3, <2>1, <3>3, <3>4
              DEF Expected, ProcessAction, SetGlobalState
  <2>. QED  BY <2>2, <2>3
<1>4. CASE a \in [task : {"SET"}, key : UserKeys, data : Text]
  <2>1. Effective(a) /\ StoredValue(a) = a.data
    BY <1>0, <1>4 DEF Effective, StoredValue
  <2>2. /\ LW("revision", c.revision) = E.revision
        /\ LW("ustate", c.ustate) = E.ustate
        /\ LW("kernelfile", c.kernelfile) = E.kernelfile
        /\ \A k \in UserKeys : LW(k, c.user[k]) =
              IF k = a.key THEN a.data ELSE E.user[k]
    BY <1>0, <1>4, <2>1, LastWriteOther, LastWriteSame DEF Expected
  <2>. QED  BY <1>0, <1>4, <2>2 DEF Expected, ProcessAction, BgenvSet
<1>5. CASE a \in [task : {"DEL"}, key : UserKeys, data : {Empty}]
  <2>1. Effective(a) /\ StoredValue(a) = Empty
    BY <1>0, <1>5 DEF Effective, StoredValue
  <2>2. /\ LW("revision", c.revision) = E.revision
        /\ LW("ustate", c.ustate) = E.ustate
        /\ LW("kernelfile", c.kernelfile) = E.kernelfile
    BY <1>0, <1>5, LastWriteOther DEF Expected
  <2>3. LW(a.key, c.user[a.key]) = Empty
    BY <1>0, <1>5, <2>1, LastWriteSame
  <2>4. ASSUME NEW k \in UserKeys, k # a.key
        PROVE  LW(k, c.user[k]) = E.user[k]
    BY <1>0, <1>5, <2>4, LastWriteOther DEF Expected
  <2>5. ProcessAction(E, a) = [E EXCEPT !.user[a.key] = Empty]
    BY <1>0, <1>5 DEF ProcessAction, BgenvSet
  <2>6. E.user = [k \in UserKeys |-> LastWrite(h, k, c.user[k])]
    BY DEF Expected
  <2>. QED  BY <1>5, <2>2, <2>3, <2>4, <2>5, <2>6 DEF Expected
<1>. QED  BY <1>1, <1>2, <1>3, <1>4, <1>5 DEF Action

\* With no entry applied the reference semantics is the baseline itself.
LEMMA ExpectedEmpty ==
    ASSUME NEW c \in Content
    PROVE  Expected(c, <<>>) = c
<1>1. \A key, old : LastWrite(<<>>, key, old) = old
  BY DEF LastWrite
<1>. QED  BY <1>1 DEF Expected, Content

\* No entry has been applied yet.
LEMMA HasLastEmpty == HasLast(<<>>)
BY DEF HasLast, HasMax, KeyIdx

-----------------------------------------------------------------------------
(***************************************************************************)
(* Lemmas on the processed prefix.                                         *)
(***************************************************************************)

\* The prefix of s \o t as long as s is s.
LEMMA PrefixOfConcat ==
    ASSUME NEW S, NEW s \in Seq(S), NEW t \in Seq(S)
    PROVE  SubSeq(s \o t, 1, Len(s \o t) - Len(t)) = s
<1>1. Len(s \o t) - Len(t) = Len(s)
  BY ConcatProperties
<1>2. SubSeq(s \o t, 1, Len(s)) \in Seq(S) /\ Len(SubSeq(s \o t, 1, Len(s))) = Len(s)
  BY ConcatProperties, SubSeqProperties, LenProperties
<1>3. \A i \in 1 .. Len(s) : SubSeq(s \o t, 1, Len(s))[i] = s[i]
  BY ConcatProperties, LenProperties
<1>. QED  BY <1>1, <1>2, <1>3, SeqEqual

\* Moving the head of the queue over to the processed prefix.
LEMMA ConcatHeadTail ==
    ASSUME NEW S, NEW s \in Seq(S), NEW t \in Seq(S), t # <<>>
    PROVE  s \o t = Append(s, Head(t)) \o Tail(t)
<1>1. Head(t) \in S /\ Tail(t) \in Seq(S) /\ Len(Tail(t)) = Len(t) - 1
      /\ \A i \in 1 .. Len(t) - 1 : Tail(t)[i] = t[i + 1]
      /\ Head(t) = t[1] /\ Len(t) \in Nat \ {0}
  BY HeadTailProperties, EmptySeq, LenProperties
<1>2. Append(s, Head(t)) \in Seq(S) /\ Len(Append(s, Head(t))) = Len(s) + 1
  BY <1>1, AppendProperties
<1>3. /\ s \o t \in Seq(S) /\ Append(s, Head(t)) \o Tail(t) \in Seq(S)
      /\ Len(s \o t) = Len(Append(s, Head(t)) \o Tail(t))
  BY <1>1, <1>2, ConcatProperties
<1>4. \A i \in 1 .. Len(s \o t) :
         (s \o t)[i] = (Append(s, Head(t)) \o Tail(t))[i]
  BY <1>1, <1>2, ConcatProperties, AppendProperties, LenProperties
<1>. QED  BY <1>3, <1>4, SeqEqual

-----------------------------------------------------------------------------
(***************************************************************************)
(* The drain loop invariant.                                               *)
(***************************************************************************)

\* Before the record is opened the history is the queue itself, so
\* nothing has been processed.
LEMMA DoneEmpty ==
    ASSUME NEW S, NEW q \in Seq(S)
    PROVE  SubSeq(q, 1, Len(q) - Len(q)) = <<>>
<1>1. Len(q) - Len(q) = 0
  BY LenProperties
<1>. QED  BY <1>1, SubSeqEmpty

LEMMA InitJInv == Init => JInv
BY DEF Init, Idle, JInv

\* The step that opens the record to update starts the drain loop with
\* nothing processed and the baseline in memory.
LEMMA OpenedJInv ==
    ASSUME IInv, JInv, pc \in {"open", "file"},
           NEW r \in Rec, NEW t, NEW c, Opened(r, t, c), Baseline' = r.c
    PROVE  JInv'
<1>1. hist = journal /\ journal \in Seq(Action)
  BY DEF JInv, IInv, TypeOK
<1>2. hist' = journal' /\ journal' = journal /\ pc' = "apply" /\ env' = r
  BY <1>1 DEF Opened
<1>3. Done' = <<>>
  BY <1>1, <1>2, DoneEmpty DEF Done
<1>4. r.c \in Content
  BY DEF Rec
<1>5. Expected(Baseline', Done') = env'.c
  BY <1>2, <1>3, <1>4, ExpectedEmpty
<1>6. hist' = Done' \o journal'
  <2>1. <<>> \o journal = journal
    BY <1>1, ConcatEmptySeq
  <2>. QED  BY <1>2, <1>3, <2>1
<1>. QED  BY <1>1, <1>2, <1>3, <1>4, <1>5, <1>6, HasLastEmpty, LenProperties
         DEF JInv

\* One iteration of the drain loop moves the head of the queue to the
\* processed prefix and applies it to the record.
LEMMA ProcessJInv ==
    ASSUME IInv, JInv, ProcessJournal
    PROVE  JInv'
<1>. DEFINE a == Head(journal)
<1>1. /\ journal \in Seq(Action) /\ journal # <<>>
      /\ hist = Done \o journal /\ HasLast(Done)
      /\ env.c = Expected(Baseline, Done)
      /\ Len(journal) <= Len(hist) /\ hist \in Seq(Action)
  BY DEF ProcessJournal, JInv, IInv, TypeOK
<1>2. Done \in Seq(Action)
  BY <1>1, SubSeqProperties, LenProperties DEF Done
<1>3. a \in Action /\ Tail(journal) \in Seq(Action)
  BY <1>1, HeadTailProperties
<1>4. hist = Append(Done, a) \o Tail(journal)
  BY <1>1, <1>2, ConcatHeadTail
<1>5. Done' = Append(Done, a)
  <2>1. Append(Done, a) \in Seq(Action)
    BY <1>2, <1>3, AppendProperties
  <2>2. hist' = hist /\ journal' = Tail(journal)
    BY DEF ProcessJournal
  <2>3. SubSeq(Append(Done, a) \o Tail(journal), 1,
               Len(Append(Done, a) \o Tail(journal)) - Len(Tail(journal)))
        = Append(Done, a)
    BY <1>3, <2>1, PrefixOfConcat
  <2>. QED  BY <1>4, <2>2, <2>3 DEF Done
<1>6. Baseline' = Baseline
  BY DEF ProcessJournal, Baseline, optVars
<1>7. Baseline \in Content
  BY DEF ProcessJournal, JInv
<1>8. env'.c = Expected(Baseline', Done')
  <2>1. env'.c = ProcessAction(env.c, a)
    BY DEF ProcessJournal, IInv, TypeOK, Rec
  <2>. QED  BY <1>1, <1>2, <1>3, <1>5, <1>6, <1>7, <2>1, ExpectedAppend
<1>9. HasLast(Done')
  BY <1>1, <1>2, <1>3, <1>5, HasLastAppend
<1>. QED  BY <1>1, <1>3, <1>4, <1>5, <1>6, <1>7, <1>8, <1>9, LenProperties,
            ConcatProperties, AppendProperties
         DEF ProcessJournal, JInv

\* A run that exits or fails leaves nothing in the journal or its history.
LEMMA ExitJInv ==
    ASSUME Exit
    PROVE  JInv'
BY DEF Exit, JInv

\* An option journals the same entry in the queue and in the history.
LEMMA JournalAddJInv ==
    ASSUME JInv, pc = "parse", NEW a, JournalAdd(a)
    PROVE  JInv'
BY ExitJInv DEF JournalAdd, Fail, JInv

\* Once the queue is drained the crc32 seals the record: it verifies and
\* its content is left as the loop made it.
LEMMA UpdateCrcJInv ==
    ASSUME IInv, JInv, UpdateCrc
    PROVE  JInv'
<1>1. env' = [env EXCEPT !.crc = env.c] /\ env \in Rec
  BY DEF UpdateCrc, IInv, TypeOK
<1>2. env'.c = env.c /\ Valid(env')
  BY <1>1 DEF Valid, Rec
<1>3. Baseline' = Baseline /\ Done' = Done
  BY DEF UpdateCrc, Baseline, Done, optVars
<1>. QED  BY <1>2, <1>3 DEF UpdateCrc, JInv

\* Every step of bg_setenv keeps the drain loop invariant.
LEMMA StepJInv == IInv /\ JInv /\ [Next]_vars => JInv'
<1>. SUFFICES ASSUME IInv, JInv, [Next]_vars PROVE JInv'
  OBVIOUS
<1>0. /\ NoPart \notin Parts /\ FileTarget \notin Parts
      /\ disk \in [Parts -> Rec] /\ file \in Rec \cup {NoFile}
  BY DEF IInv, TypeOK, NoPart, FileTarget, Parts
<1>1. CASE SetenvStart
  BY <1>1 DEF SetenvStart, runVars, JInv
<1>2. CASE OptKernel \/ OptRevision \/ OptUstate \/ OptUstateName
           \/ OptConfirm \/ OptUservar
  BY <1>2, JournalAddJInv, ExitJInv
     DEF OptKernel, OptRevision, OptUstate, OptUstateName, OptConfirm,
         OptUservar, Fail
<1>3. CASE OptUpdate \/ OptPreserve \/ OptPart \/ OptFile
  BY <1>3, ExitJInv DEF OptUpdate, OptPreserve, OptPart, OptFile, Fail, JInv
<1>4. CASE ParseDone \/ BgenvInitFail
  BY <1>4, ExitJInv DEF ParseDone, BgenvInitFail, Fail, runVars, JInv
<1>5. CASE OpenAuto
  <2>1. CASE ValidParts(disk) = {}
    BY <1>5, <2>1, ExitJInv DEF OpenAuto, Fail
  <2>2. ASSUME NEW l \in LatestParts(disk), NEW o \in OldestParts(disk),
               Opened([disk[l] EXCEPT !.c.revision =
                                  (disk[l].c.revision + 1) % RevMod], o, l)
        PROVE  JInv'
    <3>. DEFINE r == [disk[l] EXCEPT !.c.revision =
                                  (disk[l].c.revision + 1) % RevMod]
    <3>1. l \in Parts /\ disk[l] \in Rec
      BY <1>0, SelectionType
    <3>2. (disk[l].c.revision + 1) % RevMod \in 0 .. RevMod - 1
      <4>1. disk[l].c.revision + 1 \in Int /\ RevMod \in Nat \ {0}
        BY <3>1, WidthAssumption DEF Rec, Content
      <4>. QED  BY <4>1, ModRange, Zenon
    <3>3. r \in Rec
      BY <3>1, <3>2, SetRevisionType
    <3>4. Baseline' = r.c
      BY <1>0, <2>2, <3>1 DEF Opened, Baseline, Rec
    <3>. QED  BY <1>5, <2>2, <3>3, <3>4, OpenedJInv DEF OpenAuto
  <2>. QED  BY <1>5, <2>1, <2>2 DEF OpenAuto
<1>6. CASE OpenByIndex
  <2>1. part \in Parts
    BY <1>6 DEF OpenByIndex, NoPart, IInv, TypeOK
  <2>2. CASE Valid(disk[part])
    <3>1. Opened(disk[part], part, NoPart)
      BY <1>6, <2>2 DEF OpenByIndex
    <3>2. Baseline' = disk[part].c
      BY <1>0, <2>1, <3>1 DEF Opened, Baseline
    <3>. QED  BY <1>0, <1>6, <2>1, <3>1, <3>2, OpenedJInv DEF OpenByIndex
  <2>3. CASE ~Valid(disk[part])
    BY <1>6, <2>3, ExitJInv DEF OpenByIndex, Fail
  <2>. QED  BY <2>2, <2>3
<1>7. CASE OpenLatest
  <2>1. CASE ValidParts(disk) = {}
    BY <1>7, <2>1, ExitJInv DEF OpenLatest, Fail
  <2>2. ASSUME NEW l \in LatestParts(disk), Opened(disk[l], l, NoPart)
        PROVE  JInv'
    <3>1. l \in Parts
      BY SelectionType
    <3>2. Baseline' = disk[l].c
      BY <1>0, <2>2, <3>1 DEF Opened, Baseline
    <3>. QED  BY <1>0, <1>7, <2>2, <3>1, <3>2, OpenedJInv DEF OpenLatest
  <2>. QED  BY <1>7, <2>1, <2>2 DEF OpenLatest
<1>8. CASE FileLoad
  <2>1. CASE ~preserve
    <3>1. Opened(ZeroRec, FileTarget, NoPart)
      BY <1>8, <2>1 DEF FileLoad, GetEnv
    <3>2. Baseline' = ZeroRec.c
      BY <2>1, <3>1 DEF Opened, Baseline, optVars
    <3>. QED  BY <1>8, <3>1, <3>2, ZeroRecType, OpenedJInv DEF FileLoad, GetEnv
  <2>2. CASE preserve /\ file = NoFile
    BY <1>8, <2>2, ExitJInv DEF FileLoad, GetEnv, Fail
  <2>3. CASE preserve /\ file # NoFile
    <3>1. Opened(file, FileTarget, NoPart) /\ file \in Rec
      BY <1>0, <1>8, <2>3 DEF FileLoad, GetEnv
    <3>2. Baseline' = file.c
      BY <2>3, <3>1 DEF Opened, Baseline, optVars
    <3>. QED  BY <1>8, <3>1, <3>2, OpenedJInv DEF FileLoad, GetEnv
  <2>. QED  BY <2>1, <2>2, <2>3
<1>9. CASE ProcessJournal
  BY <1>9, ProcessJInv
<1>10. CASE UpdateCrc
  BY <1>10, UpdateCrcJInv
<1>11. CASE WriteSlot \/ WriteFile
  BY <1>11, ExitJInv DEF WriteSlot, WriteFile
<1>12. CASE UNCHANGED vars
  BY <1>12 DEF vars, JInv, Done, Baseline
<1>. QED  BY <1>1, <1>2, <1>3, <1>4, <1>5, <1>6, <1>7, <1>8, <1>9, <1>10,
            <1>11, <1>12 DEF Next

\* At the write the whole history has been applied.
LEMMA JInvApplied == IInv /\ JInv => JournalApplied
<1>. SUFFICES ASSUME IInv, JInv, pc = "write"
              PROVE  env.c = Expected(Baseline, hist) /\ Valid(env)
  BY DEF JournalApplied
<1>1. journal = <<>> /\ Valid(env) /\ hist = Done \o journal
      /\ env.c = Expected(Baseline, Done)
  BY DEF JInv
<1>2. Done \in Seq(Action)
  <2>1. hist \in Seq(Action) /\ Len(journal) = 0
    BY <1>1 DEF IInv, TypeOK
  <2>. QED  BY <2>1, SubSeqProperties, LenProperties DEF Done
<1>3. hist = Done
  BY <1>1, <1>2, ConcatEmptySeq
<1>. QED  BY <1>1, <1>3

\* update_environment applies the journal as spec 4.3 says: when a run
\* reaches the write, the record in memory is its baseline (the -u clone
\* with revision + 1, the opened partition, the -P file or a zeroed
\* record) with every journalled entry applied in the order it was added,
\* the last effective write of each key winning, and its crc32 matches
\* it -- for every width of the fields, every bound on the journal and
\* every set of keys and argument texts.
THEOREM JournalAppliedHolds == Spec => []JournalApplied
<1>1. Init => IInv /\ JInv
  BY InitIInv, InitJInv
<1>2. IInv /\ JInv /\ [Next]_vars => IInv' /\ JInv'
  BY StepIInv, StepJInv
<1>3. IInv /\ JInv => JournalApplied
  BY JInvApplied
<1>. QED  BY <1>1, <1>2, <1>3, PTL DEF Spec

-----------------------------------------------------------------------------
(***************************************************************************)
(* The auto-update becomes the latest below the wrap of the revision.    *)
(***************************************************************************)

\* The revision of the -u clone when no entry sets the revision: the
\* latest revision plus one, since it does not wrap.
LEMMA CloneRevision ==
    ASSUME IInv, JInv, pc = "write", cur # NoPart,
           disk[cur].c.revision < RevMod - 1,
           \A i \in DOMAIN hist : hist[i].key # "revision"
    PROVE  env.c.revision = disk[cur].c.revision + 1
<1>1. env.c = Expected(Baseline, hist)
  BY JInvApplied DEF JournalApplied
<1>2. cur \in Parts /\ disk[cur] \in Rec
  BY DEF IInv, TypeOK, NoPart, Parts
<1>3. Baseline = [disk[cur].c EXCEPT !.revision = (@ + 1) % RevMod]
  BY DEF Baseline
<1>4. LastWrite(hist, "revision", Baseline.revision) = Baseline.revision
  BY DEF LastWrite
<1>5. disk[cur].c.revision \in 0 .. RevMod - 2
  BY <1>2 DEF Rec, Content
<1>6. (disk[cur].c.revision + 1) % RevMod = disk[cur].c.revision + 1
  BY <1>5, WidthAssumption
<1>. QED  BY <1>1, <1>2, <1>3, <1>4, <1>6 DEF Expected, Rec, Content

\* The step of an auto-update write that stores the clone.
LEMMA StepBelowWrap ==
    ASSUME IInv, JInv, AutoInv, [Next]_vars
    PROVE  [BecomesLatestBelowWrap]_vars
<1>. SUFFICES ASSUME cur # NoPart, disk[cur].c.revision < RevMod - 1,
                     pc = "write", disk'[target] = env,
                     \A i \in DOMAIN hist : hist[i].key # "revision",
                     NEW i \in ValidParts(disk') \ {target}
              PROVE  disk'[i].c.revision < env.c.revision
  BY DEF BecomesLatestBelowWrap, BecomesLatest
<1>1. env.c.revision = disk[cur].c.revision + 1
  BY CloneRevision
<1>2. cur \in LatestParts(disk)
  BY DEF AutoInv
<1>3. i \in Parts /\ disk'[i] = disk[i]
  BY WriteFrame DEF ValidParts
<1>4. i \in ValidParts(disk)
  BY <1>3 DEF ValidParts
<1>5. disk[i].c.revision <= disk[cur].c.revision
  BY <1>2, <1>4 DEF LatestParts
<1>6. disk[i].c.revision \in Int /\ disk[cur].c.revision \in Int
  BY <1>2, <1>3, SelectionType DEF IInv, TypeOK, Rec, Content
<1>. QED  BY <1>1, <1>3, <1>5, <1>6

\* An auto-update whose journal does not set the revision, and whose
\* cloned revision is below the largest one, stores a record whose
\* revision is above that of every other valid partition, so it becomes
\* the latest (spec 3 and 4.4): the revision_wrap violation happens only
\* where revision + 1 wraps to 0 (line 936).  For every number of
\* partitions and every width of the revision.
THEOREM AutoUpdateBelowWrapHolds == Spec => AutoUpdateBecomesLatestBelowWrap
<1>1. Init => IInv /\ JInv /\ AutoInv
  BY InitIInv, InitJInv DEF Init, Idle, AutoInv
<1>2. IInv /\ JInv /\ AutoInv /\ [Next]_vars => IInv' /\ JInv' /\ AutoInv'
  BY StepIInv, StepJInv, StepAutoInv
<1>3. IInv /\ JInv /\ AutoInv /\ [Next]_vars => [BecomesLatestBelowWrap]_vars
  BY StepBelowWrap
<1>. QED  BY <1>1, <1>2, <1>3, PTL DEF Spec, AutoUpdateBecomesLatestBelowWrap

-----------------------------------------------------------------------------
(***************************************************************************)
(* The extent of the ustate_payload divergence.                           *)
(***************************************************************************)

\* Every journalled ustate text that strtol finds digits in is a plain
\* number that the (uint16_t) cast keeps: what -s and -c journal, and
\* what -x ustate=VAL journals when VAL is such a number.
UstateTextsExact ==
    \A i \in DOMAIN hist :
        hist[i].task = "SET" /\ hist[i].key = "ustate" /\ hist[i].data.num # NoNum
            => ~hist[i].data.tail /\ hist[i].data.num \in 0 .. UstateMod - 1

\* A run whose journalled ustate texts are exact numbers changes ustate
\* only to a number some entry spells, so the ustate_payload violation
\* comes only from texts with trailing characters or beyond 2^16 that
\* -x ustate=VAL lets through -- for every width of the cast.
THEOREM UstateAsRequestedWhenExact ==
    Spec => [](UstateTextsExact => UstateAsRequested)
<1>1. ASSUME IInv, JInv, UstateTextsExact, pc = "write"
      PROVE  UstateAsRequested
  <2>. DEFINE I == KeyIdx(hist, "ustate")
              x == CHOOSE i \in I : \A j \in I : j <= i
  <2>1. env.c.ustate = LastWrite(hist, "ustate", Baseline.ustate)
    BY <1>1, JInvApplied DEF JournalApplied, Expected
  <2>2. CASE I = {}
    BY <2>1, <2>2 DEF LastWrite, KeyIdx, UstateAsRequested
  <2>3. CASE I # {}
    <3>1. HasLast(hist)
      <4>1. hist = Done /\ HasLast(Done)
        <5>1. Done \in Seq(Action) /\ journal = <<>>
          <6>1. hist \in Seq(Action) /\ journal = <<>>
            BY <1>1 DEF IInv, TypeOK, JInv
          <6>. QED  BY <6>1, SubSeqProperties, LenProperties DEF Done
        <5>. QED  BY <1>1, <5>1, ConcatEmptySeq DEF JInv
      <4>. QED  BY <4>1
    <3>2. x \in I
      BY <2>3, <3>1 DEF HasLast, HasMax, Keys
    <3>3. env.c.ustate = StoredValue(hist[x])
      BY <2>1, <2>3 DEF LastWrite, KeyIdx
    <3>4. /\ x \in DOMAIN hist /\ hist[x].key = "ustate"
          /\ hist[x].data.num # NoNum /\ hist[x].task = "SET"
      <4>1. hist \in Seq(Action)
        BY <1>1 DEF IInv, TypeOK
      <4>2. hist[x] \in Action /\ x \in DOMAIN hist /\ hist[x].key = "ustate"
            /\ Effective(hist[x])
        BY <3>2, <4>1, ElementOfSeq, LenProperties DEF KeyIdx
      <4>3. hist[x].task = "SET"
        BY <4>2, KeysAssumption DEF Action
      <4>. QED  BY <4>2, <4>3 DEF Effective
    <3>5. ~hist[x].data.tail /\ hist[x].data.num \in 0 .. UstateMod - 1
      BY <1>1, <3>4 DEF UstateTextsExact
    <3>6. env.c.ustate = hist[x].data.num
      BY <3>3, <3>4, <3>5, WidthAssumption DEF StoredValue
    <3>. QED  BY <3>4, <3>5, <3>6 DEF UstateAsRequested, ParseIntOk
  <2>. QED  BY <2>2, <2>3
<1>2. IInv /\ JInv => (UstateTextsExact => UstateAsRequested)
  BY <1>1 DEF UstateAsRequested
<1>. QED  BY <1>2, InitIInv, InitJInv, StepIInv, StepJInv, PTL DEF Spec

=============================================================================
