---------------------------- MODULE SlotsProofs ----------------------------
(***************************************************************************)
(* Lemmas on the records of EnvData and the partition selection of Slots, *)
(* shared by the proofs about one bg_setenv session (BgSetenvProofs) and  *)
(* about concurrent sessions (BgSetenvRaceProofs).                        *)
(***************************************************************************)
EXTENDS Slots, FiniteSetTheorems, TLAPS

\* An integer taken modulo a field's 2^width lies in the field's range.
LEMMA ModRange ==
    ASSUME NEW x \in Int, NEW m \in Nat \ {0}
    PROVE  x % m \in 0 .. m - 1
OBVIOUS

\* A zeroed record (memset in dumpenv_to_file) is a record.
LEMMA ZeroRecType == ZeroRec \in Rec
BY WidthAssumption DEF ZeroRec, Rec, Content, USTATE_OK, USTATE_FAILED

\* A record whose write was cut short is a record.
LEMMA TornType ==
    ASSUME NEW old \in Rec, NEW new \in Rec
    PROVE  Torn(old, new) \in Rec
BY DEF Torn, Rec

\* The selection helpers return partitions.
LEMMA SelectionType ==
    ASSUME NEW d
    PROVE  /\ ValidParts(d) \subseteq Parts
           /\ LatestParts(d) \subseteq Parts
           /\ OldestParts(d) \subseteq Parts
BY DEF ValidParts, LatestParts, OldestParts

\* A set of at least two elements has one other than any given value.
LEMMA OtherElement ==
    ASSUME NEW S, IsFiniteSet(S), Cardinality(S) >= 2, NEW x
    PROVE  \E j \in S : j # x
<1>. SUFFICES ASSUME S \subseteq {x} PROVE FALSE
  OBVIOUS
<1>1. Cardinality(S) <= Cardinality({x}) /\ Cardinality({x}) = 1
  BY FS_Subset, FS_Singleton
<1>. QED  BY <1>1, FS_CardinalityType

\* The valid partitions form a finite set.
LEMMA ValidPartsFinite ==
    ASSUME NEW d PROVE IsFiniteSet(ValidParts(d))
<1>1. IsFiniteSet(Parts)
  BY NPartsAssumption, FS_Interval DEF Parts
<1>. QED  BY <1>1, SelectionType, FS_Subset

\* The A/B argument: when two partitions verify, an oldest partition is
\* never the only latest one.  Either the latest is elsewhere, or all
\* valid partitions share one revision and a second one is latest too.
LEMMA LatestSurvives ==
    ASSUME NEW d \in [Parts -> Rec], NEW t \in OldestParts(d),
           LatestParts(d) # {}, Cardinality(ValidParts(d)) >= 2
    PROVE  \E i \in LatestParts(d) : i # t
<1>1. PICK l \in LatestParts(d) : TRUE
  OBVIOUS
<1>2. CASE l # t
  BY <1>1, <1>2
<1>3. CASE l = t
  <2>1. PICK j \in ValidParts(d) : j # t
    BY ValidPartsFinite, OtherElement
  <2>2. j \in Parts /\ t \in Parts
    BY <2>1, SelectionType
  <2>3. \A k \in Parts : d[k].c.revision \in Int
    BY DEF Rec, Content
  <2>4. d[j].c.revision <= d[t].c.revision
    BY <1>1, <1>3, <2>1 DEF LatestParts
  <2>5. d[t].c.revision <= d[j].c.revision
    BY <2>1 DEF OldestParts
  <2>6. \A k \in ValidParts(d) : d[k].c.revision <= d[j].c.revision
    BY <1>1, <1>3, <2>2, <2>3, <2>4, <2>5, SelectionType DEF LatestParts
  <2>. QED  BY <2>1, <2>6 DEF LatestParts
<1>. QED  BY <1>2, <1>3
=============================================================================
