-------------------------- MODULE DeltaRulesProofs --------------------------
(***************************************************************************)
(* Proofs about the three-way comparison of DeltaRules: for any two trees, *)
(* whatever requests they drove and whatever entries they list, and so for *)
(* every instance of MCDeltaRules.                                         *)
(***************************************************************************)
EXTENDS MCDeltaRules, TLAPS

Kinds == {"tape", "absent", "hash"}

\* Measured the other way round, a bucket's family is its mirror image.
Mirrors(f, b) == CASE f = "introduced" -> b = "resolved"
                   [] f = "resolved"   -> b = "introduced"
                   [] OTHER            -> f = b

\* The addresses a delta of two trees compares.
Compares(p, q) == {a \in Addresses(p, q) : a.request \in Covered(p, q)}

-----------------------------------------------------------------------------
(* The table of classify.                                                  *)

LEMMA ClassifyMirrors ==
    ASSUME NEW held \in BOOLEAN, NEW s, NEW t, s.is \in Kinds, t.is \in Kinds
    PROVE  Mirrors(Family(Classify(held, s, t)), Family(Classify(held, t, s)))
BY DEF Kinds, Mirrors, Family, Classify

\* What both sides do alike is charged to nobody.
LEMMA ClassifySame ==
    ASSUME NEW held \in BOOLEAN, NEW s, s.is \in Kinds
    PROVE  ~ChargesY(Classify(held, s, s))
BY DEF Kinds, ChargesY, Classify

\* Nor is a side that answers as the tape, or that does not reach what the
\* tape does not hold.
LEMMA ClassifyTape ==
    ASSUME NEW held \in BOOLEAN, NEW s, NEW t, s.is \in Kinds,
           t.is = IF held THEN "tape" ELSE "absent"
    PROVE  ~ChargesY(Classify(held, s, t))
BY DEF Kinds, ChargesY, Classify

LEMMA ClassifyThird ==
    ASSUME NEW held \in BOOLEAN, NEW s, NEW t, s.is \in Kinds,
           s.is # "absent" \/ ~held, t.is = "hash", t # s
    PROVE  ChargesY(Classify(held, s, t))
BY DEF Kinds, ChargesY, Classify

\* Where both produced a value the pair is inherited.
LEMMA ClassifyProduced ==
    ASSUME NEW held \in BOOLEAN, NEW s, s.is = "hash"
    PROVE  Family(Classify(held, s, s)) = "inherited"
BY DEF Family, Classify

-----------------------------------------------------------------------------
(* The sides of a pair.                                                    *)

LEMMA SideKind ==
    ASSUME NEW p, NEW a, NEW held
    PROVE  SideOf(p, a, held).is \in Kinds
BY DEF SideOf, Tape, Absent, Hash, Kinds

LEMMA TapeHasBoolean ==
    ASSUME NEW p, NEW q, NEW a PROVE TapeHas(p, q, a) \in BOOLEAN
BY DEF TapeHas

\* Which run is the baseline makes no difference to what is compared.
LEMMA PairIsSymmetric ==
    ASSUME NEW p, NEW q
    PROVE  /\ Compares(p, q) = Compares(q, p)
           /\ \A a : TapeHas(p, q, a) = TapeHas(q, p, a)
           /\ \A a : SameResult(p, q, a) <=> SameResult(q, p, a)
<1>1. Compares(p, q) = Compares(q, p)
  BY DEF Compares, Addresses, Covered
<1>2. ASSUME NEW a PROVE TapeHas(p, q, a) = TapeHas(q, p, a)
  BY DEF TapeHas, Sides
<1>3. ASSUME NEW a PROVE SameResult(p, q, a) <=> SameResult(q, p, a)
  BY DEF SameResult
<1>4. QED
  BY <1>1, <1>2, <1>3

\* Two values that are one result are both values.
LEMMA SameResultSides ==
    ASSUME NEW p, NEW q, NEW a, NEW held, SameResult(p, q, a)
    PROVE  SideOf(p, a, held).is = "hash" /\ SideOf(q, a, held).is = "hash"
BY DEF SameResult, Produced, SideOf, Hash

LEMMA BucketMirrors ==
    ASSUME NEW p, NEW q, NEW a
    PROVE  Mirrors(Family(BucketAt(p, q, a)), Family(BucketAt(q, p, a)))
<1> DEFINE held == TapeHas(p, q, a)
           ps == SideOf(p, a, held)
           qs == SideOf(q, a, held)
<1>1. held \in BOOLEAN /\ ps.is \in Kinds /\ qs.is \in Kinds
  BY TapeHasBoolean, SideKind
<1>2. TapeHas(q, p, a) = held /\ (SameResult(p, q, a) <=> SameResult(q, p, a))
  BY PairIsSymmetric
<1>3. CASE SameResult(p, q, a)
  <2>1. BucketAt(p, q, a) = Classify(held, ps, ps)
    BY <1>3 DEF BucketAt
  <2>2. BucketAt(q, p, a) = Classify(held, qs, qs)
    BY <1>2, <1>3 DEF BucketAt
  <2>3. ps.is = "hash" /\ qs.is = "hash"
    BY <1>3, SameResultSides
  <2> HIDE DEF held, ps, qs
  <2>4. Family(BucketAt(p, q, a)) = "inherited" /\ Family(BucketAt(q, p, a)) = "inherited"
    BY <1>1, <2>1, <2>2, <2>3, ClassifyProduced
  <2>5. QED
    BY <2>4 DEF Mirrors
<1>4. CASE ~SameResult(p, q, a)
  <2>1. BucketAt(p, q, a) = Classify(held, ps, qs)
    BY <1>4 DEF BucketAt
  <2>2. BucketAt(q, p, a) = Classify(held, qs, ps)
    BY <1>2, <1>4 DEF BucketAt
  <2> HIDE DEF held, ps, qs
  <2>3. QED
    BY <1>1, <2>1, <2>2, ClassifyMirrors
<1>5. QED
  BY <1>3, <1>4

-----------------------------------------------------------------------------
(* The delta of a pair.                                                    *)

LEMMA DeltaParts ==
    ASSUME NEW p, NEW q
    PROVE  /\ DOMAIN ThreeWay(p, q).buckets = Compares(p, q)
           /\ \A a \in Compares(p, q) : ThreeWay(p, q).buckets[a] = BucketAt(p, q, a)
           /\ \A a \in ThreeWay(p, q).charged :
                 a \in Compares(p, q) /\ ChargesY(BucketAt(p, q, a))
           /\ ThreeWay(p, q).pass <=> ThreeWay(p, q).charged = {}
BY DEF ThreeWay, Compares

LEMMA DeltaMirrors ==
    ASSUME NEW p, NEW q
    PROVE  /\ DOMAIN ThreeWay(p, q).buckets = DOMAIN ThreeWay(q, p).buckets
           /\ \A a \in DOMAIN ThreeWay(p, q).buckets :
                 Mirrors(Family(ThreeWay(p, q).buckets[a]), Family(ThreeWay(q, p).buckets[a]))
<1>1. Compares(p, q) = Compares(q, p)
  BY PairIsSymmetric
<1>2. QED
  BY <1>1, DeltaParts, BucketMirrors

\* An address both trees list alike, or neither lists, is not charged.
LEMMA SameIsNotCharged ==
    ASSUME NEW p, NEW q, NEW a,
           IF Has(p, a) THEN Has(q, a) /\ p.entries[a] = q.entries[a] ELSE ~Has(q, a)
    PROVE  a \notin ThreeWay(p, q).charged
<1> DEFINE held == TapeHas(p, q, a)
           ps == SideOf(p, a, held)
           qs == SideOf(q, a, held)
<1>1. held \in BOOLEAN /\ ps.is \in Kinds
  BY TapeHasBoolean, SideKind
<1>2. qs = ps
  BY DEF SideOf
<1>3. BucketAt(p, q, a) = Classify(held, ps, ps)
  BY <1>2 DEF BucketAt
<1> HIDE DEF held, ps
<1>4. ~ChargesY(BucketAt(p, q, a))
  BY <1>1, <1>3, ClassifySame
<1>5. QED
  BY <1>4, DeltaParts

\* A tree that lists nothing but reproduced calls on what both drove passes.
LEMMA TapePasses ==
    ASSUME NEW p, NEW q,
           \A a \in DOMAIN q.entries : a.request \in p.drove => q.entries[a].value = "reproduced"
    PROVE  ThreeWay(p, q).pass
<1>1. SUFFICES ASSUME NEW a \in ThreeWay(p, q).charged PROVE FALSE
  BY DeltaParts
<1>2. a \in Compares(p, q) /\ ChargesY(BucketAt(p, q, a))
  BY <1>1, DeltaParts
<1> DEFINE held == TapeHas(p, q, a)
           ps == SideOf(p, a, held)
           qs == SideOf(q, a, held)
<1>3. held \in BOOLEAN /\ ps.is \in Kinds
  BY TapeHasBoolean, SideKind
<1>4. Has(q, a) => q.entries[a].value = "reproduced"
  BY <1>2 DEF Has, Compares, Covered
<1>5. ~SameResult(p, q, a)
  BY <1>4 DEF SameResult, Produced
<1>6. BucketAt(p, q, a) = Classify(held, ps, qs)
  BY <1>5 DEF BucketAt
<1>7. qs.is = IF held THEN "tape" ELSE "absent"
  <2>1. CASE Has(q, a)
    <3>1. q.entries[a] \in Sides(p, q, a)
      BY <2>1 DEF Sides
    <3>2. held
      BY <1>4, <2>1, <3>1 DEF TapeHas
    <3>3. qs = Tape
      BY <1>4, <2>1 DEF SideOf
    <3> HIDE DEF held, qs
    <3>4. QED
      BY <3>2, <3>3 DEF Tape
  <2>2. CASE ~Has(q, a)
    BY <2>2 DEF SideOf, Tape, Absent
  <2>3. QED
    BY <2>1, <2>2
<1> HIDE DEF held, ps, qs
<1>8. QED
  BY <1>2, <1>3, <1>6, <1>7, ClassifyTape

LEMMA ThirdIsCharged ==
    ASSUME NEW p, NEW q, NEW a, ~SameResult(p, q, a),
           SideOf(p, a, TapeHas(p, q, a)).is # "absent" \/ ~TapeHas(p, q, a),
           SideOf(q, a, TapeHas(p, q, a)).is = "hash",
           SideOf(q, a, TapeHas(p, q, a)) # SideOf(p, a, TapeHas(p, q, a))
    PROVE  ChargesY(BucketAt(p, q, a))
<1> DEFINE held == TapeHas(p, q, a)
           ps == SideOf(p, a, held)
           qs == SideOf(q, a, held)
<1>1. held \in BOOLEAN /\ ps.is \in Kinds
  BY TapeHasBoolean, SideKind
<1>2. BucketAt(p, q, a) = Classify(held, ps, qs)
  BY DEF BucketAt
<1>3. (ps.is # "absent" \/ ~held) /\ qs.is = "hash" /\ qs # ps
  OBVIOUS
<1> HIDE DEF held, ps, qs
<1>4. QED
  BY <1>1, <1>2, <1>3, ClassifyThird

-----------------------------------------------------------------------------
(* The specification.                                                      *)

\* A delta that was computed is that of the two trees, in both directions.
DeltaInv == \/ delta = <<>> \/ delta = <<"refused">>
            \/ delta = <<ThreeWay(m, y), ThreeWay(y, m)>>

LEMMA DeltaAlways == Spec => []DeltaInv
<1>1. Init => DeltaInv
  BY DEF Init, DeltaInv
<1>2. DeltaInv /\ [Next]_vars => DeltaInv'
  BY DEF DeltaInv, Next, Compare, Stop, vars
<1>3. QED
  BY <1>1, <1>2, PTL DEF Spec

LEMMA ComparedIsPair ==
    ASSUME DeltaInv, Compared PROVE Forth = ThreeWay(m, y) /\ Back = ThreeWay(y, m)
<1>1. delta # <<>> /\ delta # <<"refused">>
  BY DEF Compared
<1>2. QED
  BY <1>1 DEF DeltaInv, Forth, Back

\* Measured the other way round, exactly what was introduced is resolved.
THEOREM BothDirectionsMirror == Spec => []DirectionsMirror
<1>1. DeltaInv => DirectionsMirror
  BY ComparedIsPair, DeltaMirrors, Zenon DEF DirectionsMirror, Mirrors
<1>2. QED
  BY DeltaAlways, <1>1, PTL

\* A run is charged with nothing where it does what the baseline did.
THEOREM SameBehaviourPasses == Spec => []SameBehaviourIsNotCharged
<1>1. DeltaInv => SameBehaviourIsNotCharged
  BY ComparedIsPair, SameIsNotCharged, Zenon DEF SameBehaviourIsNotCharged
<1>2. QED
  BY DeltaAlways, <1>1, PTL

\* A run that reproduced the tape on every request both drove passes, whatever
\* the baseline did.
THEOREM ReproducingTheTapePasses == Spec => []TapeIsNotCharged
<1>1. DeltaInv => TapeIsNotCharged
  BY ComparedIsPair, TapePasses, Zenon DEF TapeIsNotCharged
<1>2. QED
  BY DeltaAlways, <1>1, PTL

\* A run that answers neither as the tape nor as the baseline, which did
\* answer, is charged.
THEOREM ThirdAnswersAreCharged == Spec => []ThirdAnswerIsCharged
<1>1. ASSUME DeltaInv, Compared, NEW a \in DOMAIN Forth.buckets
      PROVE  Forth.buckets[a] = BucketAt(m, y, a)
  BY <1>1, ComparedIsPair, DeltaParts
<1>2. DeltaInv => ThirdAnswerIsCharged
  BY <1>1, ThirdIsCharged, Zenon DEF ThirdAnswerIsCharged
<1>3. QED
  BY DeltaAlways, <1>2, PTL
=============================================================================
