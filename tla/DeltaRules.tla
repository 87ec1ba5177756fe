----------------------------- MODULE DeltaRules -----------------------------
(***************************************************************************)
(* The pure part of a delta verdict (crates/deja-orchestrator/src/         *)
(* divergence/delta.rs and acknowledgement.rs): the comparison of a run Y  *)
(* with a baseline M, three-way against the tape both replayed, and the    *)
(* acknowledgements of a pull request laid over its result.                *)
(*                                                                         *)
(* A behaviour tree is [rules, drove, entries]: the canon version, boundary*)
(* policy and event schema it was built under (one value: three_way refuses*)
(* a pair that differs in any), the requests the run drove, and a function *)
(* from some of the addresses to what the run did there.  An address is    *)
(* [request, shape]: its shape is what Pattern::of and the lane keep of it.*)
(***************************************************************************)
EXTENDS Integers, FiniteSets

\* What a run did at an address.  "absent" and "diverged" are about an address
\* the tape holds, "novel" about one it does not.  A value compared by its
\* result carries the identities it may be taken for.
Plain(value, blocking) ==
    [value |-> value, hash |-> "none", by |-> "none", also |-> {}, blocking |-> blocking]
ByArguments(value, h, blocking) ==
    [value |-> value, hash |-> h, by |-> "arguments", also |-> {}, blocking |-> blocking]
ByResult(value, h, also, blocking) ==
    [value |-> value, hash |-> h, by |-> "result", also |-> also, blocking |-> blocking]

Produced(e) == e.value \in {"diverged", "novel"}

-----------------------------------------------------------------------------
(* The three-way comparison.                                               *)

Tape   == [is |-> "tape", hash |-> "none"]
Absent == [is |-> "absent", hash |-> "none"]
Hash(h) == [is |-> "hash", hash |-> h]

Has(tree, a) == a \in DOMAIN tree.entries
Sides(m, y, a) == {t.entries[a] : t \in {u \in {m, y} : Has(u, a)}}

\* The tape holds an address unless every side that has it calls it novel.
TapeHas(m, y, a) == \E e \in Sides(m, y, a) : e.value # "novel"

\* variant: what the tree does not list was not reached
SideOfListed(tree, a, tapeHas) ==
    IF ~Has(tree, a) \/ tree.entries[a].value = "absent" THEN Absent
    ELSE IF tree.entries[a].value = "reproduced" THEN Tape
    ELSE Hash(tree.entries[a].hash)

\* The scorer lists every call it classified: an address of the tape that a
\* driven request leaves out was reproduced.
SideOf(tree, a, tapeHas) ==
    IF ~Has(tree, a) THEN (IF tapeHas THEN Tape ELSE Absent)
    ELSE CASE tree.entries[a].value = "reproduced" -> Tape
           [] tree.entries[a].value = "absent"     -> Absent
           [] OTHER                                -> Hash(tree.entries[a].hash)

\* variants of classify: an omission of Y taken for M's, and a value they
\* share charged
ClassifyOmission(tapeHas, m, y) ==
    CASE m = y -> IF m.is = "tape" \/ ~tapeHas THEN "clean" ELSE "inherited"
      [] m.is = "absent" \/ y.is = "absent" -> "resolved omission"
      [] m.is = "hash" -> IF y.is = "hash" THEN "changed" ELSE "resolved"
      [] OTHER -> "introduced"
ClassifyShared(tapeHas, m, y) ==
    CASE m.is = "hash" /\ y.is = "hash" -> "changed"
      [] m = y -> IF m.is = "absent" /\ tapeHas THEN "inherited omission" ELSE "clean"
      [] y.is = "hash" -> "introduced"
      [] y.is = "absent" /\ tapeHas -> "introduced omission"
      [] m.is = "hash" -> "resolved"
      [] OTHER -> "resolved omission"

\* variant: what both produced, differently, is the baseline's doing
ClassifyInherited(tapeHas, m, y) ==
    CASE m.is = "hash" /\ y.is = "hash" -> "inherited"
      [] m = y -> IF m.is = "absent" /\ tapeHas THEN "inherited omission" ELSE "clean"
      [] y.is = "hash" -> IF m.is = "absent" /\ tapeHas THEN "resolved omission" ELSE "introduced"
      [] y.is = "absent" /\ tapeHas -> "introduced omission"
      [] m.is = "hash" -> "resolved"
      [] OTHER -> "resolved omission"

Classify(tapeHas, m, y) ==
    IF tapeHas
    THEN CASE m.is = "tape" /\ y.is = "tape"     -> "clean"
           [] m.is = "absent" /\ y.is = "absent" -> "inherited omission"
           [] m.is # "absent" /\ y.is = "absent" -> "introduced omission"
           [] m.is = "absent" /\ y.is # "absent" -> "resolved omission"
           [] m.is = "hash" /\ y.is = "hash"     -> IF m = y THEN "inherited" ELSE "changed"
           [] m.is = "hash" /\ y.is = "tape"     -> "resolved"
           [] m.is = "tape" /\ y.is = "hash"     -> "introduced"
    ELSE CASE m.is = "hash" /\ y.is = "hash" -> IF m = y THEN "inherited novel" ELSE "changed"
           [] m.is = "hash" /\ y.is # "hash" -> "resolved novel"
           [] m.is # "hash" /\ y.is = "hash" -> "introduced novel"
           [] OTHER                          -> "clean"

Family(b) ==
    CASE b \in {"inherited", "inherited novel", "inherited omission"}    -> "inherited"
      [] b \in {"introduced", "introduced novel", "introduced omission"} -> "introduced"
      [] b \in {"resolved", "resolved novel", "resolved omission"}       -> "resolved"
      [] OTHER -> b

ChargesY(b) == b \in {"introduced", "changed", "introduced novel", "introduced omission"}

\* Two results are one when an identity is common to both.
SameResult(m, y, a) ==
    /\ Has(m, a) /\ Has(y, a)
    /\ LET me == m.entries[a]  ye == y.entries[a]
       IN /\ Produced(me) /\ Produced(ye)
          /\ me.by = "result" /\ ye.by = "result"
          /\ me.also \cap ye.also # {}

Addresses(m, y) == DOMAIN m.entries \cup DOMAIN y.entries
Covered(m, y)   == m.drove \cap y.drove

\* A result is not comparable with the argument identity an older run left.
Incomparable(m, y, a) ==
    /\ Has(m, a) /\ Has(y, a)
    /\ Produced(m.entries[a]) /\ Produced(y.entries[a])
    /\ m.entries[a].by # y.entries[a].by

Refuses(m, y) ==
    \/ m.rules # y.rules
    \/ Covered(m, y) = {}
    \/ \E a \in Addresses(m, y) : a.request \in Covered(m, y) /\ Incomparable(m, y, a)

BucketAt(m, y, a) ==
    LET held == TapeHas(m, y, a)
        ms   == SideOf(m, a, held)
    IN Classify(held, ms, IF SameResult(m, y, a) THEN ms ELSE SideOf(y, a, held))

BlockingAt(m, y, a) == \E e \in Sides(m, y, a) : e.blocking

\* The delta of Y against M, over the requests both drove.  It passes when no
\* blocking address is charged to Y.
ThreeWay(m, y) ==
    LET compared == {a \in Addresses(m, y) : a.request \in Covered(m, y)}
        buckets  == [a \in compared |-> BucketAt(m, y, a)]
        charged  == {a \in compared : ChargesY(buckets[a]) /\ BlockingAt(m, y, a)}
    IN [buckets |-> buckets, charged |-> charged, pass |-> charged = {}]

\* The shapes an acknowledgement has to cover for the delta to be accepted.
ChargedShapes(m, y) == {a.shape : a \in ThreeWay(m, y).charged}

-----------------------------------------------------------------------------
(* The overlay of acknowledgements: [id, shape, change, by, confirmed,     *)
(* withdrawn], where `confirmed' is who confirmed it, or "nobody".         *)

Speaks(acks, shape) == {k \in acks : k.shape = shape /\ ~k.withdrawn}

\* apply's max_by_key: this version of the change first, then a confirmation
\* before a proposal, then the newest.
Outranks(k, l, change) ==
    LET current(a)   == a.change = change
        confirmed(a) == a.confirmed # "nobody"
    IN \/ current(k) /\ ~current(l)
       \/ current(k) = current(l) /\ confirmed(k) /\ ~confirmed(l)
       \/ current(k) = current(l) /\ confirmed(k) = confirmed(l) /\ k.id > l.id

StateOf(k, change) ==
    IF k.change # change THEN "stale"
    ELSE IF k.confirmed # "nobody" THEN "acknowledged"
    ELSE "proposed"

RowState(acks, shape, change) ==
    LET speaks == Speaks(acks, shape)
    IN IF speaks = {} THEN "uncovered"
       ELSE StateOf(CHOOSE k \in speaks : \A l \in speaks : ~Outranks(l, k, change),
                    change)

\* The verdict once the acknowledgements are counted.
Effective(shapes, acks, change) ==
    IF shapes = {} THEN "pass"
    ELSE IF \A s \in shapes : RowState(acks, s, change) = "acknowledged"
         THEN "acknowledged" ELSE "fail"
=============================================================================
