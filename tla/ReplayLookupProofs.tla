------------------------- MODULE ReplayLookupProofs -------------------------
(***************************************************************************)
(* Proofs about ReplayLookup, for every recording, candidate, policy and   *)
(* number of branches: no event is served twice, a candidate that does     *)
(* what was recorded is answered everywhere, and one call whose arguments  *)
(* moved disturbs no other.                                                *)
(***************************************************************************)
EXTENDS ReplayLookup, SequenceTheorems, FiniteSetTheorems, TLAPS

\* `s' is a sequence, whatever of.
Listed(s) == \E S : s \in Seq(S)

\* The events exact answers were given with.
Given == {calls[i].row : i \in {j \in DOMAIN calls : calls[j].how = "exact"}}

ServedInv ==
    /\ Listed(calls)
    /\ policy = "unset" => calls = <<>>
    /\ Tracking => Given \subseteq claimed
    /\ ServedOnce

-----------------------------------------------------------------------------
\* A sequence of anything takes anything more, at its end.
LEMMA AppendListed ==
    ASSUME NEW s, NEW e, Listed(s)
    PROVE  /\ Listed(Append(s, e))
           /\ DOMAIN Append(s, e) = DOMAIN s \cup {Len(s) + 1}
           /\ \A i \in DOMAIN s : Append(s, e)[i] = s[i]
           /\ Append(s, e)[Len(s) + 1] = e
           /\ Len(s) + 1 \notin DOMAIN s
<1>1. PICK S : s \in Seq(S)
  BY DEF Listed
<1>2. s \in Seq(S \cup {e})
  BY <1>1
<1>3. /\ Append(s, e) \in Seq(S \cup {e})
      /\ Len(Append(s, e)) = Len(s) + 1
      /\ \A i \in 1 .. Len(s) : Append(s, e)[i] = s[i]
      /\ Append(s, e)[Len(s) + 1] = e
  <2>1. e \in S \cup {e}
    OBVIOUS
  <2>2. QED
    BY <1>2, <2>1, AppendProperties
<1>4. /\ DOMAIN s = 1 .. Len(s) /\ Len(s) \in Nat
      /\ DOMAIN Append(s, e) = 1 .. Len(Append(s, e))
  BY <1>2, <1>3
<1>5. QED
  BY <1>3, <1>4 DEF Listed

\* The table is asked for unclaimed rows only: what an exact answer gives was
\* claimed by none before.
LEMMA ExactRowIsUnclaimed ==
    ASSUME NEW c, ExactRow(c) # 0
    PROVE  ExactRow(c) \notin claimed
BY Zenon DEF ExactRow, Strongest, Unclaimed

\* An exact answer is that row; any other one has another word for how.
LEMMA ExactAnswer ==
    ASSUME NEW c, NEW mode, Answer(c, mode).how = "exact"
    PROVE  Answer(c, mode).row \notin claimed
<1>1. ExactRow(c) # 0 /\ Answer(c, mode).row = ExactRow(c)
  BY DEF Answer
<1>2. QED
  BY <1>1, ExactRowIsUnclaimed

-----------------------------------------------------------------------------
LEMMA ServedInit == Init => ServedInv
<1> SUFFICES ASSUME Init PROVE ServedInv
  OBVIOUS
<1>1. calls = <<>>
  BY DEF Init
<1>2. DOMAIN calls = {} /\ Listed(calls)
  BY <1>1 DEF Listed
<1>3. QED
  BY <1>1, <1>2, Zenon DEF ServedInv, Given, ServedOnce

\* Until the candidate boots nothing is answered.
LEMMA ServedBeforeBoot ==
    ASSUME ServedInv, policy = "unset", calls' = calls
    PROVE  ServedInv'
<1>1. calls' = <<>> /\ Listed(calls')
  BY Zenon DEF ServedInv
<1>2. DOMAIN calls' = {}
  BY <1>1
<1>3. QED
  BY <1>1, <1>2, Zenon DEF ServedInv, Given, ServedOnce

LEMMA ServedResolve ==
    ASSUME ServedInv, NEW b \in Branches, NEW mode, Resolve(b, mode)
    PROVE  ServedInv'
<1> DEFINE c == Call(candidate, calls, b, place[b])
           a == Answer(c, mode)
           new == Answered(c, mode, a)
<1>1. /\ policy # "unset" /\ policy' = policy /\ tape' = tape
      /\ calls' = Append(calls, new)
      /\ claimed' = IF Tracking /\ a.how = "exact" THEN claimed \cup {a.row} ELSE claimed
  BY Zenon DEF Resolve
<1>2. new.how = a.how /\ new.row = a.row
  BY Zenon DEF Answered
<1>3. a.how = "exact" => a.row \notin claimed
  BY ExactAnswer, Zenon
<1> HIDE DEF c, a, new
<1>4. /\ Listed(calls')
      /\ DOMAIN calls' = DOMAIN calls \cup {Len(calls) + 1}
      /\ \A i \in DOMAIN calls : calls'[i] = calls[i]
      /\ calls'[Len(calls) + 1] = new
      /\ Len(calls) + 1 \notin DOMAIN calls
  BY <1>1, AppendListed DEF ServedInv
<1>5. Tracking' = Tracking
  BY <1>1, Zenon DEF Tracking
<1>6. ASSUME Tracking PROVE Given' \subseteq claimed'
  <2>1. SUFFICES ASSUME NEW i \in DOMAIN calls', calls'[i].how = "exact"
                 PROVE  calls'[i].row \in claimed'
    BY Zenon DEF Given
  <2>2. CASE i \in DOMAIN calls
    <3>1. calls[i].row \in claimed
      BY <1>4, <1>6, <2>1, <2>2 DEF ServedInv, Given
    <3>2. QED
      BY <1>1, <1>4, <2>2, <3>1
  <2>3. CASE i = Len(calls) + 1
    BY <1>1, <1>2, <1>4, <1>6, <2>1, <2>3
  <2>4. QED
    BY <1>4, <2>1, <2>2, <2>3
<1>7. ASSUME Tracking,
             NEW i \in DOMAIN calls', NEW j \in DOMAIN calls', i # j,
             calls'[i].how = "exact", calls'[j].how = "exact"
      PROVE  calls'[i].row # calls'[j].row
  <2>1. ASSUME NEW k \in DOMAIN calls, calls[k].how = "exact" PROVE calls[k].row \in claimed
    BY <1>7, <2>1 DEF ServedInv, Given
  <2>2. CASE i \in DOMAIN calls /\ j \in DOMAIN calls
    BY <1>4, <1>7, <2>2 DEF ServedInv, ServedOnce
  <2>3. CASE i \in DOMAIN calls /\ j = Len(calls) + 1
    BY <1>2, <1>3, <1>4, <1>7, <2>1, <2>3
  <2>4. CASE i = Len(calls) + 1 /\ j \in DOMAIN calls
    BY <1>2, <1>3, <1>4, <1>7, <2>1, <2>4
  <2>5. QED
    BY <1>4, <1>7, <2>2, <2>3, <2>4
<1>8. ServedOnce'
  BY <1>5, <1>7, Zenon DEF ServedOnce
<1>9. QED
  BY <1>1, <1>4, <1>5, <1>6, <1>8, Zenon DEF ServedInv

LEMMA ServedNext == ServedInv /\ [Next]_vars => ServedInv'
<1> SUFFICES ASSUME ServedInv, [Next]_vars PROVE ServedInv'
  OBVIOUS
<1>1. ASSUME NEW b \in Branches, Capture(b) PROVE ServedInv'
  BY <1>1, ServedBeforeBoot, Zenon DEF Capture
<1>2. ASSUME Boot PROVE ServedInv'
  BY <1>2, ServedBeforeBoot, Zenon DEF Boot
<1>3. ASSUME NEW b \in Branches, Resolve(b, "lookup") PROVE ServedInv'
  BY <1>3, ServedResolve, Zenon
<1>4. ASSUME NEW b \in Branches, Resolve(b, "execute") PROVE ServedInv'
  BY <1>4, ServedResolve, Zenon
<1>5. ASSUME UNCHANGED vars PROVE ServedInv'
  <2>1. calls' = calls /\ tape' = tape /\ policy' = policy /\ claimed' = claimed
    BY <1>5, Zenon DEF vars
  <2>2. QED
    BY <2>1, Zenon DEF ServedInv, Listed, Given, ServedOnce, Tracking
<1>6. CASE Next
  BY <1>1, <1>2, <1>3, <1>4, <1>5, <1>6, Zenon DEF Next, Done
<1>7. QED
  BY <1>5, <1>6, Zenon

\* However the candidate differs from the recording and whichever calls it
\* executes: on a tape with span instances no recorded event is the exact
\* answer of two calls.
THEOREM EventsServedOnce == Spec => []ServedOnce
<1>1. ServedInv => ServedOnce
  BY Zenon DEF ServedInv
<1>2. QED
  BY ServedInit, ServedNext, <1>1, PTL DEF Spec

-----------------------------------------------------------------------------
(* Counting.                                                               *)

\* Of a finite set of numbers, the elements below each are a set of their own
\* size, of every size there is.
LEMMA BelowGrows ==
    ASSUME NEW S \in SUBSET Nat, IsFiniteSet(S), NEW d \in S, NEW e \in S, d < e
    PROVE  Cardinality({x \in S : x < d}) < Cardinality({x \in S : x < e})
<1> DEFINE D == {x \in S : x < d}
           E == {x \in S : x < e}
<1>1. IsFiniteSet(E) /\ D \subseteq E /\ d \in E /\ d \notin D
  <2>1. E \in SUBSET S
    OBVIOUS
  <2>2. IsFiniteSet(E)
    BY <2>1, FS_Subset
  <2>3. d \in Nat /\ \A x \in S : x \in Nat
    OBVIOUS
  <2>4. \A x \in S : x < d => x < e
    BY <2>3
  <2>5. ~(d < d)
    BY <2>3
  <2> QED BY <2>2, <2>4, <2>5
<1>2. Cardinality(D) <= Cardinality(E) /\ (Cardinality(E) = Cardinality(D) => E = D)
  BY <1>1, FS_Subset
<1>3. Cardinality(D) \in Nat /\ Cardinality(E) \in Nat
  BY <1>1, FS_Subset, FS_CardinalityType
<1>4. E # D
  BY <1>1
<1> HIDE DEF D, E
<1>5. Cardinality(D) < Cardinality(E)
  BY <1>2, <1>3, <1>4
<1> QED BY <1>5 DEF D, E

LEMMA BelowAll ==
    ASSUME NEW S \in SUBSET Nat, IsFiniteSet(S), NEW k \in Nat, k < Cardinality(S)
    PROVE  \E e \in S : Cardinality({x \in S : x < e}) = k
<1> DEFINE f == [e \in S |-> Cardinality({x \in S : x < e})]
           c == Cardinality(S)
<1>1. c \in Nat
  BY FS_CardinalityType
<1>2. ASSUME NEW e \in S PROVE f[e] \in 0 .. c - 1
  <2> DEFINE E == {x \in S : x < e}
  <2>1. IsFiniteSet(E) /\ E \subseteq S /\ e \notin E
    <3>1. E \in SUBSET S
      OBVIOUS
    <3> QED BY <3>1, FS_Subset
  <2>2. Cardinality(E) <= c /\ (c = Cardinality(E) => S = E) /\ Cardinality(E) \in Nat
    BY <2>1, FS_Subset, FS_CardinalityType
  <2>3. S # E
    BY <2>1
  <2> HIDE DEF E
  <2>4. Cardinality(E) \in 0 .. c - 1
    BY <1>1, <2>2, <2>3
  <2> QED BY <2>4 DEF E
<1>3. ASSUME NEW d \in S, NEW e \in S, f[d] = f[e] PROVE d = e
  <2>1. d \in Nat /\ e \in Nat /\ f[d] \in Nat /\ f[e] \in Nat
    BY <1>1, <1>2
  <2>2. ~(d < e) /\ ~(e < d)
    BY <1>3, <2>1, BelowGrows
  <2> QED BY <2>1, <2>2
<1> HIDE DEF c
<1>4. f \in Injection(S, 0 .. c - 1)
  BY <1>2, <1>3 DEF Injection, IsInjective
<1>5. IsFiniteSet(0 .. c - 1) /\ Cardinality(0 .. c - 1) = c
  BY <1>1, FS_Interval
<1>6. f \in Surjection(S, 0 .. c - 1)
  BY <1>4, <1>5, FS_Injection DEF c
<1>7. k \in 0 .. c - 1
  BY <1>1 DEF c
<1>8. \E e \in S : f[e] = k
  BY <1>6, <1>7 DEF Surjection
<1> QED BY <1>8

-----------------------------------------------------------------------------
(* Programs and what became of them.                                       *)

\* The call is the one the program has there.
Says(c, w) == c.op = w.op /\ c.arg = w.arg /\ c.tag = w.tag /\ c.site = w.site

\* Each branch's calls in their order, with nothing left out.
Woven(s, program, instance) ==
    /\ Listed(s)
    /\ \A i \in DOMAIN s :
          /\ s[i].branch \in Branches /\ s[i].nth \in DOMAIN program[s[i].branch]
          /\ s[i].nth \in 1 .. Of(s[i].branch, s)
          /\ Says(s[i], program[s[i].branch][s[i].nth])
          /\ s[i].path = Path[s[i].branch] /\ s[i].instance = instance[s[i].branch]
    /\ \A i, j \in DOMAIN s :
          s[i].branch = s[j].branch => (i < j <=> s[i].nth < s[j].nth)
    /\ \A b \in Branches : \A n \in 1 .. Of(b, s) :
          \E i \in DOMAIN s : s[i].branch = b /\ s[i].nth = n

Programs == [Branches -> Seq(CallType)]

WeaveInv ==
    /\ script \in Recordings /\ script \in Programs /\ candidate \in Programs
    /\ place \in Creations
    /\ Woven(tape, script, [b \in Branches |-> IF legacy THEN None ELSE b])
    /\ Woven(calls, candidate, place)
    /\ policy # "unset" => Finished(script, tape)
    /\ policy = "unset" => calls = <<>> /\ claimed = {}
    /\ claimed \subseteq Given
    /\ claimed # {} => Tracking

LEMMA ListedDomain ==
    ASSUME NEW s, Listed(s)
    PROVE  Len(s) \in Nat /\ DOMAIN s = 1 .. Len(s)
BY DEF Listed

LEMMA OfMore ==
    ASSUME NEW s, Listed(s), NEW c, NEW b
    PROVE  /\ Of(b, s) \in Nat
           /\ Of(b, Append(s, c)) = IF c.branch = b THEN Of(b, s) + 1 ELSE Of(b, s)
<1> DEFINE A == {i \in DOMAIN s : s[i].branch = b}
           new == Append(s, c)
           B == {i \in DOMAIN new : new[i].branch = b}
           last == Len(s) + 1
<1>1. /\ DOMAIN new = DOMAIN s \cup {last} /\ last \notin DOMAIN s
      /\ \A i \in DOMAIN s : new[i] = s[i]
      /\ new[last] = c
  BY AppendListed
<1>2. IsFiniteSet(A)
  <2>1. IsFiniteSet(1 .. Len(s))
    BY ListedDomain, FS_Interval
  <2>2. A \in SUBSET (1 .. Len(s))
    BY ListedDomain
  <2> QED BY <2>1, <2>2, FS_Subset
<1>3. last \notin A
  BY <1>1
<1>4. B = IF c.branch = b THEN A \cup {last} ELSE A
  <2> HIDE DEF new, last
  <2> QED BY <1>1
<1> HIDE DEF A, B, new, last
<1>5. Cardinality(A) \in Nat /\ Cardinality(A \cup {last}) = Cardinality(A) + 1
  BY <1>2, <1>3, FS_CardinalityType, FS_AddElement
<1> QED BY <1>4, <1>5 DEF Of, A, B, new

LEMMA WovenMore ==
    ASSUME NEW s, NEW program, NEW instance, Woven(s, program, instance),
           NEW c, c.branch \in Branches, c.nth = Of(c.branch, s) + 1,
           c.nth \in DOMAIN program[c.branch], Says(c, program[c.branch][c.nth]),
           c.path = Path[c.branch], c.instance = instance[c.branch]
    PROVE  Woven(Append(s, c), program, instance)
<1> DEFINE new == Append(s, c)
           last == Len(s) + 1
<1>0. Listed(s) /\ DOMAIN s = 1 .. Len(s) /\ Len(s) \in Nat
  BY ListedDomain DEF Woven
<1>1. /\ Listed(new) /\ DOMAIN new = DOMAIN s \cup {last}
      /\ \A i \in DOMAIN s : new[i] = s[i]
      /\ new[last] = c /\ last \notin DOMAIN s
  BY <1>0, AppendListed
<1>2. \A b : /\ Of(b, s) \in Nat
             /\ Of(b, new) = IF c.branch = b THEN Of(b, s) + 1 ELSE Of(b, s)
  BY <1>0, OfMore
<1>3. \A i \in DOMAIN s : i < last /\ i \in Nat /\ last \in Nat
  BY <1>0
<1> HIDE DEF new, last
<1>4. ASSUME NEW i \in DOMAIN new
      PROVE  /\ new[i].branch \in Branches /\ new[i].nth \in DOMAIN program[new[i].branch]
             /\ new[i].nth \in 1 .. Of(new[i].branch, new)
             /\ Says(new[i], program[new[i].branch][new[i].nth])
             /\ new[i].path = Path[new[i].branch] /\ new[i].instance = instance[new[i].branch]
  <2>1. CASE i \in DOMAIN s
    <3>1. /\ s[i].branch \in Branches /\ s[i].nth \in DOMAIN program[s[i].branch]
          /\ s[i].nth \in 1 .. Of(s[i].branch, s)
          /\ Says(s[i], program[s[i].branch][s[i].nth])
          /\ s[i].path = Path[s[i].branch] /\ s[i].instance = instance[s[i].branch]
      BY <2>1 DEF Woven
    <3>2. s[i].nth \in 1 .. Of(s[i].branch, new)
      BY <1>2, <3>1
    <3> QED BY <1>1, <2>1, <3>1, <3>2
  <2>2. CASE i = last
    <3>1. c.nth \in 1 .. Of(c.branch, new)
      BY <1>2
    <3> QED BY <1>1, <2>2, <3>1
  <2> QED BY <1>1, <2>1, <2>2
<1>5. ASSUME NEW i \in DOMAIN new, NEW j \in DOMAIN new, new[i].branch = new[j].branch
      PROVE  i < j <=> new[i].nth < new[j].nth
  <2>1. CASE i \in DOMAIN s /\ j \in DOMAIN s
    BY <1>1, <1>5, <2>1 DEF Woven
  <2>2. ASSUME NEW k \in DOMAIN s, s[k].branch = c.branch
        PROVE  k < last /\ ~(last < k) /\ s[k].nth < c.nth /\ ~(c.nth < s[k].nth)
    <3>1. s[k].nth \in 1 .. Of(c.branch, s)
      BY <2>2 DEF Woven
    <3> QED BY <1>2, <1>3, <3>1
  <2>3. CASE i \in DOMAIN s /\ j = last
    BY <1>1, <1>5, <2>2, <2>3
  <2>4. CASE i = last /\ j \in DOMAIN s
    BY <1>1, <1>5, <2>2, <2>4
  <2>5. CASE i = last /\ j = last
    <3>1. ~(c.nth < c.nth) /\ ~(last < last)
      BY <1>0, <1>2 DEF last
    <3> QED BY <1>1, <2>5, <3>1
  <2> QED BY <1>1, <2>1, <2>3, <2>4, <2>5
<1>6. ASSUME NEW b \in Branches, NEW n \in 1 .. Of(b, new)
      PROVE  \E i \in DOMAIN new : new[i].branch = b /\ new[i].nth = n
  <2>1. CASE n \in 1 .. Of(b, s)
    <3>1. PICK i \in DOMAIN s : s[i].branch = b /\ s[i].nth = n
      BY <2>1 DEF Woven
    <3> QED BY <1>1, <3>1
  <2>2. CASE n \notin 1 .. Of(b, s)
    <3>1. b = c.branch /\ n = c.nth
      BY <1>2, <1>6, <2>2
    <3> QED BY <1>1, <3>1
  <2> QED BY <2>1, <2>2
<1>7. Woven(new, program, instance)
  BY <1>1, <1>4, <1>5, <1>6 DEF Woven
<1> QED BY <1>7 DEF new

LEMMA NothingWoven == \A program, instance : Woven(<<>>, program, instance)
<1>1. Listed(<<>>) /\ DOMAIN <<>> = {}
  BY DEF Listed
<1>2. \A b : Of(b, <<>>) = 0
  <2>1. \A b : {i \in DOMAIN <<>> : <<>>[i].branch = b} = {}
    BY <1>1
  <2> QED BY <2>1, FS_EmptySet DEF Of
<1>3. 1 .. 0 = {}
  OBVIOUS
<1> QED BY <1>1, <1>2, <1>3 DEF Woven

LEMMA WeaveInit == Init => WeaveInv
<1> SUFFICES ASSUME Init PROVE WeaveInv
  OBVIOUS
<1>1. script \in Recordings /\ script \in Programs /\ candidate \in Programs
  BY LookupAssumption DEF Init, Programs
<1>2. place \in Creations
  BY DEF Init, AsRecorded, Creations, Twins
<1>3. policy = "unset" /\ calls = <<>> /\ tape = <<>> /\ claimed = {}
  BY DEF Init
<1>4. Woven(tape, script, [b \in Branches |-> IF legacy THEN None ELSE b])
  BY <1>3, NothingWoven
<1>5. Woven(calls, candidate, place)
  BY <1>3, NothingWoven
<1> QED BY <1>1, <1>2, <1>3, <1>4, <1>5 DEF WeaveInv

\* The next call of a branch that is not done.
LEMMA CallSays ==
    ASSUME NEW program \in Programs, NEW s, Listed(s), NEW b \in Branches, NEW instance,
           Of(b, s) < Len(program[b]), NEW c, c = Call(program, s, b, instance)
    PROVE  /\ c.branch = b /\ c.nth = Of(b, s) + 1
           /\ c.nth \in DOMAIN program[b] /\ Says(c, program[b][c.nth])
           /\ c.path = Path[b] /\ c.instance = instance
<1>1. program[b] \in Seq(CallType)
  BY DEF Programs
<1>2. DOMAIN program[b] = 1 .. Len(program[b]) /\ Len(program[b]) \in Nat
  BY <1>1
<1>3. Of(b, s) \in Nat
  BY OfMore
<1>4. Of(b, s) + 1 \in DOMAIN program[b]
  BY <1>2, <1>3
<1> QED BY <1>4 DEF Call, Says

LEMMA WeaveCapture == ASSUME WeaveInv, NEW b \in Branches, Capture(b) PROVE WeaveInv'
<1>1. PICK c : c = Call(script, tape, b, IF legacy THEN None ELSE b)
  OBVIOUS
<1>2. /\ policy = "unset" /\ Of(b, tape) < Len(script[b]) /\ tape' = Append(tape, c)
      /\ UNCHANGED <<script, legacy, candidate, place, policy, calls, claimed>>
  BY <1>1 DEF Capture
<1>3. PICK instance : instance = [x \in Branches |-> IF legacy THEN None ELSE x]
  OBVIOUS
<1>4. Woven(tape, script, instance) /\ Listed(tape) /\ script \in Programs
  BY <1>3 DEF WeaveInv, Woven
<1>5. /\ c.branch = b /\ c.nth = Of(b, tape) + 1
      /\ c.nth \in DOMAIN script[b] /\ Says(c, script[b][c.nth])
      /\ c.path = Path[b] /\ c.instance = (IF legacy THEN None ELSE b)
  BY <1>1, <1>2, <1>4, CallSays
<1>6. Woven(tape', script, instance)
  BY <1>2, <1>3, <1>4, <1>5, WovenMore
<1>7. Woven(tape, script, [x \in Branches |-> IF legacy THEN None ELSE x])'
  BY <1>2, <1>3, <1>6 DEF Woven
<1>8. Woven(calls, candidate, place)'
  BY <1>2 DEF WeaveInv, Woven
<1>9. calls = <<>> /\ claimed = {}
  BY <1>2 DEF WeaveInv
<1>10. claimed' \subseteq Given'
  BY <1>2, <1>9
<1>11. place' \in Creations'
  BY <1>2 DEF WeaveInv, Creations, Twins
<1> QED BY <1>2, <1>7, <1>8, <1>9, <1>10, <1>11 DEF WeaveInv, Programs

LEMMA WeaveBoot == ASSUME WeaveInv, Boot PROVE WeaveInv'
<1>1. /\ policy = "unset" /\ Finished(script, tape) /\ policy' \in Policies
      /\ candidate' \in Candidates[script] \cup {script} /\ place' \in Creations
      /\ UNCHANGED <<script, tape, legacy, calls, claimed>>
  BY DEF Boot
<1>2. policy' # "unset"
  BY <1>1, LookupAssumption
<1>3. candidate' \in Programs
  BY <1>1, LookupAssumption DEF WeaveInv, Programs
<1>4. Woven(tape, script, [x \in Branches |-> IF legacy THEN None ELSE x])'
  BY <1>1 DEF WeaveInv, Woven
<1>5. calls' = <<>> /\ claimed' = {}
  BY <1>1 DEF WeaveInv
<1>6. Woven(calls, candidate, place)'
  BY <1>5, NothingWoven
<1> QED BY <1>1, <1>2, <1>3, <1>4, <1>5, <1>6 DEF WeaveInv, Finished, Programs

LEMMA WeaveResolve ==
    ASSUME WeaveInv, NEW b \in Branches, NEW mode, Resolve(b, mode)
    PROVE  WeaveInv'
<1>1. PICK c : c = Call(candidate, calls, b, place[b])
  OBVIOUS
<1>2. PICK a : a = Answer(c, mode)
  OBVIOUS
<1>3. PICK new : new = Answered(c, mode, a)
  OBVIOUS
<1>4. /\ policy # "unset" /\ Of(b, calls) < Len(candidate[b]) /\ calls' = Append(calls, new)
      /\ claimed' = IF Tracking /\ a.how = "exact" THEN claimed \cup {a.row} ELSE claimed
      /\ UNCHANGED <<script, tape, legacy, candidate, place, policy>>
  BY <1>1, <1>2, <1>3 DEF Resolve
<1>5. Woven(calls, candidate, place) /\ Listed(calls) /\ candidate \in Programs
  BY DEF WeaveInv, Woven
<1>6. /\ c.branch = b /\ c.nth = Of(b, calls) + 1
      /\ c.nth \in DOMAIN candidate[b] /\ Says(c, candidate[b][c.nth])
      /\ c.path = Path[b] /\ c.instance = place[b]
  BY <1>1, <1>4, <1>5, CallSays
<1>7. /\ new.branch = c.branch /\ new.nth = c.nth /\ new.path = c.path
      /\ new.instance = c.instance /\ Says(new, candidate[b][c.nth])
      /\ new.how = a.how /\ new.row = a.row
  BY <1>3, <1>6 DEF Answered, Says
<1>8. Woven(calls', candidate, place)
  BY <1>4, <1>5, <1>6, <1>7, WovenMore
<1>9. Woven(calls, candidate, place)'
  BY <1>4, <1>8 DEF Woven
<1>10. Woven(tape, script, [x \in Branches |-> IF legacy THEN None ELSE x])'
  BY <1>4 DEF WeaveInv, Woven
<1>11. /\ DOMAIN calls' = DOMAIN calls \cup {Len(calls) + 1}
       /\ \A i \in DOMAIN calls : calls'[i] = calls[i]
       /\ calls'[Len(calls) + 1] = new
  BY <1>4, <1>5, AppendListed
<1>12. Given' = IF a.how = "exact" THEN Given \cup {a.row} ELSE Given
  BY <1>7, <1>11 DEF Given
<1>13. claimed' \subseteq Given' /\ (claimed' # {} => Tracking')
  BY <1>4, <1>12 DEF WeaveInv, Tracking
<1>14. place' \in Creations' /\ Finished(script, tape)'
  BY <1>4 DEF WeaveInv, Creations, Twins, Finished
<1> QED BY <1>4, <1>9, <1>10, <1>13, <1>14 DEF WeaveInv, Programs

LEMMA WeaveRests == ASSUME WeaveInv, UNCHANGED vars PROVE WeaveInv'
<1>1. UNCHANGED <<script, tape, legacy, candidate, place, policy, calls, claimed>>
  BY DEF vars
<1>2. Woven(tape, script, [x \in Branches |-> IF legacy THEN None ELSE x])'
  BY <1>1 DEF WeaveInv, Woven
<1>3. Woven(calls, candidate, place)'
  BY <1>1 DEF WeaveInv, Woven
<1> QED BY <1>1, <1>2, <1>3
        DEF WeaveInv, Programs, Creations, Twins, Finished, Given, Tracking

-----------------------------------------------------------------------------
(* Addresses.                                                              *)

\* How many of the first m calls share the scope of c at l.
Count(s, m, l, c, by) ==
    Cardinality({j \in 1 .. m : At(s[j], l) /\ Scope(s[j], by) = Scope(c, by)})

\* The rows at an address that are nobody's.
Open(c, l, by) == Unclaimed(Rows(c, l, by, Occurrence(c, calls, l, by)))

LEMMA OccurrenceIs ==
    ASSUME NEW s, Listed(s), NEW c, NEW l, NEW by
    PROVE  Occurrence(c, s, l, by) = Count(s, Len(s), l, c, by)
BY ListedDomain DEF Occurrence, Count

LEMMA PrefixListed ==
    ASSUME NEW s, Listed(s), NEW e \in DOMAIN s
    PROVE  /\ DOMAIN SubSeq(s, 1, e - 1) = 1 .. e - 1
           /\ \A j \in 1 .. e - 1 : SubSeq(s, 1, e - 1)[j] = s[j]
<1>1. PICK S : s \in Seq(S)
  BY DEF Listed
<1>2. e \in 1 .. Len(s) /\ Len(s) \in Nat
  BY ListedDomain
<1>3. /\ SubSeq(s, 1, e - 1) \in Seq(S) /\ Len(SubSeq(s, 1, e - 1)) = e - 1
      /\ \A j \in 1 .. e - 1 : SubSeq(s, 1, e - 1)[j] = s[j]
  BY <1>1, <1>2, SubSeqProperties
<1> QED BY <1>2, <1>3

LEMMA RowsAre ==
    ASSUME Listed(tape), NEW c, NEW l, NEW by, NEW k
    PROVE  Rows(c, l, by, k) =
              {e \in DOMAIN tape : /\ At(tape[e], l) /\ Scope(tape[e], by) = Scope(c, by)
                                   /\ Count(tape, e - 1, l, c, by) = k}
<1>1. ASSUME NEW e \in DOMAIN tape, Scope(tape[e], by) = Scope(c, by)
      PROVE  Occurrence(tape[e], SubSeq(tape, 1, e - 1), l, by) = Count(tape, e - 1, l, c, by)
  <2> DEFINE sub == SubSeq(tape, 1, e - 1)
  <2>1. DOMAIN sub = 1 .. e - 1 /\ \A j \in 1 .. e - 1 : sub[j] = tape[j]
    BY PrefixListed
  <2> HIDE DEF sub
  <2>2. {j \in DOMAIN sub : At(sub[j], l) /\ Scope(sub[j], by) = Scope(tape[e], by)}
          = {j \in 1 .. e - 1 : At(tape[j], l) /\ Scope(tape[j], by) = Scope(c, by)}
    BY <1>1, <2>1
  <2>3. Occurrence(tape[e], sub, l, by) = Count(tape, e - 1, l, c, by)
    BY <2>2 DEF Occurrence, Count
  <2> QED BY <2>3 DEF sub
<1> QED BY <1>1 DEF Rows

\* The loci with nothing open at a stronger one.
Best(c, by) == {m \in Loci(c) :
                  \A k \in Loci(c) : Stronger(k, m) => Open(c, k, by) = {}}

FromBest(c, by) == UNION {Open(c, m, by) : m \in Best(c, by)}

LEMMA StrongestIs ==
    ASSUME NEW c, NEW by
    PROVE  Strongest(c, by) = IF FromBest(c, by) = {} THEN 0
                              ELSE CHOOSE e \in FromBest(c, by) : TRUE
<1> DEFINE stands(l) == IF by = "any" THEN ArgFreeOccurrence(c, calls, l)
                        ELSE Occurrence(c, calls, l, by)
           open(l) == Unclaimed(Rows(c, l, by, stands(l)))
           first   == UNION {open(l) : l \in {m \in Loci(c) :
                                \A k \in Loci(c) : Stronger(k, m) => open(k) = {}}}
<1>1. \A l : stands(l) = Occurrence(c, calls, l, by)
  BY DEF ArgFreeOccurrence
<1>2. \A l : open(l) = Open(c, l, by)
  BY <1>1 DEF Open
<1>3. Strongest(c, by) = IF first = {} THEN 0 ELSE CHOOSE e \in first : TRUE
  BY Zenon DEF Strongest
<1> HIDE DEF open
<1>4. first = FromBest(c, by)
  BY <1>2 DEF FromBest, Best
<1> HIDE DEF first
<1> QED BY <1>3, <1>4

LEMMA StrongestAt ==
    ASSUME NEW c, NEW by, NEW l \in Loci(c), Open(c, l, by) # {},
           \A m \in Loci(c) : Stronger(m, l) => Open(c, m, by) = {}
    PROVE  Strongest(c, by) \in Open(c, l, by)
<1>1. \A m \in Loci(c) : m = l \/ Stronger(m, l) \/ Stronger(l, m)
  BY DEF Loci, Stronger, Order
<1>2. l \in Best(c, by)
  BY DEF Best
<1>3. \A m \in Best(c, by) : m = l \/ Open(c, m, by) = {}
  BY <1>1 DEF Best
<1>4. FromBest(c, by) = Open(c, l, by)
  BY <1>2, <1>3 DEF FromBest
<1> QED BY <1>4, StrongestIs

LEMMA StrongestNowhere ==
    ASSUME NEW c, NEW by, \A l \in Loci(c) : Open(c, l, by) = {}
    PROVE  Strongest(c, by) = 0
<1>1. FromBest(c, by) = {}
  BY DEF FromBest, Best
<1> QED BY <1>1, StrongestIs

-----------------------------------------------------------------------------
(* A candidate that moved some arguments.                                  *)

Unmoved(b, n) == candidate[b][n] = script[b][n]

\* What OnlyMoved says of one call, of any number of them.
Moved(b, n) ==
    LET was == script[b][n]
        now == candidate[b][n]
    IN /\ now.op = was.op /\ was.tag = None /\ now.tag = None
       /\ was.op \notin Entropy /\ AllowsArgMismatch(now.arg)
       /\ \A e \in DOMAIN tape : ByIdentity(tape[e]) # ByIdentity(now)
       /\ \A m \in DOMAIN script[b] : ByIdentity(script[b][m]) = ByIdentity(was) => m = n

Alike ==
    /\ policy # "unset"
    /\ \A b \in Branches : /\ DOMAIN candidate[b] = DOMAIN script[b]
                           /\ \A n \in DOMAIN script[b] : Unmoved(b, n) \/ Moved(b, n)
    /\ IF legacy THEN candidate = script /\ Untagged ELSE Unraced

\* A call of the candidate.
IsCall(c) ==
    /\ c.branch \in Branches /\ c.nth \in DOMAIN candidate[c.branch]
    /\ Says(c, candidate[c.branch][c.nth])
    /\ c.path = Path[c.branch] /\ c.instance = place[c.branch]

\* The event recorded at that point.
Recorded(c) == CHOOSE e \in DOMAIN tape : tape[e].branch = c.branch /\ tape[e].nth = c.nth

\* The locus that finds its row.
Home(c) == IF c.tag # None THEN [kind |-> "declared", at |-> c.tag]
           ELSE IF legacy THEN [kind |-> "path", at |-> c.path]
           ELSE [kind |-> "instance", at |-> c.instance]

LEMMA RecordedIs ==
    ASSUME WeaveInv, Alike, NEW c, IsCall(c)
    PROVE  /\ Recorded(c) \in DOMAIN tape
           /\ tape[Recorded(c)].branch = c.branch /\ tape[Recorded(c)].nth = c.nth
<1>1. Of(c.branch, tape) = Len(script[c.branch]) /\ script[c.branch] \in Seq(CallType)
  BY DEF WeaveInv, Alike, Finished, IsCall, Programs
<1>2. DOMAIN script[c.branch] = 1 .. Of(c.branch, tape)
  BY <1>1
<1>3. c.nth \in 1 .. Of(c.branch, tape)
  BY <1>2 DEF Alike, IsCall
<1>4. \E e \in DOMAIN tape : tape[e].branch = c.branch /\ tape[e].nth = c.nth
  BY <1>3 DEF WeaveInv, Woven, IsCall
<1> QED BY <1>4 DEF Recorded

\* One event for each place in the program.
LEMMA EventIs ==
    ASSUME WeaveInv, NEW e \in DOMAIN tape
    PROVE  /\ tape[e].branch \in Branches /\ tape[e].nth \in DOMAIN script[tape[e].branch]
           /\ Says(tape[e], script[tape[e].branch][tape[e].nth])
           /\ tape[e].path = Path[tape[e].branch]
           /\ tape[e].instance = IF legacy THEN None ELSE tape[e].branch
           /\ \A d \in DOMAIN tape :
                 tape[d].branch = tape[e].branch /\ tape[d].nth = tape[e].nth => d = e
<1>1. DOMAIN tape = 1 .. Len(tape)
  BY ListedDomain DEF WeaveInv, Woven
<1>2. /\ tape[e].branch \in Branches /\ tape[e].nth \in DOMAIN script[tape[e].branch]
      /\ Says(tape[e], script[tape[e].branch][tape[e].nth])
      /\ tape[e].path = Path[tape[e].branch]
      /\ tape[e].instance = IF legacy THEN None ELSE tape[e].branch
      /\ tape[e].nth \in 1 .. Of(tape[e].branch, tape)
  BY DEF WeaveInv, Woven
<1>3. ASSUME NEW d \in DOMAIN tape, tape[d].branch = tape[e].branch, tape[d].nth = tape[e].nth
      PROVE  d = e
  <2>1. (d < e <=> tape[d].nth < tape[e].nth) /\ (e < d <=> tape[e].nth < tape[d].nth)
    BY <1>3 DEF WeaveInv, Woven
  <2>2. ~(tape[e].nth < tape[e].nth)
    BY <1>2
  <2>3. ~(d < e) /\ ~(e < d)
    BY <1>3, <2>1, <2>2
  <2> QED BY <1>1, <2>3
<1> QED BY <1>2, <1>3

\* A call that did not move is the one that was recorded.
LEMMA RecordedSays ==
    ASSUME WeaveInv, Alike, NEW c, IsCall(c)
    PROVE  LET x == tape[Recorded(c)]
           IN /\ x.op = c.op /\ x.tag = c.tag /\ x.path = c.path
              /\ Unmoved(c.branch, c.nth) => x.arg = c.arg /\ ByIdentity(x) = ByIdentity(c)
              /\ IF legacy THEN x.tag = None /\ x.instance = None
                 ELSE x.instance = c.instance /\ c.instance = c.branch
<1>1. PICK x : x = tape[Recorded(c)]
  OBVIOUS
<1>2. /\ x.branch = c.branch /\ x.nth = c.nth /\ Says(x, script[c.branch][c.nth])
      /\ x.path = c.path /\ x.instance = IF legacy THEN None ELSE c.branch
      /\ c.nth \in DOMAIN script[c.branch] /\ c.branch \in Branches
      /\ Recorded(c) \in DOMAIN tape
  BY <1>1, RecordedIs, EventIs DEF IsCall
<1>3. x.op = c.op /\ x.tag = c.tag
  BY <1>2 DEF Alike, Unmoved, Moved, Says, IsCall
<1>4. Unmoved(c.branch, c.nth) => x.arg = c.arg
  BY <1>2 DEF Unmoved, Says, IsCall
<1>5. Unmoved(c.branch, c.nth) => ByIdentity(x) = ByIdentity(c)
  BY <1>3, <1>4 DEF ByIdentity, Exact
<1>6. IF legacy THEN x.tag = None /\ x.instance = None
      ELSE x.instance = c.instance /\ c.instance = c.branch
  BY <1>1, <1>2 DEF Alike, Untagged, Unraced, AsRecorded, IsCall
<1> QED BY <1>1, <1>2, <1>3, <1>4, <1>5, <1>6

LEMMA HomeIs ==
    ASSUME WeaveInv, Alike, NEW c, IsCall(c)
    PROVE  /\ Home(c) \in Loci(c) /\ At(c, Home(c))
           /\ \A x : At(x, Home(c)) <=>
                 IF c.tag # None THEN x.tag = c.tag
                 ELSE IF legacy THEN x.path = c.path ELSE x.instance = c.instance
           /\ \A m \in Loci(c), e \in DOMAIN tape : Stronger(m, Home(c)) => ~At(tape[e], m)
<1>1. c.path # None /\ c.instance # None
  BY LookupAssumption DEF IsCall, WeaveInv, Creations
<1>2. \A x : At(x, Home(c)) <=>
                 IF c.tag # None THEN x.tag = c.tag
                 ELSE IF legacy THEN x.path = c.path ELSE x.instance = c.instance
  BY <1>1 DEF At, Loci, Home
<1>3. At(c, Home(c))
  BY <1>2
<1>4. ASSUME NEW m \in Loci(c), Stronger(m, Home(c)) PROVE legacy /\ m.kind = "instance"
  BY <1>4 DEF Loci, Stronger, Order, Home
<1>5. ASSUME legacy, NEW m, m.kind = "instance", NEW e \in DOMAIN tape PROVE ~At(tape[e], m)
  <2>1. tape[e].instance = None
    BY <1>5, EventIs
  <2> QED BY <1>5, <2>1 DEF At, Loci
<1> QED BY <1>2, <1>3, <1>4, <1>5 DEF At

-----------------------------------------------------------------------------
(* Where a call finds its row.                                             *)

\* One of the next calls.
IsNext(c) == IsCall(c) /\ c.nth = Of(c.branch, calls) + 1

LEMMA CallIs ==
    ASSUME WeaveInv, NEW i \in DOMAIN calls
    PROVE  /\ IsCall(calls[i])
           /\ \A j \in DOMAIN calls :
                 calls[j].branch = calls[i].branch /\ calls[j].nth = calls[i].nth => i = j
<1>1. DOMAIN calls = 1 .. Len(calls)
  BY ListedDomain DEF WeaveInv, Woven
<1>2. /\ calls[i].branch \in Branches /\ calls[i].nth \in DOMAIN candidate[calls[i].branch]
      /\ Says(calls[i], candidate[calls[i].branch][calls[i].nth])
      /\ calls[i].path = Path[calls[i].branch] /\ calls[i].instance = place[calls[i].branch]
      /\ calls[i].nth \in 1 .. Of(calls[i].branch, calls)
  BY DEF WeaveInv, Woven
<1>3. ASSUME NEW j \in DOMAIN calls, calls[j].branch = calls[i].branch, calls[j].nth = calls[i].nth
      PROVE  i = j
  <2>1. (j < i <=> calls[j].nth < calls[i].nth) /\ (i < j <=> calls[i].nth < calls[j].nth)
    BY <1>3 DEF WeaveInv, Woven
  <2>2. ~(calls[i].nth < calls[i].nth)
    BY <1>2
  <2>3. ~(j < i) /\ ~(i < j)
    BY <1>3, <2>1, <2>2
  <2> QED BY <1>1, <2>3
<1> QED BY <1>2, <1>3 DEF IsCall

LEMMA NextIsNew ==
    ASSUME WeaveInv, NEW c, IsNext(c), NEW j \in DOMAIN calls, calls[j].branch = c.branch
    PROVE  calls[j].nth < c.nth /\ calls[j].nth # c.nth /\ calls[j].nth \in Nat /\ c.nth \in Nat
<1>1. calls[j].nth \in 1 .. Of(c.branch, calls)
  BY DEF WeaveInv, Woven
<1>2. Of(c.branch, calls) \in Nat
  BY OfMore DEF WeaveInv, Woven
<1> QED BY <1>1, <1>2 DEF IsNext

LEMMA SaysIdentity ==
    ASSUME NEW c, NEW w, Says(c, w)
    PROVE  ByIdentity(c) = ByIdentity(w)
BY DEF Says, ByIdentity, Exact

\* A call that moved has nobody's arguments.
LEMMA SharerIsUnmoved ==
    ASSUME WeaveInv, Alike, NEW c, IsCall(c), NEW e \in DOMAIN tape,
           ByIdentity(tape[e]) = ByIdentity(c)
    PROVE  Unmoved(c.branch, c.nth)
<1>1. ByIdentity(c) = ByIdentity(candidate[c.branch][c.nth])
  BY SaysIdentity DEF IsCall
<1> QED BY <1>1 DEF Alike, Moved, IsCall

\* The table a call is looked up in groups the calls by identity.
LEMMA SameScope ==
    ASSUME WeaveInv, Alike, NEW c, IsCall(c), Unmoved(c.branch, c.nth),
           NEW by, by = IF HasIdentities /\ c.arg \in SetLike THEN "identity" ELSE "exact"
    PROVE  \A x : Scope(x, by) = Scope(c, by) <=> Scope(x, "identity") = Scope(c, "identity")
<1>1. c.arg \in SetLike => HasIdentities
  BY RecordedIs, RecordedSays DEF HasIdentities
<1>2. CASE c.arg \in SetLike
  BY <1>1, <1>2
<1>3. CASE c.arg \notin SetLike
  <2>1. by = "exact"
    BY <1>3
  <2>2. \A x : Exact(x) = Exact(c) <=> x.op = c.op /\ x.arg = c.arg
    BY DEF Exact
  <2>3. \A x : x.arg \in SetLike => ByIdentity(x) # ByIdentity(c)
    <3>1. \A u, v, p, q : <<u, "set", v>> # <<p, q>>
      OBVIOUS
    <3> QED BY <1>3, <3>1 DEF ByIdentity, Exact
  <2>4. \A x : x.arg \notin SetLike => (ByIdentity(x) = ByIdentity(c) <=> Exact(x) = Exact(c))
    BY <1>3 DEF ByIdentity
  <2>5. \A x : ByIdentity(x) = ByIdentity(c) <=> Exact(x) = Exact(c)
    BY <1>3, <2>2, <2>3, <2>4
  <2> QED BY <2>1, <2>5 DEF Scope
<1> QED BY <1>2, <1>3

LEMMA SameOpen ==
    ASSUME WeaveInv, NEW c, NEW by, NEW l,
           \A x : Scope(x, by) = Scope(c, by) <=> Scope(x, "identity") = Scope(c, "identity")
    PROVE  Open(c, l, by) = Open(c, l, "identity")
<1>1. Listed(tape) /\ Listed(calls)
  BY DEF WeaveInv, Woven
<1>2. \A s, m : Count(s, m, l, c, by) = Count(s, m, l, c, "identity")
  BY DEF Count
<1>3. Occurrence(c, calls, l, by) = Occurrence(c, calls, l, "identity")
  BY <1>1, <1>2, OccurrenceIs
<1>4. \A k : Rows(c, l, by, k) = Rows(c, l, "identity", k)
  BY <1>1, <1>2, RowsAre
<1> QED BY <1>3, <1>4 DEF Open

\* The events of a scope.
Sharing(c, l, by) == {e \in DOMAIN tape : At(tape[e], l) /\ Scope(tape[e], by) = Scope(c, by)}

LEMMA SharingIs ==
    ASSUME WeaveInv, NEW c, NEW l, NEW by
    PROVE  /\ Sharing(c, l, by) \in SUBSET Nat /\ IsFiniteSet(Sharing(c, l, by))
           /\ \A e \in DOMAIN tape : Count(tape, e - 1, l, c, by)
                                       = Cardinality({x \in Sharing(c, l, by) : x < e})
<1>1. DOMAIN tape = 1 .. Len(tape) /\ Len(tape) \in Nat
  BY ListedDomain DEF WeaveInv, Woven
<1>2. Sharing(c, l, by) \in SUBSET (1 .. Len(tape))
  BY <1>1 DEF Sharing
<1>3. IsFiniteSet(Sharing(c, l, by))
  <2>1. IsFiniteSet(1 .. Len(tape))
    BY <1>1, FS_Interval
  <2> QED BY <1>2, <2>1, FS_Subset
<1>4. ASSUME NEW e \in DOMAIN tape
      PROVE  Count(tape, e - 1, l, c, by) = Cardinality({x \in Sharing(c, l, by) : x < e})
  <2>1. \A x : x \in 1 .. e - 1 <=> x \in DOMAIN tape /\ x < e
    BY <1>1
  <2>2. {x \in 1 .. e - 1 : At(tape[x], l) /\ Scope(tape[x], by) = Scope(c, by)}
          = {x \in Sharing(c, l, by) : x < e}
    BY <2>1 DEF Sharing
  <2> QED BY <2>2 DEF Count
<1> QED BY <1>1, <1>2, <1>3, <1>4

\* Each call of a scope has its event in it, and the next call has one more.
LEMMA RowThere ==
    ASSUME WeaveInv, Alike, NEW c, IsNext(c), Unmoved(c.branch, c.nth)
    PROVE  Rows(c, Home(c), "identity", Occurrence(c, calls, Home(c), "identity")) # {}
<1> DEFINE l == Home(c)
           T == Sharing(c, l, "identity")
           S == {j \in 1 .. Len(calls) :
                   At(calls[j], l) /\ Scope(calls[j], "identity") = Scope(c, "identity")}
           g == [j \in S |-> Recorded(calls[j])]
           r == Recorded(c)
<1>0. /\ DOMAIN calls = 1 .. Len(calls) /\ Len(calls) \in Nat /\ Listed(calls) /\ Listed(tape)
      /\ IsCall(c) /\ \A x : Scope(x, "identity") = ByIdentity(x)
  BY ListedDomain DEF WeaveInv, Woven, IsNext, Scope
<1>1. T \in SUBSET Nat /\ IsFiniteSet(T)
  BY SharingIs
<1>2. r \in T
  <2>1. r \in DOMAIN tape /\ ByIdentity(tape[r]) = ByIdentity(c)
    BY <1>0, RecordedIs, RecordedSays
  <2>2. At(tape[r], l)
    BY <1>0, HomeIs, RecordedSays
  <2> QED BY <1>0, <2>1, <2>2 DEF Sharing
<1>3. ASSUME NEW j \in S PROVE g[j] \in T \ {r}
  <2>1. j \in DOMAIN calls /\ IsCall(calls[j]) /\ ByIdentity(calls[j]) = ByIdentity(c)
        /\ At(calls[j], l) /\ g[j] = Recorded(calls[j])
    BY <1>0, CallIs
  <2>2. Unmoved(calls[j].branch, calls[j].nth)
    BY <1>0, <2>1, RecordedIs, RecordedSays, SharerIsUnmoved
  <2>3. ByIdentity(tape[g[j]]) = ByIdentity(c) /\ g[j] \in DOMAIN tape
    BY <2>1, <2>2, RecordedIs, RecordedSays
  <2>4. At(tape[g[j]], l)
    BY <1>0, <2>1, HomeIs, RecordedSays
  <2>5. g[j] # r
    BY <1>0, <2>1, RecordedIs, NextIsNew
  <2> QED BY <1>0, <2>3, <2>4, <2>5 DEF Sharing
<1>4. ASSUME NEW i \in S, NEW j \in S, g[i] = g[j] PROVE i = j
  <2>1. /\ i \in DOMAIN calls /\ j \in DOMAIN calls /\ IsCall(calls[i]) /\ IsCall(calls[j])
        /\ Recorded(calls[i]) = Recorded(calls[j])
    BY <1>0, <1>4, CallIs
  <2>2. calls[i].branch = calls[j].branch /\ calls[i].nth = calls[j].nth
    BY <2>1, RecordedIs
  <2> QED BY <2>1, <2>2, CallIs
<1>5. g \in Injection(S, T \ {r})
  BY <1>3, <1>4 DEF Injection, IsInjective
<1>6. IsFiniteSet(T \ {r}) /\ Cardinality(T \ {r}) = Cardinality(T) - 1
  BY <1>1, <1>2, FS_RemoveElement
<1>7. IsFiniteSet(S) /\ Cardinality(S) <= Cardinality(T \ {r})
  BY <1>5, <1>6, FS_Injection
<1>8. Cardinality(S) \in Nat /\ Cardinality(T) \in Nat
  BY <1>1, <1>7, FS_CardinalityType
<1>9. Occurrence(c, calls, l, "identity") = Cardinality(S)
  BY <1>0, OccurrenceIs DEF Count
<1> HIDE DEF T, S, g, r, l
<1>10. PICK e \in T : Cardinality({x \in T : x < e}) = Cardinality(S)
  <2>1. Cardinality(S) < Cardinality(T)
    BY <1>6, <1>7, <1>8
  <2> QED BY <1>1, <1>8, <2>1, BelowAll
<1>11. e \in Rows(c, l, "identity", Cardinality(S))
  <2>1. /\ e \in DOMAIN tape /\ At(tape[e], l)
        /\ Scope(tape[e], "identity") = Scope(c, "identity")
    BY <1>10 DEF T, Sharing
  <2>2. Count(tape, e - 1, l, c, "identity") = Cardinality(S)
    BY <1>10, <2>1, SharingIs DEF T
  <2> QED BY <1>0, <2>1, <2>2, RowsAre
<1> QED BY <1>9, <1>11 DEF l

\* Where the locus is the branch's own, the row is the event of that point:
\* before it both sides counted the same calls of the branch.
LEMMA OwnRow ==
    ASSUME WeaveInv, Alike, ~legacy, NEW c, IsNext(c), c.tag = None,
           NEW by \in {"identity", "any"}, by = "identity" => Unmoved(c.branch, c.nth)
    PROVE  Rows(c, Home(c), by, Occurrence(c, calls, Home(c), by)) = {Recorded(c)}
<1> DEFINE l == Home(c)
           T == Sharing(c, l, by)
           S == {j \in 1 .. Len(calls) : At(calls[j], l) /\ Scope(calls[j], by) = Scope(c, by)}
           r == Recorded(c)
           B == {x \in T : x < r}
           g == [j \in S |-> Recorded(calls[j])]
<1>0. /\ DOMAIN calls = 1 .. Len(calls) /\ Listed(calls) /\ Listed(tape) /\ IsCall(c)
      /\ DOMAIN tape = 1 .. Len(tape)
  BY ListedDomain DEF WeaveInv, Woven, IsNext
<1>1. \A x : Scope(x, by) = IF by = "any" THEN <<x.op>> ELSE ByIdentity(x)
  BY DEF Scope, AnyArgs
<1>2. \A x : At(x, l) <=> x.instance = c.branch
  BY <1>0, HomeIs, RecordedSays
<1>3. /\ r \in T /\ r \in DOMAIN tape
      /\ tape[r].branch = c.branch /\ tape[r].nth = c.nth
  <2>1. /\ r \in DOMAIN tape /\ tape[r].branch = c.branch /\ tape[r].nth = c.nth
        /\ tape[r].op = c.op /\ tape[r].instance = c.branch
        /\ Unmoved(c.branch, c.nth) => ByIdentity(tape[r]) = ByIdentity(c)
    BY <1>0, RecordedIs, RecordedSays
  <2> QED BY <1>1, <1>2, <2>1 DEF Sharing
<1>4. ASSUME NEW j \in S
      PROVE  /\ g[j] \in B /\ j \in DOMAIN calls /\ IsCall(calls[j])
             /\ tape[g[j]].branch = calls[j].branch /\ tape[g[j]].nth = calls[j].nth
  <2>1. /\ j \in DOMAIN calls /\ IsCall(calls[j]) /\ At(calls[j], l)
        /\ Scope(calls[j], by) = Scope(c, by) /\ g[j] = Recorded(calls[j])
    BY <1>0, CallIs
  <2>2. /\ g[j] \in DOMAIN tape
        /\ tape[g[j]].branch = calls[j].branch /\ tape[g[j]].nth = calls[j].nth
        /\ tape[g[j]].op = calls[j].op
        /\ tape[g[j]].instance = calls[j].instance /\ calls[j].instance = calls[j].branch
        /\ Unmoved(calls[j].branch, calls[j].nth) => ByIdentity(tape[g[j]]) = ByIdentity(calls[j])
    BY <2>1, RecordedIs, RecordedSays
  <2>3. Scope(tape[g[j]], by) = Scope(c, by)
    <3>1. CASE by = "any"
      BY <1>1, <2>1, <2>2, <3>1
    <3>2. CASE by # "any"
      <4>1. ByIdentity(calls[j]) = ByIdentity(tape[r])
        BY <1>1, <1>3, <2>1, <3>2 DEF Sharing
      <4>2. Unmoved(calls[j].branch, calls[j].nth)
        BY <1>3, <2>1, <4>1, SharerIsUnmoved
      <4> QED BY <1>1, <2>1, <2>2, <3>2, <4>2
    <3> QED BY <3>1, <3>2
  <2>4. g[j] \in T
    BY <1>2, <2>1, <2>2, <2>3 DEF Sharing
  <2>5. calls[j].branch = c.branch
    BY <1>2, <2>1, <2>2
  <2>6. g[j] < r
    <3>1. tape[g[j]].nth < tape[r].nth
      BY <1>3, <2>1, <2>2, <2>5, NextIsNew
    <3> QED BY <1>3, <2>2, <2>5, <3>1 DEF WeaveInv, Woven
  <2> QED BY <2>1, <2>2, <2>4, <2>6
<1>5. ASSUME NEW i \in S, NEW j \in S, g[i] = g[j] PROVE i = j
  <2>1. calls[i].branch = calls[j].branch /\ calls[i].nth = calls[j].nth
    BY <1>4, <1>5
  <2> QED BY <1>4, <2>1, CallIs
<1>6. ASSUME NEW x \in B PROVE \E j \in S : g[j] = x
  <2>1. /\ x \in DOMAIN tape /\ tape[x].instance = c.branch
        /\ Scope(tape[x], by) = Scope(c, by) /\ x < r
    BY <1>2 DEF Sharing
  <2>2. tape[x].branch = c.branch
    BY <2>1, EventIs
  <2>3. tape[x].nth < c.nth
    BY <1>3, <2>1, <2>2 DEF WeaveInv, Woven
  <2>4. tape[x].nth \in 1 .. Of(c.branch, calls)
    <3>1. tape[x].nth \in 1 .. Of(c.branch, tape)
      BY <2>1, <2>2 DEF WeaveInv, Woven
    <3>2. Of(c.branch, calls) \in Nat
      BY <1>0, OfMore
    <3> QED BY <2>3, <3>1, <3>2 DEF IsNext
  <2>5. PICK j \in DOMAIN calls : calls[j].branch = c.branch /\ calls[j].nth = tape[x].nth
    BY <1>0, <2>4 DEF WeaveInv, Woven, IsCall
  <2>6. IsCall(calls[j]) /\ Recorded(calls[j]) = x
    <3>1. IsCall(calls[j])
      BY CallIs
    <3> QED BY <2>1, <2>2, <2>5, <3>1, RecordedIs, EventIs
  <2>7. Scope(calls[j], by) = Scope(c, by)
    <3>1. CASE by = "any"
      BY <1>1, <2>1, <2>6, <3>1, RecordedSays
    <3>2. CASE by # "any"
      <4>1. ByIdentity(tape[x]) = ByIdentity(c) /\ Unmoved(c.branch, c.nth)
        BY <1>1, <2>1, <3>2
      <4>2. /\ ByIdentity(tape[x]) = ByIdentity(script[c.branch][tape[x].nth])
            /\ ByIdentity(c) = ByIdentity(script[c.branch][c.nth])
            /\ c.nth \in DOMAIN script[c.branch] /\ c.branch \in Branches
            /\ tape[x].nth \in DOMAIN script[c.branch] /\ tape[x].nth # c.nth
        <5>1. tape[x].nth # c.nth
          <6>1. c.nth \in Nat
            BY <1>0, OfMore DEF IsNext
          <6> QED BY <2>3, <6>1
        <5>2. Says(tape[x], script[c.branch][tape[x].nth])
          BY <2>1, <2>2, EventIs
        <5> QED BY <1>0, <2>1, <2>2, <4>1, <5>1, <5>2, EventIs, SaysIdentity
                DEF IsCall, Alike, Unmoved
      <4>3. Unmoved(c.branch, tape[x].nth)
        <5>1. Unmoved(c.branch, tape[x].nth) \/ Moved(c.branch, tape[x].nth)
          BY <4>2 DEF Alike
        <5>2. ASSUME Moved(c.branch, tape[x].nth) PROVE FALSE
          <6>1. \A m \in DOMAIN script[c.branch] :
                   ByIdentity(script[c.branch][m]) = ByIdentity(script[c.branch][tape[x].nth])
                      => m = tape[x].nth
            BY <5>2 DEF Moved
          <6> QED BY <4>1, <4>2, <6>1
        <5> QED BY <5>1, <5>2
      <4>4. ByIdentity(calls[j]) = ByIdentity(tape[x])
        BY <2>5, <2>6, <4>3, RecordedSays
      <4> QED BY <1>1, <3>2, <4>1, <4>4
    <3> QED BY <3>1, <3>2
  <2>8. At(calls[j], l)
    BY <1>2, <2>5, <2>6, RecordedSays
  <2> QED BY <1>0, <2>5, <2>6, <2>7, <2>8
<1>7. g \in Bijection(S, B)
  BY <1>4, <1>5, <1>6 DEF Bijection, Injection, Surjection, IsInjective
<1>8. T \in SUBSET Nat /\ IsFiniteSet(T)
  BY SharingIs
<1>9. Cardinality(S) = Cardinality(B)
  <2>1. IsFiniteSet(B)
    BY <1>8, FS_Subset
  <2>2. IsFiniteSet(S)
    BY <1>7, <2>1, FS_Injection DEF Bijection
  <2> QED BY <1>7, <2>2, FS_Bijection DEF ExistsBijection
<1>10. Occurrence(c, calls, l, by) = Cardinality(B)
  BY <1>0, <1>9, OccurrenceIs DEF Count
<1>11. \A e \in DOMAIN tape : Count(tape, e - 1, l, c, by) = Cardinality({x \in T : x < e})
  BY SharingIs
<1>12. ASSUME NEW e \in T, Cardinality({x \in T : x < e}) = Cardinality(B) PROVE e = r
  <2>1. e \in Nat /\ r \in Nat
    BY <1>3, <1>8
  <2>2. \A x \in T : Cardinality({y \in T : y < x}) \in Nat
    <3>1. ASSUME NEW x \in T PROVE Cardinality({y \in T : y < x}) \in Nat
      <4>1. IsFiniteSet({y \in T : y < x})
        BY <1>8, FS_Subset
      <4> QED BY <4>1, FS_CardinalityType
    <3> QED BY <3>1
  <2> HIDE DEF T, r
  <2>3. ~(e < r) /\ ~(r < e)
    BY <1>3, <1>8, <1>12, <2>2, BelowGrows
  <2> QED BY <2>1, <2>3
<1>13. Rows(c, l, by, Cardinality(B))
         = {e \in T : Count(tape, e - 1, l, c, by) = Cardinality(B)}
  BY <1>0, RowsAre DEF Sharing
<1>14. T \subseteq DOMAIN tape
  BY DEF Sharing
<1> HIDE DEF T, S, r, l, g
<1>15. {e \in T : Count(tape, e - 1, l, c, by) = Cardinality(B)} = {r}
  BY <1>3, <1>11, <1>12, <1>14
<1> QED BY <1>10, <1>13, <1>15 DEF l, r

-----------------------------------------------------------------------------
(* What the calls were answered.                                           *)

\* Event e is the one at the address call c had after m calls.
Fits(c, e, m) ==
    /\ e \in DOMAIN tape /\ At(tape[e], Home(c))
    /\ ByIdentity(tape[e]) = ByIdentity(c) /\ tape[e].tag = c.tag
    /\ Count(tape, e - 1, Home(c), c, "identity") = Count(calls, m, Home(c), c, "identity")
    /\ ~legacy /\ c.tag = None => e = Recorded(c)

\* What the first m calls were, and this one was answered.
Right(c, m) ==
    IF Unmoved(c.branch, c.nth) THEN c.how = "exact" /\ Fits(c, c.row, m)
    ELSE c.how # "exact" /\ (c.mode = "lookup" => c.how = "address" /\ c.row = Recorded(c))

AlikeInv == Alike => \A i \in DOMAIN calls : Right(calls[i], i - 1)

LEMMA CountGrows ==
    ASSUME NEW s, NEW l, NEW c, NEW by, NEW i \in Nat \ {0}, NEW m \in Nat, i <= m,
           At(s[i], l), Scope(s[i], by) = Scope(c, by)
    PROVE  Count(s, i - 1, l, c, by) # Count(s, m, l, c, by)
<1> DEFINE few  == {j \in 1 .. i - 1 : At(s[j], l) /\ Scope(s[j], by) = Scope(c, by)}
           many == {j \in 1 .. m : At(s[j], l) /\ Scope(s[j], by) = Scope(c, by)}
<1>1. IsFiniteSet(1 .. m)
  BY FS_Interval
<1>2. IsFiniteSet(many)
  <2>1. many \in SUBSET (1 .. m)
    OBVIOUS
  <2> QED BY <1>1, <2>1, FS_Subset
<1>3. 1 .. i - 1 \subseteq 1 .. m /\ i \in 1 .. m /\ i \notin 1 .. i - 1
  OBVIOUS
<1>4. few \in SUBSET many /\ i \in many /\ i \notin few
  BY <1>3
<1>5. few # many
  BY <1>4
<1> HIDE DEF few, many
<1>6. Cardinality(few) # Cardinality(many)
  BY <1>2, <1>4, <1>5, FS_Subset
<1> QED BY <1>6 DEF few, many, Count

\* Two calls have two events: the later one's address counts the earlier.
LEMMA Differ ==
    ASSUME WeaveInv, Alike, NEW i \in DOMAIN calls, NEW e, Fits(calls[i], e, i - 1),
           NEW c, IsCall(c), NEW m \in Nat, i <= m, Fits(c, e, m),
           ~(calls[i].branch = c.branch /\ calls[i].nth = c.nth)
    PROVE  FALSE
<1>0. i \in Nat \ {0} /\ IsCall(calls[i])
  <2>1. DOMAIN calls = 1 .. Len(calls)
    BY ListedDomain DEF WeaveInv, Woven
  <2> QED BY <2>1, CallIs
<1>1. calls[i].tag = c.tag /\ ByIdentity(calls[i]) = ByIdentity(c) /\ e \in DOMAIN tape
  BY DEF Fits
<1>2. CASE c.tag = None /\ ~legacy
  <2>1. Recorded(calls[i]) = Recorded(c)
    BY <1>1, <1>2 DEF Fits
  <2> QED BY <1>0, <2>1, RecordedIs
<1>3. CASE ~(c.tag = None /\ ~legacy)
  <2>1. Home(calls[i]) = Home(c)
    <3>1. CASE c.tag # None
      BY <1>1, <3>1 DEF Home
    <3>2. CASE c.tag = None
      <4>1. calls[i].path = tape[e].path /\ c.path = tape[e].path
        BY <1>0, <1>1, <1>3, <3>2, HomeIs DEF Fits
      <4> QED BY <1>1, <1>3, <3>2, <4>1 DEF Home
    <3> QED BY <3>1, <3>2
  <2>2. \A x : Scope(x, "identity") = ByIdentity(x)
    BY DEF Scope
  <2>3. \A s, n : Count(s, n, Home(c), calls[i], "identity") = Count(s, n, Home(c), c, "identity")
    BY <1>1, <2>2 DEF Count
  <2>4. Count(calls, i - 1, Home(c), c, "identity") = Count(calls, m, Home(c), c, "identity")
    BY <2>1, <2>3 DEF Fits
  <2>5. At(calls[i], Home(c)) /\ Scope(calls[i], "identity") = Scope(c, "identity")
    BY <1>0, <1>1, <2>1, <2>2, HomeIs
  <2> QED BY <1>0, <2>4, <2>5, CountGrows
<1> QED BY <1>2, <1>3

\* What was claimed is the event of an unmoved call.
LEMMA ClaimedFits ==
    ASSUME WeaveInv, AlikeInv, Alike, NEW e \in claimed
    PROVE  \E i \in DOMAIN calls : Fits(calls[i], e, i - 1)
<1>1. PICK i \in DOMAIN calls : calls[i].how = "exact" /\ calls[i].row = e
  BY DEF WeaveInv, Given
<1>2. Right(calls[i], i - 1)
  BY DEF AlikeInv
<1> QED BY <1>1, <1>2 DEF Right

LEMMA RowFits ==
    ASSUME WeaveInv, Alike, NEW c, IsNext(c), Unmoved(c.branch, c.nth),
           NEW e \in Rows(c, Home(c), "identity", Occurrence(c, calls, Home(c), "identity"))
    PROVE  Fits(c, e, Len(calls))
<1>1. Listed(tape) /\ Listed(calls) /\ IsCall(c)
  BY DEF WeaveInv, Woven, IsNext
<1>2. /\ e \in DOMAIN tape /\ At(tape[e], Home(c))
      /\ Scope(tape[e], "identity") = Scope(c, "identity")
      /\ Count(tape, e - 1, Home(c), c, "identity") = Count(calls, Len(calls), Home(c), c, "identity")
  BY <1>1, RowsAre, OccurrenceIs
<1>3. ByIdentity(tape[e]) = ByIdentity(c)
  BY <1>2 DEF Scope
<1>4. ~legacy /\ c.tag = None => e = Recorded(c)
  BY OwnRow
<1>5. tape[e].tag = c.tag
  <2>1. CASE c.tag # None
    BY <1>1, <1>2, <2>1, HomeIs
  <2>2. CASE c.tag = None /\ legacy
    BY <1>2, <2>2 DEF Alike, Untagged
  <2>3. CASE c.tag = None /\ ~legacy
    BY <1>1, <1>4, <2>3, RecordedSays
  <2> QED BY <2>1, <2>2, <2>3
<1> QED BY <1>2, <1>3, <1>4, <1>5 DEF Fits

LEMMA UnmovedIsExact ==
    ASSUME WeaveInv, AlikeInv, Alike, NEW c, IsNext(c), Unmoved(c.branch, c.nth), NEW mode
    PROVE  Answer(c, mode).how = "exact" /\ Fits(c, Answer(c, mode).row, Len(calls))
<1>1. PICK by : by = IF HasIdentities /\ c.arg \in SetLike THEN "identity" ELSE "exact"
  OBVIOUS
<1>2. IsCall(c) /\ Len(calls) \in Nat /\ DOMAIN calls = 1 .. Len(calls)
      /\ DOMAIN tape = 1 .. Len(tape) /\ Listed(tape)
  BY ListedDomain DEF IsNext, WeaveInv, Woven
<1>3. \A x : Scope(x, by) = Scope(c, by) <=> Scope(x, "identity") = Scope(c, "identity")
  BY <1>1, <1>2, SameScope
<1>4. \A l : Open(c, l, by) = Open(c, l, "identity")
  BY <1>3, SameOpen
<1>5. PICK e \in Rows(c, Home(c), "identity", Occurrence(c, calls, Home(c), "identity")) : TRUE
  BY RowThere
<1>6. e \notin claimed
  <2>1. ASSUME e \in claimed PROVE FALSE
    <3>1. PICK i \in DOMAIN calls : Fits(calls[i], e, i - 1)
      BY <2>1, ClaimedFits
    <3>2. ~(calls[i].branch = c.branch /\ calls[i].nth = c.nth)
      BY NextIsNew
    <3>3. i <= Len(calls)
      BY <1>2
    <3>4. Fits(c, e, Len(calls))
      BY <1>5, RowFits
    <3> QED BY <1>2, <3>1, <3>2, <3>3, <3>4, Differ
  <2> QED BY <2>1
<1>7. Open(c, Home(c), by) # {}
  BY <1>4, <1>5, <1>6 DEF Open, Unclaimed
<1>8. ASSUME NEW m \in Loci(c), Stronger(m, Home(c)) PROVE Open(c, m, by) = {}
  <2>1. \A d \in DOMAIN tape : ~At(tape[d], m)
    BY <1>2, <1>8, HomeIs
  <2> QED BY <2>1 DEF Open, Unclaimed, Rows
<1>9. Strongest(c, by) \in Open(c, Home(c), by)
  BY <1>2, <1>7, <1>8, HomeIs, StrongestAt
<1>10. ExactRow(c) = Strongest(c, by)
  BY <1>1 DEF ExactRow
<1>11. Fits(c, ExactRow(c), Len(calls))
  BY <1>4, <1>9, <1>10, RowFits DEF Open, Unclaimed
<1>12. ExactRow(c) # 0
  BY <1>2, <1>11 DEF Fits
<1> QED BY <1>11, <1>12 DEF Answer

LEMMA MovedIsNotExact ==
    ASSUME WeaveInv, AlikeInv, Alike, NEW c, IsNext(c), ~Unmoved(c.branch, c.nth), NEW mode
    PROVE  /\ Answer(c, mode).how # "exact"
           /\ mode = "lookup" => Answer(c, mode) = [how |-> "address", row |-> Recorded(c)]
<1>1. /\ IsCall(c) /\ DOMAIN tape = 1 .. Len(tape) /\ DOMAIN calls = 1 .. Len(calls)
      /\ Listed(tape) /\ Len(calls) \in Nat
  BY ListedDomain DEF IsNext, WeaveInv, Woven
<1>2. Moved(c.branch, c.nth) /\ ~legacy
  BY <1>1 DEF Alike, Unmoved, IsCall
<1>3. /\ c.tag = None /\ c.op \notin Entropy /\ AllowsArgMismatch(c.arg)
      /\ \A e \in DOMAIN tape : ByIdentity(tape[e]) # ByIdentity(c)
  <2>1. Says(c, candidate[c.branch][c.nth])
    BY <1>1 DEF IsCall
  <2>2. ByIdentity(c) = ByIdentity(candidate[c.branch][c.nth])
    BY <2>1, SaysIdentity
  <2> QED BY <1>2, <2>1, <2>2 DEF Moved, Says
<1>4. ExactRow(c) = 0
  <2>1. PICK by \in {"identity", "exact"} :
           by = IF HasIdentities /\ c.arg \in SetLike THEN "identity" ELSE "exact"
    OBVIOUS
  <2>2. \A e \in DOMAIN tape : Scope(tape[e], by) # Scope(c, by)
    <3>1. \A x : Exact(x) = Exact(c) => ByIdentity(x) = ByIdentity(c)
      BY DEF Exact, ByIdentity
    <3> QED BY <1>3, <3>1 DEF Scope
  <2>3. \A l \in Loci(c) : Open(c, l, by) = {}
    BY <2>2 DEF Open, Unclaimed, Rows
  <2>4. Strongest(c, by) = 0
    BY <2>3, StrongestNowhere
  <2> QED BY <2>1, <2>4 DEF ExactRow
<1>5. Rows(c, Home(c), "any", Occurrence(c, calls, Home(c), "any")) = {Recorded(c)}
  BY <1>2, <1>3, OwnRow
<1>6. Recorded(c) \notin claimed
  <2>1. ASSUME Recorded(c) \in claimed PROVE FALSE
    <3>1. PICK i \in DOMAIN calls : Fits(calls[i], Recorded(c), i - 1)
      BY <2>1, ClaimedFits
    <3>2. calls[i].tag = None
      BY <1>1, <1>3, <3>1, RecordedSays DEF Fits
    <3>3. Recorded(calls[i]) = Recorded(c) /\ IsCall(calls[i])
      BY <1>2, <3>1, <3>2, CallIs DEF Fits
    <3>4. calls[i].branch = c.branch /\ calls[i].nth = c.nth
      BY <1>1, <3>3, RecordedIs
    <3> QED BY <3>4, NextIsNew
  <2> QED BY <2>1
<1>7. Open(c, Home(c), "any") = {Recorded(c)}
  BY <1>5, <1>6 DEF Open, Unclaimed
<1>8. ASSUME NEW m \in Loci(c), Stronger(m, Home(c)) PROVE Open(c, m, "any") = {}
  <2>1. \A d \in DOMAIN tape : ~At(tape[d], m)
    BY <1>1, <1>8, HomeIs
  <2> QED BY <2>1 DEF Open, Unclaimed, Rows
<1>9. AddressRow(c) = Recorded(c)
  <2>1. Strongest(c, "any") \in Open(c, Home(c), "any")
    BY <1>1, <1>7, <1>8, HomeIs, StrongestAt
  <2> QED BY <1>7, <2>1 DEF AddressRow
<1>10. Recorded(c) # 0
  BY <1>1, RecordedIs
<1> QED BY <1>3, <1>4, <1>9, <1>10 DEF Answer, ByAddress

-----------------------------------------------------------------------------
\* More calls do not change what an earlier one was answered.
LEMMA RightStays ==
    ASSUME UNCHANGED <<script, candidate, tape, legacy>>, NEW m \in Nat,
           \A j \in 1 .. m : calls'[j] = calls[j], NEW c, Right(c, m)
    PROVE  Right(c, m)'
<1>1. \A l, by : Count(calls', m, l, c, by) = Count(calls, m, l, c, by)
  BY DEF Count
<1>2. Home(c)' = Home(c) /\ Recorded(c)' = Recorded(c)
  BY DEF Home, Recorded
<1>3. \A e : Fits(c, e, m) => Fits(c, e, m)'
  BY <1>1, <1>2 DEF Fits
<1> QED BY <1>2, <1>3 DEF Right, Unmoved

LEMMA AlikeResolve ==
    ASSUME WeaveInv, AlikeInv, NEW b \in Branches, NEW mode, Resolve(b, mode)
    PROVE  AlikeInv'
<1>1. PICK c : c = Call(candidate, calls, b, place[b])
  OBVIOUS
<1>2. PICK a : a = Answer(c, mode)
  OBVIOUS
<1>3. PICK new : new = Answered(c, mode, a)
  OBVIOUS
<1>4. /\ Of(b, calls) < Len(candidate[b]) /\ calls' = Append(calls, new)
      /\ UNCHANGED <<script, tape, legacy, candidate, place, policy>>
  BY <1>1, <1>2, <1>3 DEF Resolve
<1>5. /\ Listed(calls) /\ candidate \in Programs
      /\ DOMAIN calls = 1 .. Len(calls) /\ Len(calls) \in Nat
  BY ListedDomain DEF WeaveInv, Woven
<1>6. /\ c.branch = b /\ c.nth = Of(b, calls) + 1
      /\ c.nth \in DOMAIN candidate[b] /\ Says(c, candidate[b][c.nth])
      /\ c.path = Path[b] /\ c.instance = place[b]
  BY <1>1, <1>4, <1>5, CallSays
<1>7. IsNext(c)
  BY <1>6 DEF IsNext, IsCall
<1>8. /\ new.branch = c.branch /\ new.nth = c.nth /\ new.op = c.op /\ new.arg = c.arg
      /\ new.tag = c.tag /\ new.path = c.path /\ new.instance = c.instance
      /\ new.how = a.how /\ new.row = a.row /\ new.mode = mode
  BY <1>3 DEF Answered
<1>9. /\ DOMAIN calls' = DOMAIN calls \cup {Len(calls) + 1}
      /\ \A i \in DOMAIN calls : calls'[i] = calls[i]
      /\ calls'[Len(calls) + 1] = new
  BY <1>4, <1>5, AppendListed
<1>10. Alike' => Alike
  BY <1>4 DEF Alike, Unmoved, Moved, AllowsArgMismatch, Untagged, Unraced
<1>11. ASSUME Alike PROVE Right(new, Len(calls))
  <2>1. Home(new) = Home(c) /\ ByIdentity(new) = ByIdentity(c) /\ Recorded(new) = Recorded(c)
    BY <1>8 DEF Home, ByIdentity, Exact, Recorded
  <2>2. \A s, m, l : Count(s, m, l, new, "identity") = Count(s, m, l, c, "identity")
    BY <2>1 DEF Count, Scope
  <2>3. \A e : Fits(c, e, Len(calls)) => Fits(new, e, Len(calls))
    BY <1>8, <2>1, <2>2 DEF Fits
  <2>4. CASE Unmoved(c.branch, c.nth)
    <3>1. a.how = "exact" /\ Fits(c, a.row, Len(calls))
      BY <1>2, <1>7, <1>11, <2>4, UnmovedIsExact
    <3> QED BY <1>8, <2>3, <2>4, <3>1 DEF Right
  <2>5. CASE ~Unmoved(c.branch, c.nth)
    <3>1. a.how # "exact" /\ (mode = "lookup" => a = [how |-> "address", row |-> Recorded(c)])
      BY <1>2, <1>7, <1>11, <2>5, MovedIsNotExact
    <3> QED BY <1>8, <2>1, <2>5, <3>1 DEF Right
  <2> QED BY <2>4, <2>5
<1>12. ASSUME Alike, NEW i \in DOMAIN calls' PROVE Right(calls[i], i - 1)'
  <2>1. PICK x : x = calls'[i]
    OBVIOUS
  <2>2. i - 1 \in Nat /\ \A j \in 1 .. i - 1 : calls'[j] = calls[j]
    <3>1. i \in 1 .. Len(calls) + 1
      BY <1>5, <1>9
    <3>2. 1 .. i - 1 \subseteq DOMAIN calls
      BY <1>5, <3>1
    <3> QED BY <1>9, <3>1, <3>2
  <2>3. Right(x, i - 1)
    <3>1. CASE i \in DOMAIN calls
      <4>1. Right(calls[i], i - 1)
        BY <1>12, <3>1 DEF AlikeInv
      <4> QED BY <1>9, <2>1, <3>1, <4>1
    <3>2. CASE i = Len(calls) + 1
      <4>1. i - 1 = Len(calls)
        BY <1>5, <3>2
      <4> QED BY <1>9, <1>11, <1>12, <2>1, <3>2, <4>1
    <3> QED BY <1>9, <3>1, <3>2
  <2>4. Right(x, i - 1)'
    BY <1>4, <2>2, <2>3, RightStays
  <2> QED BY <2>1, <2>4 DEF Right, Unmoved, Fits, Home, Recorded, Count
<1> QED BY <1>10, <1>12 DEF AlikeInv

LEMMA AlikeQuiet ==
    ASSUME WeaveInv', calls' = <<>>
    PROVE  AlikeInv'
<1>1. DOMAIN calls' = {}
  OBVIOUS
<1> QED BY <1>1 DEF AlikeInv

LEMMA AlikeRests == ASSUME AlikeInv, UNCHANGED vars PROVE AlikeInv'
<1>1. UNCHANGED <<script, tape, legacy, candidate, place, policy, calls>>
  BY DEF vars
<1>2. Alike' => Alike
  BY <1>1 DEF Alike, Unmoved, Moved, AllowsArgMismatch, Untagged, Unraced
<1>3. ASSUME Alike, NEW i \in DOMAIN calls PROVE Right(calls[i], i - 1)'
  <2>1. Right(calls[i], i - 1)
    BY <1>3 DEF AlikeInv
  <2> QED BY <1>1, <2>1 DEF Right, Unmoved, Fits, Home, Recorded, Count
<1> QED BY <1>1, <1>2, <1>3 DEF AlikeInv

AnswersInv == WeaveInv /\ AlikeInv

LEMMA AnswersInit == Init => AnswersInv
<1>1. ASSUME Init PROVE AlikeInv
  <2>1. calls = <<>>
    BY <1>1 DEF Init
  <2>2. DOMAIN calls = {}
    BY <2>1
  <2> QED BY <2>2 DEF AlikeInv
<1> QED BY <1>1, WeaveInit DEF AnswersInv

LEMMA AnswersNext == AnswersInv /\ [Next]_vars => AnswersInv'
<1> SUFFICES ASSUME WeaveInv, AlikeInv, [Next]_vars PROVE WeaveInv' /\ AlikeInv'
  BY DEF AnswersInv
<1>1. ASSUME NEW b \in Branches, Capture(b) PROVE WeaveInv' /\ AlikeInv'
  <2>1. WeaveInv'
    BY <1>1, WeaveCapture
  <2>2. calls' = <<>>
    BY <1>1 DEF Capture, WeaveInv
  <2> QED BY <2>1, <2>2, AlikeQuiet
<1>2. CASE Boot
  <2>1. WeaveInv'
    BY <1>2, WeaveBoot
  <2>2. calls' = <<>>
    BY <1>2 DEF Boot, WeaveInv
  <2> QED BY <2>1, <2>2, AlikeQuiet
<1>3. ASSUME NEW b \in Branches, NEW mode, Resolve(b, mode) PROVE WeaveInv' /\ AlikeInv'
  BY <1>3, WeaveResolve, AlikeResolve
<1>4. CASE UNCHANGED vars
  BY <1>4, WeaveRests, AlikeRests
<1> QED BY <1>1, <1>2, <1>3, <1>4 DEF Next, Done

-----------------------------------------------------------------------------
LEMMA ScriptIsAlike ==
    ASSUME AnswersInv, policy # "unset", candidate = script,
           IF legacy THEN Untagged ELSE Unraced
    PROVE  Alike /\ \A c : Unmoved(c.branch, c.nth)
BY DEF Alike, Unmoved

\* Each call of a recorded program fits its answer, and no two fit one event.
LEMMA AnswersUnchanged == AnswersInv => UnchangedIsAnswered
<1> SUFFICES ASSUME AnswersInv, candidate = script,
                    IF legacy THEN Untagged ELSE Unraced
             PROVE  /\ \A i \in DOMAIN calls : calls[i].how = "exact"
                    /\ \A i, j \in DOMAIN calls : i # j => calls[i].row # calls[j].row
                    /\ ~legacy => \A i \in DOMAIN calls :
                                     calls[i].tag = None => Own(calls[i])
  BY DEF UnchangedIsAnswered
<1>1. CASE calls = <<>>
  <2>1. DOMAIN calls = {}
    BY <1>1
  <2> QED BY <2>1
<1>2. CASE calls # <<>>
  <2>1. Alike /\ WeaveInv /\ \A c : Unmoved(c.branch, c.nth)
    BY <1>2, ScriptIsAlike DEF AnswersInv, WeaveInv
  <2>2. \A i \in DOMAIN calls :
           calls[i].how = "exact" /\ Fits(calls[i], calls[i].row, i - 1)
    BY <2>1 DEF AnswersInv, AlikeInv, Right
  <2>3. DOMAIN calls = 1 .. Len(calls)
    BY <2>1, ListedDomain DEF WeaveInv, Woven
  <2>4. ASSUME NEW i \in DOMAIN calls, NEW j \in DOMAIN calls, i < j
        PROVE  calls[i].row # calls[j].row
    <3>1. ~(calls[i].branch = calls[j].branch /\ calls[i].nth = calls[j].nth)
      BY <2>1, <2>3, <2>4, CallIs
    <3>2. j - 1 \in Nat /\ i <= j - 1
      BY <2>3, <2>4
    <3> QED BY <2>1, <2>2, <3>1, <3>2, CallIs, Differ
  <2>5. \A i, j \in DOMAIN calls : i # j => i < j \/ j < i
    BY <2>3
  <2>6. ASSUME ~legacy, NEW i \in DOMAIN calls, calls[i].tag = None PROVE Own(calls[i])
    <3>1. calls[i].row = Recorded(calls[i]) /\ IsCall(calls[i])
      BY <2>1, <2>2, <2>6, CallIs DEF Fits
    <3> QED BY <2>1, <2>2, <3>1, RecordedIs DEF Own
  <2> QED BY <2>2, <2>4, <2>5, <2>6
<1> QED BY <1>1, <1>2

\* A candidate that does what was recorded is answered exactly at every call,
\* with a row of its own, for any number of branches and in any two orders of
\* their calls: as the calls of a scope are counted alike on both sides, the
\* strongest locus that both know never runs out of rows.  With instances on
\* the tape an untagged call has the event of its own branch and place.
THEOREM UnchangedCandidateIsAnswered == Spec => []UnchangedIsAnswered
BY AnswersInit, AnswersNext, AnswersUnchanged, PTL DEF Spec

LEMMA OnlyMovedIsAlike ==
    ASSUME AnswersInv, policy # "unset", Tracking, Unraced,
           NEW b \in Branches, NEW n \in DOMAIN script[b], n \in DOMAIN candidate[b],
           OnlyMoved(b, n)
    PROVE  /\ Alike /\ ~legacy
           /\ \A x \in Branches : \A m \in DOMAIN candidate[x] :
                 Unmoved(x, m) <=> ~(x = b /\ m = n)
<1>1. ~legacy
  BY EventIs DEF Tracking, AnswersInv
<1>2. script \in Programs /\ script[b] \in Seq(CallType) /\ script[b][n] \in CallType
  <2>1. script \in Programs
    BY DEF AnswersInv, WeaveInv
  <2>2. script[b] \in Seq(CallType)
    BY <2>1 DEF Programs
  <2> QED BY <2>1, <2>2
<1>3. PICK arg : arg = candidate[b][n].arg
  OBVIOUS
<1>4. candidate = [script EXCEPT ![b][n].arg = arg] /\ candidate[b][n] # script[b][n]
  BY <1>3 DEF OnlyMoved
<1>5. /\ \A x \in Branches \ {b} : candidate[x] = script[x]
      /\ DOMAIN candidate[b] = DOMAIN script[b]
      /\ \A m \in DOMAIN script[b] \ {n} : candidate[b][m] = script[b][m]
      /\ candidate[b][n] = [script[b][n] EXCEPT !.arg = arg]
  BY <1>2, <1>4 DEF Programs
<1>6. /\ candidate[b][n].op = script[b][n].op /\ candidate[b][n].tag = script[b][n].tag
  BY <1>2, <1>5 DEF CallType
<1>7. Moved(b, n)
  BY <1>6 DEF OnlyMoved, Moved
<1> QED BY <1>1, <1>4, <1>5, <1>7 DEF Alike, Unmoved

\* The one call that moved is alone in the request it makes.
LEMMA AnswersMoved == AnswersInv => MovedIsAnsweredByAddress
<1> SUFFICES ASSUME AnswersInv, Tracking, Unraced,
                    NEW b \in Branches, NEW n \in DOMAIN script[b], n \in DOMAIN candidate[b],
                    OnlyMoved(b, n), NEW i \in DOMAIN calls
             PROVE  IF calls[i].branch = b /\ calls[i].nth = n
                      THEN calls[i].mode = "lookup" =>
                             /\ calls[i].how = "address"
                             /\ tape[calls[i].row].branch = b
                             /\ tape[calls[i].row].nth = n
                      ELSE calls[i].tag = None => Own(calls[i])
  BY DEF MovedIsAnsweredByAddress
<1>1. policy # "unset"
  <2>1. calls # <<>>
    OBVIOUS
  <2> QED BY <2>1 DEF AnswersInv, WeaveInv
<1>2. /\ Alike /\ ~legacy /\ WeaveInv
      /\ \A x \in Branches : \A m \in DOMAIN candidate[x] :
            Unmoved(x, m) <=> ~(x = b /\ m = n)
  BY <1>1, OnlyMovedIsAlike DEF AnswersInv
<1>3. IsCall(calls[i]) /\ Right(calls[i], i - 1)
  BY <1>2, CallIs DEF AnswersInv, AlikeInv
<1>4. Unmoved(calls[i].branch, calls[i].nth) <=> ~(calls[i].branch = b /\ calls[i].nth = n)
  BY <1>2, <1>3 DEF IsCall
<1>5. CASE calls[i].branch = b /\ calls[i].nth = n
  BY <1>2, <1>3, <1>4, <1>5, RecordedIs DEF Right
<1>6. CASE ~(calls[i].branch = b /\ calls[i].nth = n)
  <2>1. calls[i].how = "exact" /\ Fits(calls[i], calls[i].row, i - 1)
    BY <1>3, <1>4, <1>6 DEF Right
  <2>2. calls[i].tag = None => calls[i].row = Recorded(calls[i])
    BY <1>2, <2>1 DEF Fits
  <2> QED BY <1>2, <1>3, <1>6, <2>1, <2>2, RecordedIs DEF Own
<1> QED BY <1>5, <1>6

\* A call whose arguments alone moved is answered, where it is substituted,
\* with the event it was, marked so, and every other untagged call exactly
\* with its own, whichever calls are executed and in whatever order: no other
\* call's address counts the moved arguments, and its own counts every call
\* of its branch.
THEOREM MovedCallIsAnsweredByAddress == Spec => []MovedIsAnsweredByAddress
BY AnswersInit, AnswersNext, AnswersMoved, PTL DEF Spec
=============================================================================
