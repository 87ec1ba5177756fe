------------------------- MODULE DeltaVerdictProofs -------------------------
(***************************************************************************)
(* Proofs about DeltaVerdict, for any runs, trees, acknowledgements and    *)
(* number of tasks and whatever is re-pointed, decided or lost: what the   *)
(* row says was computed, for the pair it names, what it says was          *)
(* acknowledged was confirmed by a second person, and when nothing is      *)
(* under way any more it says what is so.                                  *)
(***************************************************************************)
EXTENDS DeltaVerdict, FiniteSetTheorems, WellFoundedInduction, TLAPS

-----------------------------------------------------------------------------
(* The inductive invariant.                                                *)

Kind == {"free", "settle", "view", "propose", "restate"}
Pc   == {"free", "own", "list", "each", "read", "overlay", "record", "insert"}

TaskRec == [kind : Kind, pc : Pc, of : Runs \cup {Nobody}, y : Runs \cup {Nobody},
            m : Runs \cup {Nobody}, word : Words, todo : SUBSET Measured]

Repoint == [y : Measured \cup {Nobody}, from : Runs \cup {Nobody},
            to : Runs \cup {Nobody}]

Charges(y, m) == ChargedShapes(Tree[m], Tree[y])

\* Each shape charged to y against m was confirmed by a second person, on the
\* version y ran.
Decided(y, m) ==
    \A shape \in Charges(y, m) :
        \E k \in acks : /\ k.shape = shape /\ k.change = Change[y]
                        /\ k.confirmed \in People \ {k.by}

\* What a word that says the delta was computed has to be worth.
Earned(y, m, word) ==
    word \in Computed =>
        /\ Between(y, m) = "there"
        /\ word = "pass" <=> Charges(y, m) = {}
        /\ word = "acknowledged" => Decided(y, m)

\* A task knows which pair it is at, and carries no word it has not computed.
TaskOk(t) ==
    /\ t.kind = "settle" => t.of \in Runs
    /\ t.pc = "own" => t.of \in Runs
    /\ t.pc \in {"read", "overlay", "record", "insert"} => t.y \in Measured /\ t.m \in Runs
    /\ t.pc = "overlay" => Between(t.y, t.m) = "there"
    /\ t.pc = "record" => Earned(t.y, t.m, t.word)

AckInv ==
    /\ IsFiniteSet(acks)
    /\ \A k \in acks : IsAck(k) /\ k.confirmed # k.by
    /\ \E b \in Nat : \A k \in acks : k.id <= b

What == {"acks", "decisions", "repoints", "faults"}

LimitInv ==
    /\ limits \in [What -> Nat] /\ owed \in Nat
    /\ owed + limits["decisions"] <= MaxDecisions

RowInv ==
    /\ \A y \in Measured : cache[y] # Nobody => Between(y, cache[y]) = "there"
    /\ \A y \in Measured : Earned(y, row[y].against, row[y].word)

TaskInv == \A t \in Tasks : TaskOk(task[t])

DeltaInv ==
    /\ TypeOK /\ AckInv /\ LimitInv /\ RowInv /\ TaskInv
    /\ repoint.y # Nobody => repoint.to \in Runs /\ repoint.from \in Runs

-----------------------------------------------------------------------------
(* The words.                                                              *)

\* What its record calls completed has published its tree.
Published == {"completed", "record_completed"}

LEMMA ThereMeansCompleted ==
    ASSUME NEW y, NEW m
    PROVE  Between(y, m) = "there" <=>
              /\ ~NamedApart(y, m) /\ Side(y) = "there" /\ Side(m) = "there"
              /\ Report[y] = Report[m] /\ ~Refuses(Tree[m], Tree[y])
<1>1. Side(y) # "there" => Between(y, m) # "there"
  BY DEF Between
<1>2. Side(m) # "there" => Between(y, m) # "there"
  BY DEF Between
<1>3. QED
  BY <1>1, <1>2 DEF Between

LEMMA SideType ==
    ASSUME TypeOK, NEW r \in Runs
    PROVE  /\ Side(r) \in {"pending", "refused", "there"}
           /\ Side(r) = "there" <=> state[r] \in Published
<1>1. state[r] \in States
  BY DEF TypeOK
<1>2. QED
  BY <1>1 DEF States, RecordOnly, Side, Published

\* A delta that is not there leaves a word nothing was computed for.
LEMMA WordOfAbsent ==
    ASSUME TypeOK, NEW y \in Runs, NEW m \in Runs, Between(y, m) # "there"
    PROVE  WordOf(Between(y, m)) \in {"pending", "refused"}
<1>1. /\ Side(y) \in {"pending", "refused", "there"}
      /\ Side(m) \in {"pending", "refused", "there"}
  BY SideType
<1>2. Between(y, m) \in {"pending", "refused", "tape_mismatch"}
  BY <1>1 DEF Between
<1>3. QED
  BY <1>2 DEF WordOf

\* Some acknowledgement is outranked by no other: those on this version first,
\* the confirmed among them, then the newest.
LEMMA SomeoneSpeaksFirst ==
    ASSUME NEW K, K # {}, \A k \in K : IsAck(k), NEW change,
           NEW b \in Nat, \A k \in K : k.id <= b
    PROVE  \E k \in K : \A l \in K : ~Outranks(l, k, change)
<1> DEFINE C == {k \in K : k.change = change}
           P == IF C # {} THEN C ELSE K
           D == {k \in P : k.confirmed # "nobody"}
           Q == IF D # {} THEN D ELSE P
           I == {b - k.id : k \in Q}
<1>1. P # {} /\ P \subseteq K /\ Q # {} /\ Q \subseteq P
  OBVIOUS
<1>2. I \in SUBSET Nat /\ I # {}
  <2>1. \A k \in Q : k.id \in Nat /\ k.id <= b
    BY <1>1 DEF IsAck
  <2>2. QED
    BY <1>1, <2>1
<1>3. \E i \in I : \A j \in I : ~(j < i)
  <2>1. IsWellFoundedOn(OpToRel(<, Nat), Nat)
    BY NatLessThanWellFounded
  <2>2. PICK i \in I : \A j \in I : ~(<<j, i>> \in OpToRel(<, Nat))
    BY <1>2, <2>1, WFMin
  <2>3. QED
    BY <1>2, <2>2 DEF OpToRel
<1>4. PICK k \in Q : \A l \in Q : ~((b - l.id) < (b - k.id))
  BY <1>3
<1>5. \A l \in Q : ~(l.id > k.id)
  <2>1. \A l \in Q : l.id \in Nat
    BY <1>1 DEF IsAck
  <2>2. QED
    BY <1>4, <2>1
<1>6. ASSUME NEW l \in K, Outranks(l, k, change) PROVE FALSE
  <2>1. ~(l.change = change /\ ~(k.change = change))
    BY <1>1
  <2>2. ASSUME (l.change = change) = (k.change = change) PROVE l \in P
    BY <1>1, <2>2
  <2>3. ASSUME (l.change = change) = (k.change = change),
               ~(l.confirmed # "nobody" /\ ~(k.confirmed # "nobody")),
               (l.confirmed # "nobody") = (k.confirmed # "nobody")
        PROVE  l \in Q
    BY <2>2, <2>3
  <2>4. ASSUME (l.change = change) = (k.change = change)
        PROVE  ~(l.confirmed # "nobody" /\ ~(k.confirmed # "nobody"))
    BY <2>2, <2>4
  <2>5. QED
    BY <1>5, <1>6, <2>1, <2>3, <2>4 DEF Outranks
<1>7. QED
  BY <1>1, <1>6

\* A shape is acknowledged only by a confirmation on this version.
LEMMA AcknowledgedIsConfirmed ==
    ASSUME AckInv, NEW shape, NEW change,
           RowState(acks, shape, change) = "acknowledged"
    PROVE  \E k \in acks : /\ k.shape = shape /\ k.change = change
                           /\ k.confirmed \in People \ {k.by}
<1> DEFINE speaks == Speaks(acks, shape)
           first(k) == \A l \in speaks : ~Outranks(l, k, change)
<1>1. speaks # {} /\ speaks \subseteq acks /\ \A k \in speaks : k.shape = shape
  BY DEF RowState, Speaks
<1>2. \E k \in speaks : first(k)
  <2>1. PICK b \in Nat : \A k \in acks : k.id <= b
    BY DEF AckInv
  <2> HIDE DEF speaks
  <2>2. \A k \in speaks : IsAck(k) /\ k.id <= b
    BY <1>1, <2>1 DEF AckInv
  <2>3. QED
    BY <1>1, <2>2, SomeoneSpeaksFirst
<1>3. PICK k \in speaks : StateOf(k, change) = "acknowledged"
  <2>1. (CHOOSE k \in speaks : first(k)) \in speaks
    BY <1>2
  <2>2. StateOf(CHOOSE k \in speaks : first(k), change) = "acknowledged"
    BY <1>1 DEF RowState
  <2>3. QED
    BY <2>1, <2>2
<1>4. k.change = change /\ k.confirmed # "nobody"
  BY <1>3 DEF StateOf
<1>5. QED
  BY <1>1, <1>3, <1>4 DEF AckInv, IsAck

\* The overlay of a delta that is there gives a word worth what it says.
LEMMA OverlaidIsEarned ==
    ASSUME AckInv, NEW y, NEW m, Between(y, m) = "there"
    PROVE  Overlaid(y, m) \in Computed /\ Earned(y, m, Overlaid(y, m))
<1> DEFINE word == Overlaid(y, m)
<1>1. /\ word \in Computed
      /\ word = "pass" <=> Charges(y, m) = {}
      /\ word = "acknowledged" =>
            \A s \in Charges(y, m) : RowState(acks, s, Change[y]) = "acknowledged"
  BY DEF Overlaid, Effective, Computed, Charges
<1>2. word = "acknowledged" => Decided(y, m)
  BY <1>1, AcknowledgedIsConfirmed DEF Decided
<1>3. QED
  BY <1>1, <1>2 DEF Earned

-----------------------------------------------------------------------------
(* What nothing takes back.                                                *)

\* What is published stays so, and a confirmation is never withdrawn from
\* who gave it.
Lasts ==
    /\ \A r \in Runs : state[r] \in Published => state'[r] \in Published
    /\ \A y, m : Decided(y, m) => Decided(y, m)'

LEMMA SameLasts ==
    ASSUME state' = state, acks' = acks
    PROVE  Lasts
BY DEF Lasts, Decided

LEMMA ThereLasts ==
    ASSUME TypeOK, TypeOK', Lasts, NEW y \in Runs, NEW m \in Runs,
           Between(y, m) = "there"
    PROVE  (Between(y, m) = "there")'
<1>1. /\ Side(y) = "there" /\ Side(m) = "there" /\ ~NamedApart(y, m)
      /\ Report[y] = Report[m] /\ ~Refuses(Tree[m], Tree[y])
  BY ThereMeansCompleted
<1>2. state[y] \in Published /\ state[m] \in Published
  BY <1>1, SideType
<1>3. state'[y] \in Published /\ state'[m] \in Published
  BY <1>2 DEF Lasts
<1>4. Side(y)' = "there" /\ Side(m)' = "there"
  BY <1>3 DEF Side, Published
<1>5. QED
  BY <1>1, <1>4 DEF Between, NamedApart

LEMMA EarnedLasts ==
    ASSUME TypeOK, TypeOK', Lasts, NEW y \in Runs, NEW m \in Runs, NEW word,
           Earned(y, m, word)
    PROVE  Earned(y, m, word)'
<1> SUFFICES ASSUME word \in Computed
             PROVE  /\ Between(y, m)' = "there"
                    /\ word = "pass" <=> Charges(y, m) = {}
                    /\ word = "acknowledged" => Decided(y, m)'
  BY DEF Earned, Charges
<1>1. /\ Between(y, m) = "there" /\ (word = "pass" <=> Charges(y, m) = {})
      /\ word = "acknowledged" => Decided(y, m)
  BY DEF Earned
<1>2. (Between(y, m) = "there")'
  BY <1>1, ThereLasts
<1>3. QED
  BY <1>1, <1>2 DEF Lasts

LEMMA TaskLasts ==
    ASSUME TypeOK, TypeOK', Lasts, NEW t, TaskOk(t), Measured \subseteq Runs
    PROVE  TaskOk(t)'
<1>1. t.pc \in {"read", "overlay", "record", "insert"} => t.y \in Runs /\ t.m \in Runs
  BY DEF TaskOk
<1>2. t.pc = "overlay" => (Between(t.y, t.m) = "there")'
  BY <1>1, ThereLasts DEF TaskOk
<1>3. t.pc = "record" => Earned(t.y, t.m, t.word)'
  BY <1>1, EarnedLasts DEF TaskOk
<1>4. QED
  BY <1>2, <1>3 DEF TaskOk

-----------------------------------------------------------------------------
(* Frames: what a step has to show of what it writes.                      *)

LEMMA Frame ==
    ASSUME DeltaInv, Lasts, TypeOK', AckInv', LimitInv',
           (repoint.y # Nobody => repoint.to \in Runs /\ repoint.from \in Runs)',
           \A y \in Measured : \/ cache'[y] = cache[y]
                               \/ cache'[y] # Nobody => Between(y, cache'[y]) = "there",
           \A y \in Measured : \/ row'[y] = row[y]
                               \/ Earned(y, row'[y].against, row'[y].word),
           \A t \in Tasks : task'[t] = task[t] \/ TaskOk(task'[t])
    PROVE  DeltaInv'
<1>1. TypeOK /\ RowInv /\ TaskInv /\ Measured \subseteq Runs
  BY DeltaAssumption DEF DeltaInv
<1>2. \A y \in Measured : (cache[y] # Nobody => Between(y, cache[y]) = "there")'
  <2> SUFFICES ASSUME NEW y \in Measured, cache'[y] # Nobody
               PROVE  (Between(y, cache[y]) = "there")'
    OBVIOUS
  <2>1. PICK m \in Runs : m = cache'[y]
    BY DEF TypeOK
  <2>2. Between(y, m) = "there"
    BY <1>1, <2>1 DEF RowInv
  <2>3. (Between(y, m) = "there")'
    BY <1>1, <2>2, ThereLasts
  <2>4. QED
    BY <2>1, <2>3 DEF Between
<1>3. \A y \in Measured : Earned(y, row[y].against, row[y].word)'
  <2> TAKE y \in Measured
  <2>1. PICK m, word : m \in Runs /\ m = row'[y].against /\ word = row'[y].word
    BY DEF TypeOK
  <2>2. Earned(y, m, word) /\ m \in Runs
    BY <1>1, <2>1 DEF RowInv
  <2>3. Earned(y, m, word)'
    BY <1>1, <2>2, EarnedLasts
  <2>4. QED
    BY <2>1, <2>3 DEF Earned, Between, Charges, Decided
<1>4. \A t \in Tasks : TaskOk(task[t])'
  <2> TAKE t \in Tasks
  <2>1. PICK rec : rec = task'[t]
    OBVIOUS
  <2>2. TaskOk(rec)
    BY <1>1, <2>1 DEF TaskInv
  <2>3. TaskOk(rec)'
    BY <1>1, <2>2, TaskLasts
  <2>4. QED
    BY <2>1, <2>3 DEF TaskOk, Earned, Between, Charges, Decided
<1>5. RowInv' /\ TaskInv'
  BY <1>2, <1>3, <1>4 DEF RowInv, TaskInv
<1>6. QED
  BY <1>5 DEF DeltaInv

\* It caches only a delta that is there.
Caches ==
    /\ cache' \in [Measured -> Runs \cup {Nobody}]
    /\ \A y \in Measured : \/ cache'[y] = cache[y]
                           \/ cache'[y] # Nobody => Between(y, cache'[y]) = "there"

\* It leaves the runs, the words of the rows and the acknowledgements; rows it
\* may mark.
Leaves ==
    /\ runVars' = runVars /\ row' = row /\ acks' = acks /\ outrun' \subseteq Measured
    /\ restates' \in {"idle", "running", "again"} /\ dropped' \in BOOLEAN

\* A step of one task that does no more than that.
LEMMA TaskMoves ==
    ASSUME DeltaInv, NEW t \in Tasks, NEW to, to \in TaskRec, Goes(t, to), TaskOk(to),
           Leaves, Caches, LimitInv'
    PROVE  DeltaInv'
<1> USE DEF Leaves, Caches
<1>1. TypeOK
  BY DEF DeltaInv
<1>2. task \in [Tasks -> TaskRec]
  BY <1>1 DEF TypeOK, TaskRec, Kind, Pc
<1>3. task' \in [Tasks -> TaskRec] /\ \A u \in Tasks : task'[u] = IF u = t THEN to ELSE task[u]
  <2> DEFINE R == TaskRec
  <2>1. task \in [Tasks -> R] /\ to \in R
    BY <1>2
  <2> HIDE DEF R
  <2>2. task' \in [Tasks -> R] /\ \A u \in Tasks : task'[u] = IF u = t THEN to ELSE task[u]
    BY <2>1 DEF Goes
  <2>3. QED
    BY <2>2 DEF R
<1>4. owed' \in 0 .. MaxDecisions
  <2>1. MaxDecisions \in Nat
    BY DeltaAssumption
  <2>2. limits'["decisions"] \in Nat
    BY DEF LimitInv, What
  <2>3. QED
    BY <2>1, <2>2 DEF LimitInv
<1>5. TypeOK'
  BY <1>1, <1>3, <1>4 DEF TypeOK, runVars, TaskRec, Kind, Pc
<1>6. AckInv' /\ Lasts
  BY SameLasts DEF DeltaInv, AckInv, runVars
<1>7. (repoint.y # Nobody => repoint.to \in Runs /\ repoint.from \in Runs)'
  BY DEF DeltaInv, runVars
<1>8. \A u \in Tasks : task'[u] = task[u] \/ TaskOk(task'[u])
  BY <1>3
<1>9. QED
  BY <1>5, <1>6, <1>7, <1>8, Frame

LEMMA SpendType ==
    ASSUME LimitInv, NEW what \in What, Spend(what)
    PROVE  /\ limits' \in [What -> Nat]
           /\ limits'["decisions"] = limits["decisions"] - (IF what = "decisions" THEN 1 ELSE 0)
BY DEF LimitInv, What, Spend

\* A fault, or a spend of anything but a decision, with nothing more owed.
LEMMA LimitsStay ==
    ASSUME LimitInv, owed' = owed,
           \/ UNCHANGED limits
           \/ \E what \in What \ {"decisions"} : Spend(what)
    PROVE  LimitInv'
<1>1. CASE UNCHANGED limits
  BY <1>1 DEF LimitInv
<1>2. CASE \E what \in What \ {"decisions"} : Spend(what)
  <2>1. limits' \in [What -> Nat] /\ limits'["decisions"] = limits["decisions"]
    <3>1. PICK what \in What \ {"decisions"} : Spend(what)
      BY <1>2
    <3>2. limits["decisions"] \in Nat
      BY DEF LimitInv, What
    <3>3. QED
      BY <3>1, <3>2, SpendType
  <2>2. QED
    BY <2>1 DEF LimitInv
<1>3. QED
  BY <1>1, <1>2

LEMMA FreeType == Free \in TaskRec /\ TaskOk(Free)
<1>1. Free \in TaskRec
  BY DEF Free, TaskRec, Kind, Pc, Words
<1>2. Free.kind = "free" /\ Free.pc = "free"
  BY DEF Free
<1>3. TaskOk(Free)
  BY <1>2 DEF TaskOk
<1>4. QED
  BY <1>1, <1>3

LEMMA StartedType ==
    ASSUME NEW kind \in Kind, NEW pc \in Pc, NEW r \in Runs \cup {Nobody}
    PROVE  /\ Started(kind, pc, r) \in TaskRec
           /\ Started(kind, pc, r).kind = kind /\ Started(kind, pc, r).pc = pc
           /\ Started(kind, pc, r).of = r
BY FreeType DEF Started, TaskRec, Kind, Pc, Free

LEMMA DeltaType ==
    ASSUME NEW rec \in TaskRec, NEW y \in Measured, NEW m \in Runs,
           rec.kind = "settle" => rec.of \in Runs
    PROVE  Delta(rec, y, m) \in TaskRec /\ TaskOk(Delta(rec, y, m))
<1> DEFINE d == Delta(rec, y, m)
<1>1. y \in Runs
  BY DeltaAssumption
<1>2. /\ d \in TaskRec /\ d.kind = rec.kind /\ d.of = rec.of /\ d.pc = "read"
      /\ d.y = y /\ d.m = m
  BY <1>1 DEF Delta, TaskRec, Pc
<1> HIDE DEF d
<1>3. QED
  BY <1>2 DEF TaskOk, d

-----------------------------------------------------------------------------
(* The initial state, and one lemma per action.                            *)

LEMMA DeltaInit == Init => DeltaInv
<1> SUFFICES ASSUME Init PROVE DeltaInv
  OBVIOUS
<1>1. TypeOK
  <2>1. task \in [Tasks -> TaskRec]
    BY FreeType DEF Init
  <2>2. state \in [Runs -> States]
    BY DEF Init, States
  <2>3. /\ record \in [Measured -> Runs]
        /\ row \in [Measured -> [against : Runs, word : Words]]
        /\ cache \in [Measured -> Runs \cup {Nobody}]
    BY DeltaAssumption DEF Init, Words
  <2>4. repoint \in Repoint
    BY DEF Init, NoRepoint, Repoint
  <2>5. owed \in 0 .. MaxDecisions
    BY DeltaAssumption DEF Init
  <2>6. QED
    BY <2>1, <2>2, <2>3, <2>4, <2>5, DeltaAssumption
       DEF Init, TypeOK, TaskRec, Kind, Pc, Repoint
<1>2. AckInv
  <2>1. Cardinality(acks) \in Nat /\ acks = OldAcks
    BY FS_CardinalityType, DeltaAssumption DEF Init
  <2>2. QED
    BY <2>1, DeltaAssumption DEF AckInv
<1>3. LimitInv
  <2>1. {MaxAcks, MaxDecisions, MaxRepoints, MaxFaults} \subseteq Nat
    BY DeltaAssumption
  <2>2. limits \in [What -> Nat] /\ limits["decisions"] = MaxDecisions /\ owed = 0
    BY <2>1 DEF Init, What
  <2>3. QED
    BY <2>1, <2>2 DEF LimitInv
<1>4. RowInv /\ TaskInv
  BY FreeType DEF Init, RowInv, TaskInv, Earned, Computed
<1>5. QED
  BY <1>1, <1>2, <1>3, <1>4 DEF DeltaInv, Init, NoRepoint

\* The task's own record, and the pair it is at.
LEMMA TaskAt ==
    ASSUME DeltaInv, NEW t \in Tasks
    PROVE  /\ task[t] \in TaskRec /\ TaskOk(task[t])
           /\ task[t].pc \in {"read", "overlay", "record", "insert"} =>
                 task[t].y \in Measured /\ task[t].m \in Runs /\ task[t].y \in Runs
           /\ record \in [Measured -> Runs]
           /\ cache \in [Measured -> Runs \cup {Nobody}]
           /\ restates \in {"idle", "running", "again"} /\ dropped \in BOOLEAN
<1>1. task \in [Tasks -> TaskRec]
  BY DEF DeltaInv, TypeOK, TaskRec, Kind, Pc
<1>2. task[t] \in TaskRec /\ TaskOk(task[t])
  BY <1>1 DEF DeltaInv, TaskInv
<1>3. QED
  BY <1>2, DeltaAssumption DEF DeltaInv, TypeOK, TaskOk

LEMMA Marked == DeltaInv /\ outrun' = outrun => outrun' \subseteq Measured
BY DEF DeltaInv, TypeOK

LEMMA ReadKeeps == ASSUME DeltaInv, NEW t \in Tasks, Read(t) PROVE DeltaInv'
<1>1. PICK y, m, found : /\ y = task[t].y /\ m = task[t].m
                         /\ found = IF Cached(y, m) THEN "there" ELSE Between(y, m)
  OBVIOUS
<1>2. /\ task[t] \in TaskRec /\ task[t].pc = "read" /\ TaskOk(task[t])
      /\ y \in Measured /\ m \in Runs /\ y \in Runs
      /\ cache \in [Measured -> Runs \cup {Nobody}]
      /\ restates \in {"idle", "running", "again"} /\ dropped \in BOOLEAN
  BY <1>1, TaskAt DEF Read
<1>3. UNCHANGED <<runVars, pullVars, history, row, limits>>
  BY DEF Read
<1>4. LimitInv'
  BY <1>3, LimitsStay DEF DeltaInv, pullVars
<1>5. Leaves
  BY <1>2, <1>3, Marked, Zenon DEF Leaves, pullVars, history
<1>6. CASE found = "there"
  <2>1. Between(y, m) = "there"
    BY <1>1, <1>2, <1>6, DeltaAssumption DEF Cached, DeltaInv, RowInv
  <2>2. PICK to : to = [task[t] EXCEPT !.pc = "overlay"]
    OBVIOUS
  <2>3. Goes(t, to)
    BY <1>1, <1>6, <2>2 DEF Read
  <2>4. to \in TaskRec /\ to.pc = "overlay" /\ to.y = y /\ to.m = m /\ to.kind = task[t].kind
        /\ to.of = task[t].of
    BY <1>1, <1>2, <2>2 DEF TaskRec, Pc
  <2>5. TaskOk(to)
    BY <1>2, <2>1, <2>4 DEF TaskOk
  <2>6. cache' = [cache EXCEPT ![y] = IF Cached(y, m) THEN cache[y] ELSE m]
    BY <1>1, <1>6 DEF Read
  <2>7. \A z \in Measured : cache'[z] = cache[z] \/ (z = y /\ cache'[z] = m)
    BY <1>2, <2>6
  <2>8. cache' \in [Measured -> Runs \cup {Nobody}]
    BY <1>2, <2>6
  <2>9. QED
    <3>1. Caches
      BY <2>1, <2>7, <2>8 DEF Caches
    <3>2. to \in TaskRec
      BY <2>4
    <3>3. QED
      BY <1>4, <1>5, <2>3, <2>5, <3>1, <3>2, TaskMoves
<1>7. CASE found # "there"
  <2>1. found = Between(y, m)
    BY <1>1, <1>7
  <2>2. WordOf(found) \in {"pending", "refused"}
    BY <1>2, <1>7, <2>1, WordOfAbsent DEF DeltaInv
  <2>3. PICK to : to = [task[t] EXCEPT !.pc = "record", !.word = WordOf(found)]
    OBVIOUS
  <2>4. Goes(t, to)
    BY <1>1, <1>7, <2>3 DEF Read
  <2>5. /\ to \in TaskRec /\ to.pc = "record" /\ to.y = y /\ to.m = m
        /\ to.kind = task[t].kind /\ to.of = task[t].of /\ to.word \in {"pending", "refused"}
    BY <1>1, <1>2, <2>2, <2>3 DEF TaskRec, Pc, Words
  <2>6. TaskOk(to)
    BY <1>2, <2>5 DEF TaskOk, Earned, Computed
  <2>7. cache' = cache
    BY <1>1, <1>7 DEF Read
  <2>8. QED
    <3>1. Caches
      BY <1>2, <2>7 DEF Caches
    <3>2. to \in TaskRec
      BY <2>5
    <3>3. QED
      BY <1>4, <1>5, <2>4, <2>6, <3>1, <3>2, TaskMoves
<1>8. QED
  BY <1>6, <1>7

LEMMA OverlayKeeps == ASSUME DeltaInv, NEW t \in Tasks, Overlay(t) PROVE DeltaInv'
<1>1. PICK y, m : y = task[t].y /\ m = task[t].m
  OBVIOUS
<1>2. /\ task[t] \in TaskRec /\ task[t].pc = "overlay" /\ TaskOk(task[t])
      /\ y \in Measured /\ m \in Runs /\ y \in Runs
      /\ restates \in {"idle", "running", "again"} /\ dropped \in BOOLEAN
      /\ cache \in [Measured -> Runs \cup {Nobody}]
  BY <1>1, TaskAt DEF Overlay
<1>3. UNCHANGED <<runVars, rowVars, pullVars, history>>
  BY DEF Overlay
<1>4. LimitInv'
  <2>1. UNCHANGED limits \/ Spend("faults")
    BY DEF Overlay, Fault
  <2>2. QED
    BY <1>3, <2>1, LimitsStay DEF DeltaInv, pullVars, What
<1>5. Between(y, m) = "there"
  BY <1>1, <1>2 DEF TaskOk
<1>6. Overlaid(y, m) \in Computed /\ Earned(y, m, Overlaid(y, m))
  BY <1>5, OverlaidIsEarned DEF DeltaInv
<1>7. PICK word \in {Overlaid(y, m), "unknown"} :
         Goes(t, [task[t] EXCEPT !.pc = "record", !.word = word])
  BY <1>1 DEF Overlay
<1>8. word \in Words /\ Earned(y, m, word)
  BY <1>6 DEF Words, Computed, Earned
<1>9. PICK to : to = [task[t] EXCEPT !.pc = "record", !.word = word]
  OBVIOUS
<1>10. /\ to \in TaskRec /\ to.pc = "record" /\ to.y = y /\ to.m = m
       /\ to.kind = task[t].kind /\ to.of = task[t].of /\ to.word = word
  BY <1>1, <1>2, <1>8, <1>9 DEF TaskRec, Pc
<1>11. TaskOk(to)
  BY <1>2, <1>8, <1>10 DEF TaskOk
<1>12. Leaves
  BY <1>2, <1>3, Marked, Zenon DEF Leaves, pullVars, rowVars, history
<1>13. Caches
  BY <1>2, <1>3 DEF Caches, rowVars
<1>14. Goes(t, to) /\ to \in TaskRec
  BY <1>7, <1>9, <1>10
<1>15. QED
  BY <1>4, <1>11, <1>12, <1>13, <1>14, TaskMoves

\* The steps of a task that write nothing: they free it, or send it to a pair,
\* or to a list.
LEMMA PlainKeeps ==
    ASSUME DeltaInv, NEW t \in Tasks, NEW to \in TaskRec, TaskOk(to), Goes(t, to),
           UNCHANGED <<runVars, rowVars, pullVars, history, limits>>
    PROVE  DeltaInv'
<1>1. LimitInv'
  BY LimitsStay DEF DeltaInv, pullVars
<1>2. Leaves
  BY TaskAt, Marked, Zenon DEF Leaves, pullVars, rowVars, history
<1>3. Caches
  BY TaskAt DEF Caches, rowVars
<1>4. QED
  BY <1>1, <1>2, <1>3, TaskMoves

LEMMA SettleOwnKeeps == ASSUME DeltaInv, NEW t \in Tasks, SettleOwn(t) PROVE DeltaInv'
<1>1. PICK r : r = task[t].of
  OBVIOUS
<1>2. /\ task[t] \in TaskRec /\ TaskOk(task[t]) /\ record \in [Measured -> Runs]
      /\ task[t].pc = "own"
  BY TaskAt DEF SettleOwn
<1>3. r \in Runs
  BY <1>1, <1>2 DEF TaskOk
<1>4. PICK to : to = IF r \in Measured THEN Delta(task[t], r, record[r])
                     ELSE [task[t] EXCEPT !.pc = "list"]
  OBVIOUS
<1>5. Goes(t, to)
  BY <1>1, <1>4 DEF SettleOwn
<1>6. to \in TaskRec /\ TaskOk(to)
  <2>1. CASE r \in Measured
    BY <1>1, <1>2, <1>3, <1>4, <2>1, DeltaType
  <2>2. CASE r \notin Measured
    <3>1. /\ to \in TaskRec /\ to.pc = "list" /\ to.kind = task[t].kind
          /\ to.of = task[t].of
      BY <1>2, <1>4, <2>2 DEF TaskRec, Pc
    <3>2. QED
      BY <1>2, <3>1 DEF TaskOk
  <2>3. QED
    BY <2>1, <2>2
<1>7. QED
  BY <1>5, <1>6, PlainKeeps DEF SettleOwn

LEMMA ListKeeps == ASSUME DeltaInv, NEW t \in Tasks, List(t) PROVE DeltaInv'
<1>1. PICK runs : runs = Listed(task[t])
  OBVIOUS
<1>2. task[t] \in TaskRec /\ TaskOk(task[t]) /\ runs \in SUBSET Measured
  BY <1>1, TaskAt DEF Listed, Dependents
<1>3. PICK to : to = [task[t] EXCEPT !.pc = "each", !.todo = runs]
  OBVIOUS
<1>4. to \in TaskRec /\ to.pc = "each" /\ to.kind = task[t].kind /\ to.of = task[t].of
  BY <1>2, <1>3 DEF TaskRec, Pc
<1>5. TaskOk(to)
  BY <1>2, <1>4 DEF TaskOk
<1>6. QED
  BY <1>1, <1>3, <1>4, <1>5, PlainKeeps DEF List

LEMMA NextRunKeeps == ASSUME DeltaInv, NEW t \in Tasks, NextRun(t) PROVE DeltaInv'
<1>1. /\ task[t] \in TaskRec /\ TaskOk(task[t]) /\ record \in [Measured -> Runs]
  BY TaskAt
<1>2. PICK y \in task[t].todo :
         Goes(t, Delta([task[t] EXCEPT !.todo = @ \ {y}], y,
                       IF task[t].kind = "settle" THEN task[t].of ELSE record[y]))
  BY DEF NextRun
<1>3. PICK left, m, rec : /\ left = task[t].todo \ {y}
                          /\ m = IF task[t].kind = "settle" THEN task[t].of ELSE record[y]
                          /\ rec = [task[t] EXCEPT !.todo = left]
  OBVIOUS
<1>4. task[t].todo \in SUBSET Measured
  BY <1>1 DEF TaskRec
<1>5. y \in Measured /\ left \in SUBSET Measured
  BY <1>3, <1>4
<1>6. rec \in TaskRec /\ rec.kind = task[t].kind /\ rec.of = task[t].of
  BY <1>1, <1>3, <1>5 DEF TaskRec
<1>7. m \in Runs
  BY <1>1, <1>3, <1>5 DEF TaskOk
<1>8. Delta(rec, y, m) \in TaskRec /\ TaskOk(Delta(rec, y, m))
  BY <1>1, <1>5, <1>6, <1>7, DeltaType DEF TaskOk
<1>9. Goes(t, Delta(rec, y, m))
  BY <1>2, <1>3
<1>10. QED
  BY <1>8, <1>9, PlainKeeps DEF NextRun

LEMMA SettleEndsKeeps == ASSUME DeltaInv, NEW t \in Tasks, SettleEnds(t) PROVE DeltaInv'
BY FreeType, PlainKeeps DEF SettleEnds

\* A step of one task that may use up a fault and mark rows, and writes nothing
\* else.
LEMMA MarksKeeps ==
    ASSUME DeltaInv, NEW t \in Tasks, NEW to \in TaskRec, TaskOk(to), Goes(t, to),
           UNCHANGED <<runVars, rowVars, pullVars, dropped>>, Fault("cancel") \/ Fault("store"),
           outrun' \subseteq Measured
    PROVE  DeltaInv'
<1>1. LimitInv'
  <2>1. Spend("faults")
    BY DEF Fault
  <2>2. QED
    BY <2>1, LimitsStay DEF DeltaInv, pullVars, What
<1>2. Leaves
  BY TaskAt, Zenon DEF Leaves, pullVars, rowVars
<1>3. Caches
  BY TaskAt DEF Caches, rowVars
<1>4. QED
  BY <1>1, <1>2, <1>3, TaskMoves

LEMMA ReadFailsKeeps == ASSUME DeltaInv, NEW t \in Tasks, ReadFails(t) PROVE DeltaInv'
<1>1. PICK word \in {"pending", "refused"} :
         Goes(t, [task[t] EXCEPT !.pc = "record", !.word = word])
  BY DEF ReadFails
<1>2. task[t] \in TaskRec /\ TaskOk(task[t]) /\ task[t].pc = "read"
  BY TaskAt DEF ReadFails
<1>3. PICK to : to = [task[t] EXCEPT !.pc = "record", !.word = word]
  OBVIOUS
<1>4. /\ to \in TaskRec /\ to.pc = "record" /\ to.y = task[t].y /\ to.m = task[t].m
      /\ to.kind = task[t].kind /\ to.of = task[t].of /\ to.word = word
  BY <1>2, <1>3 DEF TaskRec, Pc, Words
<1>5. TaskOk(to)
  BY <1>2, <1>4 DEF TaskOk, Earned, Computed
<1>6. /\ UNCHANGED <<runVars, rowVars, pullVars, dropped>> /\ Fault("store")
      /\ outrun' = outrun /\ outrun \subseteq Measured
  BY Zenon DEF ReadFails, history, DeltaInv, TypeOK
<1>7. QED
  BY <1>1, <1>3, <1>4, <1>5, <1>6, MarksKeeps

LEMMA MissedType ==
    ASSUME DeltaInv, NEW ys \in SUBSET Measured
    PROVE  Missed(ys) \subseteq Measured
BY DEF Missed, DeltaInv, TypeOK

LEMMA PassesOverKeeps == ASSUME DeltaInv, NEW t \in Tasks, PassesOver(t) PROVE DeltaInv'
<1>1. /\ task[t] \in TaskRec /\ TaskOk(task[t])
      /\ UNCHANGED <<runVars, rowVars, pullVars, dropped>> /\ Fault("store")
  BY TaskAt DEF PassesOver
<1>2. PICK to, ys : /\ Goes(t, to) /\ outrun' = Missed(ys) /\ ys \in SUBSET Measured
                    /\ \/ to = [task[t] EXCEPT !.pc = "list"]
                       \/ to = [task[t] EXCEPT !.pc = "each"]
                       \/ \E y \in task[t].todo : to = [task[t] EXCEPT !.todo = @ \ {y}]
                                                 /\ task[t].pc = "each"
  <2>1. Measured \cap {task[t].of} \in SUBSET Measured /\ Listed(task[t]) \in SUBSET Measured
    BY DEF Listed, Dependents
  <2>2. \A y \in task[t].todo : {y} \in SUBSET Measured
    BY <1>1 DEF TaskRec
  <2>3. QED
    BY <2>1, <2>2 DEF PassesOver
<1>3. /\ to \in TaskRec /\ to.kind = task[t].kind /\ to.of = task[t].of
      /\ to.pc \in {"list", "each"}
  BY <1>1, <1>2 DEF TaskRec, Pc
<1>4. TaskOk(to)
  BY <1>1, <1>3 DEF TaskOk
<1>5. QED
  BY <1>1, <1>2, <1>3, <1>4, MissedType, MarksKeeps

LEMMA ClientGoneKeeps == ASSUME DeltaInv, NEW t \in Tasks, ClientGone(t) PROVE DeltaInv'
<1>1. /\ UNCHANGED <<runVars, rowVars, pullVars, dropped>> /\ Fault("cancel") /\ Goes(t, Free)
      /\ outrun' = outrun /\ outrun \subseteq Measured
  BY Zenon DEF ClientGone, history, DeltaInv, TypeOK
<1>2. QED
  BY <1>1, FreeType, MarksKeeps

LEMMA ViewKeeps ==
    ASSUME DeltaInv, NEW t \in Tasks, NEW y \in Measured, View(t, y) \/ Propose(t, y)
    PROVE  DeltaInv'
<1>1. PICK kind \in {"view", "propose"} : Goes(t, Delta(Started(kind, "read", y), y, record[y]))
  BY DEF View, Propose
<1>2. record[y] \in Runs /\ y \in Runs
  BY TaskAt, DeltaAssumption
<1>3. Started(kind, "read", y) \in TaskRec /\ Started(kind, "read", y).kind # "settle"
  BY <1>2, StartedType DEF Kind, Pc
<1>4. PICK to : to = Delta(Started(kind, "read", y), y, record[y])
  OBVIOUS
<1>5. to \in TaskRec /\ TaskOk(to)
  BY <1>2, <1>3, <1>4, DeltaType
<1>6. QED
  BY <1>1, <1>4, <1>5, PlainKeeps DEF View, Propose

\* A pass of the restatement begins or ends.
LEMMA AskRestateKeeps == ASSUME DeltaInv, NEW t \in Tasks, AskRestate(t) PROVE DeltaInv'
<1>1. /\ owed > 0 /\ owed' = owed - 1 /\ restates' = Begin /\ dropped' = FALSE
      /\ UNCHANGED <<runVars, rowVars, acks, limits, outrun>>
  BY DEF AskRestate
<1>2. restates' \in {"idle", "running", "again"}
  BY <1>1 DEF Begin
<1>3. LimitInv'
  <2>1. limits' = limits
    BY <1>1
  <2>2. limits["decisions"] \in Nat
    BY DEF DeltaInv, LimitInv, What
  <2>3. QED
    BY <1>1, <2>1, <2>2, DeltaAssumption DEF DeltaInv, LimitInv
<1>4. Leaves
  <2>1. dropped' \in BOOLEAN
    BY <1>1, Zenon
  <2>2. QED
    BY <1>1, <1>2, <2>1, Marked, Zenon DEF Leaves, rowVars
<1>5. Caches
  BY <1>1, TaskAt DEF Caches, rowVars
<1>6. CASE Goes(t, Started("restate", "list", Nobody))
  <2>1. PICK to : to = Started("restate", "list", Nobody)
    OBVIOUS
  <2>2. to \in TaskRec /\ to.kind = "restate" /\ to.pc = "list"
    BY <2>1, StartedType DEF Kind, Pc
  <2>3. TaskOk(to)
    BY <2>2 DEF TaskOk
  <2>4. QED
    BY <1>3, <1>4, <1>5, <1>6, <2>1, <2>2, <2>3, TaskMoves
<1>7. CASE UNCHANGED task
  <2>1. task \in [Tasks -> TaskRec]
    BY DEF DeltaInv, TypeOK, TaskRec, Kind, Pc
  <2>2. Goes(t, task[t])
    BY <1>7, <2>1 DEF Goes
  <2>3. task[t] \in TaskRec /\ TaskOk(task[t])
    BY TaskAt
  <2>4. PICK to : to = task[t]
    OBVIOUS
  <2>5. QED
    BY <1>3, <1>4, <1>5, <2>2, <2>3, <2>4, TaskMoves
<1>8. QED
  BY <1>6, <1>7 DEF AskRestate

LEMMA RestateEndsKeeps == ASSUME DeltaInv, NEW t \in Tasks, RestateEnds(t) PROVE DeltaInv'
<1>1. /\ restates' = Finish /\ UNCHANGED <<runVars, rowVars, history, acks, owed, limits>>
  BY DEF RestateEnds
<1>2. restates' \in {"idle", "running", "again"} /\ dropped \in BOOLEAN
  BY <1>1, TaskAt DEF Finish
<1>3. LimitInv'
  BY <1>1, LimitsStay DEF DeltaInv
<1>4. Leaves
  BY <1>1, <1>2, Marked, Zenon DEF Leaves, history, rowVars
<1>5. Caches
  BY <1>1, TaskAt DEF Caches, rowVars
<1>6. PICK to \in {Started("restate", "list", Nobody), Free} : Goes(t, to)
  BY DEF RestateEnds
<1>7. to \in TaskRec /\ TaskOk(to)
  <2>1. CASE to = Free
    BY <2>1, FreeType
  <2>2. CASE to = Started("restate", "list", Nobody)
    <3>1. to \in TaskRec /\ to.kind = "restate" /\ to.pc = "list"
      BY <2>2, StartedType DEF Kind, Pc
    <3>2. QED
      BY <3>1 DEF TaskOk
  <2>3. QED
    BY <1>6, <2>1, <2>2
<1>8. QED
  BY <1>3, <1>4, <1>5, <1>6, <1>7, TaskMoves

\* Where a task goes after its word was recorded.
LEMMA AfterType ==
    ASSUME NEW rec \in TaskRec
    PROVE  After(rec) \in {"list", "each", "insert", "free"}
BY DEF After

RestTyped ==
    /\ cache \in [Measured -> Runs \cup {Nobody}]
    /\ restates \in {"idle", "running", "again"} /\ dropped \in BOOLEAN

\* The types a step has to show again when it changes a row or the runs.
LEMMA TypeFrom ==
    ASSUME TypeOK, LimitInv',
           state' \in [Runs -> States], record' \in [Measured -> Runs],
           row' \in [Measured -> [against : Runs, word : Words]],
           task' \in [Tasks -> TaskRec],
           repoint' \in Repoint,
           outrun' \subseteq Measured, \A k \in acks' : IsAck(k),
           RestTyped'
    PROVE  TypeOK'
<1>1. /\ cache' \in [Measured -> Runs \cup {Nobody}]
      /\ restates' \in {"idle", "running", "again"} /\ dropped' \in BOOLEAN
  BY DEF RestTyped
<1>2. owed' \in 0 .. MaxDecisions
  <2>1. MaxDecisions \in Nat
    BY DeltaAssumption
  <2>2. limits'["decisions"] \in Nat
    BY DEF LimitInv, What
  <2>3. QED
    BY <2>1, <2>2 DEF LimitInv
<1>3. QED
  BY <1>1, <1>2 DEF TypeOK, TaskRec, Kind, Pc, Repoint

\* The parts of TypeOK.
LEMMA Types ==
    ASSUME TypeOK
    PROVE  /\ state \in [Runs -> States] /\ record \in [Measured -> Runs]
           /\ row \in [Measured -> [against : Runs, word : Words]]
           /\ task \in [Tasks -> TaskRec]
           /\ repoint \in Repoint
           /\ outrun \subseteq Measured /\ RestTyped /\ \A k \in acks : IsAck(k)
BY DEF TypeOK, TaskRec, Kind, Pc, RestTyped, Repoint

LEMMA GoesTypes ==
    ASSUME task \in [Tasks -> TaskRec], NEW t \in Tasks, NEW to \in TaskRec, Goes(t, to)
    PROVE  /\ task' \in [Tasks -> TaskRec]
           /\ \A u \in Tasks : task'[u] = IF u = t THEN to ELSE task[u]
<1> DEFINE R == TaskRec
<1>1. task \in [Tasks -> R] /\ to \in R
  OBVIOUS
<1> HIDE DEF R
<1>2. task' \in [Tasks -> R] /\ \A u \in Tasks : task'[u] = IF u = t THEN to ELSE task[u]
  BY <1>1 DEF Goes
<1>3. QED
  BY <1>2 DEF R

\* The word a task recorded was earned by the pair the row still names.
LEMMA RecordKeeps == ASSUME DeltaInv, NEW t \in Tasks, Record(t) PROVE DeltaInv'
<1>1. PICK y, m, word, next : /\ y = task[t].y /\ m = task[t].m /\ word = task[t].word
                              /\ next = After(task[t])
  OBVIOUS
<1>2. /\ task[t] \in TaskRec /\ TaskOk(task[t]) /\ task[t].pc = "record"
      /\ y \in Measured /\ m \in Runs
  BY <1>1, TaskAt DEF Record
<1>3. word \in Words /\ Earned(y, m, word) /\ next \in {"list", "each", "insert", "free"}
  BY <1>1, <1>2, AfterType DEF TaskRec, TaskOk
<1>4. UNCHANGED <<runVars, pullVars, cache, dropped>>
  BY DEF Record
<1>5. PICK to : to = IF next = "free" THEN Free ELSE [task[t] EXCEPT !.pc = next]
  OBVIOUS
<1>6. Goes(t, to)
  BY <1>1, <1>5 DEF Record
<1>7. to \in TaskRec /\ TaskOk(to)
  <2>1. CASE next = "free"
    BY <1>5, <2>1, FreeType
  <2>2. CASE next # "free"
    <3>1. /\ to \in TaskRec /\ to.pc = next /\ to.kind = task[t].kind /\ to.of = task[t].of
          /\ to.y = y /\ to.m = m
      BY <1>1, <1>2, <1>3, <1>5, <2>2 DEF TaskRec, Pc
    <3>2. QED
      BY <1>2, <1>3, <2>2, <3>1 DEF TaskOk
  <2>3. QED
    BY <2>1, <2>2
<1>8. \/ row' = row
      \/ row[y].against = m /\ row' = [row EXCEPT ![y].word = word]
  BY <1>1 DEF Record, Lands
<1>9. outrun' \subseteq Measured /\ (UNCHANGED limits \/ Spend("faults"))
  <2>1. \/ outrun' = outrun \/ outrun' = outrun \cup {y} \/ outrun' = outrun \ {y}
        \/ outrun' = Missed({y})
    BY <1>1 DEF Record
  <2>2. outrun \subseteq Measured
    BY Types DEF DeltaInv
  <2>3. UNCHANGED limits \/ Spend("faults")
    BY DEF Record, Fault
  <2>4. QED
    BY <1>2, <2>1, <2>2, <2>3, MissedType
<1>10. LimitInv'
  BY <1>4, <1>9, LimitsStay DEF DeltaInv, pullVars, What
<1>11. row \in [Measured -> [against : Runs, word : Words]]
  BY Types DEF DeltaInv
<1>12. row' \in [Measured -> [against : Runs, word : Words]]
  BY <1>2, <1>3, <1>8, <1>11
<1>13. \A z \in Measured : \/ row'[z] = row[z]
                           \/ Earned(z, row'[z].against, row'[z].word)
  BY <1>2, <1>3, <1>8, <1>11
<1>14. /\ task' \in [Tasks -> TaskRec]
       /\ \A u \in Tasks : task'[u] = IF u = t THEN to ELSE task[u]
  BY <1>6, <1>7, Types, GoesTypes DEF DeltaInv
<1>15. TypeOK'
  <2>1. RestTyped'
    BY <1>4, Types, Zenon DEF DeltaInv, RestTyped, pullVars
  <2>2. /\ state' \in [Runs -> States] /\ record' \in [Measured -> Runs]
        /\ repoint' \in Repoint
        /\ \A k \in acks' : IsAck(k)
    BY <1>4, Types DEF DeltaInv, runVars, pullVars
  <2>3. QED
    BY <1>9, <1>10, <1>12, <1>14, <2>1, <2>2, TypeFrom DEF DeltaInv
<1>16. Lasts /\ AckInv' /\ (repoint.y # Nobody => repoint.to \in Runs /\ repoint.from \in Runs)'
  BY <1>4, SameLasts DEF DeltaInv, AckInv, runVars, pullVars
<1>17. \A u \in Tasks : task'[u] = task[u] \/ TaskOk(task'[u])
  BY <1>7, <1>14
<1>18. cache' = cache
  BY <1>4
<1>19. QED
  BY <1>10, <1>13, <1>15, <1>16, <1>17, <1>18, Frame

-----------------------------------------------------------------------------
(* Acknowledgements.                                                       *)

\* A step that leaves runs and rows, and takes no confirmation back.
LEMMA AcksMove ==
    ASSUME DeltaInv, runVars' = runVars, rowVars' = rowVars, outrun' = outrun,
           RestTyped', AckInv', LimitInv',
           \A y, m : Decided(y, m) => Decided(y, m)',
           task' \in [Tasks -> TaskRec],
           \A u \in Tasks : task'[u] = task[u] \/ TaskOk(task'[u])
    PROVE  DeltaInv'
<1>1. state' = state /\ record' = record /\ repoint' = repoint /\ row' = row /\ cache' = cache
  BY DEF runVars, rowVars
<1>2. Lasts
  BY <1>1 DEF Lasts
<1>3. /\ state' \in [Runs -> States] /\ record' \in [Measured -> Runs]
      /\ row' \in [Measured -> [against : Runs, word : Words]]
      /\ repoint' \in Repoint
      /\ outrun' \subseteq Measured
  BY <1>1, Types DEF DeltaInv
<1>4. \A k \in acks' : IsAck(k)
  BY DEF AckInv
<1>5. TypeOK'
  BY <1>3, <1>4, TypeFrom DEF DeltaInv
<1>6. (repoint.y # Nobody => repoint.to \in Runs /\ repoint.from \in Runs)'
  BY <1>1 DEF DeltaInv
<1>7. QED
  BY <1>1, <1>2, <1>5, <1>6, Frame

LEMMA InsertKeeps == ASSUME DeltaInv, NEW t \in Tasks, Insert(t) PROVE DeltaInv'
<1>1. /\ runVars' = runVars /\ rowVars' = rowVars /\ outrun' = outrun /\ restates' = restates
      /\ dropped' = dropped /\ owed' = owed
  BY Zenon DEF Insert, history
<1>2. Goes(t, Free) /\ Free \in TaskRec /\ TaskOk(Free) /\ task \in [Tasks -> TaskRec]
  BY FreeType, Types DEF Insert, DeltaInv
<1>3. /\ task' \in [Tasks -> TaskRec]
      /\ \A u \in Tasks : task'[u] = task[u] \/ TaskOk(task'[u])
  BY <1>2, GoesTypes
<1>4. RestTyped'
  BY <1>1, Types, Zenon DEF DeltaInv, RestTyped, rowVars
<1>5. LimitInv'
  BY <1>1, LimitsStay DEF Insert, DeltaInv, What
<1>6. \/ acks' = acks
      \/ \E k : acks' = acks \cup {k} /\ IsAck(k) /\ k.confirmed # k.by
  <2>1. CASE UNCHANGED <<acks, limits>>
    BY <2>1
  <2>2. CASE \E shape \in ChargedShapes(Tree[task[t].m], Tree[task[t].y]), by \in People :
                acks' = acks \cup
                  {[id |-> Cardinality(acks) + 1, shape |-> shape, change |-> Change[task[t].y],
                    by |-> by, confirmed |-> "nobody", withdrawn |-> FALSE]}
    <3> DEFINE proposal(shape, by) ==
                 [id |-> Cardinality(acks) + 1, shape |-> shape, change |-> Change[task[t].y],
                  by |-> by, confirmed |-> "nobody", withdrawn |-> FALSE]
    <3>0. PICK shape \in ChargedShapes(Tree[task[t].m], Tree[task[t].y]), by \in People :
             acks' = acks \cup {proposal(shape, by)}
      BY <2>2
    <3>1. PICK k : k = proposal(shape, by) /\ acks' = acks \cup {k}
      BY <3>0
    <3>2. Cardinality(acks) + 1 \in Nat /\ "nobody" \notin People
      BY FS_CardinalityType, DeltaAssumption DEF DeltaInv, AckInv
    <3>3. IsAck(k) /\ k.confirmed # k.by
      BY <3>1, <3>2 DEF IsAck
    <3>4. QED
      BY <3>1, <3>3
  <2>3. QED
    BY <2>1, <2>2 DEF Insert
<1>7. AckInv'
  <2>1. CASE acks' = acks
    BY <2>1 DEF DeltaInv, AckInv
  <2>2. CASE acks' # acks
    <3>1. PICK k : acks' = acks \cup {k} /\ IsAck(k) /\ k.confirmed # k.by
      BY <1>6, <2>2
    <3>2. IsFiniteSet(acks')
      BY <3>1, FS_AddElement DEF DeltaInv, AckInv
    <3>3. PICK b \in Nat : \A l \in acks : l.id <= b
      BY DEF DeltaInv, AckInv
    <3>4. \A l \in acks' : IsAck(l) /\ l.confirmed # l.by
      BY <3>1 DEF DeltaInv, AckInv
    <3>5. k.id \in Nat /\ \A l \in acks : l.id \in Nat
      BY <3>1 DEF IsAck, DeltaInv, AckInv
    <3>6. b + k.id \in Nat /\ \A l \in acks' : l.id <= b + k.id
      BY <3>1, <3>3, <3>5
    <3>7. QED
      BY <3>2, <3>4, <3>6 DEF AckInv
  <2>3. QED
    BY <2>1, <2>2
<1>8. \A y, m : Decided(y, m) => Decided(y, m)'
  <2>1. acks \subseteq acks'
    BY <1>6
  <2>2. QED
    BY <2>1 DEF Decided
<1>9. QED
  BY <1>1, <1>3, <1>4, <1>5, <1>7, <1>8, AcksMove

\* A decision keeps what it decides about, and confirms or leaves confirmed.
LEMMA DecidesKeeps ==
    ASSUME DeltaInv, NEW k \in acks, NEW d, Decides(k, d), IsAck(d),
           d.id = k.id, d.shape = k.shape, d.change = k.change, d.by = k.by,
           d.confirmed # d.by, k.confirmed \in People => d.confirmed \in People
    PROVE  DeltaInv'
<1>1. /\ runVars' = runVars /\ rowVars' = rowVars /\ outrun' = outrun /\ restates' = restates
      /\ dropped' = dropped /\ task' = task
  BY Zenon DEF Decides, history
<1>2. acks' = (acks \ {k}) \cup {d} /\ owed' = owed + 1 /\ Spend("decisions")
  BY DEF Decides
<1>3. RestTyped'
  BY <1>1, Types, Zenon DEF DeltaInv, RestTyped, rowVars
<1>4. LimitInv'
  <2>1. LimitInv /\ "decisions" \in What
    BY DEF DeltaInv, What
  <2>2. limits' \in [What -> Nat] /\ limits'["decisions"] = limits["decisions"] - 1
    BY <1>2, <2>1, SpendType
  <2>3. limits["decisions"] \in Nat /\ MaxDecisions \in Nat
    BY <2>1, DeltaAssumption DEF LimitInv
  <2>4. QED
    BY <1>2, <2>1, <2>2, <2>3 DEF LimitInv
<1>5. AckInv'
  <2>1. IsFiniteSet(acks \ {k})
    BY FS_RemoveElement DEF DeltaInv, AckInv
  <2>2. IsFiniteSet(acks')
    BY <1>2, <2>1, FS_AddElement
  <2>3. QED
    BY <1>2, <2>2 DEF DeltaInv, AckInv
<1>6. \A y, m : Decided(y, m) => Decided(y, m)'
  <2> SUFFICES ASSUME NEW y, NEW m, Decided(y, m), NEW shape \in Charges(y, m)
               PROVE  \E l \in acks' : /\ l.shape = shape /\ l.change = Change[y]
                                       /\ l.confirmed \in People \ {l.by}
    BY DEF Decided, Charges
  <2>1. PICK l \in acks : /\ l.shape = shape /\ l.change = Change[y]
                          /\ l.confirmed \in People \ {l.by}
    BY DEF Decided
  <2>2. CASE l = k
    BY <1>2, <2>1, <2>2
  <2>3. CASE l # k
    BY <1>2, <2>1, <2>3
  <2>4. QED
    BY <2>2, <2>3
<1>7. task \in [Tasks -> TaskRec]
  BY Types DEF DeltaInv
<1>8. QED
  BY <1>1, <1>3, <1>4, <1>5, <1>6, <1>7, AcksMove

LEMMA DecisionKeeps == ASSUME DeltaInv, Decision PROVE DeltaInv'
<1>1. PICK k \in acks : Withdraw(k) \/ \E by \in People : Confirm(k, by)
  BY DEF Decision
<1>2. IsAck(k) /\ k.confirmed # k.by
  BY DEF DeltaInv, AckInv
<1>3. CASE Withdraw(k)
  <2>1. PICK d : d = [k EXCEPT !.withdrawn = TRUE]
    OBVIOUS
  <2>2. /\ d = [id |-> k.id, shape |-> k.shape, change |-> k.change, by |-> k.by,
                confirmed |-> k.confirmed, withdrawn |-> TRUE]
    BY <1>2, <2>1 DEF IsAck
  <2>3. /\ IsAck(d) /\ d.id = k.id /\ d.shape = k.shape /\ d.change = k.change /\ d.by = k.by
        /\ d.confirmed = k.confirmed
    BY <1>2, <2>2 DEF IsAck
  <2>4. Decides(k, d)
    BY <1>3, <2>1 DEF Withdraw
  <2>5. QED
    BY <1>2, <2>3, <2>4, DecidesKeeps
<1>4. ASSUME NEW by \in People, Confirm(k, by) PROVE DeltaInv'
  <2>1. PICK d : d = [k EXCEPT !.confirmed = by]
    OBVIOUS
  <2>2. /\ d = [id |-> k.id, shape |-> k.shape, change |-> k.change, by |-> k.by,
                confirmed |-> by, withdrawn |-> k.withdrawn]
    BY <1>2, <2>1 DEF IsAck
  <2>3. /\ IsAck(d) /\ d.id = k.id /\ d.shape = k.shape /\ d.change = k.change /\ d.by = k.by
        /\ d.confirmed = by
    BY <1>2, <2>2 DEF IsAck
  <2>4. Decides(k, d) /\ by # k.by
    BY <1>4, <2>1 DEF Confirm, SecondPerson
  <2>5. QED
    BY <1>2, <2>3, <2>4, DecidesKeeps
<1>5. QED
  BY <1>1, <1>3, <1>4

LEMMA CancelKeeps == ASSUME DeltaInv, Cancel PROVE DeltaInv'
<1>1. /\ runVars' = runVars /\ rowVars' = rowVars /\ outrun' = outrun /\ restates' = restates
      /\ dropped' = TRUE /\ task' = task /\ acks' = acks
  BY Zenon DEF Cancel
<1>2. owed > 0 /\ owed' = owed - 1 /\ Spend("faults")
  BY DEF Cancel, Fault
<1>3. RestTyped'
  <2>1. dropped' \in BOOLEAN
    BY <1>1, Zenon
  <2>2. QED
    BY <1>1, <2>1, Types, Zenon DEF DeltaInv, RestTyped, rowVars
<1>4. LimitInv'
  <2>1. LimitInv /\ "faults" \in What /\ "decisions" \in What
    BY DEF DeltaInv, What
  <2>2. limits["decisions"] \in Nat /\ MaxDecisions \in Nat
    BY <2>1, DeltaAssumption DEF LimitInv
  <2>3. limits' \in [What -> Nat] /\ limits'["decisions"] = limits["decisions"]
    BY <1>2, <2>1, <2>2, SpendType
  <2>4. QED
    BY <1>2, <2>1, <2>2, <2>3 DEF LimitInv
<1>5. AckInv' /\ \A y, m : Decided(y, m) => Decided(y, m)'
  BY <1>1 DEF DeltaInv, AckInv, Decided
<1>6. task \in [Tasks -> TaskRec]
  BY Types DEF DeltaInv
<1>7. QED
  BY <1>1, <1>3, <1>4, <1>5, <1>6, AcksMove

-----------------------------------------------------------------------------
(* Runs and baselines.                                                     *)

TasksKept ==
    /\ task' \in [Tasks -> TaskRec]
    /\ \A u \in Tasks : task'[u] = task[u] \/ TaskOk(task'[u])

RowsKept ==
    /\ row' \in [Measured -> [against : Runs, word : Words]]
    /\ \A y \in Measured : \/ row'[y] = row[y]
                           \/ Earned(y, row'[y].against, row'[y].word)

RepointOk ==
    /\ repoint \in Repoint
    /\ repoint.y # Nobody => repoint.to \in Runs /\ repoint.from \in Runs

LEMMA RunsMove ==
    ASSUME DeltaInv, LimitInv', RestTyped', RepointOk', TasksKept, RowsKept,
           state' \in [Runs -> States], record' \in [Measured -> Runs],
           outrun' \subseteq Measured, acks' = acks, cache' = cache,
           \A r \in Runs : state[r] \in Published => state'[r] \in Published
    PROVE  DeltaInv'
<1>1. TypeOK'
  <2>1. \A k \in acks' : IsAck(k)
    BY DEF DeltaInv, AckInv
  <2>2. QED
    BY <2>1, TypeFrom DEF DeltaInv, TasksKept, RowsKept, RepointOk
<1>2. Lasts /\ AckInv'
  BY DEF Lasts, Decided, DeltaInv, AckInv
<1>3. \A y \in Measured : cache'[y] = cache[y]
  OBVIOUS
<1>4. (repoint.y # Nobody => repoint.to \in Runs /\ repoint.from \in Runs)'
  BY DEF RepointOk
<1>5. QED
  BY <1>1, <1>2, <1>3, <1>4, Frame DEF TasksKept, RowsKept

LEMMA SameKept ==
    ASSUME DeltaInv
    PROVE  /\ task' = task => TasksKept
           /\ row' = row => RowsKept
           /\ repoint' = repoint => RepointOk'
           /\ cache' = cache /\ restates' = restates /\ dropped' = dropped => RestTyped'
<1>1. task' = task => TasksKept
  BY Types DEF DeltaInv, TasksKept
<1>2. row' = row => RowsKept
  BY Types DEF DeltaInv, RowsKept
<1>3. repoint' = repoint => RepointOk'
  BY Types DEF DeltaInv, RepointOk
<1>4. cache' = cache /\ restates' = restates /\ dropped' = dropped => RestTyped'
  BY Types, Zenon DEF DeltaInv, RestTyped
<1>5. QED
  BY <1>1, <1>2, <1>3, <1>4

LEMMA SpawnKept ==
    ASSUME DeltaInv, NEW t \in Tasks, NEW r \in Runs, SpawnSettle(t, r)
    PROVE  TasksKept
<1>1. PICK to : to = Started("settle", "own", r)
  OBVIOUS
<1>2. to \in TaskRec /\ to.kind = "settle" /\ to.pc = "own" /\ to.of = r
  BY <1>1, StartedType DEF Kind, Pc
<1>3. TaskOk(to)
  BY <1>2 DEF TaskOk
<1>4. Goes(t, to) /\ task \in [Tasks -> TaskRec]
  BY <1>1, Types DEF SpawnSettle, DeltaInv
<1>5. QED
  BY <1>2, <1>3, <1>4, GoesTypes DEF TasksKept

\* A run ends, or its record does.
LEMMA EndsKept ==
    ASSUME TypeOK, NEW r \in Runs, NEW s \in States, Ends(r, s),
           state[r] \in Published => s \in Published
    PROVE  /\ state' \in [Runs -> States]
           /\ \A q \in Runs : state[q] \in Published => state'[q] \in Published
<1>1. state \in [Runs -> States]
  BY Types
<1>2. /\ state' \in [Runs -> States]
      /\ \A q \in Runs : state'[q] = IF q = r THEN s ELSE state[q]
  BY <1>1 DEF Ends
<1>3. QED
  BY <1>2

LEMMA FinishRunKeeps ==
    ASSUME DeltaInv, NEW t \in Tasks, NEW r \in Runs, FinishRun(t, r) PROVE DeltaInv'
<1>1. /\ row' = row /\ cache' = cache /\ acks' = acks /\ restates' = restates /\ owed' = owed
      /\ outrun' = outrun /\ dropped' = dropped /\ record' = record /\ repoint' = repoint
  BY Zenon DEF FinishRun, rowVars, pullVars, history
<1>2. RestTyped' /\ RepointOk' /\ RowsKept
  BY <1>1, SameKept
<1>3. TasksKept
  BY SpawnKept DEF FinishRun
<1>4. LimitInv'
  <2>1. UNCHANGED limits \/ Spend("faults")
    BY DEF FinishRun, Fault
  <2>2. QED
    BY <1>1, <2>1, LimitsStay DEF DeltaInv, What
<1>5. record' \in [Measured -> Runs] /\ outrun' \subseteq Measured /\ TypeOK
  BY <1>1, Types DEF DeltaInv
<1>6. PICK s \in States : Ends(r, s) /\ state[r] \notin Published
  BY DEF FinishRun, States, RecordOnly, Published
<1>7. /\ state' \in [Runs -> States]
      /\ \A q \in Runs : state[q] \in Published => state'[q] \in Published
  BY <1>5, <1>6, EndsKept
<1>8. QED
  BY <1>1, <1>2, <1>3, <1>4, <1>5, <1>7, RunsMove

\* A kill, or a Finish whose request ends: no task is spawned.
LEMMA DiesKeeps ==
    ASSUME DeltaInv, NEW r \in Runs, Kill(r) \/ FinishCut(r) PROVE DeltaInv'
<1>1. /\ row' = row /\ cache' = cache /\ acks' = acks /\ restates' = restates /\ owed' = owed
      /\ dropped' = dropped /\ record' = record /\ repoint' = repoint
      /\ task' = task
  BY Zenon DEF Kill, FinishCut, rowVars, pullVars
<1>2. RestTyped' /\ RepointOk' /\ RowsKept /\ TasksKept
  BY <1>1, SameKept
<1>3. LimitInv'
  <2>1. UNCHANGED limits \/ Spend("faults")
    BY DEF Kill, FinishCut, Fault
  <2>2. QED
    BY <1>1, <2>1, LimitsStay DEF DeltaInv, What
<1>4. record' \in [Measured -> Runs] /\ outrun \subseteq Measured /\ TypeOK
  BY <1>1, Types DEF DeltaInv
<1>5. outrun' \subseteq Measured
  BY <1>4 DEF Kill, FinishCut, TouchedBy
<1>6. PICK s \in States : Ends(r, s) /\ state[r] \notin Published
  BY DEF Kill, FinishCut, States, RecordOnly, Published
<1>7. /\ state' \in [Runs -> States]
      /\ \A q \in Runs : state[q] \in Published => state'[q] \in Published
  BY <1>4, <1>6, EndsKept
<1>8. QED
  BY <1>1, <1>2, <1>3, <1>4, <1>5, <1>7, RunsMove

LEMMA RepointRecordKeeps ==
    ASSUME DeltaInv, NEW y \in Measured, NEW to \in Runs, RepointRecord(y, to) PROVE DeltaInv'
<1>1. /\ row' = row /\ cache' = cache /\ acks' = acks /\ restates' = restates /\ owed' = owed
      /\ outrun' = outrun /\ dropped' = dropped /\ state' = state /\ task' = task
  BY Zenon DEF RepointRecord, rowVars, pullVars, history
<1>2. RestTyped' /\ RowsKept /\ TasksKept
  BY <1>1, SameKept
<1>3. RepointOk'
  <2>1. y \in Measured /\ record[y] \in Runs /\ to \in Runs
    BY Types DEF DeltaInv
  <2>2. repoint' = [y |-> y, from |-> record[y], to |-> to]
    BY DEF RepointRecord
  <2>3. QED
    BY <2>1, <2>2 DEF RepointOk, Repoint
<1>4. LimitInv'
  BY <1>1, LimitsStay DEF RepointRecord, DeltaInv, What
<1>5. state' \in [Runs -> States] /\ outrun' \subseteq Measured
  BY <1>1, Types DEF DeltaInv
<1>6. record' \in [Measured -> Runs]
  BY Types DEF RepointRecord, DeltaInv
<1>7. QED
  BY <1>1, <1>2, <1>3, <1>4, <1>5, <1>6, RunsMove

\* The row takes the baseline its re-point names, and is pending.
LEMMA RowRepointedKept ==
    ASSUME DeltaInv, repoint.y # Nobody, RowRepointed
    PROVE  RowsKept
<1>1. PICK y, to : y = repoint.y /\ to = repoint.to
  OBVIOUS
<1>2. y \in Measured /\ to \in Runs
  BY <1>1, Types DEF DeltaInv, Repoint
<1>3. row' = [row EXCEPT ![y] = [against |-> to, word |-> "pending"]]
  BY <1>1 DEF RowRepointed
<1>4. row \in [Measured -> [against : Runs, word : Words]]
  BY Types DEF DeltaInv
<1>5. [against |-> to, word |-> "pending"] \in [against : Runs, word : Words]
  BY <1>2 DEF Words
<1>6. /\ row' \in [Measured -> [against : Runs, word : Words]]
      /\ \A z \in Measured : row'[z] = row[z] \/ row'[z].word = "pending"
  BY <1>2, <1>3, <1>4, <1>5
<1>7. QED
  BY <1>6 DEF RowsKept, Earned, Computed

LEMMA NoRepointOk == repoint' = NoRepoint => RepointOk'
BY DEF RepointOk, NoRepoint, Repoint

LEMMA RepointRowKeeps == ASSUME DeltaInv, NEW t \in Tasks, RepointRow(t) PROVE DeltaInv'
<1>1. /\ cache' = cache /\ acks' = acks /\ restates' = restates /\ owed' = owed
      /\ outrun' = outrun /\ dropped' = dropped /\ state' = state /\ record' = record
      /\ limits' = limits
  BY Zenon DEF RepointRow, pullVars, history
<1>2. repoint.y \in Runs
  BY Types, DeltaAssumption DEF RepointRow, DeltaInv, Repoint
<1>3. TasksKept
  BY <1>2, SpawnKept DEF RepointRow
<1>4. RowsKept /\ RepointOk'
  BY RowRepointedKept, NoRepointOk DEF RepointRow
<1>5. RestTyped'
  BY <1>1, SameKept
<1>6. LimitInv'
  BY <1>1, LimitsStay DEF DeltaInv
<1>7. /\ state' \in [Runs -> States] /\ record' \in [Measured -> Runs]
      /\ outrun' \subseteq Measured
  BY <1>1, Types DEF DeltaInv
<1>8. QED
  BY <1>1, <1>3, <1>4, <1>5, <1>6, <1>7, RunsMove

\* The row of a re-point that was lost took it or did not.
LEMMA RepointLostKept ==
    ASSUME DeltaInv, RepointLost
    PROVE  RowsKept /\ outrun' \subseteq Measured
<1>1. outrun \subseteq Measured /\ (repoint.y # Nobody => repoint.y \in Measured)
  BY Types DEF DeltaInv, Repoint
<1>2. CASE UNCHANGED row /\ outrun' = Missed(Measured \cap {repoint.y})
  BY <1>2, SameKept, MissedType
<1>3. CASE repoint.y # Nobody /\ RowRepointed /\ outrun' = outrun \cup {repoint.y}
  BY <1>1, <1>3, RowRepointedKept
<1>4. QED
  BY <1>2, <1>3 DEF RepointLost

LEMMA RepointFailsKeeps == ASSUME DeltaInv, RepointFails PROVE DeltaInv'
<1>1. /\ cache' = cache /\ acks' = acks /\ restates' = restates /\ owed' = owed
      /\ dropped' = dropped /\ state' = state /\ task' = task /\ Spend("faults")
  BY Zenon DEF RepointFails, pullVars, Fault
<1>2. RowsKept /\ outrun' \subseteq Measured
  BY RepointLostKept DEF RepointFails
<1>3. RepointOk'
  BY NoRepointOk DEF RepointFails
<1>4. RestTyped' /\ TasksKept
  BY <1>1, SameKept
<1>5. LimitInv'
  BY <1>1, LimitsStay DEF DeltaInv, What
<1>6. state' \in [Runs -> States]
  BY <1>1, Types DEF DeltaInv
<1>7. record' \in [Measured -> Runs]
  <2>1. record \in [Measured -> Runs] /\ repoint.from \in Runs
    BY Types DEF DeltaInv, RepointFails
  <2>2. QED
    BY <2>1 DEF RepointFails
<1>8. QED
  BY <1>1, <1>2, <1>3, <1>4, <1>5, <1>6, <1>7, RunsMove

LEMMA RestartKeeps == ASSUME DeltaInv, Restart PROVE DeltaInv'
<1>1. /\ cache' = cache /\ acks' = acks /\ dropped' = dropped /\ state' = state
      /\ record' = record
  BY Zenon DEF Restart
<1>2. /\ task' = [t \in Tasks |-> Free] /\ restates' = "idle" /\ owed' = 0
      /\ repoint' = NoRepoint /\ Spend("faults")
  BY DEF Restart, Fault
<1>3. RowsKept /\ outrun' \subseteq Measured
  <2>1. Missed(Measured) \subseteq Measured /\ (repoint.y # Nobody => repoint.y \in Measured)
    BY MissedType, Types DEF DeltaInv, Repoint
  <2>2. CASE UNCHANGED row /\ outrun' = Missed(Measured)
    BY <2>1, <2>2, SameKept
  <2>3. CASE repoint.y # Nobody /\ RowRepointed /\ outrun' = Missed(Measured) \cup {repoint.y}
    BY <2>1, <2>3, RowRepointedKept
  <2>4. QED
    BY <2>2, <2>3 DEF Restart
<1>4. TasksKept
  BY <1>2, FreeType DEF TasksKept
<1>5. RepointOk'
  BY <1>2, NoRepointOk
<1>6. RestTyped'
  <2>1. restates' \in {"idle", "running", "again"}
    BY <1>2
  <2>2. QED
    BY <1>1, <2>1, Types, Zenon DEF DeltaInv, RestTyped
<1>7. LimitInv'
  <2>1. LimitInv /\ "faults" \in What /\ "decisions" \in What
    BY DEF DeltaInv, What
  <2>2. limits["decisions"] \in Nat /\ MaxDecisions \in Nat
    BY <2>1, DeltaAssumption DEF LimitInv
  <2>3. limits' \in [What -> Nat] /\ limits'["decisions"] = limits["decisions"]
    BY <1>2, <2>1, <2>2, SpendType
  <2>4. QED
    BY <1>2, <2>1, <2>2, <2>3 DEF LimitInv
<1>8. state' \in [Runs -> States] /\ record' \in [Measured -> Runs]
  BY <1>1, Types DEF DeltaInv
<1>9. QED
  BY <1>1, <1>3, <1>4, <1>5, <1>6, <1>7, <1>8, RunsMove

LEMMA StutterKeeps == ASSUME DeltaInv, UNCHANGED vars PROVE DeltaInv'
<1>1. /\ row' = row /\ cache' = cache /\ acks' = acks /\ restates' = restates /\ owed' = owed
      /\ outrun' = outrun /\ dropped' = dropped /\ state' = state /\ record' = record
      /\ repoint' = repoint /\ limits' = limits /\ task' = task
  BY Zenon DEF vars, runVars, rowVars, pullVars, history
<1>2. RestTyped' /\ RepointOk' /\ RowsKept /\ TasksKept
  BY <1>1, SameKept
<1>3. LimitInv'
  BY <1>1, LimitsStay DEF DeltaInv
<1>4. /\ state' \in [Runs -> States] /\ record' \in [Measured -> Runs]
      /\ outrun' \subseteq Measured
  BY <1>1, Types DEF DeltaInv
<1>5. QED
  BY <1>1, <1>2, <1>3, <1>4, RunsMove

LEMMA DeltaNext == DeltaInv /\ [Next]_vars => DeltaInv'
<1> SUFFICES ASSUME DeltaInv, [Next]_vars PROVE DeltaInv'
  OBVIOUS
<1>1. CASE \E t \in Tasks : Step(t) \/ AskRestate(t) \/ RepointRow(t)
  <2>1. PICK t \in Tasks : Step(t) \/ AskRestate(t) \/ RepointRow(t)
    BY <1>1
  <2>2. CASE Step(t)
    BY <2>2, ReadKeeps, ReadFailsKeeps, OverlayKeeps, RecordKeeps, SettleOwnKeeps, ListKeeps,
       NextRunKeeps, PassesOverKeeps, SettleEndsKeeps, RestateEndsKeeps, InsertKeeps,
       ClientGoneKeeps DEF Step
  <2>3. QED
    BY <2>1, <2>2, AskRestateKeeps, RepointRowKeeps
<1>2. CASE \E t \in Tasks, y \in Measured : View(t, y) \/ Propose(t, y)
  BY <1>2, ViewKeeps
<1>3. CASE \E t \in Tasks, r \in Runs : FinishRun(t, r)
  BY <1>3, FinishRunKeeps
<1>4. CASE \E r \in Runs : Kill(r) \/ FinishCut(r)
  BY <1>4, DiesKeeps
<1>5. CASE \E y \in Measured, to \in Runs : RepointRecord(y, to)
  BY <1>5, RepointRecordKeeps
<1>6. CASE RepointFails \/ Decision \/ Cancel \/ Restart
  BY <1>6, RepointFailsKeeps, DecisionKeeps, CancelKeeps, RestartKeeps
<1>7. CASE Rest \/ UNCHANGED vars
  BY <1>7, StutterKeeps DEF Rest
<1>8. QED
  BY <1>1, <1>2, <1>3, <1>4, <1>5, <1>6, <1>7 DEF Next

LEMMA DeltaInvHolds == Spec => []DeltaInv
<1>1. QED
  BY DeltaInit, DeltaNext, PTL DEF Spec

-----------------------------------------------------------------------------
(* What the word of a row is worth.                                        *)

\* Every reachable state has its types: no task writes a word the row has not,
\* and no decision is owed that nobody took.
THEOREM DeltaTypeCorrect == Spec => []TypeOK
<1>1. DeltaInv => TypeOK
  BY DEF DeltaInv
<1>2. QED
  BY <1>1, DeltaInvHolds, PTL

\* A computed word on a row (set_delta_verdict) is that of the pair the row
\* names, and pass exactly when that pair charges nothing, for any runs, trees
\* and tasks.
THEOREM WordsNameTheirPair == Spec => []WordIsOfItsPair
<1>1. DeltaInv => WordIsOfItsPair
  <2> SUFFICES ASSUME DeltaInv, NEW y \in Measured, row[y].word \in Computed
               PROVE  /\ Between(y, row[y].against) = "there"
                      /\ (row[y].word = "pass")
                           = (ChargedShapes(Tree[row[y].against], Tree[y]) = {})
    BY DEF WordIsOfItsPair
  <2>1. Earned(y, row[y].against, row[y].word)
    BY DEF DeltaInv, RowInv
  <2>2. QED
    BY <2>1 DEF Earned, Charges
<1>2. QED
  BY <1>1, DeltaInvHolds, PTL

\* A row says "acknowledged" (overlay_acknowledgements, confirm_refusal) only
\* when each shape charged was confirmed, on the version the run ran, by another
\* person than who proposed it, however the decisions and withdrawals fell.
THEOREM AcknowledgedIsDecided == Spec => []AcknowledgedWasDecided
<1>1. DeltaInv => AcknowledgedWasDecided
  <2> SUFFICES ASSUME DeltaInv, NEW y \in Measured, row[y].word = "acknowledged"
               PROVE  Decided(y, row[y].against)
    BY DEF AcknowledgedWasDecided, Decided, Charges
  <2>1. Earned(y, row[y].against, row[y].word)
    BY DEF DeltaInv, RowInv
  <2>2. QED
    BY <2>1 DEF Earned, Computed
<1>2. QED
  BY <1>1, DeltaInvHolds, PTL

-----------------------------------------------------------------------------
(* What is still to be written to a row.  A row that does not say its truth*)
(* is under a re-point, or a task is at its pair or has it ahead, or its   *)
(* pull request is to be restated.                                         *)

\* What a task that is at t will still do for y, measured against m; s is how
\* far y is.  A client that is gone does nothing more, so that nothing is left to
\* a view or a proposal.
At(t, y, m) == t.kind \in {"settle", "restate"} /\ t.pc \in {"read", "overlay", "record"}
               /\ t.y = y /\ t.m = m

Settles(t, y, m, s) ==
    /\ t.kind = "settle"
    /\ \/ t.pc = "own" /\ t.of = y
       \/ /\ t.of = m /\ s = "completed"
          /\ \/ t.pc \in {"own", "list"} \/ y \in t.todo
             \/ t.pc \in {"read", "overlay", "record"} /\ t.y = t.of

Redoes(t, y) == t.kind = "restate" /\ (t.pc = "list" \/ y \in t.todo)

Promised(t, y, m, s) == At(t, y, m) \/ Settles(t, y, m, s) \/ Redoes(t, y)

Obliged(y) ==
    \/ repoint.y = y \/ owed > 0 \/ restates = "again"
    \/ \E t \in Tasks : Promised(task[t], y, row[y].against, state[y])

\* A task is one restatement's or nobody's, and only a proposal inserts.
TaskKinds ==
    /\ \A t \in Tasks : task[t].kind = "free" => task[t] = Free
    /\ \A t \in Tasks : task[t].pc = "insert" => task[t].kind = "propose"
    /\ \A t, u \in Tasks : task[t].kind = "restate" /\ task[u].kind = "restate" => t = u
    /\ restates = "idle" <=> \A t \in Tasks : task[t].kind # "restate"

\* A restatement's word is still what the acknowledgements say, or one more
\* pass was asked for, or will be.
RestateSees ==
    \A t \in Tasks :
        task[t].kind = "restate" /\ task[t].pc = "record" /\ task[t].word \in Computed =>
            \/ task[t].word = Overlaid(task[t].y, task[t].m)
            \/ owed > 0 \/ restates = "again" \/ dropped

RepointInv ==
    repoint.y # Nobody => repoint.y \in Measured /\ record[repoint.y] = repoint.to

Due(y) == Linked(y) => row[y].word = Truth(y) \/ Obliged(y)

TruthInv ==
    /\ TaskKinds /\ RestateSees /\ RepointInv
    /\ ~dropped => \A y \in Measured \ outrun : Due(y)

LEMMA TruthInit == Init => TruthInv
<1> SUFFICES ASSUME Init PROVE TruthInv
  OBVIOUS
<1>1. Free.kind = "free" /\ Free.pc = "free"
  BY DEF Free
<1>2. TaskKinds /\ RestateSees /\ RepointInv
  BY <1>1 DEF Init, NoRepoint, TaskKinds, RestateSees, RepointInv
<1>3. ASSUME NEW y \in Measured PROVE Due(y)
  <2>1. y \in Runs
    BY DeltaAssumption
  <2>2. state[y] = "running"
    BY <2>1, DeltaAssumption DEF Init
  <2> QED BY <2>2 DEF Due, Linked
<1> QED BY <1>2, <1>3 DEF TruthInv

-----------------------------------------------------------------------------
(* What a proposal leaves as it was.                                       *)

\* Acknowledgements of which the newest is known.
Bounded(K) == /\ \A k \in K : IsAck(k)
              /\ \E b \in Nat : \A k \in K : k.id <= b

\* A shape is acknowledged just when a confirmation on this version stands.
LEMMA AcknowledgedIs ==
    ASSUME NEW K, Bounded(K), NEW shape, NEW change
    PROVE  RowState(K, shape, change) = "acknowledged" <=>
              \E k \in K : /\ k.shape = shape /\ ~k.withdrawn
                           /\ k.change = change /\ k.confirmed # "nobody"
<1> DEFINE speaks == Speaks(K, shape)
           first(k) == \A l \in speaks : ~Outranks(l, k, change)
           c == CHOOSE k \in speaks : first(k)
<1>1. speaks = {} => RowState(K, shape, change) = "uncovered"
  BY DEF RowState
<1>2. CASE speaks = {}
  BY <1>1, <1>2 DEF Speaks
<1>3. CASE speaks # {}
  <2>1. \E k \in speaks : first(k)
    <3>1. PICK b \in Nat : \A k \in K : k.id <= b
      BY DEF Bounded
    <3> HIDE DEF speaks
    <3>2. \A k \in speaks : IsAck(k) /\ k.id <= b
      BY <3>1 DEF speaks, Speaks, Bounded
    <3> QED BY <1>3, <3>2, SomeoneSpeaksFirst
  <2>2. c \in speaks /\ first(c)
    <3> HIDE DEF first, speaks
    <3> QED BY <2>1
  <2>3. RowState(K, shape, change) = StateOf(c, change)
    BY <1>3 DEF RowState
  <2> HIDE DEF c
  <2>4. StateOf(c, change) = "acknowledged" <=> c.change = change /\ c.confirmed # "nobody"
    BY DEF StateOf
  <2>5. ASSUME NEW k \in speaks, k.change = change, k.confirmed # "nobody"
        PROVE  c.change = change /\ c.confirmed # "nobody"
    <3>1. ~Outranks(k, c, change)
      BY <2>2
    <3> QED BY <2>5, <3>1 DEF Outranks
  <2> QED BY <2>2, <2>3, <2>4, <2>5 DEF Speaks
<1> QED BY <1>2, <1>3

\* One more acknowledgement that nobody confirmed changes no verdict.
LEMMA ProposalChangesNothing ==
    ASSUME NEW K, NEW k, Bounded(K), Bounded(K \cup {k}), k.confirmed = "nobody",
           NEW shapes, NEW change
    PROVE  Effective(shapes, K \cup {k}, change) = Effective(shapes, K, change)
<1>1. \A shape \in shapes : RowState(K \cup {k}, shape, change) = "acknowledged"
                              <=> RowState(K, shape, change) = "acknowledged"
  BY AcknowledgedIs
<1> QED BY <1>1 DEF Effective

LEMMA InsertOverlays ==
    ASSUME DeltaInv, DeltaInv', NEW t \in Tasks, Insert(t), NEW y, NEW m
    PROVE  Overlaid(y, m)' = Overlaid(y, m)
<1>1. CASE acks' = acks
  BY <1>1 DEF Overlaid
<1>2. CASE acks' # acks
  <2>1. PICK k : k.confirmed = "nobody" /\ acks' = acks \cup {k}
    BY <1>2 DEF Insert
  <2>2. Bounded(acks) /\ Bounded(acks')
    BY DEF DeltaInv, AckInv, Bounded
  <2>3. Effective(ChargedShapes(Tree[m], Tree[y]), acks', Change[y])
          = Effective(ChargedShapes(Tree[m], Tree[y]), acks, Change[y])
    BY <2>1, <2>2, ProposalChangesNothing
  <2> QED BY <2>3 DEF Overlaid
<1> QED BY <1>1, <1>2

-----------------------------------------------------------------------------
(* Frames for the steps of one task.                                       *)

LEMMA FreeOwes ==
    /\ Free.kind = "free" /\ Free.pc = "free"
    /\ \A y, m, s : ~Promised(Free, y, m, s)
BY DEF Free, Promised, At, Settles, Redoes

LEMMA SameTruth ==
    ASSUME NEW y, state' = state, row'[y].against = row[y].against,
           \A m : Overlaid(y, m)' = Overlaid(y, m)
    PROVE  Truth(y)' = Truth(y)
<1>1. \A r : Side(r)' = Side(r)
  BY DEF Side
<1>2. \A m : Between(y, m)' = Between(y, m)
  BY <1>1 DEF Between
<1> QED BY <1>2 DEF Truth

\* A task's kind is the same, or it is not the restatement.
SameKind(t, to) ==
    /\ \/ to.kind = task[t].kind
       \/ to.kind # "restate" /\ task[t].kind # "restate"
    /\ to.kind = "free" => to = Free
    /\ to.pc = "insert" => to.kind = "propose"

LEMMA KindsKept ==
    ASSUME TypeOK, TaskKinds, NEW t \in Tasks, NEW to \in TaskRec, Goes(t, to),
           SameKind(t, to), restates' = restates
    PROVE  TaskKinds'
<1>1. \A u \in Tasks : task'[u] = IF u = t THEN to ELSE task[u]
  BY Types, GoesTypes
<1> QED BY <1>1 DEF TaskKinds, SameKind

LEMMA SeesKept ==
    ASSUME TypeOK, RestateSees, NEW t \in Tasks, NEW to \in TaskRec, Goes(t, to),
           \A y, m : Overlaid(y, m)' = Overlaid(y, m),
           owed' = owed, restates' = restates, dropped' = dropped,
           to.kind = "restate" /\ to.pc = "record" /\ to.word \in Computed =>
              to.word = Overlaid(to.y, to.m)
    PROVE  RestateSees'
<1>1. \A u \in Tasks : task'[u] = IF u = t THEN to ELSE task[u]
  BY Types, GoesTypes
<1>2. ASSUME NEW u \in Tasks, task'[u].kind = "restate", task'[u].pc = "record",
             task'[u].word \in Computed, ~(owed' > 0 \/ restates' = "again" \/ dropped')
      PROVE  (task[u].word = Overlaid(task[u].y, task[u].m))'
  <2>1. PICK rec : rec = task'[u]
    OBVIOUS
  <2>2. rec.word = Overlaid(rec.y, rec.m)
    BY <1>1, <1>2, <2>1 DEF RestateSees
  <2>3. rec.word = Overlaid(rec.y, rec.m)'
    BY <2>2
  <2> QED BY <2>1, <2>3 DEF Overlaid
<1> QED BY <1>2 DEF RestateSees

\* What a row is owed it is still owed when one task moves.
LEMMA ObligedKept ==
    ASSUME TypeOK, NEW t \in Tasks, NEW to \in TaskRec, Goes(t, to), NEW y \in Measured,
           row'[y].against = row[y].against, repoint' = repoint,
           state[y] = "completed" => state'[y] = "completed",
           owed > 0 \/ restates = "again" => owed' > 0 \/ restates' = "again",
           Promised(task[t], y, row[y].against, state[y])
              => Promised(to, y, row[y].against, state[y]),
           Obliged(y)
    PROVE  Obliged(y)'
<1>1. \A u \in Tasks : task'[u] = IF u = t THEN to ELSE task[u]
  BY Types, GoesTypes
<1>2. CASE repoint.y = y \/ owed > 0 \/ restates = "again"
  BY <1>2 DEF Obliged
<1>3. ASSUME NEW u \in Tasks, Promised(task[u], y, row[y].against, state[y])
      PROVE  Promised(task'[u], y, row'[y].against, state'[y])
  <2>1. Promised(task'[u], y, row[y].against, state[y])
    BY <1>1, <1>3
  <2> QED BY <2>1 DEF Promised, Settles
<1> QED BY <1>2, <1>3 DEF Obliged

\* A step of one task that leaves the runs, the rows and the verdicts.
LEMMA MovesDue ==
    ASSUME DeltaInv, TruthInv, NEW t \in Tasks, NEW to \in TaskRec, Goes(t, to),
           UNCHANGED <<runVars, row, restates, owed, history>>, SameKind(t, to),
           \A y, m : Overlaid(y, m)' = Overlaid(y, m),
           to.kind = "restate" /\ to.pc = "record" /\ to.word \in Computed =>
              to.word = Overlaid(to.y, to.m),
           \A y \in Measured :
              Linked(y) /\ Promised(task[t], y, row[y].against, state[y])
                 => Promised(to, y, row[y].against, state[y])
    PROVE  TruthInv'
<1>0. /\ TypeOK /\ UNCHANGED <<state, record, repoint, row, restates, owed, outrun, dropped>>
  BY DEF DeltaInv, runVars, history
<1>1. TaskKinds' /\ RestateSees' /\ RepointInv'
  BY <1>0, KindsKept, SeesKept DEF TruthInv, RepointInv
<1>2. ASSUME NEW y \in Measured, Due(y) PROVE Due(y)'
  <2>1. SUFFICES ASSUME Linked(y) PROVE (row[y].word = Truth(y) \/ Obliged(y))'
    BY <1>0 DEF Due, Linked
  <2>2. Truth(y)' = Truth(y)
    BY <1>0, SameTruth
  <2>3. Obliged(y) => Obliged(y)'
    BY <1>0, <2>1, ObligedKept
  <2> QED BY <1>0, <1>2, <2>1, <2>2, <2>3 DEF Due
<1> QED BY <1>0, <1>1, <1>2 DEF TruthInv

LEMMA PlainDue ==
    ASSUME DeltaInv, TruthInv, NEW t \in Tasks, NEW to \in TaskRec, Goes(t, to),
           UNCHANGED <<runVars, row, pullVars, history>>, SameKind(t, to),
           to.kind = "restate" /\ to.pc = "record" /\ to.word \in Computed =>
              to.word = Overlaid(to.y, to.m),
           \A y \in Measured :
              Linked(y) /\ Promised(task[t], y, row[y].against, state[y])
                 => Promised(to, y, row[y].against, state[y])
    PROVE  TruthInv'
<1>1. \A y, m : Overlaid(y, m)' = Overlaid(y, m)
  BY DEF Overlaid, pullVars
<1>2. UNCHANGED <<runVars, row, restates, owed, history>>
  BY DEF pullVars
<1> QED BY <1>1, <1>2, MovesDue

-----------------------------------------------------------------------------
(* One lemma per action.                                                   *)

\* A task that goes on computing still owes what it owed.
LEMMA Advances ==
    ASSUME NEW t, NEW to, t.pc \in {"read", "overlay"}, to.pc \in {"overlay", "record"},
           to.kind = t.kind, to.of = t.of, to.y = t.y, to.m = t.m, to.todo = t.todo
    PROVE  \A y, m, s : Promised(t, y, m, s) => Promised(to, y, m, s)
BY DEF Promised, At, Settles, Redoes

LEMMA ReadDue == ASSUME DeltaInv, TruthInv, NEW t \in Tasks, Read(t) PROVE TruthInv'
<1>1. PICK y, m : y = task[t].y /\ m = task[t].m
  OBVIOUS
<1>2. PICK found : found = IF Cached(y, m) THEN "there" ELSE Between(y, m)
  OBVIOUS
<1>3. /\ task[t] \in TaskRec /\ task[t].pc = "read" /\ y \in Runs /\ m \in Runs
      /\ UNCHANGED <<runVars, row, pullVars, history>>
  BY <1>1, TaskAt DEF Read
<1>4. PICK to : to = IF found = "there" THEN [task[t] EXCEPT !.pc = "overlay"]
                     ELSE [task[t] EXCEPT !.pc = "record", !.word = WordOf(found)]
  OBVIOUS
<1>5. Goes(t, to)
  BY <1>1, <1>2, <1>4 DEF Read
<1>6. found # "there" => WordOf(found) \in {"pending", "refused"}
  BY <1>2, <1>3, WordOfAbsent DEF DeltaInv
<1>7. /\ to \in TaskRec /\ to.pc \in {"overlay", "record"}
      /\ to.kind = task[t].kind /\ to.of = task[t].of /\ to.y = task[t].y /\ to.m = task[t].m
      /\ to.todo = task[t].todo
      /\ to.pc = "record" => to.word \notin Computed
  BY <1>3, <1>4, <1>6 DEF TaskRec, Pc, Words, Computed
<1>8. SameKind(t, to)
  BY <1>3, <1>7, FreeOwes DEF SameKind, TruthInv, TaskKinds
<1>9. \A z, n, s : Promised(task[t], z, n, s) => Promised(to, z, n, s)
  BY <1>3, <1>7, Advances
<1> QED BY <1>3, <1>5, <1>7, <1>8, <1>9, PlainDue

LEMMA OverlayDue == ASSUME DeltaInv, TruthInv, NEW t \in Tasks, Overlay(t) PROVE TruthInv'
<1>1. /\ task[t] \in TaskRec /\ TaskOk(task[t]) /\ task[t].pc = "overlay"
      /\ UNCHANGED <<runVars, row, pullVars, history>>
  BY TaskAt DEF Overlay, rowVars
<1>2. PICK word \in {Overlaid(task[t].y, task[t].m), "unknown"} :
         Goes(t, [task[t] EXCEPT !.pc = "record", !.word = word])
  BY DEF Overlay
<1>3. word \in Words
  <2>1. Overlaid(task[t].y, task[t].m) \in Computed
    BY <1>1, OverlaidIsEarned DEF DeltaInv, TaskOk
  <2> QED BY <2>1 DEF Words, Computed
<1>4. PICK to : to = [task[t] EXCEPT !.pc = "record", !.word = word]
  OBVIOUS
<1>5. /\ to \in TaskRec /\ to.pc = "record" /\ to.word = word
      /\ to.kind = task[t].kind /\ to.of = task[t].of /\ to.y = task[t].y /\ to.m = task[t].m
      /\ to.todo = task[t].todo
  BY <1>1, <1>3, <1>4 DEF TaskRec, Pc
<1>6. to.word \in Computed => to.word = Overlaid(to.y, to.m)
  BY <1>2, <1>5 DEF Computed
<1>7. SameKind(t, to)
  BY <1>1, <1>5, FreeOwes DEF SameKind, TruthInv, TaskKinds
<1>8. \A z, n, s : Promised(task[t], z, n, s) => Promised(to, z, n, s)
  BY <1>1, <1>5, Advances
<1> QED BY <1>1, <1>2, <1>4, <1>5, <1>6, <1>7, <1>8, PlainDue

LEMMA SettleOwnDue == ASSUME DeltaInv, TruthInv, NEW t \in Tasks, SettleOwn(t) PROVE TruthInv'
<1>1. PICK r : r = task[t].of
  OBVIOUS
<1>2. /\ task[t] \in TaskRec /\ task[t].pc = "own" /\ record \in [Measured -> Runs]
      /\ TaskOk(task[t]) /\ UNCHANGED <<runVars, row, pullVars, history>>
  BY TaskAt DEF SettleOwn, rowVars
<1>3. r \in Runs
  BY <1>1, <1>2 DEF TaskOk
<1>4. PICK to : to = IF r \in Measured THEN Delta(task[t], r, record[r])
                     ELSE [task[t] EXCEPT !.pc = "list"]
  OBVIOUS
<1>5. Goes(t, to)
  BY <1>1, <1>4 DEF SettleOwn
<1>6. /\ to \in TaskRec /\ to.kind = task[t].kind /\ to.of = r /\ to.todo = task[t].todo
      /\ \/ r \in Measured /\ to.pc = "read" /\ to.y = r /\ to.m = record[r]
         \/ r \notin Measured /\ to.pc = "list"
  BY <1>1, <1>2, <1>3, <1>4 DEF TaskRec, Pc, Delta
<1>7. SameKind(t, to)
  BY <1>2, <1>6, FreeOwes DEF SameKind, TruthInv, TaskKinds
<1>8. \A y \in Measured : Linked(y) /\ Promised(task[t], y, row[y].against, state[y])
                            => Promised(to, y, row[y].against, state[y])
  BY <1>1, <1>2, <1>6 DEF Promised, At, Settles, Redoes, Linked
<1> QED BY <1>2, <1>5, <1>6, <1>7, <1>8, PlainDue

LEMMA ListDue == ASSUME DeltaInv, TruthInv, NEW t \in Tasks, List(t) PROVE TruthInv'
<1>1. PICK runs : runs = Listed(task[t])
  OBVIOUS
<1>2. /\ task[t] \in TaskRec /\ task[t].pc = "list" /\ runs \in SUBSET Measured
      /\ UNCHANGED <<runVars, row, pullVars, history>>
  BY <1>1, TaskAt DEF List, rowVars, Listed, Dependents
<1>3. PICK to : to = [task[t] EXCEPT !.pc = "each", !.todo = runs]
  OBVIOUS
<1>4. Goes(t, to)
  BY <1>1, <1>3 DEF List
<1>5. /\ to \in TaskRec /\ to.pc = "each" /\ to.kind = task[t].kind /\ to.of = task[t].of
      /\ to.todo = runs
  BY <1>2, <1>3 DEF TaskRec, Pc
<1>6. SameKind(t, to)
  BY <1>2, <1>5, FreeOwes DEF SameKind, TruthInv, TaskKinds
<1>7. ASSUME NEW y \in Measured, Promised(task[t], y, row[y].against, state[y])
      PROVE  Promised(to, y, row[y].against, state[y])
  <2>1. CASE task[t].kind = "settle"
    <3>1. task[t].of = row[y].against /\ state[y] = "completed"
      BY <1>2, <1>7, <2>1 DEF Promised, At, Settles, Redoes
    <3>2. y \in to.todo
      BY <1>1, <1>5, <2>1, <3>1 DEF Listed, Dependents
    <3> QED BY <1>5, <2>1, <3>1, <3>2 DEF Promised, Settles
  <2>2. CASE task[t].kind # "settle"
    <3>1. task[t].kind = "restate" /\ y \in to.todo
      BY <1>1, <1>2, <1>5, <1>7, <2>2 DEF Promised, At, Settles, Redoes, Listed
    <3> QED BY <1>5, <3>1 DEF Promised, Redoes
  <2> QED BY <2>1, <2>2
<1> QED BY <1>2, <1>4, <1>5, <1>6, <1>7, PlainDue

LEMMA NextRunDue == ASSUME DeltaInv, TruthInv, NEW t \in Tasks, NextRun(t) PROVE TruthInv'
<1>1. /\ task[t] \in TaskRec /\ task[t].pc = "each" /\ record \in [Measured -> Runs]
      /\ TaskOk(task[t]) /\ UNCHANGED <<runVars, row, pullVars, history>>
  BY TaskAt DEF NextRun, rowVars
<1>2. PICK z \in task[t].todo :
         Goes(t, Delta([task[t] EXCEPT !.todo = @ \ {z}], z,
                       IF task[t].kind = "settle" THEN task[t].of ELSE record[z]))
  BY DEF NextRun
<1>3. PICK m : m = IF task[t].kind = "settle" THEN task[t].of ELSE record[z]
  OBVIOUS
<1>4. PICK to : to = Delta([task[t] EXCEPT !.todo = @ \ {z}], z, m)
  OBVIOUS
<1>5. z \in Measured /\ z \in Runs /\ m \in Runs
  <2>1. task[t].todo \subseteq Measured
    BY <1>1 DEF TaskRec
  <2>2. z \in Measured /\ z \in Runs
    BY <2>1, DeltaAssumption
  <2> QED BY <1>1, <1>3, <2>2 DEF TaskOk
<1>6. /\ to \in TaskRec /\ to.pc = "read" /\ to.kind = task[t].kind /\ to.of = task[t].of
      /\ to.y = z /\ to.m = m /\ to.todo = task[t].todo \ {z}
  BY <1>1, <1>4, <1>5 DEF TaskRec, Pc, Delta
<1>7. SameKind(t, to)
  BY <1>1, <1>6, FreeOwes DEF SameKind, TruthInv, TaskKinds
<1>8. ASSUME NEW y \in Measured, Linked(y), Promised(task[t], y, row[y].against, state[y])
      PROVE  Promised(to, y, row[y].against, state[y])
  <2>1. CASE task[t].kind = "settle"
    <3>1. task[t].of = row[y].against /\ state[y] = "completed" /\ y \in task[t].todo
      BY <1>1, <1>8, <2>1 DEF Promised, At, Settles, Redoes
    <3> QED BY <1>3, <1>6, <2>1, <3>1 DEF Promised, At, Settles
  <2>2. CASE task[t].kind # "settle"
    <3>1. task[t].kind = "restate" /\ y \in task[t].todo
      BY <1>1, <1>8, <2>2 DEF Promised, At, Settles, Redoes
    <3> QED BY <1>3, <1>6, <1>8, <3>1 DEF Promised, At, Redoes, Linked
  <2> QED BY <2>1, <2>2
<1>9. Goes(t, to)
  BY <1>2, <1>3, <1>4
<1> QED BY <1>1, <1>6, <1>7, <1>8, <1>9, PlainDue

LEMMA SettleEndsDue == ASSUME DeltaInv, TruthInv, NEW t \in Tasks, SettleEnds(t) PROVE TruthInv'
<1>1. /\ task[t].kind = "settle" /\ task[t].pc = "each" /\ task[t].todo = {}
      /\ Goes(t, Free) /\ UNCHANGED <<runVars, row, pullVars, history>>
  BY DEF SettleEnds, rowVars
<1>2. \A y, m, s : ~Promised(task[t], y, m, s)
  BY <1>1 DEF Promised, At, Settles, Redoes
<1>3. SameKind(t, Free)
  BY <1>1, FreeOwes DEF SameKind
<1> QED BY <1>1, <1>2, <1>3, FreeOwes, FreeType, PlainDue

\* A task nobody has owes nothing.
LEMMA IdleOwes ==
    ASSUME TruthInv, NEW t \in Tasks, Idle(t)
    PROVE  task[t] = Free /\ task[t].kind = "free" /\ \A y, m, s : ~Promised(task[t], y, m, s)
BY FreeOwes DEF Idle, TruthInv, TaskKinds

LEMMA ViewDue ==
    ASSUME DeltaInv, TruthInv, NEW t \in Tasks, NEW y \in Measured, View(t, y) \/ Propose(t, y)
    PROVE  TruthInv'
<1>1. PICK kind \in {"view", "propose"} : Goes(t, Delta(Started(kind, "read", y), y, record[y]))
  BY DEF View, Propose
<1>2. /\ record[y] \in Runs /\ y \in Runs /\ Idle(t)
      /\ UNCHANGED <<runVars, row, pullVars, history>>
  BY TaskAt, DeltaAssumption DEF View, Propose, rowVars
<1>3. PICK to : to = Delta(Started(kind, "read", y), y, record[y])
  OBVIOUS
<1>4. to \in TaskRec /\ to.pc = "read" /\ to.kind = kind
  <2>1. /\ Started(kind, "read", y) \in TaskRec /\ Started(kind, "read", y).kind = kind
    BY <1>2, StartedType DEF Kind, Pc
  <2> QED BY <1>2, <1>3, <2>1 DEF Delta, TaskRec, Pc
<1>5. SameKind(t, to)
  BY <1>2, <1>4, IdleOwes DEF SameKind
<1> QED BY <1>1, <1>2, <1>3, <1>4, <1>5, IdleOwes, PlainDue

LEMMA InsertDue ==
    ASSUME DeltaInv, DeltaInv', TruthInv, NEW t \in Tasks, Insert(t)
    PROVE  TruthInv'
<1>1. /\ task[t].pc = "insert" /\ Goes(t, Free)
      /\ UNCHANGED <<runVars, row, restates, owed, history>>
  BY DEF Insert, rowVars
<1>2. task[t].kind = "propose"
  BY <1>1 DEF TruthInv, TaskKinds
<1>3. \A y, m, s : ~Promised(task[t], y, m, s)
  BY <1>1, <1>2 DEF Promised, At, Settles, Redoes
<1>4. SameKind(t, Free)
  BY <1>2, FreeOwes DEF SameKind
<1> QED BY <1>1, <1>3, <1>4, FreeOwes, FreeType, InsertOverlays, MovesDue

\* The end of a pass starts the next if one was asked for.
LEMMA RestateEndsDue ==
    ASSUME DeltaInv, TruthInv, NEW t \in Tasks, RestateEnds(t)
    PROVE  TruthInv'
<1>1. /\ task[t].kind = "restate" /\ task[t].pc = "each" /\ task[t].todo = {}
      /\ restates' = Finish /\ TypeOK
      /\ UNCHANGED <<state, record, repoint, row, acks, owed, outrun, dropped>>
  BY DEF RestateEnds, rowVars, runVars, history, DeltaInv
<1>2. PICK to : to = IF Finish = "running" THEN Started("restate", "list", Nobody) ELSE Free
  OBVIOUS
<1>3. /\ Started("restate", "list", Nobody) \in TaskRec
      /\ Started("restate", "list", Nobody).kind = "restate"
      /\ Started("restate", "list", Nobody).pc = "list"
  BY StartedType DEF Kind, Pc
<1>4. /\ to \in TaskRec /\ to.pc \in {"list", "free"}
      /\ restates = "again"  => to.kind = "restate" /\ to.pc = "list" /\ restates' = "running"
      /\ restates # "again" => to = Free /\ restates' = "idle"
  BY <1>1, <1>2, <1>3, FreeOwes, FreeType DEF Finish
<1>5. \A u \in Tasks : task'[u] = IF u = t THEN to ELSE task[u]
  BY <1>1, <1>2, <1>4, Types, GoesTypes DEF RestateEnds
<1>6. TaskKinds'
  BY <1>1, <1>4, <1>5, FreeOwes DEF TruthInv, TaskKinds
<1>7. RestateSees'
  BY <1>1, <1>4, <1>5 DEF TruthInv, TaskKinds, RestateSees
<1>8. RepointInv'
  BY <1>1 DEF TruthInv, RepointInv
<1>9. \A y, m, s : ~Promised(task[t], y, m, s)
  BY <1>1 DEF Promised, At, Settles, Redoes
<1>10. ASSUME NEW y \in Measured, Due(y) PROVE Due(y)'
  <2>1. Truth(y)' = Truth(y)
    BY <1>1, SameTruth DEF Overlaid
  <2>2. ASSUME Obliged(y) PROVE Obliged(y)'
    <3>1. CASE repoint.y = y \/ owed > 0
      BY <1>1, <3>1 DEF Obliged
    <3>2. CASE restates = "again"
      <4>1. Promised(task'[t], y, row'[y].against, state'[y])
        BY <1>4, <1>5, <3>2 DEF Promised, Redoes
      <4> QED BY <4>1 DEF Obliged
    <3>3. ASSUME NEW u \in Tasks, Promised(task[u], y, row[y].against, state[y])
          PROVE  Obliged(y)'
      <4>1. task'[u] = task[u]
        BY <1>5, <1>9, <3>3
      <4>2. Promised(task'[u], y, row'[y].against, state'[y])
        BY <1>1, <3>3, <4>1
      <4> QED BY <4>2 DEF Obliged
    <3> QED BY <2>2, <3>1, <3>2, <3>3 DEF Obliged
  <2> QED BY <1>1, <1>10, <2>1, <2>2 DEF Due, Linked
<1> QED BY <1>1, <1>6, <1>7, <1>8, <1>10 DEF TruthInv

\* Once a restatement was asked for, every row of the pull request is owed it.
LEMMA AskRestateDue ==
    ASSUME DeltaInv, TruthInv, NEW t \in Tasks, AskRestate(t)
    PROVE  TruthInv'
<1>1. /\ restates' = Begin /\ TypeOK
      /\ UNCHANGED <<state, record, repoint, row, acks, outrun>>
  BY DEF AskRestate, rowVars, runVars, DeltaInv
<1>2. RepointInv'
  BY <1>1 DEF TruthInv, RepointInv
<1>3. CASE restates = "idle" /\ Idle(t) /\ Goes(t, Started("restate", "list", Nobody))
  <2>1. PICK to : to = Started("restate", "list", Nobody)
    OBVIOUS
  <2>2. to \in TaskRec /\ to.kind = "restate" /\ to.pc = "list" /\ restates' = "running"
    BY <1>1, <1>3, <2>1, StartedType DEF Kind, Pc, Begin
  <2>3. \A u \in Tasks : task'[u] = IF u = t THEN to ELSE task[u]
    BY <1>1, <1>3, <2>1, <2>2, Types, GoesTypes
  <2>4. TaskKinds' /\ RestateSees'
    BY <1>3, <2>2, <2>3 DEF TruthInv, TaskKinds, RestateSees
  <2>5. ASSUME NEW y \in Measured PROVE Obliged(y)'
    <3>1. Promised(task'[t], y, row'[y].against, state'[y])
      BY <2>2, <2>3 DEF Promised, Redoes
    <3> QED BY <3>1 DEF Obliged
  <2> QED BY <1>2, <2>4, <2>5 DEF TruthInv, Due
<1>4. CASE restates # "idle" /\ UNCHANGED task
  <2>1. restates' = "again"
    BY <1>1, <1>4 DEF Begin
  <2>2. TaskKinds' /\ RestateSees'
    BY <1>4, <2>1 DEF TruthInv, TaskKinds, RestateSees
  <2> QED BY <1>2, <2>1, <2>2 DEF TruthInv, Due, Obliged
<1> QED BY <1>3, <1>4 DEF AskRestate

\* A read that fails leaves the task a word nothing was computed for.
LEMMA ReadFailsDue == ASSUME DeltaInv, TruthInv, NEW t \in Tasks, ReadFails(t) PROVE TruthInv'
<1>1. /\ task[t] \in TaskRec /\ task[t].pc = "read"
      /\ UNCHANGED <<runVars, row, pullVars, history>>
  BY TaskAt DEF ReadFails, rowVars
<1>2. PICK word \in {"pending", "refused"} :
         Goes(t, [task[t] EXCEPT !.pc = "record", !.word = word])
  BY DEF ReadFails
<1>3. PICK to : to = [task[t] EXCEPT !.pc = "record", !.word = word]
  OBVIOUS
<1>4. /\ to \in TaskRec /\ to.pc = "record" /\ to.word \notin Computed
      /\ to.kind = task[t].kind /\ to.of = task[t].of /\ to.y = task[t].y /\ to.m = task[t].m
      /\ to.todo = task[t].todo
  BY <1>1, <1>3 DEF TaskRec, Pc, Words, Computed
<1>5. SameKind(t, to)
  BY <1>1, <1>4, FreeOwes DEF SameKind, TruthInv, TaskKinds
<1>6. \A z, n, s : Promised(task[t], z, n, s) => Promised(to, z, n, s)
  BY <1>1, <1>4, Advances
<1> QED BY <1>1, <1>2, <1>3, <1>4, <1>5, <1>6, PlainDue

LEMMA ClientGoneDue == ASSUME DeltaInv, TruthInv, NEW t \in Tasks, ClientGone(t) PROVE TruthInv'
<1>1. /\ task[t].kind \in {"view", "propose"} /\ Goes(t, Free)
      /\ UNCHANGED <<runVars, row, pullVars, history>>
  BY DEF ClientGone, rowVars
<1>2. \A y, m, s : ~Promised(task[t], y, m, s)
  BY <1>1 DEF Promised, At, Settles, Redoes
<1>3. SameKind(t, Free)
  BY <1>1, FreeOwes DEF SameKind
<1> QED BY <1>1, <1>2, <1>3, FreeOwes, FreeType, PlainDue

\* What was lost is marked, or the row says its truth.
LEMMA MissedIsTrue ==
    ASSUME NEW ys, NEW y \in ys, y \notin Missed(ys)
    PROVE  row[y].word = Truth(y)
BY DEF Missed

\* A task passes rows over: they are marked, and the others are owed what they
\* were.
LEMMA PassesOverDue == ASSUME DeltaInv, TruthInv, NEW t \in Tasks, PassesOver(t) PROVE TruthInv'
<1>1. /\ task[t] \in TaskRec /\ TypeOK
      /\ UNCHANGED <<state, record, repoint, row, acks, restates, owed, dropped>>
  BY TaskAt DEF PassesOver, runVars, rowVars, pullVars, DeltaInv
<1>2. PICK to, ys :
         /\ Goes(t, to) /\ outrun' = Missed(ys)
         /\ \/ /\ task[t].pc = "own" /\ to = [task[t] EXCEPT !.pc = "list"]
               /\ ys = Measured \cap {task[t].of}
            \/ /\ task[t].pc = "list" /\ to = [task[t] EXCEPT !.pc = "each"]
               /\ ys = Listed(task[t])
            \/ /\ task[t].pc = "each" /\ task[t].kind = "restate"
               /\ \E z \in task[t].todo : ys = {z} /\ to = [task[t] EXCEPT !.todo = @ \ {z}]
  BY DEF PassesOver
<1>3. /\ to \in TaskRec /\ to.pc \in {"list", "each"} /\ to.kind = task[t].kind
      /\ to.of = task[t].of
  BY <1>1, <1>2 DEF TaskRec, Pc
<1>4. SameKind(t, to)
  BY <1>2, <1>3, FreeOwes DEF SameKind, TruthInv, TaskKinds
<1>5. \A y, m : Overlaid(y, m)' = Overlaid(y, m)
  BY <1>1 DEF Overlaid
<1>6. TaskKinds' /\ RestateSees' /\ RepointInv'
  BY <1>1, <1>2, <1>3, <1>4, <1>5, KindsKept, SeesKept DEF TruthInv, RepointInv
<1>7. ASSUME NEW y \in Measured, y \notin ys, Promised(task[t], y, row[y].against, state[y])
      PROVE  Promised(to, y, row[y].against, state[y])
  <2>1. CASE task[t].pc = "own"
    BY <1>1, <1>2, <1>7, <2>1 DEF Promised, At, Settles, Redoes, TaskRec
  <2>2. CASE task[t].pc = "list"
    <3>1. CASE task[t].kind = "settle"
      BY <1>1, <1>2, <1>7, <2>2, <3>1
         DEF Promised, At, Settles, Redoes, TaskRec, Listed, Dependents
    <3>2. CASE task[t].kind # "settle"
      BY <1>1, <1>2, <1>7, <2>2, <3>2
         DEF Promised, At, Settles, Redoes, TaskRec, Listed
    <3> QED BY <3>1, <3>2
  <2>3. CASE task[t].pc = "each"
    <3>1. task[t].kind = "restate" /\ y \in task[t].todo
      BY <1>2, <1>7, <2>3 DEF Promised, At, Settles, Redoes
    <3>2. to.kind = "restate" /\ y \in to.todo
      BY <1>1, <1>2, <1>3, <1>7, <2>3, <3>1 DEF TaskRec
    <3> QED BY <3>2 DEF Promised, Redoes
  <2> QED BY <1>2, <2>1, <2>2, <2>3
<1>8. ASSUME NEW y \in Measured \ outrun', ~dropped PROVE Due(y)'
  <2>1. Truth(y)' = Truth(y)
    BY <1>1, <1>5, SameTruth
  <2>2. CASE y \in ys
    <3>1. row[y].word = Truth(y)
      BY <1>2, <1>8, <2>2, MissedIsTrue
    <3> QED BY <1>1, <2>1, <3>1 DEF Due
  <2>3. CASE y \notin ys
    <3>1. Due(y)
      BY <1>2, <1>8 DEF Missed, TruthInv
    <3>2. Obliged(y) => Obliged(y)'
      BY <1>1, <1>2, <1>3, <1>7, <2>3, ObligedKept
    <3> QED BY <1>1, <2>1, <3>1, <3>2 DEF Due, Linked
  <2> QED BY <2>2, <2>3
<1> QED BY <1>1, <1>6, <1>8 DEF TruthInv

\* What a task that has recorded still owes.
LEMMA RecordsOn ==
    ASSUME NEW t \in TaskRec, NEW to, t.pc = "record",
           to = IF After(t) = "free" THEN Free ELSE [t EXCEPT !.pc = After(t)]
    PROVE  /\ to \in TaskRec /\ to.pc # "record"
           /\ to.kind = t.kind \/ (to = Free /\ t.kind \notin {"settle", "restate"})
           /\ to.pc = "insert" => to.kind = "propose"
           /\ \A y, m, s : Promised(t, y, m, s) /\ ~At(t, y, m) => Promised(to, y, m, s)
<1>1. /\ After(t) \in {"list", "each", "insert", "free"}
      /\ After(t) = "insert" => t.kind = "propose"
      /\ After(t) = "free" => t.kind \notin {"settle", "restate"}
      /\ t.kind = "settle" /\ t.y = t.of => After(t) = "list"
  BY DEF After
<1>2. CASE After(t) = "free"
  BY <1>1, <1>2, FreeOwes, FreeType DEF Promised, Settles, Redoes
<1>3. CASE After(t) # "free"
  <2>1. /\ to \in TaskRec /\ to.pc = After(t) /\ to.kind = t.kind /\ to.of = t.of
        /\ to.y = t.y /\ to.todo = t.todo
    BY <1>1, <1>3 DEF TaskRec, Pc
  <2> QED BY <1>1, <1>3, <2>1 DEF Promised, Settles, Redoes
<1> QED BY <1>2, <1>3

LEMMA RecordDue == ASSUME DeltaInv, TruthInv, NEW t \in Tasks, Record(t) PROVE TruthInv'
<1>1. PICK z, n, word : z = task[t].y /\ n = task[t].m /\ word = task[t].word
  OBVIOUS
<1>2. PICK to : to = IF After(task[t]) = "free" THEN Free
                     ELSE [task[t] EXCEPT !.pc = After(task[t])]
  OBVIOUS
<1>3. /\ task[t] \in TaskRec /\ TaskOk(task[t]) /\ task[t].pc = "record" /\ TypeOK
      /\ z \in Measured /\ n \in Runs /\ Goes(t, to)
      /\ UNCHANGED <<state, record, repoint, acks, restates, owed, dropped>>
  BY <1>1, <1>2, TaskAt DEF Record, DeltaInv, runVars, pullVars
<1>4. /\ to \in TaskRec /\ to.pc # "record"
      /\ to.kind = task[t].kind \/ (to = Free /\ task[t].kind \notin {"settle", "restate"})
      /\ to.pc = "insert" => to.kind = "propose"
      /\ \A y, m, s : Promised(task[t], y, m, s) /\ ~At(task[t], y, m) => Promised(to, y, m, s)
  BY <1>2, <1>3, RecordsOn
<1>5. SameKind(t, to)
  BY <1>3, <1>4, FreeOwes DEF SameKind, TruthInv, TaskKinds
<1>6. \A y, m : Overlaid(y, m)' = Overlaid(y, m)
  BY <1>3 DEF Overlaid
<1>7. TaskKinds' /\ RestateSees' /\ RepointInv'
  BY <1>3, <1>4, <1>5, <1>6, KindsKept, SeesKept DEF TruthInv, RepointInv
<1>8. \/ /\ Lands(z, n) /\ row' = [row EXCEPT ![z].word = word]
         /\ \/ word = Truth(z) /\ outrun' = outrun \ {z}
            \/ word # Truth(z) /\ Excused(t) /\ outrun' = outrun \cup {z}
            \/ word # Truth(z) /\ ~Excused(t) /\ outrun' = outrun
      \/ ~Lands(z, n) /\ row' = row /\ outrun' = outrun
      \/ row' = row /\ outrun' = Missed({z})
  BY <1>1 DEF Record
<1>9. /\ row \in [Measured -> [against : Runs, word : Words]]
      /\ \A y \in Measured : row'[y].against = row[y].against
  BY <1>3, <1>8, Types
<1>10. ASSUME NEW y \in Measured, Due(y), row'[y] = row[y], y # z \/ ~Lands(z, n)
       PROVE  Due(y)'
  <2>1. Truth(y)' = Truth(y)
    BY <1>3, <1>6, <1>9, SameTruth
  <2>2. ~At(task[t], y, row[y].against)
    BY <1>1, <1>10 DEF At, Lands
  <2>3. Obliged(y) => Obliged(y)'
    BY <1>3, <1>4, <1>9, <2>2, ObligedKept
  <2> QED BY <1>3, <1>10, <2>1, <2>3 DEF Due, Linked
<1>11. ASSUME ~dropped, Due(z), z \notin outrun', Lands(z, n) PROVE Due(z)'
  <2>1. Truth(z)' = Truth(z)
    BY <1>3, <1>6, <1>9, SameTruth
  <2>2. CASE word = Truth(z) /\ row' = [row EXCEPT ![z].word = word]
    <3>1. row'[z].word = word
      BY <1>3, <1>9, <2>2
    <3> QED BY <2>1, <2>2, <3>1 DEF Due
  <2>3. CASE word # Truth(z) /\ ~Excused(t)
    <3>1. task[t].kind = "restate" /\ word \in Computed /\ row[z].against = n
      BY <1>1, <1>11, <2>3 DEF Excused, Lands
    <3>2. Between(z, n) = "there"
      BY <1>1, <1>3, <3>1 DEF TaskOk, Earned
    <3>3. Truth(z) = Overlaid(z, n)
      BY <3>1, <3>2 DEF Truth
    <3>4. owed > 0 \/ restates = "again"
      BY <1>1, <1>3, <1>11, <2>3, <3>1, <3>3 DEF TruthInv, RestateSees
    <3> QED BY <1>3, <3>4 DEF Due, Obliged
  <2>4. CASE row' = row /\ outrun' = Missed({z})
    <3>1. row[z].word = Truth(z)
      BY <1>11, <2>4, MissedIsTrue
    <3> QED BY <2>1, <2>4, <3>1 DEF Due
  <2> QED BY <1>8, <1>11, <2>2, <2>3, <2>4
<1>12. ASSUME NEW y \in Measured \ outrun', ~dropped PROVE Due(y)'
  <2>1. CASE y # z
    <3>1. y \notin outrun /\ row'[y] = row[y]
      BY <1>8, <1>9, <1>12, <2>1 DEF Missed
    <3> QED BY <1>10, <1>12, <2>1, <3>1 DEF TruthInv
  <2>2. CASE y = z /\ ~Lands(z, n)
    <3>1. y \notin outrun /\ row' = row
      BY <1>8, <1>12, <2>2 DEF Missed
    <3> QED BY <1>10, <1>12, <2>2, <3>1 DEF TruthInv
  <2>3. CASE y = z /\ Lands(z, n)
    <3>1. CASE word = Truth(z) /\ row' = [row EXCEPT ![z].word = word]
      <4>1. row'[z].word = word /\ Truth(z)' = Truth(z)
        BY <1>3, <1>6, <1>9, <3>1, SameTruth
      <4> QED BY <2>3, <3>1, <4>1 DEF Due
    <3>2. CASE outrun' = outrun \/ outrun' = Missed({z})
      <4>1. Due(z)
        BY <1>12, <2>3, <3>2 DEF TruthInv, Missed
      <4> QED BY <1>11, <1>12, <2>3, <4>1
    <3> QED BY <1>8, <1>12, <2>3, <3>1, <3>2
  <2> QED BY <2>1, <2>2, <2>3
<1> QED BY <1>3, <1>7, <1>12 DEF TruthInv

LEMMA DecisionDue == ASSUME DeltaInv, TruthInv, Decision PROVE TruthInv'
<1>1. /\ owed' = owed + 1 /\ owed \in Nat
      /\ UNCHANGED <<repoint, record, restates, task>>
  BY DeltaAssumption
     DEF Decision, Withdraw, Confirm, Decides, rowVars, runVars, DeltaInv, TypeOK
<1>2. owed' > 0
  BY <1>1
<1>3. TaskKinds' /\ RepointInv'
  BY <1>1 DEF TruthInv, TaskKinds, RepointInv
<1>4. RestateSees' /\ \A y \in Measured : Due(y)'
  BY <1>2 DEF RestateSees, Due, Obliged
<1> QED BY <1>3, <1>4 DEF TruthInv

LEMMA CancelDue == ASSUME DeltaInv, TruthInv, Cancel PROVE TruthInv'
<1>1. dropped' = TRUE /\ UNCHANGED <<repoint, record, restates, task>>
  BY DEF Cancel, runVars
<1>2. TaskKinds' /\ RepointInv' /\ RestateSees'
  BY <1>1 DEF TruthInv, TaskKinds, RepointInv, RestateSees
<1> QED BY <1>1, <1>2 DEF TruthInv

\* A settlement taken up by a task nobody had.
LEMMA SpawnDue ==
    ASSUME DeltaInv, TruthInv, NEW t \in Tasks, Idle(t), NEW r \in Runs, SpawnSettle(t, r),
           UNCHANGED <<acks, restates, owed, dropped>>
    PROVE  /\ TaskKinds' /\ RestateSees'
           /\ Started("settle", "own", r) \in TaskRec
           /\ \A u \in Tasks : task'[u] = IF u = t THEN Started("settle", "own", r) ELSE task[u]
           /\ task'[t].kind = "settle" /\ task'[t].pc = "own" /\ task'[t].of = r
<1>1. PICK to : to = Started("settle", "own", r)
  OBVIOUS
<1>2. to \in TaskRec /\ to.kind = "settle" /\ to.pc = "own" /\ to.of = r
  BY <1>1, StartedType DEF Kind, Pc
<1>3. Goes(t, to) /\ TypeOK
  BY <1>1 DEF SpawnSettle, DeltaInv
<1>4. \A u \in Tasks : task'[u] = IF u = t THEN to ELSE task[u]
  BY <1>2, <1>3, Types, GoesTypes
<1>5. SameKind(t, to)
  BY <1>2, IdleOwes DEF SameKind
<1>6. \A y, m : Overlaid(y, m)' = Overlaid(y, m)
  BY DEF Overlaid
<1>7. TaskKinds' /\ RestateSees'
  BY <1>2, <1>3, <1>5, <1>6, KindsKept, SeesKept DEF TruthInv
<1> QED BY <1>1, <1>2, <1>4, <1>7

\* A pair neither side of which ended as something else compares as it did.
LEMMA BetweenSame ==
    ASSUME NEW y, NEW m, Side(y)' = Side(y), Side(y) # "there" \/ Side(m)' = Side(m)
    PROVE  Between(y, m)' = Between(y, m)
BY DEF Between, NamedApart

\* The settlement of a run that ends has its own row ahead, and those of the
\* completed runs measured against it.
LEMMA FinishRunDue ==
    ASSUME DeltaInv, TruthInv, NEW t \in Tasks, NEW r \in Runs, FinishRun(t, r)
    PROVE  TruthInv'
<1>1. /\ Idle(t) /\ SpawnSettle(t, r) /\ TypeOK
      /\ UNCHANGED <<row, acks, restates, owed, record, repoint, outrun, dropped>>
  BY DEF FinishRun, rowVars, pullVars, history, DeltaInv
<1>2. \A x \in Runs \ {r} : state'[x] = state[x]
  BY <1>1, Types DEF FinishRun, Ends
<1>3. /\ TaskKinds' /\ RestateSees'
      /\ \A u \in Tasks : task'[u] = IF u = t THEN Started("settle", "own", r) ELSE task[u]
      /\ task'[t].kind = "settle" /\ task'[t].pc = "own" /\ task'[t].of = r
  BY <1>1, SpawnDue
<1>4. RepointInv'
  BY <1>1 DEF TruthInv, RepointInv
<1>5. ASSUME NEW y \in Measured, Due(y) PROVE Due(y)'
  <2>1. y \in Runs /\ row[y].against \in Runs
    BY <1>1, Types, DeltaAssumption
  <2>2. CASE y = r
    <3>1. Promised(task'[t], y, row'[y].against, state'[y])
      BY <1>3, <2>2 DEF Promised, Settles
    <3> QED BY <3>1 DEF Due, Obliged
  <2>3. CASE y # r /\ row[y].against = r /\ state[y] = "completed"
    <3>1. Promised(task'[t], y, row'[y].against, state'[y])
      BY <1>1, <1>2, <1>3, <2>1, <2>3 DEF Promised, Settles
    <3> QED BY <3>1 DEF Due, Obliged
  <2>4. CASE y # r /\ (row[y].against # r \/ state[y] # "completed")
    <3>0. SUFFICES ASSUME Linked(y) PROVE (row[y].word = Truth(y) \/ Obliged(y))'
      BY <1>1, <1>2, <2>1, <2>4 DEF Due, Linked
    <3>1. Side(y)' = Side(y) /\ (row[y].against # r => Side(row[y].against)' = Side(row[y].against))
      BY <1>1, <1>2, <2>1, <2>4 DEF Side
    <3>2. state[y] # "completed" => Side(y) # "there"
      BY <3>0 DEF Side, Linked
    <3>3. Between(y, row[y].against)' = Between(y, row[y].against)
      <4>1. PICK m : m = row[y].against /\ m = row'[y].against
        BY <1>1
      <4>2. Side(y)' = Side(y) /\ (Side(y) # "there" \/ Side(m)' = Side(m))
        <5>1. row[y].against # r => Side(m)' = Side(m)
          BY <1>1, <1>2, <2>1, <4>1 DEF Side
        <5> QED BY <2>4, <3>1, <3>2, <5>1
      <4>3. Between(y, m)' = Between(y, m)
        BY <4>2, BetweenSame
      <4> QED BY <4>1, <4>3 DEF Between, NamedApart
    <3>4. Truth(y)' = Truth(y)
      BY <1>1, <3>3 DEF Truth, Overlaid
    <3>5. ASSUME Obliged(y) PROVE Obliged(y)'
      <4>1. ASSUME NEW u \in Tasks, Promised(task[u], y, row[y].against, state[y])
            PROVE  Promised(task'[u], y, row'[y].against, state'[y])
        BY <1>1, <1>2, <1>3, <2>1, <2>4, <4>1, IdleOwes
      <4> QED BY <1>1, <3>5, <4>1 DEF Obliged
    <3> QED BY <1>1, <1>5, <3>0, <3>4, <3>5 DEF Due
  <2> QED BY <2>2, <2>3, <2>4
<1> QED BY <1>1, <1>3, <1>4, <1>5 DEF TruthInv

LEMMA DiesDue ==
    ASSUME DeltaInv, TruthInv, NEW r \in Runs, Kill(r) \/ FinishCut(r)
    PROVE  TruthInv'
<1>1. /\ UNCHANGED <<row, acks, restates, owed, record, repoint, task, dropped>> /\ TypeOK
      /\ outrun' = outrun \cup {y \in Measured : y = r \/ row[y].against = r}
  BY DEF Kill, FinishCut, TouchedBy, rowVars, pullVars, DeltaInv
<1>2. \A x \in Runs \ {r} : state'[x] = state[x]
  BY <1>1, Types DEF Kill, FinishCut, Ends
<1>3. TaskKinds' /\ RepointInv'
  BY <1>1 DEF TruthInv, TaskKinds, RepointInv
<1>4. RestateSees'
  BY <1>1 DEF TruthInv, RestateSees, Overlaid
<1>5. ASSUME NEW y \in Measured \ outrun', Due(y) PROVE Due(y)'
  <2>1. y \in Runs \ {r} /\ row[y].against \in Runs \ {r}
    BY <1>1, <1>5, Types, DeltaAssumption
  <2>2. Side(y)' = Side(y) /\ Side(row[y].against)' = Side(row[y].against)
    BY <1>1, <1>2, <2>1 DEF Side
  <2>3. Truth(y)' = Truth(y)
    BY <1>1, <2>2 DEF Truth, Between, NamedApart, Overlaid
  <2>4. Obliged(y) => Obliged(y)'
    BY <1>1, <1>2, <2>1 DEF Obliged
  <2> QED BY <1>1, <1>2, <1>5, <2>1, <2>3, <2>4 DEF Due, Linked
<1> QED BY <1>1, <1>3, <1>4, <1>5 DEF TruthInv

LEMMA RepointRecordDue ==
    ASSUME DeltaInv, TruthInv, NEW y \in Measured, NEW to \in Runs, RepointRecord(y, to)
    PROVE  TruthInv'
<1>1. /\ repoint.y = Nobody /\ repoint'.y = y /\ repoint'.to = to /\ TypeOK
      /\ record' = [record EXCEPT ![y] = to]
      /\ UNCHANGED <<row, acks, restates, owed, state, task, outrun, dropped>>
  BY DEF RepointRecord, rowVars, pullVars, history, DeltaInv
<1>2. TaskKinds' /\ RestateSees'
  BY <1>1 DEF TruthInv, TaskKinds, RestateSees, Overlaid
<1>3. record'[y] = to /\ \A z \in Measured \ {y} : record'[z] = record[z]
  BY <1>1, Types
<1>4. RepointInv'
  BY <1>1, <1>3 DEF RepointInv
<1>5. ASSUME NEW z \in Measured, Due(z) PROVE Due(z)'
  <2>1. CASE z = y
    BY <1>1, <2>1 DEF Due, Obliged
  <2>2. CASE z # y
    <3>1. Truth(z)' = Truth(z)
      BY <1>1, SameTruth DEF Overlaid
    <3>2. Nobody \notin Measured
      BY DeltaAssumption
    <3>3. Obliged(z) => Obliged(z)'
      BY <1>1, <3>2 DEF Obliged
    <3> QED BY <1>1, <1>3, <1>5, <2>2, <3>1, <3>3 DEF Due, Linked
  <2> QED BY <2>1, <2>2
<1> QED BY <1>1, <1>2, <1>4, <1>5 DEF TruthInv

LEMMA RepointRowDue ==
    ASSUME DeltaInv, TruthInv, NEW t \in Tasks, RepointRow(t)
    PROVE  TruthInv'
<1>1. PICK y : y = repoint.y
  OBVIOUS
<1>2. /\ y \in Measured /\ y \in Runs /\ Idle(t) /\ SpawnSettle(t, y) /\ TypeOK
      /\ row' = [row EXCEPT ![y] = [against |-> repoint.to, word |-> "pending"]]
      /\ repoint'.y = Nobody
      /\ UNCHANGED <<acks, restates, owed, state, record, outrun, dropped>>
  BY <1>1, DeltaAssumption
     DEF RepointRow, RowRepointed, NoRepoint, pullVars, history, DeltaInv, TruthInv, RepointInv
<1>3. /\ TaskKinds' /\ RestateSees'
      /\ \A u \in Tasks : task'[u] = IF u = t THEN Started("settle", "own", y) ELSE task[u]
      /\ task'[t].kind = "settle" /\ task'[t].pc = "own" /\ task'[t].of = y
  BY <1>2, SpawnDue
<1>4. RepointInv'
  BY <1>2 DEF RepointInv
<1>5. ASSUME NEW z \in Measured, Due(z) PROVE Due(z)'
  <2>1. CASE z = y
    <3>1. Promised(task'[t], z, row'[z].against, state'[z])
      BY <1>3, <2>1 DEF Promised, Settles
    <3> QED BY <3>1 DEF Due, Obliged
  <2>2. CASE z # y
    <3>1. row'[z] = row[z]
      BY <1>2, <2>2, Types
    <3>2. Truth(z)' = Truth(z)
      BY <1>2, <3>1, SameTruth DEF Overlaid
    <3>3. ASSUME Obliged(z) PROVE Obliged(z)'
      <4>1. ASSUME NEW u \in Tasks, Promised(task[u], z, row[z].against, state[z])
            PROVE  Promised(task'[u], z, row'[z].against, state'[z])
        BY <1>2, <1>3, <3>1, <4>1, IdleOwes
      <4> QED BY <1>1, <1>2, <2>2, <3>3, <4>1 DEF Obliged
    <3> QED BY <1>2, <1>5, <3>1, <3>2, <3>3 DEF Due, Linked
  <2> QED BY <2>1, <2>2
<1> QED BY <1>2, <1>3, <1>4, <1>5 DEF TruthInv

LEMMA TrueStays ==
    ASSUME NEW y, UNCHANGED <<state, acks>>, row'[y] = row[y], row[y].word = Truth(y)
    PROVE  Due(y)'
<1>1. Truth(y)' = Truth(y)
  BY SameTruth DEF Overlaid
<1> QED BY <1>1 DEF Due

\* A re-point that fails marks its row, or leaves it true; whichever baseline
\* its record names then, no other run's does.
LEMMA RepointFailsDue == ASSUME DeltaInv, TruthInv, RepointFails PROVE TruthInv'
<1>1. PICK y : y = repoint.y
  OBVIOUS
<1>2. /\ y \in Measured /\ repoint'.y = Nobody /\ TypeOK
      /\ UNCHANGED <<acks, restates, owed, state, task, dropped>>
  BY <1>1 DEF RepointFails, NoRepoint, pullVars, DeltaInv, TruthInv, RepointInv
<1>3. TaskKinds' /\ RestateSees' /\ RepointInv'
  BY <1>2 DEF TruthInv, TaskKinds, RestateSees, RepointInv, Overlaid
<1>4. \/ row' = row /\ outrun' = Missed({y})
      \/ row' = [row EXCEPT ![y] = [against |-> repoint.to, word |-> "pending"]]
         /\ outrun' = outrun \cup {y}
  BY <1>1, <1>2 DEF RepointFails, RepointLost, RowRepointed, Missed
<1>5. \A z \in Measured \ {y} : row'[z] = row[z] /\ record'[z] = record[z]
  BY <1>1, <1>4, Types DEF RepointFails, DeltaInv
<1>6. ASSUME NEW z \in Measured \ outrun', ~dropped PROVE Due(z)'
  <2>1. CASE z = y
    <3>1. row' = row /\ y \notin Missed({y})
      BY <1>4, <1>6, <2>1
    <3>2. row[y].word = Truth(y)
      BY <3>1, MissedIsTrue
    <3> QED BY <1>2, <2>1, <3>1, <3>2, TrueStays
  <2>2. CASE z # y
    <3>1. Due(z)
      BY <1>4, <1>6 DEF TruthInv, Missed
    <3>2. row'[z] = row[z] /\ record'[z] = record[z]
      BY <1>5, <2>2
    <3>3. Truth(z)' = Truth(z)
      BY <1>2, <3>2, SameTruth DEF Overlaid
    <3>4. Obliged(z) => Obliged(z)'
      BY <1>1, <1>2, <2>2, <3>2 DEF Obliged
    <3> QED BY <1>2, <3>1, <3>2, <3>3, <3>4 DEF Due, Linked
  <2> QED BY <2>1, <2>2
<1> QED BY <1>2, <1>3, <1>6 DEF TruthInv

\* After a restart a row that is not marked says its truth.
LEMMA RestartDue == ASSUME DeltaInv, TruthInv, Restart PROVE TruthInv'
<1>1. /\ task' = [t \in Tasks |-> Free] /\ restates' = "idle" /\ repoint'.y = Nobody
      /\ UNCHANGED <<state, acks>>
  BY DEF Restart, NoRepoint
<1>2. TaskKinds' /\ RestateSees' /\ RepointInv'
  BY <1>1, FreeOwes DEF TaskKinds, RestateSees, RepointInv
<1>3. ASSUME NEW y \in Measured \ outrun' PROVE Due(y)'
  <2>1. y \notin Missed(Measured) /\ (row' = row \/ (RowRepointed /\ y # repoint.y))
    BY <1>3 DEF Restart
  <2>2. row'[y] = row[y]
    BY <1>3, <2>1, Types DEF RowRepointed, DeltaInv
  <2>3. row[y].word = Truth(y)
    BY <1>3, <2>1, MissedIsTrue
  <2> QED BY <1>1, <2>2, <2>3, TrueStays
<1> QED BY <1>2, <1>3 DEF TruthInv

LEMMA RestDue == ASSUME TruthInv, UNCHANGED vars PROVE TruthInv'
<1>1. UNCHANGED <<state, record, repoint, row, cache, acks, restates, owed, task, outrun, dropped>>
  BY DEF vars, runVars, rowVars, pullVars, history
<1>2. TaskKinds' /\ RepointInv'
  BY <1>1 DEF TruthInv, TaskKinds, RepointInv
<1>3. RestateSees'
  BY <1>1 DEF TruthInv, RestateSees, Overlaid
<1>4. \A y : Truth(y)' = Truth(y)
  BY <1>1, SameTruth DEF Overlaid
<1>5. \A y : Due(y) => Due(y)'
  BY <1>1, <1>4 DEF Due, Linked, Obliged
<1> QED BY <1>1, <1>2, <1>3, <1>5 DEF TruthInv

LEMMA TruthNext ==
    ASSUME DeltaInv, DeltaInv', TruthInv, [Next]_vars
    PROVE  TruthInv'
<1>1. ASSUME NEW t \in Tasks, Step(t) PROVE TruthInv'
  BY <1>1, ReadDue, ReadFailsDue, OverlayDue, RecordDue, SettleOwnDue, ListDue, NextRunDue,
     PassesOverDue, SettleEndsDue, RestateEndsDue, InsertDue, ClientGoneDue DEF Step
<1>2. ASSUME NEW t \in Tasks, AskRestate(t) \/ RepointRow(t) PROVE TruthInv'
  BY <1>2, AskRestateDue, RepointRowDue
<1>3. ASSUME NEW t \in Tasks, NEW y \in Measured, View(t, y) \/ Propose(t, y) PROVE TruthInv'
  BY <1>3, ViewDue
<1>4. ASSUME NEW t \in Tasks, NEW r \in Runs, FinishRun(t, r) PROVE TruthInv'
  BY <1>4, FinishRunDue
<1>5. ASSUME NEW r \in Runs, Kill(r) \/ FinishCut(r) PROVE TruthInv'
  BY <1>5, DiesDue
<1>6. ASSUME NEW y \in Measured, NEW to \in Runs, RepointRecord(y, to) PROVE TruthInv'
  BY <1>6, RepointRecordDue
<1>7. CASE RepointFails \/ Decision \/ Cancel \/ Restart
  BY <1>7, RepointFailsDue, DecisionDue, CancelDue, RestartDue
<1>8. CASE Rest \/ UNCHANGED vars
  BY <1>8, RestDue DEF Rest
<1> QED BY <1>1, <1>2, <1>3, <1>4, <1>5, <1>6, <1>7, <1>8 DEF Next

\* Once everything has run nothing is owed any more.
LEMMA QuietOwesNothing ==
    ASSUME TruthInv, Quiet, NEW y \in Measured
    PROVE  ~Obliged(y)
<1>1. \A t \in Tasks : task[t].kind = "free" /\ ~Promised(task[t], y, row[y].against, state[y])
  BY IdleOwes DEF Quiet
<1>2. restates = "idle"
  BY <1>1 DEF TruthInv, TaskKinds
<1>3. repoint.y # y
  BY DeltaAssumption DEF Quiet
<1> QED BY <1>1, <1>2, <1>3 DEF Quiet, Obliged

\* A row says its delta once everything has run, unless an answer already old
\* landed on it or what would have written it was lost: whatever decisions,
\* finishes, views, proposals and re-points were under way at once, each of
\* them left a task, or a pass still to come, that reads what it changed.
THEOREM QuietRowsTellTheTruth == Spec => []QuietRowsAreTrue
<1>1. DeltaInv /\ TruthInv => QuietRowsAreTrue
  BY QuietOwesNothing DEF QuietRowsAreTrue, TruthInv, Due
<1>2. Init => DeltaInv /\ TruthInv
  BY DeltaInit, TruthInit
<1>3. DeltaInv /\ TruthInv /\ [Next]_vars => DeltaInv' /\ TruthInv'
  BY DeltaNext, TruthNext
<1> QED BY <1>1, <1>2, <1>3, PTL DEF Spec
=============================================================================
