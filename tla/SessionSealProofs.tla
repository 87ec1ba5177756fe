-------------------------- MODULE SessionSealProofs -------------------------
(***************************************************************************)
(* Proofs about SessionSeal, for any number of sealers, whatever lands and *)
(* however many of them stop.  First what the sealers do to the store and  *)
(* to one another, which does not depend on what a set of objects collates *)
(* to; then that, from Collate: sorting, merging and scanning, each taken  *)
(* one record at a time.                                                   *)
(***************************************************************************)
EXTENDS SessionSeal, FiniteSetTheorems, SequenceTheorems, WellFoundedInduction, TLAPS

\* The store holds part n of a seal of `events'; part 0 is its index.
Holds(events, n) ==
    \E o \in store : o.key = Key(events, n) /\ o.body = Body(events, n)

HoldsParts(events) == \A n \in 1 .. Parts(events) : Holds(events, n)

\* What a sealer in state `rec' has put of its seal.
Progress(rec) ==
    LET events == Collated(rec.keys).events
    IN /\ rec.pc = "put" =>
            IF rec.n = 0 THEN HoldsParts(events)
            ELSE \A n \in 1 .. rec.n - 1 : Holds(events, n)
       /\ rec.pc = "publish" => HoldsParts(events) /\ Holds(events, 0)

-----------------------------------------------------------------------------
(* The inductive invariant.                                                *)

\* Every manifest is that of objects that landed.
ManifestInv ==
    /\ IsFiniteSet(landed)
    /\ \A m \in published : m = Manifest(m.of) /\ m.of \subseteq landed

\* Objects are what their keys say, so that whoever puts a key puts one body;
\* a sealer has put the parts before the one it is at.
StoreInv ==
    /\ \A o \in store : o.body = Body(o.key[1], o.key[2])
    /\ \A m \in published :
          HoldsParts(Collated(m.of).events) /\ Holds(Collated(m.of).events, 0)
    /\ \A s \in Sealers : Progress(sealer[s])

SealerRec == [pc : {"idle", "plan", "manifest", "landing", "list", "get", "put", "publish"},
              saw : published \cup {Nothing}, count : Nat, keys : SUBSET landed, n : Nat]

SealInv ==
    /\ TypeOK /\ ManifestInv /\ StoreInv
    /\ sealer \in [Sealers -> SealerRec]

-----------------------------------------------------------------------------
LEMMA ManifestFields ==
    ASSUME NEW keys
    PROVE  /\ Manifest(keys).of = keys /\ Manifest(keys).objects = Cardinality(keys)
           /\ DOMAIN Manifest(keys).parts = 1 .. Parts(Collated(keys).events)
           /\ \A n \in 1 .. Parts(Collated(keys).events) :
                 Manifest(keys).parts[n] = Key(Collated(keys).events, n)
BY DEF Manifest

LEMMA IdleType == Idle \in SealerRec /\ Idle.pc = "idle"
BY DEF Idle, SealerRec

\* A put replaces an object by one that says the same.
LEMMA PutKeeps ==
    ASSUME StoreInv, NEW events, NEW n, store' = Put(Key(events, n), Body(events, n))
    PROVE  /\ \A o \in store' : o.body = Body(o.key[1], o.key[2])
           /\ Holds(events, n)'
           /\ \A evs, k : Holds(evs, k) => Holds(evs, k)'
<1>1. store' = {o \in store : o.key # Key(events, n)}
                 \cup {[key |-> Key(events, n), body |-> Body(events, n)]}
  BY DEF Put
<1> DEFINE new == [key |-> Key(events, n), body |-> Body(events, n)]
<1>2. new.key = Key(events, n) /\ new.body = Body(events, n) /\ new \in store'
  BY <1>1
<1>3. new.body = Body(new.key[1], new.key[2])
  BY <1>2 DEF Key
<1> HIDE DEF new
<1>4. \A o \in store' : o.body = Body(o.key[1], o.key[2])
  BY <1>1, <1>3 DEF StoreInv, new
<1>5. Holds(events, n)'
  BY <1>2 DEF Holds
<1>6. ASSUME NEW evs, NEW k, Holds(evs, k) PROVE Holds(evs, k)'
  <2>1. PICK o \in store : o.key = Key(evs, k) /\ o.body = Body(evs, k)
    BY <1>6 DEF Holds
  <2>2. CASE o.key # Key(events, n)
    BY <1>1, <2>1, <2>2 DEF Holds
  <2>3. CASE o.key = Key(events, n)
    <3>1. evs = events /\ k = n
      BY <2>1, <2>3 DEF Key
    <3>2. QED
      BY <1>5, <3>1
  <2>4. QED
    BY <2>2, <2>3
<1>7. QED
  BY <1>4, <1>5, <1>6

\* What does not put keeps what is held.
LEMMA HoldsSame ==
    ASSUME store' = store
    PROVE  \A evs, k : Holds(evs, k) => Holds(evs, k)'
BY DEF Holds

\* While nothing put is lost, sealers that do not move have put what they had.
LEMMA ProgressStays ==
    ASSUME recording' = recording, \A evs, k : Holds(evs, k) => Holds(evs, k)'
    PROVE  /\ \A evs : HoldsParts(evs) => HoldsParts(evs)'
           /\ \A rec : Progress(rec) => Progress(rec)'
<1>1. \A evs : HoldsParts(evs) => HoldsParts(evs)'
  BY DEF HoldsParts
<1>2. ASSUME NEW rec, Progress(rec) PROVE Progress(rec)'
  <2> DEFINE events == Collated(rec.keys).events
  <2>1. events' = events
    BY DEF Collated
  <2> HIDE DEF events
  <2>2. HoldsParts(events) => HoldsParts(events)'
    BY <1>1, <2>1 DEF HoldsParts
  <2>3. QED
    BY <1>2, <2>1, <1>1 DEF Progress, events, Collated
<1>3. QED
  BY <1>1, <1>2

-----------------------------------------------------------------------------
(* Frames: what a step that moves one sealer has to show.                  *)

\* What TypeOK says of all but the sealers.
EnvType ==
    /\ recording.objects \in Landings /\ landed \subseteq Objects
    /\ swept \subseteq landed /\ quiet \in BOOLEAN
    /\ manifest = Nothing \/ manifest \in published

LEMMA TypeFromParts ==
    ASSUME EnvType', sealer' \in [Sealers -> SealerRec']
    PROVE  TypeOK'
<1>1. \A s \in Sealers : sealer'[s] \in SealerRec'
  OBVIOUS
<1>2. \A s \in Sealers :
         /\ sealer'[s].pc \in {"idle", "plan", "manifest", "landing", "list", "get",
                               "put", "publish"}
         /\ sealer'[s].saw = Nothing \/ sealer'[s].saw \in published'
         /\ sealer'[s].keys \subseteq landed'
  BY <1>1 DEF SealerRec
<1>3. QED
  BY <1>2 DEF TypeOK, EnvType, Objects

\* What lands or is published later takes nothing from what a sealer holds.
LEMMA RecGrows ==
    ASSUME landed \subseteq landed', published \subseteq published'
    PROVE  \A rec \in SealerRec : rec \in SealerRec'
BY DEF SealerRec

LEMMA SealerMoves ==
    ASSUME sealer \in [Sealers -> SealerRec], landed \subseteq landed',
           published \subseteq published',
           NEW s \in Sealers, NEW rec \in SealerRec, Goes(s, rec)
    PROVE  sealer' \in [Sealers -> SealerRec']
<1>1. \A r \in SealerRec : r \in SealerRec'
  BY RecGrows
<1> DEFINE R == SealerRec
           S == SealerRec'
<1>2. \A r \in R : r \in S
  BY <1>1
<1>3. sealer \in [Sealers -> R] /\ rec \in R /\ sealer' = [sealer EXCEPT ![s] = rec]
  BY DEF Goes
<1> HIDE DEF R, S
<1>4. sealer' \in [Sealers -> S]
  BY <1>2, <1>3
<1>5. QED
  BY <1>4 DEF S

LEMMA SealerRests ==
    ASSUME sealer \in [Sealers -> SealerRec], landed \subseteq landed',
           published \subseteq published', sealer' = sealer
    PROVE  sealer' \in [Sealers -> SealerRec']
<1>1. \A r \in SealerRec : r \in SealerRec'
  BY RecGrows
<1> DEFINE R == SealerRec
           S == SealerRec'
<1>2. (\A r \in R : r \in S) /\ sealer' \in [Sealers -> R]
  BY <1>1
<1> HIDE DEF R, S
<1>3. sealer' \in [Sealers -> S]
  BY <1>2
<1>4. QED
  BY <1>3 DEF S

\* A step of the environment: something may land, nothing is put.
LEMMA EnvironmentKeeps ==
    ASSUME SealInv, EnvType', landed \subseteq landed', IsFiniteSet(landed'),
           UNCHANGED <<recording, store, manifest, sealer, published>>
    PROVE  SealInv'
<1>1. sealer' \in [Sealers -> SealerRec']
  BY SealerRests DEF SealInv
<1>2. TypeOK'
  BY <1>1, TypeFromParts
<1>3. ManifestInv'
  <2>1. \A m \in published : Manifest(m.of)' = Manifest(m.of)
    BY DEF Manifest, Collated
  <2>2. QED
    BY <2>1 DEF SealInv, ManifestInv, Manifest, Collated
<1>4. StoreInv'
  <2>1. \A evs, k : Holds(evs, k) => Holds(evs, k)'
    BY HoldsSame
  <2>2. /\ \A evs : HoldsParts(evs) => HoldsParts(evs)'
        /\ \A rec : Progress(rec) => Progress(rec)'
    BY <2>1, ProgressStays
  <2>3. QED
    BY <2>1, <2>2 DEF SealInv, StoreInv, Collated, Progress
<1>5. QED
  BY <1>1, <1>2, <1>3, <1>4 DEF SealInv

\* A step of a sealer that puts nothing.
LEMMA ReadingKeeps ==
    ASSUME SealInv, NEW s \in Sealers, NEW rec \in SealerRec, Progress(rec), Goes(s, rec),
           UNCHANGED <<recording, landed, swept, quiet, store, manifest, published>>
    PROVE  SealInv'
<1>1. sealer' \in [Sealers -> SealerRec']
  BY SealerMoves DEF SealInv
<1>2. EnvType'
  BY DEF SealInv, TypeOK, EnvType, Objects
<1>3. TypeOK'
  BY <1>1, <1>2, TypeFromParts
<1>4. ManifestInv'
  BY DEF SealInv, ManifestInv, Manifest, Collated
<1>5. StoreInv'
  <2>1. \A evs, k : Holds(evs, k) => Holds(evs, k)'
    BY HoldsSame
  <2>2. /\ \A evs : HoldsParts(evs) => HoldsParts(evs)'
        /\ \A r : Progress(r) => Progress(r)'
    BY <2>1, ProgressStays
  <2>3. \A t \in Sealers : sealer'[t] = IF t = s THEN rec ELSE sealer[t]
    BY DEF SealInv, Goes
  <2>4. \A t \in Sealers : Progress(sealer'[t])
    BY <2>3 DEF SealInv, StoreInv
  <2>5. \A t \in Sealers : (Progress(sealer[t]))'
    BY <2>2, <2>4 DEF Progress, Collated
  <2>6. QED
    BY <2>1, <2>2, <2>5 DEF SealInv, StoreInv, Collated
<1>6. QED
  BY <1>1, <1>3, <1>4, <1>5 DEF SealInv

-----------------------------------------------------------------------------
(* Every step keeps the invariant.                                         *)

LEMMA SealInit == Init => SealInv
<1> SUFFICES ASSUME Init PROVE SealInv
  OBVIOUS
<1>1. sealer \in [Sealers -> SealerRec]
  BY IdleType DEF Init
<1>2. TypeOK
  <2>1. recording.objects \in Landings
    <3>1. PICK r \in Landings : recording = Recording(r)
      BY DEF Init
    <3>2. Recording(r).objects = r
      BY DEF Recording
    <3>3. QED
      BY <3>1, <3>2
  <2>2. \A s \in Sealers : sealer[s] \in SealerRec
    BY <1>1
  <2>3. QED
    BY <2>1, <2>2 DEF Init, TypeOK, SealerRec
<1>3. ManifestInv
  BY FS_EmptySet DEF Init, ManifestInv
<1>4. StoreInv
  BY DEF Init, StoreInv, Progress, Idle
<1>5. QED
  BY <1>1, <1>2, <1>3, <1>4 DEF SealInv

LEMMA LandKeeps == ASSUME SealInv, NEW k \in Objects, Land(k) PROVE SealInv'
<1>1. EnvType' /\ landed \subseteq landed'
  BY DEF Land, SealInv, TypeOK, EnvType, Objects
<1>2. IsFiniteSet(landed')
  BY FS_AddElement DEF Land, SealInv, ManifestInv
<1>3. QED
  BY <1>1, <1>2, EnvironmentKeeps DEF Land

LEMMA GoQuietKeeps == ASSUME SealInv, GoQuiet PROVE SealInv'
<1>1. EnvType'
  BY DEF GoQuiet, SealInv, TypeOK, EnvType, Objects
<1>2. QED
  BY <1>1, EnvironmentKeeps DEF GoQuiet, SealInv, ManifestInv

LEMMA SweepKeeps == ASSUME SealInv, NEW k \in Objects, Sweep(k) PROVE SealInv'
<1>1. k \in landed
  BY DEF Sweep, SealInv, TypeOK, ManifestInv
<1>2. EnvType'
  BY <1>1 DEF Sweep, SealInv, TypeOK, EnvType, Objects
<1>3. QED
  BY <1>2, EnvironmentKeeps DEF Sweep, SealInv, ManifestInv

\* What has landed and is not swept can be counted.
LEMMA LandingCounted ==
    ASSUME SealInv
    PROVE  /\ Landing \subseteq landed
           /\ IsFiniteSet(Landing) /\ Cardinality(Landing) \in Nat
<1>1. Landing \subseteq landed /\ IsFiniteSet(landed)
  BY DEF Landing, SealInv, ManifestInv
<1>2. QED
  BY <1>1, FS_Subset, FS_CardinalityType

\* The sealer's own steps that put nothing: each goes to a state of SealerRec
\* that owes nothing to the store.
LEMMA BeginPassKeeps == ASSUME SealInv, NEW s \in Sealers, BeginPass(s) PROVE SealInv'
<1> DEFINE rec == [Idle EXCEPT !.pc = "plan", !.count = Cardinality(Landing)]
<1>1. rec \in SealerRec /\ rec.pc = "plan"
  BY LandingCounted DEF Idle, SealerRec
<1>2. Goes(s, rec) /\ Reads
  BY DEF BeginPass
<1> HIDE DEF rec
<1>3. Progress(rec)
  BY <1>1 DEF Progress
<1>4. QED
  BY <1>1, <1>2, <1>3, ReadingKeeps DEF Reads

LEMMA ByHandKeeps == ASSUME SealInv, NEW s \in Sealers, BeginByHand(s) PROVE SealInv'
<1>1. PICK pc \in {"manifest", "list"} : Goes(s, [Idle EXCEPT !.pc = pc])
  BY DEF BeginByHand
<1> DEFINE rec == [Idle EXCEPT !.pc = pc]
<1>2. rec \in SealerRec /\ rec.pc = pc
  BY DEF Idle, SealerRec
<1> HIDE DEF rec
<1>3. Progress(rec)
  BY <1>2 DEF Progress
<1>4. QED
  BY <1>1, <1>2, <1>3, ReadingKeeps DEF BeginByHand, Reads, rec

LEMMA PlanKeeps == ASSUME SealInv, NEW s \in Sealers, Plan(s) PROVE SealInv'
<1>1. PICK rec \in {[Idle EXCEPT !.pc = "manifest"], Idle} : Goes(s, rec)
  BY DEF Plan
<1>2. rec \in SealerRec /\ rec.pc \in {"manifest", "idle"}
  BY DEF Idle, SealerRec
<1>3. Progress(rec)
  BY <1>2 DEF Progress
<1>4. QED
  BY <1>1, <1>2, <1>3, ReadingKeeps DEF Plan, Reads

LEMMA ReadManifestKeeps ==
    ASSUME SealInv, NEW s \in Sealers, ReadManifest(s) PROVE SealInv'
<1> DEFINE rec == [sealer[s] EXCEPT !.pc = "landing", !.saw = manifest]
<1>1. sealer[s] \in SealerRec /\ (manifest = Nothing \/ manifest \in published)
  BY DEF SealInv, TypeOK
<1>2. rec \in SealerRec /\ rec.pc = "landing"
  BY <1>1 DEF SealerRec
<1>3. Goes(s, rec) /\ Reads
  BY DEF ReadManifest
<1> HIDE DEF rec
<1>4. Progress(rec)
  BY <1>2 DEF Progress
<1>5. QED
  BY <1>2, <1>3, <1>4, ReadingKeeps DEF Reads

LEMMA ReadLandingKeeps ==
    ASSUME SealInv, NEW s \in Sealers, ReadLanding(s) PROVE SealInv'
<1>1. PICK rec \in {[Idle EXCEPT !.pc = "list"], Idle} : Goes(s, rec)
  BY DEF ReadLanding
<1>2. rec \in SealerRec /\ rec.pc \in {"list", "idle"}
  BY DEF Idle, SealerRec
<1>3. Progress(rec)
  BY <1>2 DEF Progress
<1>4. QED
  BY <1>1, <1>2, <1>3, ReadingKeeps DEF ReadLanding, Reads

LEMMA ListKeeps == ASSUME SealInv, NEW s \in Sealers, List(s) PROVE SealInv'
<1> DEFINE found == [sealer[s] EXCEPT !.pc = "get", !.keys = Landing]
<1>1. sealer[s] \in SealerRec
  BY DEF SealInv
<1>2. found \in SealerRec /\ found.pc = "get"
  BY <1>1, LandingCounted DEF SealerRec
<1>3. PICK rec \in {found, Idle} : Goes(s, rec)
  BY DEF List
<1> HIDE DEF found
<1>4. rec \in SealerRec /\ rec.pc \in {"get", "idle"}
  BY <1>2, IdleType
<1>5. Progress(rec)
  BY <1>4 DEF Progress
<1>6. QED
  BY <1>3, <1>4, <1>5, ReadingKeeps DEF List, Reads

LEMMA GetKeeps == ASSUME SealInv, NEW s \in Sealers, Get(s) PROVE SealInv'
<1> DEFINE got == [sealer[s] EXCEPT !.pc = "put", !.n = 1]
<1>1. sealer[s] \in SealerRec
  BY DEF SealInv
<1>2. got \in SealerRec /\ got.pc = "put" /\ got.n = 1
  BY <1>1 DEF SealerRec
<1>3. PICK rec \in {got, Idle} : Goes(s, rec)
  BY DEF Get
<1> HIDE DEF got
<1>4. rec \in SealerRec /\ (rec.pc = "idle" \/ (rec.pc = "put" /\ rec.n = 1))
  BY <1>2, IdleType
<1>5. Progress(rec)
  BY <1>4 DEF Progress
<1>6. QED
  BY <1>3, <1>4, <1>5, ReadingKeeps DEF Get, Reads

LEMMA StopKeeps == ASSUME SealInv, NEW s \in Sealers, Stop(s) PROVE SealInv'
<1>1. Progress(Idle)
  BY IdleType DEF Progress
<1>2. QED
  BY <1>1, IdleType, ReadingKeeps DEF Stop

\* A put brings its sealer to a state that has put one part more.
LEMMA PutPartKeeps == ASSUME SealInv, NEW s \in Sealers, PutPart(s) PROVE SealInv'
<1>1. PICK events, n, keys :
         /\ events = Collated(sealer[s].keys).events /\ n = sealer[s].n
         /\ keys = sealer[s].keys
  OBVIOUS
<1>2. /\ sealer[s] \in SealerRec /\ sealer[s].pc = "put" /\ n \in Nat
      /\ IF n = 0 THEN HoldsParts(events) ELSE \A k \in 1 .. n - 1 : Holds(events, k)
  BY <1>1 DEF SealInv, StoreInv, PutPart, Sealer, Progress, SealerRec
<1>3. UNCHANGED <<recording, landed, swept, quiet, manifest, published>>
  BY DEF PutPart
<1>4. /\ \A o \in store' : o.body = Body(o.key[1], o.key[2])
      /\ Holds(events, n)'
      /\ \A evs, k : Holds(evs, k) => Holds(evs, k)'
  BY <1>1, PutKeeps DEF PutPart, SealInv
<1>5. /\ \A evs : HoldsParts(evs) => HoldsParts(evs)'
      /\ \A r : Progress(r) => Progress(r)'
  BY <1>3, <1>4, ProgressStays
<1>6. PICK to \in SealerRec : Goes(s, to) /\ to.keys = keys /\ Progress(to)'
  <2>1. Collated(keys)' = Collated(keys) /\ Collated(keys).events = events
    BY <1>1, <1>3 DEF Collated
  <2>2. CASE n = 0
    <3>0. PICK to : to = [sealer[s] EXCEPT !.pc = "publish"]
      OBVIOUS
    <3>1. to \in SealerRec /\ to.pc = "publish" /\ to.keys = keys
      BY <1>1, <1>2, <3>0 DEF SealerRec
    <3>2. Goes(s, to)
      BY <1>1, <2>2, <3>0 DEF PutPart
    <3>3. HoldsParts(events)' /\ Holds(events, 0)'
      BY <1>2, <1>4, <1>5, <2>2
    <3>4. Progress(to)'
      BY <2>1, <3>1, <3>3 DEF Progress
    <3>5. QED
      BY <3>1, <3>2, <3>4
  <2>3. CASE n # 0 /\ n = Parts(events)
    <3>0. PICK to : to = [sealer[s] EXCEPT !.n = 0]
      OBVIOUS
    <3>1. to \in SealerRec /\ to.pc = "put" /\ to.keys = keys /\ to.n = 0
      BY <1>1, <1>2, <3>0 DEF SealerRec
    <3>2. Goes(s, to)
      BY <1>1, <2>3, <3>0 DEF PutPart
    <3>3. \A k \in 1 .. n : Holds(events, k)'
      BY <1>2, <1>4, <2>3
    <3>4. HoldsParts(events)'
      BY <3>3, <2>3 DEF HoldsParts, Parts
    <3>5. Progress(to)'
      BY <2>1, <3>1, <3>4 DEF Progress
    <3>6. QED
      BY <3>1, <3>2, <3>5
  <2>4. CASE n # 0 /\ n # Parts(events)
    <3>0. PICK to : to = [sealer[s] EXCEPT !.n = n + 1]
      OBVIOUS
    <3>1. to \in SealerRec /\ to.pc = "put" /\ to.keys = keys /\ to.n = n + 1
      BY <1>1, <1>2, <3>0 DEF SealerRec
    <3>2. Goes(s, to)
      BY <1>1, <2>4, <3>0 DEF PutPart
    <3>3. \A k \in 1 .. n : Holds(events, k)'
      BY <1>2, <1>4, <2>4
    <3>4. Progress(to)'
      BY <1>2, <2>1, <3>1, <3>3 DEF Progress
    <3>5. QED
      BY <3>1, <3>2, <3>4
  <2>5. QED
    BY <2>2, <2>3, <2>4
<1>7. sealer' \in [Sealers -> SealerRec']
  BY <1>3, <1>6, SealerMoves DEF SealInv
<1>8. EnvType'
  BY <1>3 DEF SealInv, TypeOK, EnvType, Objects
<1>9. TypeOK'
  BY <1>7, <1>8, TypeFromParts
<1>10. ManifestInv'
  BY <1>3 DEF SealInv, ManifestInv, Manifest, Collated
<1>11. StoreInv'
  <2>1. \A t \in Sealers : sealer'[t] = IF t = s THEN to ELSE sealer[t]
    BY <1>6 DEF SealInv, Goes
  <2>2. \A t \in Sealers \ {s} : Progress(sealer[t])
    BY DEF SealInv, StoreInv
  <2>3. \A t \in Sealers : (Progress(sealer[t]))'
    BY <1>3, <1>5, <1>6, <2>1, <2>2 DEF Progress, Collated
  <2>4. QED
    BY <1>3, <1>4, <1>5, <2>3 DEF SealInv, StoreInv, Collated
<1>12. QED
  BY <1>7, <1>9, <1>10, <1>11 DEF SealInv

\* What a sealer publishes it has put.
LEMMA PublishKeeps == ASSUME SealInv, NEW s \in Sealers, Publish(s) PROVE SealInv'
<1>1. PICK keys, m : keys = sealer[s].keys /\ m = Manifest(keys)
  OBVIOUS
<1>2. /\ manifest' = m /\ published' = published \cup {m} /\ Goes(s, Idle)
      /\ UNCHANGED <<recording, landed, swept, quiet, store>>
  BY <1>1 DEF Publish
<1>3. /\ keys \subseteq landed /\ m.of = keys
      /\ HoldsParts(Collated(keys).events) /\ Holds(Collated(keys).events, 0)
  BY <1>1, ManifestFields DEF SealInv, StoreInv, TypeOK, Progress, Publish, Sealer
<1>4. sealer' \in [Sealers -> SealerRec']
  BY <1>2, IdleType, SealerMoves DEF SealInv
<1>5. EnvType'
  BY <1>2 DEF SealInv, TypeOK, EnvType, Objects
<1>6. TypeOK'
  BY <1>4, <1>5, TypeFromParts
<1>7. \A k : Manifest(k)' = Manifest(k) /\ Collated(k)' = Collated(k)
  BY <1>2 DEF Manifest, Collated
<1>8. ManifestInv'
  BY <1>1, <1>2, <1>3, <1>7 DEF SealInv, ManifestInv, Manifest, Collated
<1>9. StoreInv'
  <2>1. \A evs, k : Holds(evs, k) => Holds(evs, k)'
    BY <1>2, HoldsSame
  <2>2. /\ \A evs : HoldsParts(evs) => HoldsParts(evs)'
        /\ \A r : Progress(r) => Progress(r)'
    BY <1>2, <2>1, ProgressStays
  <2>3. \A t \in Sealers : sealer'[t] = IF t = s THEN Idle ELSE sealer[t]
    BY <1>2 DEF SealInv, Goes
  <2>4. \A t \in Sealers : Progress(sealer'[t])
    BY <2>3, IdleType DEF SealInv, StoreInv, Progress
  <2>5. \A t \in Sealers : (Progress(sealer[t]))'
    BY <1>2, <2>2, <2>4 DEF Progress, Collated
  <2>6. \A p \in published' :
           HoldsParts(Collated(p.of).events) /\ Holds(Collated(p.of).events, 0)
    BY <1>2, <1>3 DEF SealInv, StoreInv
  <2>7. \A o \in store' : o.body = Body(o.key[1], o.key[2])
    BY <1>2 DEF SealInv, StoreInv
  <2>8. QED
    BY <1>2, <2>1, <2>2, <2>5, <2>6, <2>7 DEF StoreInv, Collated
<1>10. QED
  BY <1>4, <1>6, <1>8, <1>9 DEF SealInv

LEMMA SealNext == SealInv /\ [Next]_vars => SealInv'
<1> SUFFICES ASSUME SealInv, [Next]_vars PROVE SealInv'
  OBVIOUS
<1>1. CASE \E k \in Objects : Land(k) \/ Sweep(k)
  BY <1>1, LandKeeps, SweepKeeps
<1>2. CASE GoQuiet
  BY <1>2, GoQuietKeeps
<1>3. CASE \E s \in Sealers : BeginPass(s) \/ BeginByHand(s) \/ Step(s) \/ Stop(s)
  <2>1. PICK s \in Sealers : BeginPass(s) \/ BeginByHand(s) \/ Step(s) \/ Stop(s)
    BY <1>3
  <2>2. CASE BeginPass(s) \/ BeginByHand(s) \/ Stop(s)
    BY <2>2, BeginPassKeeps, ByHandKeeps, StopKeeps
  <2>3. CASE Step(s)
    BY <2>3, PlanKeeps, ReadManifestKeeps, ReadLandingKeeps, ListKeeps, GetKeeps,
       PutPartKeeps, PublishKeeps DEF Step
  <2>4. QED
    BY <2>1, <2>2, <2>3
<1>4. CASE UNCHANGED vars
  <2>1. EnvType' /\ IsFiniteSet(landed')
    BY <1>4 DEF vars, SealInv, ManifestInv, TypeOK, EnvType, Objects
  <2>2. QED
    BY <1>4, <2>1, EnvironmentKeeps DEF vars
<1>5. QED
  BY <1>1, <1>2, <1>3, <1>4 DEF Next

LEMMA SealInvHolds == Spec => []SealInv
<1>1. QED
  BY SealInit, SealNext, PTL DEF Spec

-----------------------------------------------------------------------------
(* What the seals promise.                                                 *)

\* Every reachable state has its types: what a sealer holds has landed, and a
\* seal it read was published.
THEOREM SealTypeCorrect == Spec => []TypeOK
<1>1. SealInv => TypeOK
  BY DEF SealInv
<1>2. QED
  BY <1>1, SealInvHolds, PTL

\* Sealers that race without a lock, overwrite one another or are killed between
\* two puts (write_seal) leave every manifest ever published with its parts and
\* its index in the store.
THEOREM SealsStayWhole == Spec => []PublishedStaysWhole
<1>1. SealInv => PublishedStaysWhole
  <2> SUFFICES ASSUME SealInv, NEW m \in published PROVE Whole(m)
    BY DEF PublishedStaysWhole
  <2> DEFINE events == Collated(m.of).events
  <2>1. m = Manifest(m.of) /\ HoldsParts(events) /\ Holds(events, 0)
    BY DEF SealInv, ManifestInv, StoreInv
  <2>2. /\ DOMAIN m.parts = 1 .. Parts(events)
        /\ \A n \in 1 .. Parts(events) : m.parts[n] = Key(events, n)
    BY <2>1, ManifestFields
  <2> HIDE DEF events
  <2>3. ASSUME NEW n \in {0} \cup DOMAIN m.parts
        PROVE  \E o \in store : /\ o.key = (IF n = 0 THEN Key(events, 0) ELSE m.parts[n])
                                /\ o.body = Body(events, n)
    BY <2>1, <2>2, <2>3 DEF Holds, HoldsParts
  <2>4. QED
    BY <2>3 DEF Whole, events
<1>2. QED
  BY <1>1, SealInvHolds, PTL

\* While nothing was swept, the counts seal_decision compares are enough: a
\* manifest of as many objects as have landed is of those very objects.
THEOREM CurrentMeansCovered == Spec => []CurrentIsCovered
<1>1. SealInv => CurrentIsCovered
  <2> SUFFICES ASSUME SealInv, NEW s \in Sealers, swept = {},
                      Current(sealer[s].saw, Cardinality(Landing))
               PROVE  sealer[s].saw.of = Landing
    BY DEF CurrentIsCovered
  <2> DEFINE m == sealer[s].saw
  <2>1. m # Nothing /\ Cardinality(Landing) <= m.objects
    BY DEF Current
  <2>2. m \in published
    BY <2>1 DEF SealInv, TypeOK
  <2>3. m = Manifest(m.of) /\ m.of \subseteq landed /\ IsFiniteSet(landed)
    BY <2>2 DEF SealInv, ManifestInv
  <2>4. m.objects = Cardinality(m.of) /\ Landing = landed
    BY <2>3, ManifestFields DEF Landing
  <2> HIDE DEF m
  <2>5. /\ Cardinality(m.of) \in Nat /\ Cardinality(landed) \in Nat
        /\ m.of # landed => Cardinality(m.of) < Cardinality(landed)
    BY <2>3, FS_Subset, FS_CardinalityType
  <2>6. QED
    BY <2>1, <2>4, <2>5 DEF m
<1>2. QED
  BY <1>1, SealInvHolds, PTL

-----------------------------------------------------------------------------
(* Numbers.                                                                *)

\* A set of numbers has a least.
LEMMA LeastNumber ==
    ASSUME NEW T, T \subseteq Nat, T # {}
    PROVE  \E m \in T : \A k \in T : m <= k
<1>1. IsWellFoundedOn(OpToRel(<, Nat), Nat)
  BY NatLessThanWellFounded
<1>2. PICK m \in T : \A k \in T : ~(<<k, m>> \in OpToRel(<, Nat))
  BY <1>1, WFMin
<1>3. \A k \in T : ~(k < m)
  BY <1>2 DEF OpToRel
<1>4. m \in Nat /\ \A k \in T : k \in Nat
  BY <1>2
<1>5. QED
  BY <1>3, <1>4

\* What holds at first and goes on holding holds throughout.
LEMMA Induction ==
    ASSUME NEW N \in Nat, NEW S, 0 \in S, \A n \in 0 .. N - 1 : n \in S => n + 1 \in S
    PROVE  \A n \in 0 .. N : n \in S
<1> SUFFICES ASSUME (0 .. N) \ S # {} PROVE FALSE
  OBVIOUS
<1> DEFINE T == (0 .. N) \ S
<1>0. T \subseteq Nat /\ T # {}
  OBVIOUS
<1> HIDE DEF T
<1>1. PICK m \in T : \A k \in T : m <= k
  BY <1>0, LeastNumber
<1> USE DEF T
<1>2. m # 0 /\ m - 1 \in 0 .. N - 1 /\ m - 1 \in 0 .. N
  BY <1>1
<1>3. m - 1 \in S
  BY <1>1, <1>2
<1>4. QED
  BY <1>1, <1>2, <1>3

-----------------------------------------------------------------------------
(* ByRank.                                                                 *)

\* Ranks are those of an order: as many as there are elements, each once.
IsRank(rank) ==
    LET S == DOMAIN rank
    IN /\ IsFiniteSet(S)
       /\ rank \in [S -> 0 .. Cardinality(S) - 1]
       /\ \A a, b \in S : rank[a] = rank[b] => a = b

LEMMA EveryRankTaken ==
    ASSUME NEW rank, IsRank(rank), NEW n \in 1 .. Cardinality(DOMAIN rank)
    PROVE  \E e \in DOMAIN rank : rank[e] = n - 1
<1> DEFINE S == DOMAIN rank
           C == Cardinality(S)
<1>1. IsFiniteSet(S) /\ C \in Nat
  BY FS_CardinalityType DEF IsRank
<1>2. rank \in Injection(S, 0 .. C - 1)
  BY DEF IsRank, Injection, IsInjective
<1>3. IsFiniteSet(0 .. C - 1) /\ Cardinality(0 .. C - 1) = C
  <2>1. PICK c \in Nat : c = C
    BY <1>1
  <2>2. IsFiniteSet(0 .. c - 1) /\ Cardinality(0 .. c - 1) = c
    BY FS_Interval
  <2>3. QED
    BY <2>1, <2>2
<1> HIDE DEF S, C
<1>4. C = Cardinality(S)
  BY DEF C
<1>5. rank \in Surjection(S, 0 .. C - 1)
  BY <1>2, <1>3, <1>4, FS_Injection
<1>6. n - 1 \in 0 .. C - 1
  BY <1>1, <1>4 DEF S
<1>7. \E e \in S : rank[e] = n - 1
  BY <1>5, <1>6 DEF Surjection
<1>8. QED
  BY <1>7 DEF S

LEMMA ByRankSorts ==
    ASSUME NEW rank, IsRank(rank)
    PROVE  LET S == DOMAIN rank
               s == ByRank(rank)
           IN /\ Cardinality(S) \in Nat
              /\ s \in [1 .. Cardinality(S) -> S]
              /\ \A n \in 1 .. Cardinality(S) : rank[s[n]] = n - 1
              /\ \A e \in S : \E n \in 1 .. Cardinality(S) : s[n] = e
<1> DEFINE S == DOMAIN rank
           C == Cardinality(S)
           s == ByRank(rank)
<1>1. C \in Nat
  BY FS_CardinalityType DEF IsRank
<1>2. s = [n \in 1 .. C |-> CHOOSE e \in S : rank[e] = n - 1]
  BY DEF ByRank
<1>3. \A n \in 1 .. C : \E e \in S : rank[e] = n - 1
  BY EveryRankTaken
<1> HIDE DEF s, C
<1>4. \A n \in 1 .. C : s[n] \in S /\ rank[s[n]] = n - 1
  BY <1>2, <1>3
<1>5. ASSUME NEW e \in S PROVE \E n \in 1 .. C : s[n] = e
  <2>1. rank[e] \in 0 .. C - 1
    BY DEF IsRank, C
  <2>2. rank[e] + 1 \in 1 .. C
    BY <1>1, <2>1
  <2>3. rank[s[rank[e] + 1]] = rank[e] /\ s[rank[e] + 1] \in S
    BY <1>4, <2>1, <2>2
  <2>4. s[rank[e] + 1] = e
    BY <2>3 DEF IsRank
  <2>5. QED
    BY <2>2, <2>4
<1>6. s \in [1 .. C -> S]
  BY <1>2, <1>4
<1>7. QED
  BY <1>1, <1>4, <1>5, <1>6 DEF s, C

-----------------------------------------------------------------------------
(* The orders.                                                             *)

Records(S) == S \subseteq Record /\ IsFiniteSet(S)

LEMMA BeforeIsOrder ==
    /\ \A a \in Record : ~Before(a, a)
    /\ \A a, b \in Record : a = b \/ Before(a, b) \/ Before(b, a)
    /\ \A a, b, c \in Record : Before(a, b) /\ Before(b, c) => Before(a, c)
<1>1. \A a \in Record : ~Before(a, a)
  BY DEF Before, Record
<1>2. ASSUME NEW a \in Record, NEW b \in Record PROVE a = b \/ Before(a, b) \/ Before(b, a)
  <2>1. a.inst \in Int /\ a.seq \in Nat /\ a.kind \in {0, 1}
    BY DEF Record
  <2>2. b.inst \in Int /\ b.seq \in Nat /\ b.kind \in {0, 1}
    BY DEF Record
  <2>3. CASE a.inst = b.inst /\ a.seq = b.seq /\ a.kind = b.kind
    BY <2>3 DEF Record
  <2>4. CASE ~(a.inst = b.inst /\ a.seq = b.seq /\ a.kind = b.kind)
    BY <2>1, <2>2, <2>4 DEF Before
  <2>5. QED
    BY <2>3, <2>4
<1>3. ASSUME NEW a \in Record, NEW b \in Record, NEW c \in Record, Before(a, b), Before(b, c)
      PROVE  Before(a, c)
  BY <1>3 DEF Before, Record
<1>4. QED
  BY <1>1, <1>2, <1>3

\* below[e]: what comes before e, in a total order.
IsOrder(S, below) ==
    /\ IsFiniteSet(S)
    /\ \A e \in S : below[e] \subseteq S \ {e}
    /\ \A a, b \in S : a = b \/ a \in below[b] \/ b \in below[a]
    /\ \A a, b \in S : a \in below[b] => below[a] \subseteq below[b]

LEMMA CountsRank ==
    ASSUME NEW S, NEW below, IsOrder(S, below),
           NEW rank, rank = [e \in S |-> Cardinality(below[e])]
    PROVE  /\ IsRank(rank)
           /\ \A a, b \in S : a \in below[b] <=> rank[a] < rank[b]
<1>1. IsFiniteSet(S) /\ Cardinality(S) \in Nat
  BY FS_CardinalityType DEF IsOrder
<1>2. \A e \in S : IsFiniteSet(below[e]) /\ Cardinality(below[e]) \in Nat
  BY <1>1, FS_Subset, FS_CardinalityType DEF IsOrder
<1>3. ASSUME NEW e \in S PROVE Cardinality(below[e]) < Cardinality(S)
  <2>1. below[e] \in SUBSET S /\ below[e] # S
    BY DEF IsOrder
  <2>2. Cardinality(below[e]) <= Cardinality(S) /\ Cardinality(below[e]) # Cardinality(S)
    BY <1>1, <2>1, FS_Subset
  <2>3. QED
    BY <1>1, <1>2, <2>2
<1>4. ASSUME NEW a \in S, NEW b \in S, a \in below[b]
      PROVE  Cardinality(below[a]) < Cardinality(below[b])
  <2>1. below[a] \in SUBSET below[b] /\ below[a] # below[b]
    BY <1>4 DEF IsOrder
  <2>2. /\ Cardinality(below[a]) <= Cardinality(below[b])
        /\ Cardinality(below[a]) # Cardinality(below[b])
    BY <1>2, <2>1, FS_Subset
  <2>3. QED
    BY <1>2, <2>2
<1>5. \A e \in S : rank[e] \in 0 .. Cardinality(S) - 1
  BY <1>1, <1>2, <1>3
<1>6. \A a, b \in S : a \in below[b] => rank[a] < rank[b]
  BY <1>4
<1>7. \A e \in S : rank[e] \in Nat
  BY <1>2
<1>8. \A a, b \in S : a = b \/ a \in below[b] \/ b \in below[a]
  BY DEF IsOrder
<1>9. \A a, b \in S : a \in below[b] <=> rank[a] < rank[b]
  BY <1>6, <1>7, <1>8
<1>10. \A a, b \in S : rank[a] = rank[b] => a = b
  BY <1>6, <1>7, <1>8
<1>11. QED
  BY <1>1, <1>5, <1>9, <1>10 DEF IsRank

\* How many records of a set come before one is its place among them.
LEMMA BeforeRanks ==
    ASSUME NEW S, Records(S),
           NEW rank, rank = [e \in S |-> Cardinality({x \in S : Before(x, e)})]
    PROVE  IsRank(rank) /\ \A a, b \in S : Before(a, b) <=> rank[a] < rank[b]
<1> DEFINE below == [e \in S |-> {x \in S : Before(x, e)}]
<1>1. \A x, e \in S : x \in below[e] <=> Before(x, e)
  OBVIOUS
<1>2. \A e \in S : below[e] \subseteq S
  OBVIOUS
<1>3. rank = [e \in S |-> Cardinality(below[e])]
  OBVIOUS
<1> HIDE DEF below
<1>4. IsOrder(S, below)
  <2>1. S \subseteq Record /\ IsFiniteSet(S)
    BY DEF Records
  <2>2. \A e \in S : e \notin below[e]
    BY <1>1, <2>1, BeforeIsOrder
  <2>3. \A a, b \in S : a = b \/ a \in below[b] \/ b \in below[a]
    BY <1>1, <2>1, BeforeIsOrder
  <2>4. ASSUME NEW a \in S, NEW b \in S, a \in below[b], NEW x \in below[a] PROVE x \in below[b]
    <3>1. x \in S
      BY <1>2
    <3>2. Before(x, a) /\ Before(a, b)
      BY <1>1, <2>4, <3>1
    <3>3. x \in Record /\ a \in Record /\ b \in Record
      BY <2>1, <3>1
    <3>4. Before(x, b)
      BY <3>2, <3>3, BeforeIsOrder
    <3>5. QED
      BY <1>1, <3>1, <3>4
  <2>5. QED
    BY <1>2, <2>1, <2>2, <2>3, <2>4 DEF IsOrder
<1>5. IsRank(rank) /\ \A a, b \in S : a \in below[b] <=> rank[a] < rank[b]
  BY <1>3, <1>4, CountsRank
<1>6. QED
  BY <1>1, <1>5

\* A set of records has a least.
LEMMA LeastIsLeast ==
    ASSUME NEW S, Records(S), S # {}
    PROVE  Least(S) \in S /\ \A b \in S \ {Least(S)} : Before(Least(S), b)
<1>1. PICK rank : rank = [e \in S |-> Cardinality({x \in S : Before(x, e)})]
  OBVIOUS
<1>2. IsRank(rank) /\ \A a, b \in S : Before(a, b) <=> rank[a] < rank[b]
  BY <1>1, BeforeRanks
<1>3. DOMAIN rank = S /\ 1 \in 1 .. Cardinality(S)
  BY <1>1, FS_EmptySet, FS_CardinalityType DEF Records
<1>4. PICK e \in S : rank[e] = 0
  <2>1. \E e \in DOMAIN rank : rank[e] = 1 - 1
    BY <1>2, <1>3, EveryRankTaken
  <2>2. QED
    BY <1>3, <2>1
<1>5. \A b \in S : rank[b] \in Nat /\ (rank[b] = rank[e] => b = e)
  BY <1>2, <1>3 DEF IsRank
<1>6. \A b \in S \ {e} : Before(e, b)
  BY <1>2, <1>4, <1>5
<1>7. QED
  BY <1>4, <1>6 DEF Least

\* What is sorted is in order, and all of it is there.
LEMMA SortedSorts ==
    ASSUME NEW S, Records(S)
    PROVE  /\ Cardinality(S) \in Nat
           /\ Sorted(S) \in [1 .. Cardinality(S) -> S]
           /\ InOrder(Sorted(S))
           /\ ToSet(Sorted(S)) = S
<1> DEFINE rank == [e \in S |-> Cardinality({x \in S : Before(x, e)})]
           s == ByRank(rank)
           C == Cardinality(S)
<1>1. DOMAIN rank = S
  OBVIOUS
<1>2. Sorted(S) = s
  BY DEF Sorted
<1>3. IsRank(rank) /\ \A a, b \in S : Before(a, b) <=> rank[a] < rank[b]
  BY BeforeRanks
<1> HIDE DEF rank, s, C
<1>4. /\ C \in Nat /\ s \in [1 .. C -> S]
      /\ \A n \in 1 .. C : rank[s[n]] = n - 1
      /\ \A e \in S : \E n \in 1 .. C : s[n] = e
  BY <1>1, <1>3, ByRankSorts DEF s, C
<1>5. Len(s) = C
  BY <1>4
<1>6. InOrder(s)
  <2> SUFFICES ASSUME NEW i \in 1 .. C - 1 PROVE Before(s[i], s[i + 1])
    BY <1>5 DEF InOrder
  <2>1. i \in 1 .. C /\ i + 1 \in 1 .. C
    BY <1>4
  <2>2. rank[s[i]] = i - 1 /\ rank[s[i + 1]] = i /\ s[i] \in S /\ s[i + 1] \in S
    BY <1>4, <2>1
  <2>3. rank[s[i]] < rank[s[i + 1]]
    BY <2>2
  <2>4. QED
    BY <1>3, <2>2, <2>3
<1>7. ToSet(s) = S
  BY <1>4 DEF ToSet
<1>8. QED
  BY <1>2, <1>4, <1>6, <1>7 DEF C

-----------------------------------------------------------------------------
(* The runs.                                                               *)

IsLanding(landing) ==
    /\ landing \in Seq(Object)
    /\ \A k \in DOMAIN landing : IsFiniteSet(landing[k].recs)

\* What a set of its objects holds.
Held(landing, keys) == UNION {landing[k].recs : k \in keys}

LEMMA ObjectsAreFinite ==
    ASSUME NEW landing, IsLanding(landing), NEW keys, keys \subseteq DOMAIN landing
    PROVE  /\ IsFiniteSet(keys) /\ Cardinality(keys) \in Nat
           /\ keys \subseteq Nat
           /\ \A k \in keys : landing[k] \in Object
           /\ Records(Held(landing, keys))
<1>1. Len(landing) \in Nat /\ DOMAIN landing = 1 .. Len(landing)
  BY DEF IsLanding
<1>2. IsFiniteSet(DOMAIN landing)
  <2>1. PICK n \in Nat : n = Len(landing)
    BY <1>1
  <2>2. IsFiniteSet(1 .. n)
    BY FS_Interval
  <2>3. QED
    BY <1>1, <2>1, <2>2
<1>3. IsFiniteSet(keys) /\ Cardinality(keys) \in Nat
  BY <1>2, FS_Subset, FS_CardinalityType
<1>4. \A k \in keys : landing[k] \in Object /\ IsFiniteSet(landing[k].recs)
  BY DEF IsLanding
<1>5. Held(landing, keys) \subseteq Record
  BY <1>4 DEF Held, Object
<1>6. IsFiniteSet(Held(landing, keys))
  <2> DEFINE T == {landing[k].recs : k \in keys}
  <2>1. IsFiniteSet(T)
    <3>1. PICK f : f = [k \in keys |-> landing[k].recs]
      OBVIOUS
    <3>2. f \in Surjection(keys, T)
      BY <3>1 DEF Surjection
    <3>3. QED
      BY <1>3, <3>2, FS_Surjection
  <2>2. \A U \in T : IsFiniteSet(U)
    BY <1>4
  <2> HIDE DEF T
  <2>3. IsFiniteSet(UNION T)
    BY <2>1, <2>2, FS_UNION
  <2>4. QED
    BY <2>3 DEF Held, T
<1>7. QED
  BY <1>1, <1>3, <1>4, <1>5, <1>6 DEF Records

LEMMA InstanceFirstSorts ==
    ASSUME NEW landing, IsLanding(landing), NEW keys, keys \subseteq DOMAIN landing
    PROVE  /\ InstanceFirst(landing, keys) \in [1 .. Cardinality(keys) -> keys]
           /\ \A k \in keys : \E n \in 1 .. Cardinality(keys) : InstanceFirst(landing, keys)[n] = k
<1> DEFINE first(j, k) == \/ landing[j].inst < landing[k].inst
                          \/ landing[j].inst = landing[k].inst /\ j < k
           below == [k \in keys |-> {j \in keys : first(j, k)}]
           rank == [k \in keys |-> Cardinality({j \in keys : first(j, k)})]
           s == ByRank(rank)
<1>1. \A j, k \in keys : j \in below[k] <=> first(j, k)
  OBVIOUS
<1>2. \A k \in keys : below[k] \subseteq keys
  OBVIOUS
<1>3. rank = [k \in keys |-> Cardinality(below[k])] /\ DOMAIN rank = keys
  OBVIOUS
<1>4. InstanceFirst(landing, keys) = s
  BY DEF InstanceFirst
<1>5. IsFiniteSet(keys) /\ \A k \in keys : k \in Nat /\ landing[k].inst \in Int
  BY ObjectsAreFinite DEF Object
<1>6. /\ \A k \in keys : ~first(k, k)
      /\ \A j, k \in keys : j = k \/ first(j, k) \/ first(k, j)
      /\ \A i, j, k \in keys : first(i, j) /\ first(j, k) => first(i, k)
  BY <1>5
<1> HIDE DEF below, rank, s, first
<1>7. IsOrder(keys, below)
  <2>1. ASSUME NEW a \in keys, NEW b \in keys, a \in below[b], NEW x \in below[a] PROVE x \in below[b]
    <3>1. x \in keys
      BY <1>2
    <3>2. first(x, a) /\ first(a, b)
      BY <1>1, <2>1, <3>1
    <3>3. first(x, b)
      BY <1>6, <3>1, <3>2
    <3>4. QED
      BY <1>1, <3>1, <3>3
  <2>2. QED
    BY <1>1, <1>2, <1>5, <1>6, <2>1 DEF IsOrder
<1>8. IsRank(rank)
  BY <1>3, <1>7, CountsRank
<1>9. /\ s \in [1 .. Cardinality(keys) -> keys]
      /\ \A k \in keys : \E n \in 1 .. Cardinality(keys) : s[n] = k
  BY <1>3, <1>8, ByRankSorts DEF s
<1>10. QED
  BY <1>4, <1>9

\* Each object's records are in one run, and nothing else is.
LEMMA RunsHoldAll ==
    ASSUME NEW landing, IsLanding(landing), NEW keys, keys \subseteq DOMAIN landing
    PROVE  /\ DOMAIN Runs(landing, keys) = 1 .. Cardinality(keys)
           /\ Len(Runs(landing, keys)) = Cardinality(keys)
           /\ UNION {Runs(landing, keys)[n] : n \in 1 .. Cardinality(keys)} = Held(landing, keys)
<1> DEFINE order == InstanceFirst(landing, keys)
           C == Cardinality(keys)
           runs == Runs(landing, keys)
<1>1. C \in Nat
  BY ObjectsAreFinite
<1>2. order \in [1 .. C -> keys] /\ \A k \in keys : \E n \in 1 .. C : order[n] = k
  BY InstanceFirstSorts
<1>3. runs = [i \in 1 .. C |->
                landing[order[i]].recs \ UNION {landing[order[j]].recs : j \in 1 .. i - 1}]
  BY <1>2 DEF Runs
<1> HIDE DEF order, C, runs
<1>4. ASSUME NEW n \in 1 .. C, NEW x \in runs[n] PROVE x \in Held(landing, keys)
  BY <1>2, <1>3, <1>4 DEF Held
<1>5. ASSUME NEW x \in Held(landing, keys) PROVE \E n \in 1 .. C : x \in runs[n]
  <2>1. PICK k \in keys : x \in landing[k].recs
    BY DEF Held
  <2> DEFINE T == {n \in 1 .. C : x \in landing[order[n]].recs}
  <2>2. T # {} /\ T \subseteq Nat
    BY <1>2, <2>1
  <2>3. PICK m \in T : \A n \in T : m <= n
    BY <2>2, LeastNumber
  <2>4. m \in 1 .. C /\ \A j \in 1 .. m - 1 : j \in 1 .. C /\ ~(m <= j)
    BY <1>1
  <2>5. \A j \in 1 .. m - 1 : x \notin landing[order[j]].recs
    BY <2>3, <2>4
  <2>6. x \in runs[m]
    BY <1>3, <2>4, <2>5
  <2>7. QED
    BY <2>4, <2>6
<1>6. DOMAIN runs = 1 .. C /\ Len(runs) = C
  BY <1>1, <1>3
<1>7. QED
  BY <1>4, <1>5, <1>6 DEF C, runs

-----------------------------------------------------------------------------
(* The merge.                                                              *)

\* Runs are sets of records, `all' is what they hold together.
AreRuns(runs, all) ==
    /\ Len(runs) \in Nat /\ DOMAIN runs = 1 .. Len(runs)
    /\ UNION {runs[r] : r \in DOMAIN runs} = all
    /\ Records(all)

\* What Merged computes, one take after the other.
LEMMA MergedTakes ==
    ASSUME NEW runs, NEW all, AreRuns(runs, all)
    PROVE  \E after : /\ Merged(runs) = after[Cardinality(all)]
                      /\ after[0] = <<>>
                      /\ \A n \in 1 .. Cardinality(all) : after[n] = Taken(runs, after[n - 1])
<1> DEFINE C == Cardinality(all)
           Takes(k, h) == h = [n \in 0 .. k |-> IF n = 0 THEN <<>> ELSE Taken(runs, h[n - 1])]
           S == {k \in 0 .. C : \E h : Takes(k, h)}
<1>1. C \in Nat
  BY FS_CardinalityType DEF AreRuns, Records
<1>2. Merged(runs) = (CHOOSE h : Takes(C, h))[C]
  BY DEF Merged, AreRuns
<1> HIDE DEF C
<1>3. 0 \in S
  <2>1. Takes(0, [n \in 0 .. 0 |-> <<>>])
    OBVIOUS
  <2> HIDE DEF Takes
  <2>2. QED
    BY <1>1, <2>1
<1>4. ASSUME NEW k \in 0 .. C - 1, k \in S PROVE k + 1 \in S
  <2>1. PICK h : Takes(k, h)
    BY <1>4
  <2>2. k \in Nat /\ k + 1 \in 0 .. C
    BY <1>1
  <2> DEFINE g == [n \in 0 .. k + 1 |-> IF n = k + 1 THEN Taken(runs, h[k]) ELSE h[n]]
  <2>3. \A n \in 1 .. k + 1 : n - 1 \in 0 .. k + 1 /\ n - 1 # k + 1
    BY <2>2
  <2>4. \A n \in 1 .. k : h[n] = Taken(runs, h[n - 1])
    BY <2>1, <2>2
  <2>5. h[0] = <<>>
    BY <2>1, <2>2
  <2>6. ASSUME NEW n \in 0 .. k + 1
        PROVE  g[n] = IF n = 0 THEN <<>> ELSE Taken(runs, g[n - 1])
    <3>1. CASE n = 0
      BY <2>2, <2>5, <3>1
    <3>2. CASE n = k + 1
      <4>1. g[n] = Taken(runs, h[k]) /\ g[n - 1] = h[k]
        BY <2>2, <3>2
      <4>2. QED
        BY <2>2, <3>2, <4>1
    <3>3. CASE n \in 1 .. k
      <4>1. g[n] = h[n] /\ g[n - 1] = h[n - 1] /\ n # 0
        BY <2>2, <2>3, <3>3
      <4>2. QED
        BY <2>4, <3>3, <4>1
    <3>4. QED
      BY <2>2, <3>1, <3>2, <3>3
  <2>7. g = [n \in 0 .. k + 1 |-> g[n]]
    OBVIOUS
  <2> HIDE DEF g
  <2>8. Takes(k + 1, g)
    BY <2>6, <2>7
  <2> HIDE DEF Takes
  <2>9. QED
    BY <2>2, <2>8
<1> HIDE DEF S
<1>5. \A k \in 0 .. C : k \in S
  BY <1>1, <1>3, <1>4, Induction
<1>6. C \in S
  BY <1>1, <1>5
<1>7. \E h : Takes(C, h)
  BY <1>6 DEF S
<1>8. PICK h : h = CHOOSE x : Takes(C, x)
  OBVIOUS
<1> HIDE DEF Takes
<1>9. Takes(C, h)
  BY <1>7, <1>8
<1>10. h = [n \in 0 .. C |-> IF n = 0 THEN <<>> ELSE Taken(runs, h[n - 1])]
  BY <1>9 DEF Takes
<1>11. h[0] = <<>> /\ \A n \in 1 .. C : h[n] = Taken(runs, h[n - 1])
  BY <1>1, <1>10
<1>12. Merged(runs) = h[C]
  BY <1>2, <1>8
<1>13. QED
  BY <1>11, <1>12 DEF C

\* While something is left, as many runs are admitted as it takes for Window of
\* them to be live, or all of them, and one of them is live.
LEMMA AdmittedIsLive ==
    ASSUME NEW runs, NEW all, AreRuns(runs, all), NEW done, all \ done # {}
    PROVE  LET o == Admitted(runs, done)
           IN /\ o \in 1 .. Len(runs)
              /\ Cardinality(Live(runs, done, o)) >= Window \/ o = Len(runs)
              /\ (UNION {runs[r] : r \in 1 .. o}) \ done # {}
              /\ UNION {runs[r] : r \in 1 .. o} \subseteq all
<1> DEFINE full == {o \in 1 .. Len(runs) :
                      Cardinality(Live(runs, done, o)) >= Window \/ o = Len(runs)}
           o == Admitted(runs, done)
<1>1. PICK r \in 1 .. Len(runs) : ~(runs[r] \subseteq done)
  BY DEF AreRuns
<1>2. Len(runs) \in full
  BY <1>1 DEF AreRuns
<1>3. full \subseteq Nat
  BY DEF AreRuns
<1>4. \E m \in full : \A q \in full : m <= q
  <2> HIDE DEF full
  <2>1. QED
    BY <1>2, <1>3, LeastNumber
<1>5. o \in full
  BY <1>4 DEF Admitted
<1>6. /\ o \in 1 .. Len(runs)
      /\ Cardinality(Live(runs, done, o)) >= Window \/ o = Len(runs)
  BY <1>5
<1> HIDE DEF full, o
<1>7. (UNION {runs[q] : q \in 1 .. o}) \ done # {}
  <2>1. CASE o = Len(runs)
    BY <1>1, <2>1
  <2>2. CASE Cardinality(Live(runs, done, o)) >= Window
    <3>1. Window \in Nat /\ Window # 0
      BY WindowAssumption
    <3>2. Live(runs, done, o) # {}
      <4>1. Cardinality({}) = 0
        BY FS_EmptySet
      <4>2. ~(Cardinality({}) >= Window)
        BY <3>1, <4>1
      <4>3. QED
        BY <2>2, <4>2
    <3>3. PICK q \in 1 .. o : ~(runs[q] \subseteq done)
      BY <3>2 DEF Live
    <3>4. QED
      BY <3>3
  <2>3. QED
    BY <1>6, <2>1, <2>2
<1>8. UNION {runs[q] : q \in 1 .. o} \subseteq all
  <2>1. Len(runs) \in Nat /\ DOMAIN runs = 1 .. Len(runs) /\ o \in 1 .. Len(runs)
    BY <1>6 DEF AreRuns
  <2>2. \A q \in 1 .. o : q \in DOMAIN runs
    BY <2>1
  <2>3. QED
    BY <2>2 DEF AreRuns
<1>9. QED
  BY <1>6, <1>7, <1>8 DEF o

\* Some records of `all', each once.
Distinct(out, n, all) ==
    /\ out \in [1 .. n -> all]
    /\ \A i, j \in 1 .. n : out[i] = out[j] => i = j

\* While something is left it is taken, the least there is in the window.
LEMMA TakenIsNext ==
    ASSUME NEW runs, NEW all, AreRuns(runs, all),
           NEW n \in Nat, n < Cardinality(all), NEW out, Distinct(out, n, all)
    PROVE  LET e == Least(InWindow(runs, out))
           IN /\ Taken(runs, out) = Append(out, e)
              /\ e \in InWindow(runs, out) /\ InWindow(runs, out) \subseteq all \ ToSet(out)
              /\ \A b \in InWindow(runs, out) \ {e} : Before(e, b)
              /\ Distinct(Append(out, e), n + 1, all)
              /\ ToSet(Append(out, e)) = ToSet(out) \cup {e}
<1> DEFINE done == ToSet(out)
           held == InWindow(runs, out)
           e == Least(held)
<1>1. out \in [1 .. n -> all] /\ Len(out) = n /\ out \in Seq(all)
  BY DEF Distinct
<1>2. done = {out[i] : i \in 1 .. n}
  BY <1>1 DEF ToSet
<1>3. IsFiniteSet(all) /\ Cardinality(all) \in Nat
  BY FS_CardinalityType DEF AreRuns, Records
<1>4. all \ done # {}
  <2> SUFFICES ASSUME all \ done = {} PROVE FALSE
    OBVIOUS
  <2>1. out \in Surjection(1 .. n, all)
    BY <1>1, <1>2 DEF Surjection
  <2>2. IsFiniteSet(1 .. n) /\ Cardinality(1 .. n) = n
    BY FS_Interval
  <2>3. Cardinality(all) <= n
    BY <2>1, <2>2, FS_Surjection
  <2>4. QED
    BY <1>3, <2>3
<1>5. held # {} /\ held \subseteq all \ done
  BY <1>4, AdmittedIsLive DEF InWindow
<1> HIDE DEF held, done
<1>6. Records(held)
  BY <1>5, FS_Subset DEF AreRuns, Records
<1>7. e \in held /\ \A b \in held \ {e} : Before(e, b)
  BY <1>5, <1>6, LeastIsLeast
<1>8. Taken(runs, out) = Append(out, e)
  BY DEF Taken, held
<1> HIDE DEF e
<1>9. e \in all /\ e \notin done
  BY <1>5, <1>7
<1> DEFINE out2 == Append(out, e)
<1>10. /\ out2 \in [1 .. n + 1 -> all] /\ out2[n + 1] = e
       /\ \A i \in 1 .. n : out2[i] = out[i]
  <2>1. /\ out2 \in Seq(all) /\ Len(out2) = n + 1 /\ out2[n + 1] = e
        /\ \A i \in 1 .. n : out2[i] = out[i]
    BY <1>1, <1>9, AppendProperties
  <2> HIDE DEF out2
  <2>2. QED
    BY <2>1
<1> HIDE DEF out2
<1>11. \A i \in 1 .. n : out2[i] # e
  BY <1>2, <1>9, <1>10
<1>12. Distinct(out2, n + 1, all)
  <2>1. ASSUME NEW i \in 1 .. n + 1, NEW j \in 1 .. n + 1, out2[i] = out2[j] PROVE i = j
    <3>1. CASE i \in 1 .. n /\ j \in 1 .. n
      BY <1>10, <2>1, <3>1 DEF Distinct
    <3>2. CASE i = n + 1 \/ j = n + 1
      BY <1>10, <1>11, <2>1, <3>2
    <3>3. QED
      BY <3>1, <3>2
  <2>2. QED
    BY <1>10, <2>1 DEF Distinct
<1>13. ToSet(out2) = done \cup {e}
  <2>1. ToSet(out2) = {out2[i] : i \in 1 .. n + 1}
    BY <1>10 DEF ToSet
  <2>2. QED
    BY <1>2, <1>10, <2>1
<1>14. QED
  BY <1>5, <1>7, <1>8, <1>12, <1>13 DEF out2, e, held, done

\* Every prefix of the merge is of records of the runs, each once.
LEMMA MergedPrefixes ==
    ASSUME NEW runs, NEW all, AreRuns(runs, all), NEW after, after[0] = <<>>,
           \A n \in 1 .. Cardinality(all) : after[n] = Taken(runs, after[n - 1])
    PROVE  \A n \in 0 .. Cardinality(all) : Distinct(after[n], n, all)
<1> DEFINE C == Cardinality(all)
           S == {n \in 0 .. C : Distinct(after[n], n, all)}
<1>1. C \in Nat
  BY FS_CardinalityType DEF AreRuns, Records
<1> HIDE DEF C
<1>2. 0 \in S
  <2>1. Distinct(<<>>, 0, all)
    BY DEF Distinct
  <2>2. QED
    BY <1>1, <2>1
<1>3. ASSUME NEW n \in 0 .. C - 1, n \in S PROVE n + 1 \in S
  <2>1. /\ n \in Nat /\ n + 1 \in 1 .. C /\ n + 1 \in 0 .. C /\ n < Cardinality(all)
        /\ (n + 1) - 1 = n
    BY <1>1 DEF C
  <2>2. after[n + 1] = Taken(runs, after[n])
    BY <2>1 DEF C
  <2>3. PICK out : out = after[n] /\ Distinct(out, n, all)
    BY <1>3
  <2> DEFINE e == Least(InWindow(runs, out))
  <2>4. Taken(runs, out) = Append(out, e) /\ Distinct(Append(out, e), n + 1, all)
    BY <2>1, <2>3, TakenIsNext
  <2>5. QED
    BY <2>1, <2>2, <2>3, <2>4
<1> HIDE DEF S
<1>4. \A n \in 0 .. C : n \in S
  BY <1>1, <1>2, <1>3, Induction
<1>5. QED
  BY <1>4 DEF S, C

\* The merge emits what the runs hold, each record once.
LEMMA MergedEmitsAll ==
    ASSUME NEW runs, NEW all, AreRuns(runs, all)
    PROVE  /\ Cardinality(all) \in Nat
           /\ Distinct(Merged(runs), Cardinality(all), all)
           /\ ToSet(Merged(runs)) = all
<1> DEFINE C == Cardinality(all)
           out == Merged(runs)
<1>1. C \in Nat /\ IsFiniteSet(all)
  BY FS_CardinalityType DEF AreRuns, Records
<1>2. PICK after : /\ out = after[C] /\ after[0] = <<>>
                   /\ \A n \in 1 .. C : after[n] = Taken(runs, after[n - 1])
  BY MergedTakes
<1>3. Distinct(out, C, all)
  BY <1>1, <1>2, MergedPrefixes
<1> HIDE DEF out
<1>4. out \in Injection(1 .. C, all)
  BY <1>3 DEF Distinct, Injection, IsInjective
<1>5. Cardinality(1 .. C) = C
  <2>1. PICK c \in Nat : c = C
    BY <1>1
  <2>2. Cardinality(1 .. c) = c
    BY FS_Interval
  <2>3. QED
    BY <2>1, <2>2
<1>6. out \in Surjection(1 .. C, all)
  BY <1>1, <1>4, <1>5, FS_Injection
<1>7. ToSet(out) = all
  BY <1>6 DEF Surjection, ToSet
<1>8. QED
  BY <1>1, <1>3, <1>7 DEF out

\* No record is overtaken by one of a run Window or more after its own.
Displaced(runs) ==
    \A i, j \in DOMAIN runs :
       j >= i + Window => \A a \in runs[i], b \in runs[j] : Before(a, b)

\* Then what is taken comes before all that is left: what is not in the window
\* is Window runs or more after the first that is live.
LEMMA TakenIsLeast ==
    ASSUME NEW runs, NEW all, AreRuns(runs, all), Displaced(runs),
           NEW n \in Nat, n < Cardinality(all), NEW out, Distinct(out, n, all)
    PROVE  LET e == Least(InWindow(runs, out))
           IN \A b \in (all \ ToSet(out)) \ {e} : Before(e, b)
<1> DEFINE done == ToSet(out)
           o == Admitted(runs, done)
           held == InWindow(runs, out)
           e == Least(held)
<1>1. /\ e \in held /\ held \subseteq all \ done
      /\ \A b \in held \ {e} : Before(e, b)
  BY TakenIsNext
<1>2. held = (UNION {runs[r] : r \in 1 .. o}) \ done
  BY DEF InWindow
<1> HIDE DEF done, held, e
<1>3. all \ done # {}
  BY <1>1
<1>4. /\ o \in 1 .. Len(runs)
      /\ Cardinality(Live(runs, done, o)) >= Window \/ o = Len(runs)
  BY <1>3, AdmittedIsLive
<1> HIDE DEF o
<1>5. Len(runs) \in Nat /\ DOMAIN runs = 1 .. Len(runs) /\ all \subseteq Record
  BY DEF AreRuns, Records
<1> SUFFICES ASSUME NEW b \in all \ done, b # e PROVE Before(e, b)
  BY DEF done, e, held, o
<1>6. CASE b \in held
  BY <1>1, <1>6
<1>7. CASE b \notin held
  <2>1. PICK q \in 1 .. Len(runs) : b \in runs[q]
    BY <1>5 DEF AreRuns
  <2>2. q \notin 1 .. o
    BY <1>2, <1>7, <2>1
  <2>3. q > o /\ o \in Nat /\ o # Len(runs)
    <3>1. PICK N \in Nat : N = Len(runs)
      BY <1>5
    <3>2. o \in 1 .. N /\ q \in 1 .. N
      BY <1>4, <3>1
    <3>3. q > o /\ o \in Nat /\ o # N
      BY <2>2, <3>2
    <3>4. QED
      BY <3>1, <3>3
  <2>4. PICK L : L = Live(runs, done, o)
    OBVIOUS
  <2>5. Window \in Nat /\ Window # 0
    BY WindowAssumption
  <2>6. Cardinality(L) >= Window /\ L \subseteq 1 .. o
    BY <1>4, <2>3, <2>4 DEF Live
  <2>7. L # {} /\ L \subseteq Nat
    <3>1. Cardinality({}) = 0
      BY FS_EmptySet
    <3>2. ~(Cardinality({}) >= Window)
      BY <2>5, <3>1
    <3>3. L # {}
      BY <2>6, <3>2
    <3>4. L \subseteq Nat
      BY <2>3, <2>6
    <3>5. QED
      BY <3>3, <3>4
  <2>8. PICK m \in L : \A k \in L : m <= k
    BY <2>7, LeastNumber
  <2>9. m \in Nat /\ m \in 1 .. o /\ m \in DOMAIN runs
    <3>1. PICK N \in Nat : N = Len(runs)
      BY <1>5
    <3>2. o \in 1 .. N /\ m \in 1 .. o
      BY <1>4, <2>6, <3>1
    <3>3. m \in 1 .. N
      BY <3>2
    <3>4. QED
      BY <1>5, <3>1, <3>2, <3>3
  <2>10. L \subseteq m .. o
    BY <2>3, <2>6, <2>8, <2>9
  <2>11. IsFiniteSet(m .. o) /\ Cardinality(m .. o) = o - m + 1
    BY <2>3, <2>9, FS_Interval
  <2>12. Cardinality(L) \in Nat /\ Cardinality(L) <= o - m + 1
    BY <2>10, <2>11, FS_Subset, FS_CardinalityType
  <2>13. q >= m + Window
    BY <2>3, <2>5, <2>6, <2>9, <2>12
  <2>14. PICK y \in runs[m] : y \notin done
    BY <2>4 DEF Live
  <2>15. y \in held
    BY <1>2, <2>9, <2>14
  <2>16. Before(y, b)
    BY <1>5, <2>1, <2>9, <2>13, <2>14 DEF Displaced
  <2>17. e = y \/ Before(e, y)
    BY <1>1, <2>15
  <2>18. e \in Record /\ y \in Record /\ b \in Record
    BY <1>1, <1>5, <2>15
  <2>19. QED
    BY <2>16, <2>17, <2>18, BeforeIsOrder
<1>8. QED
  BY <1>6, <1>7

LEMMA DisplacedIsMerged ==
    ASSUME NEW runs, NEW all, AreRuns(runs, all), Displaced(runs)
    PROVE  InOrder(Merged(runs))
<1> DEFINE C == Cardinality(all)
           out == Merged(runs)
           Ahead(s) == InOrder(s) /\ \A a \in ToSet(s), b \in all \ ToSet(s) : Before(a, b)
<1>1. C \in Nat
  BY FS_CardinalityType DEF AreRuns, Records
<1>2. PICK after : /\ out = after[C] /\ after[0] = <<>>
                   /\ \A n \in 1 .. C : after[n] = Taken(runs, after[n - 1])
  BY MergedTakes
<1>3. \A n \in 0 .. C : Distinct(after[n], n, all)
  BY <1>2, MergedPrefixes
<1> DEFINE S == {n \in 0 .. C : Ahead(after[n])}
<1> HIDE DEF out, C
<1>4. 0 \in S
  BY <1>1, <1>2 DEF InOrder, ToSet
<1>5. ASSUME NEW n \in 0 .. C - 1, n \in S PROVE n + 1 \in S
  <2>1. /\ n \in Nat /\ n + 1 \in 1 .. C /\ n + 1 \in 0 .. C /\ n \in 0 .. C
        /\ n < Cardinality(all) /\ (n + 1) - 1 = n
    BY <1>1 DEF C
  <2>2. PICK s : s = after[n]
    OBVIOUS
  <2>3. after[n + 1] = Taken(runs, s) /\ Distinct(s, n, all) /\ Ahead(s)
    BY <1>2, <1>3, <1>5, <2>1, <2>2
  <2> DEFINE held == InWindow(runs, s)
             e == Least(held)
             t == Append(s, e)
  <2>4. /\ Taken(runs, s) = t /\ e \in held /\ held \subseteq all \ ToSet(s)
        /\ Distinct(t, n + 1, all) /\ ToSet(t) = ToSet(s) \cup {e}
    BY <2>1, <2>3, TakenIsNext
  <2>5. \A b \in (all \ ToSet(s)) \ {e} : Before(e, b)
    BY <2>1, <2>3, TakenIsLeast
  <2> HIDE DEF held, e
  <2>6. e \in all \ ToSet(s)
    BY <2>4
  <2>7. \A a \in ToSet(t), b \in all \ ToSet(t) : Before(a, b)
    BY <2>3, <2>4, <2>5, <2>6
  <2>8. InOrder(t)
    <3>1. s \in Seq(all) /\ Len(s) = n
      BY <2>3 DEF Distinct
    <3>2. /\ Len(t) = n + 1 /\ t[n + 1] = e
          /\ \A i \in 1 .. n : t[i] = s[i]
      BY <2>6, <3>1, AppendProperties
    <3> SUFFICES ASSUME NEW i \in 1 .. n PROVE Before(t[i], t[i + 1])
      BY <2>1, <3>2 DEF InOrder
    <3>3. CASE i = n
      <4>1. s[n] \in ToSet(s)
        BY <3>1, <3>3 DEF ToSet
      <4>2. Before(s[n], e)
        BY <2>3, <2>6, <4>1
      <4>3. QED
        BY <3>2, <3>3, <4>2
    <3>4. CASE i # n
      <4>1. i \in 1 .. Len(s) - 1 /\ i + 1 \in 1 .. n
        BY <2>1, <3>1, <3>4
      <4>2. Before(s[i], s[i + 1])
        BY <2>3, <4>1 DEF InOrder
      <4>3. QED
        BY <3>2, <4>1, <4>2
    <3>5. QED
      BY <3>3, <3>4
  <2>9. Ahead(after[n + 1])
    BY <2>3, <2>4, <2>7, <2>8
  <2> HIDE DEF Ahead
  <2>10. QED
    BY <2>1, <2>9
<1> HIDE DEF S
<1>6. \A n \in 0 .. C : n \in S
  BY <1>1, <1>4, <1>5, Induction
<1>7. C \in S
  BY <1>1, <1>6
<1>8. InOrder(out)
  BY <1>2, <1>7 DEF S
<1>9. QED
  BY <1>8 DEF out

\* In order is in order from end to end.
LEMMA InOrderThroughout ==
    ASSUME NEW C \in Nat, NEW out \in [1 .. C -> Record], InOrder(out)
    PROVE  \A i, j \in 1 .. C : i < j => Before(out[i], out[j])
<1> DEFINE Ahead(j) == \A i \in 1 .. j - 1 : Before(out[i], out[j])
           S == {n \in 0 .. C : n = 0 \/ Ahead(n)}
<1>1. 0 \in S
  OBVIOUS
<1>2. ASSUME NEW n \in 0 .. C - 1, n \in S PROVE n + 1 \in S
  <2>1. n \in Nat /\ n + 1 \in 0 .. C /\ n + 1 \in 1 .. C /\ Len(out) = C
    OBVIOUS
  <2> SUFFICES ASSUME NEW i \in 1 .. n PROVE Before(out[i], out[n + 1])
    BY <2>1
  <2>2. n \in 1 .. C - 1 /\ n \in 1 .. C /\ i \in 1 .. C
    BY <2>1
  <2>3. Before(out[n], out[n + 1])
    BY <2>1, <2>2 DEF InOrder
  <2>4. i = n \/ Before(out[i], out[n])
    <3>1. Ahead(n)
      BY <1>2, <2>2
    <3>2. i = n \/ i \in 1 .. n - 1
      BY <2>1
    <3>3. QED
      BY <3>1, <3>2
  <2>5. out[i] \in Record /\ out[n] \in Record /\ out[n + 1] \in Record
    BY <2>1, <2>2
  <2>6. QED
    BY <2>3, <2>4, <2>5, BeforeIsOrder
<1> HIDE DEF S
<1>3. \A n \in 0 .. C : n \in S
  BY <1>1, <1>2, Induction
<1>4. \A j \in 1 .. C : j \in S
  BY <1>3
<1>5. \A j \in 1 .. C : Ahead(j)
  BY <1>4 DEF S
<1>6. QED
  BY <1>5

LEMMA RunsAreRuns ==
    ASSUME NEW landing, IsLanding(landing), NEW keys, keys \subseteq DOMAIN landing
    PROVE  AreRuns(Runs(landing, keys), Held(landing, keys))
<1>1. /\ DOMAIN Runs(landing, keys) = 1 .. Cardinality(keys)
      /\ Len(Runs(landing, keys)) = Cardinality(keys)
      /\ UNION {Runs(landing, keys)[n] : n \in 1 .. Cardinality(keys)} = Held(landing, keys)
  BY RunsHoldAll
<1>2. Cardinality(keys) \in Nat /\ Records(Held(landing, keys))
  BY ObjectsAreFinite
<1> DEFINE runs == Runs(landing, keys)
<1> HIDE DEF runs
<1>3. DOMAIN runs = 1 .. Len(runs) /\ Len(runs) \in Nat
  BY <1>1, <1>2 DEF runs
<1>4. UNION {runs[r] : r \in DOMAIN runs} = Held(landing, keys)
  BY <1>1 DEF runs
<1>5. QED
  BY <1>2, <1>3, <1>4 DEF AreRuns, runs

\* The events of a seal are its objects' records in seal order.
InSealOrder(events, all) ==
    /\ Cardinality(all) \in Nat
    /\ events \in [1 .. Cardinality(all) -> all]
    /\ InOrder(events)
    /\ ToSet(events) = all

LEMMA EventsInSealOrder ==
    ASSUME NEW landing, IsLanding(landing), NEW keys, keys \subseteq DOMAIN landing
    PROVE  InSealOrder(Events(landing, keys), Held(landing, keys))
<1> DEFINE all == Held(landing, keys)
           merged == Merged(Runs(landing, keys))
<1>1. Records(all)
  BY ObjectsAreFinite
<1>2. /\ Cardinality(all) \in Nat
      /\ Distinct(merged, Cardinality(all), all)
      /\ ToSet(merged) = all
  BY RunsAreRuns, MergedEmitsAll
<1>3. Events(landing, keys) = IF InOrder(merged) THEN merged ELSE Sorted(ToSet(merged))
  BY DEF Events
<1> HIDE DEF all, merged
<1>4. CASE InOrder(merged)
  BY <1>2, <1>3, <1>4 DEF Distinct, InSealOrder, all
<1>5. CASE ~InOrder(merged)
  <2>1. InSealOrder(Sorted(all), all)
    BY <1>1, SortedSorts DEF InSealOrder
  <2>2. QED
    BY <1>2, <1>3, <1>5, <2>1 DEF all
<1>6. QED
  BY <1>4, <1>5

-----------------------------------------------------------------------------
(* The coverage scan.                                                      *)

CoverageRec == [inst : Int, min : Nat, max : Nat, count : Nat,
                gaps : SUBSET (Nat \X Nat), accounted : {{}}]

\* Boundary events, a finite set of them.
Boundary(P) == Records(P) /\ \A e \in P : e.kind = 0

SeqsOf(P, i) == {e.seq : e \in {e \in P : e.inst = i}}

\* c says of its producer what P does.
Exact(c, P) ==
    LET seqs == SeqsOf(P, c.inst)
    IN /\ {c.min, c.max} \subseteq seqs /\ seqs \subseteq c.min .. c.max
       /\ c.count = Cardinality(seqs)
       /\ Numbers(c.gaps) = (c.min .. c.max) \ seqs

LEMMA SeqsCounted ==
    ASSUME NEW P, Boundary(P), NEW i
    PROVE  IsFiniteSet(SeqsOf(P, i)) /\ SeqsOf(P, i) \subseteq Nat
<1> DEFINE Q == {e \in P : e.inst = i}
<1>1. IsFiniteSet(Q)
  BY FS_Subset DEF Boundary, Records
<1>2. PICK f : f = [e \in Q |-> e.seq]
  OBVIOUS
<1>3. f \in Surjection(Q, SeqsOf(P, i))
  BY <1>2 DEF Surjection, SeqsOf
<1>4. IsFiniteSet(SeqsOf(P, i))
  BY <1>1, <1>3, FS_Surjection
<1>5. SeqsOf(P, i) \subseteq Nat
  BY DEF SeqsOf, Boundary, Records, Record
<1>6. QED
  BY <1>4, <1>5

\* An event adds its number to those of its producer.
LEMMA SeqsGrow ==
    ASSUME NEW P, NEW e
    PROVE  /\ SeqsOf(P \cup {e}, e.inst) = SeqsOf(P, e.inst) \cup {e.seq}
           /\ \A i : i # e.inst => SeqsOf(P \cup {e}, i) = SeqsOf(P, i)
BY DEF SeqsOf

LEMMA OtherStaysExact ==
    ASSUME NEW P, NEW e, NEW c, Exact(c, P), c.inst # e.inst
    PROVE  Exact(c, P \cup {e})
<1>1. SeqsOf(P \cup {e}, c.inst) = SeqsOf(P, c.inst)
  BY SeqsGrow
<1>2. QED
  BY <1>1 DEF Exact

LEMMA NewIsExact ==
    ASSUME NEW P, NEW e \in Record, SeqsOf(P, e.inst) = {}
    PROVE  /\ NewCoverage(e) \in CoverageRec /\ NewCoverage(e).inst = e.inst
           /\ Exact(NewCoverage(e), P \cup {e})
<1>1. e.inst \in Int /\ e.seq \in Nat
  BY DEF Record
<1>2. PICK c : c = NewCoverage(e)
  OBVIOUS
<1>3. /\ c \in CoverageRec /\ c.inst = e.inst /\ c.min = e.seq /\ c.max = e.seq
      /\ c.count = 1 /\ c.gaps = {}
  BY <1>1, <1>2 DEF NewCoverage, CoverageRec
<1>4. SeqsOf(P \cup {e}, e.inst) = {e.seq}
  BY SeqsGrow
<1>5. Cardinality({e.seq}) = 1
  BY FS_Singleton
<1>6. e.seq .. e.seq = {e.seq}
  BY <1>1
<1>7. Numbers({}) = {}
  BY DEF Numbers
<1>8. Exact(c, P \cup {e})
  BY <1>3, <1>4, <1>5, <1>6, <1>7 DEF Exact
<1>9. QED
  BY <1>2, <1>3, <1>8

LEMMA ExtendedIsExact ==
    ASSUME NEW P, Boundary(P), NEW e \in Record, e.kind = 0, \A p \in P : Before(p, e),
           NEW c \in CoverageRec, Exact(c, P), c.inst = e.inst
    PROVE  /\ Extended(c, e) \in CoverageRec /\ Extended(c, e).inst = c.inst
           /\ Exact(Extended(c, e), P \cup {e})
<1>1. /\ c.inst \in Int /\ c.min \in Nat /\ c.max \in Nat /\ c.count \in Nat
      /\ c.gaps \in SUBSET (Nat \X Nat) /\ e.inst \in Int /\ e.seq \in Nat
  BY DEF Record, CoverageRec
<1>2. PICK seqs : seqs = SeqsOf(P, e.inst)
  OBVIOUS
<1>3. /\ c.min \in seqs /\ c.max \in seqs /\ seqs \subseteq c.min .. c.max
      /\ c.count = Cardinality(seqs) /\ Numbers(c.gaps) = (c.min .. c.max) \ seqs
  BY <1>2 DEF Exact
<1>4. IsFiniteSet(seqs)
  BY <1>2, SeqsCounted
<1>5. ASSUME NEW q \in seqs PROVE q < e.seq
  <2>1. PICK p \in P : p.inst = e.inst /\ p.seq = q
    BY <1>2 DEF SeqsOf
  <2>2. Before(p, e) /\ p \in Record /\ p.kind = 0
    BY DEF Boundary, Records
  <2>3. QED
    BY <1>1, <2>1, <2>2 DEF Before
<1>6. c.min <= c.max /\ c.max < e.seq
  BY <1>1, <1>3, <1>5
<1>7. PICK d : d = Extended(c, e)
  OBVIOUS
<1>8. PICK new : new = Gap(c.max, e.seq)
  OBVIOUS
<1>9. new \in SUBSET (Nat \X Nat)
  BY <1>1, <1>8 DEF Gap
<1>10. /\ d.inst = c.inst /\ d.min = c.min /\ d.max = e.seq /\ d.count = c.count + 1
       /\ d.gaps = c.gaps \cup new /\ d \in CoverageRec
  <2>1. d = [c EXCEPT !.gaps = c.gaps \cup new, !.max = e.seq, !.count = c.count + 1]
    BY <1>7, <1>8 DEF Extended
  <2>2. /\ d.inst = c.inst /\ d.min = c.min /\ d.max = e.seq /\ d.count = c.count + 1
        /\ d.gaps = c.gaps \cup new
    BY <2>1 DEF CoverageRec
  <2>3. c.gaps \cup new \in SUBSET (Nat \X Nat)
    BY <1>1, <1>9
  <2>4. c.count + 1 \in Nat
    BY <1>1
  <2>5. d \in CoverageRec
    BY <1>1, <2>1, <2>3, <2>4 DEF CoverageRec
  <2>6. QED
    BY <2>2, <2>5
<1>11. Numbers(new) = c.max + 1 .. e.seq - 1
  <2>1. CASE e.seq > c.max + 1
    <3>1. new = {<<c.max + 1, e.seq - 1>>}
      BY <1>8, <2>1 DEF Gap
    <3>2. QED
      BY <3>1 DEF Numbers
  <2>2. CASE ~(e.seq > c.max + 1)
    <3>1. new = {} /\ c.max + 1 .. e.seq - 1 = {}
      BY <1>1, <1>8, <2>2 DEF Gap
    <3>2. QED
      BY <3>1 DEF Numbers
  <2>3. QED
    BY <2>1, <2>2
<1>12. Numbers(d.gaps) = Numbers(c.gaps) \cup Numbers(new)
  BY <1>10 DEF Numbers
<1>13. SeqsOf(P \cup {e}, e.inst) = seqs \cup {e.seq}
  BY <1>2, SeqsGrow
<1>14. e.seq \notin seqs
  BY <1>1, <1>5
<1>15. Cardinality(seqs \cup {e.seq}) = c.count + 1
  BY <1>3, <1>4, <1>14, FS_AddElement
<1>16. Numbers(d.gaps) = (c.min .. e.seq) \ (seqs \cup {e.seq})
  <2>1. Numbers(d.gaps) = ((c.min .. c.max) \ seqs) \cup (c.max + 1 .. e.seq - 1)
    BY <1>3, <1>11, <1>12
  <2>2. \A x \in c.max + 1 .. e.seq - 1 : x \notin seqs
    BY <1>1, <1>3
  <2>3. (c.min .. c.max) \cup (c.max + 1 .. e.seq - 1) = c.min .. e.seq - 1
    BY <1>1, <1>6
  <2>4. c.min .. e.seq - 1 = (c.min .. e.seq) \ {e.seq}
    BY <1>1, <1>6
  <2>5. QED
    BY <2>1, <2>2, <2>3, <2>4
<1>17. seqs \cup {e.seq} \subseteq c.min .. e.seq
  <2>1. \A x \in c.min .. c.max : x \in c.min .. e.seq
    BY <1>1, <1>6
  <2>2. e.seq \in c.min .. e.seq
    BY <1>1, <1>6
  <2>3. QED
    BY <1>3, <2>1, <2>2
<1>18. Exact(d, P \cup {e})
  BY <1>3, <1>10, <1>13, <1>15, <1>16, <1>17 DEF Exact
<1>19. QED
  BY <1>7, <1>10, <1>18

\* The producers of the events scanned, each once and in their order.
ScanOK(done, P) ==
    /\ done \in Seq(CoverageRec)
    /\ {done[i].inst : i \in DOMAIN done} = {e.inst : e \in P}
    /\ \A i, j \in DOMAIN done : i < j => done[i].inst < done[j].inst
    /\ \A i \in DOMAIN done : Exact(done[i], P)

LEMMA CoverageTyped ==
    ASSUME NEW done \in Seq(CoverageRec)
    PROVE  \A i \in DOMAIN done : done[i].inst \in Int /\ done[i] \in CoverageRec
<1>1. \A i \in DOMAIN done : done[i] \in CoverageRec
  OBVIOUS
<1>2. \A c \in CoverageRec : c.inst \in Int
  BY DEF CoverageRec
<1>3. QED
  BY <1>1, <1>2

\* An event of the last producer.
LEMMA ScannedExtends ==
    ASSUME NEW P, Boundary(P), NEW e \in Record, e.kind = 0, \A p \in P : Before(p, e),
           NEW done, ScanOK(done, P), done # <<>>, Last(done).inst = e.inst
    PROVE  ScanOK(Scanned(done, e), P \cup {e})
<1> DEFINE n == Len(done)
           c == Extended(done[n], e)
           now == [done EXCEPT ![n] = c]
<1>1. done \in Seq(CoverageRec) /\ n \in Nat /\ n \in DOMAIN done /\ DOMAIN done = 1 .. n
  BY DEF ScanOK
<1>2. done[n].inst = e.inst /\ done[n] \in CoverageRec /\ Exact(done[n], P)
  BY <1>1 DEF Last, ScanOK
<1>3. c \in CoverageRec /\ c.inst = e.inst /\ Exact(c, P \cup {e})
  BY <1>2, ExtendedIsExact
<1>4. Scanned(done, e) = now
  BY DEF Scanned, Last
<1> HIDE DEF c, n
<1>5. /\ now \in Seq(CoverageRec) /\ DOMAIN now = DOMAIN done
      /\ now[n] = c /\ \A i \in DOMAIN done : i # n => now[i] = done[i]
  BY <1>1, <1>3
<1> HIDE DEF now
<1>6. \A i \in DOMAIN done : now[i].inst = done[i].inst
  BY <1>2, <1>3, <1>5
<1>7. \A i, j \in DOMAIN done : i < j => done[i].inst < done[j].inst
  BY DEF ScanOK
<1>8. \A i \in DOMAIN done : i # n => done[i].inst # e.inst
  <2>1. \A i \in DOMAIN done : i # n => i < n
    BY <1>1
  <2>2. \A i \in DOMAIN done : done[i].inst \in Int
    BY CoverageTyped DEF ScanOK
  <2>3. QED
    BY <1>1, <1>2, <1>7, <2>1, <2>2
<1>9. ASSUME NEW i \in DOMAIN done PROVE Exact(now[i], P \cup {e})
  <2>1. CASE i = n
    BY <1>3, <1>5, <2>1
  <2>2. CASE i # n
    <3>1. Exact(done[i], P)
      BY DEF ScanOK
    <3>2. Exact(done[i], P \cup {e})
      BY <1>8, <2>2, <3>1, OtherStaysExact
    <3>3. QED
      BY <1>5, <2>2, <3>2
  <2>3. QED
    BY <2>1, <2>2
<1>10. {now[i].inst : i \in DOMAIN now} = {p.inst : p \in P \cup {e}}
  <2>1. {now[i].inst : i \in DOMAIN now} = {done[i].inst : i \in DOMAIN done}
    BY <1>5, <1>6
  <2>2. {done[i].inst : i \in DOMAIN done} = {p.inst : p \in P}
    BY DEF ScanOK
  <2>3. e.inst \in {p.inst : p \in P}
    BY <1>1, <1>2, <2>2
  <2>4. QED
    BY <2>1, <2>2, <2>3
<1>11. \A i, j \in DOMAIN now : i < j => now[i].inst < now[j].inst
  BY <1>5, <1>6, <1>7
<1>12. QED
  BY <1>4, <1>5, <1>9, <1>10, <1>11 DEF ScanOK

\* The first event of a producer.
LEMMA ScannedAppends ==
    ASSUME NEW P, Boundary(P), NEW e \in Record, e.kind = 0, \A p \in P : Before(p, e),
           NEW done, ScanOK(done, P), ~(done # <<>> /\ Last(done).inst = e.inst)
    PROVE  ScanOK(Scanned(done, e), P \cup {e})
<1> DEFINE n == Len(done)
           c == NewCoverage(e)
           now == Append(done, c)
<1>1. done \in Seq(CoverageRec) /\ n \in Nat /\ DOMAIN done = 1 .. n
  BY DEF ScanOK
<1>2. \A i \in DOMAIN done : done[i].inst \in Int /\ done[i] \in CoverageRec
  BY CoverageTyped DEF ScanOK
<1>3. \A i \in DOMAIN done : done[i].inst <= e.inst
  <2> SUFFICES ASSUME NEW i \in DOMAIN done PROVE done[i].inst <= e.inst
    OBVIOUS
  <2>1. done[i].inst \in {p.inst : p \in P}
    BY DEF ScanOK
  <2>2. PICK p \in P : p.inst = done[i].inst
    BY <2>1
  <2>3. Before(p, e) /\ p \in Record
    BY DEF Boundary, Records
  <2>4. QED
    BY <2>2, <2>3 DEF Before, Record
<1>4. \A i, j \in DOMAIN done : i < j => done[i].inst < done[j].inst
  BY DEF ScanOK
<1>5. ASSUME NEW i \in DOMAIN done PROVE done[i].inst < e.inst
  <2>1. n \in DOMAIN done /\ done # <<>> /\ (i = n \/ i < n)
    BY <1>1
  <2>2. done[n].inst # e.inst
    BY <2>1 DEF Last
  <2>3. done[i].inst <= done[n].inst
    BY <1>2, <1>4, <2>1
  <2>4. e.inst \in Int
    BY DEF Record
  <2>5. QED
    BY <1>2, <1>3, <2>1, <2>2, <2>3, <2>4
<1>6. e.inst \notin {p.inst : p \in P}
  <2>1. e.inst \in Int /\ {done[i].inst : i \in DOMAIN done} = {p.inst : p \in P}
    BY DEF Record, ScanOK
  <2>2. \A i \in DOMAIN done : done[i].inst # e.inst
    BY <1>2, <1>5, <2>1
  <2>3. QED
    BY <2>1, <2>2
<1>7. SeqsOf(P, e.inst) = {}
  BY <1>6 DEF SeqsOf
<1>8. c \in CoverageRec /\ c.inst = e.inst /\ Exact(c, P \cup {e})
  BY <1>7, NewIsExact
<1>9. Scanned(done, e) = now
  BY DEF Scanned
<1> HIDE DEF c
<1>10. /\ now \in Seq(CoverageRec) /\ Len(now) = n + 1 /\ now[n + 1] = c
       /\ \A i \in 1 .. n : now[i] = done[i]
  BY <1>1, <1>8, AppendProperties
<1> HIDE DEF now, n
<1>11. DOMAIN now = 1 .. n + 1
  BY <1>1, <1>10
<1>12. \A i \in 1 .. n + 1 : i = n + 1 \/ i \in 1 .. n
  BY <1>1
<1>13. ASSUME NEW i \in 1 .. n + 1 PROVE Exact(now[i], P \cup {e})
  <2>1. CASE i = n + 1
    BY <1>8, <1>10, <2>1
  <2>2. CASE i \in 1 .. n
    <3>1. Exact(done[i], P) /\ done[i].inst # e.inst
      <4>1. i \in DOMAIN done
        BY <1>1, <2>2
      <4>2. done[i].inst < e.inst /\ done[i].inst \in Int /\ e.inst \in Int
        BY <1>2, <1>5, <4>1 DEF Record
      <4>3. QED
        BY <4>1, <4>2 DEF ScanOK
    <3>2. Exact(done[i], P \cup {e})
      BY <3>1, OtherStaysExact
    <3>3. QED
      BY <1>10, <2>2, <3>2
  <2>3. QED
    BY <1>12, <2>1, <2>2
<1>14. {now[i].inst : i \in DOMAIN now} = {p.inst : p \in P \cup {e}}
  <2>1. {done[i].inst : i \in 1 .. n} = {p.inst : p \in P}
    BY <1>1 DEF ScanOK
  <2>2. {now[i].inst : i \in 1 .. n + 1} = {done[i].inst : i \in 1 .. n} \cup {e.inst}
    <3>1. 1 .. n + 1 = 1 .. n \cup {n + 1}
      BY <1>1
    <3>2. {now[i].inst : i \in 1 .. n + 1} = {now[i].inst : i \in 1 .. n} \cup {now[n + 1].inst}
      BY <3>1
    <3>3. {now[i].inst : i \in 1 .. n} = {done[i].inst : i \in 1 .. n}
      BY <1>10
    <3>4. QED
      BY <1>8, <1>10, <3>2, <3>3
  <2>3. QED
    BY <1>11, <2>1, <2>2
<1>15. ASSUME NEW i \in 1 .. n + 1, NEW j \in 1 .. n + 1, i < j
       PROVE  now[i].inst < now[j].inst
  <2>1. i \in 1 .. n
    BY <1>1, <1>15
  <2>2. CASE j = n + 1
    BY <1>1, <1>5, <1>8, <1>10, <2>1, <2>2
  <2>3. CASE j \in 1 .. n
    BY <1>1, <1>4, <1>10, <1>15, <2>1, <2>3
  <2>4. QED
    BY <1>12, <2>2, <2>3
<1>16. QED
  BY <1>9, <1>10, <1>11, <1>13, <1>14, <1>15 DEF ScanOK

LEMMA ScannedKeeps ==
    ASSUME NEW P, Boundary(P), NEW e \in Record, \A p \in P : Before(p, e) \/ e.kind # 0,
           NEW done, ScanOK(done, P)
    PROVE  ScanOK(Scanned(done, e), IF e.kind = 0 THEN P \cup {e} ELSE P)
<1>1. CASE e.kind # 0
  BY <1>1 DEF Scanned
<1>2. CASE e.kind = 0
  <2>1. ScanOK(Scanned(done, e), P \cup {e})
    BY <1>2, ScannedExtends, ScannedAppends
  <2>2. QED
    BY <1>2, <2>1
<1>3. QED
  BY <1>1, <1>2

\* What Scan computes, one event after the other.
LEMMA ScanSteps ==
    ASSUME NEW events, NEW C \in Nat, Len(events) = C
    PROVE  \E scan : /\ Scan(events) = scan[C]
                     /\ scan[0] = <<>>
                     /\ \A n \in 1 .. C : scan[n] = Scanned(scan[n - 1], events[n])
<1> DEFINE Scans(k, h) ==
              h = [n \in 0 .. k |-> IF n = 0 THEN <<>> ELSE Scanned(h[n - 1], events[n])]
           S == {k \in 0 .. C : \E h : Scans(k, h)}
<1>1. Scan(events) = (CHOOSE h : Scans(C, h))[C]
  BY DEF Scan
<1>2. 0 \in S
  <2>1. Scans(0, [n \in 0 .. 0 |-> <<>>])
    OBVIOUS
  <2> HIDE DEF Scans
  <2>2. QED
    BY <2>1
<1>3. ASSUME NEW k \in 0 .. C - 1, k \in S PROVE k + 1 \in S
  <2>1. PICK h : Scans(k, h)
    BY <1>3
  <2>2. k \in Nat /\ k + 1 \in 0 .. C
    OBVIOUS
  <2> DEFINE g == [n \in 0 .. k + 1 |-> IF n = k + 1 THEN Scanned(h[k], events[k + 1]) ELSE h[n]]
  <2>3. \A n \in 1 .. k + 1 : n - 1 \in 0 .. k + 1 /\ n - 1 # k + 1
    BY <2>2
  <2>4. \A n \in 1 .. k : h[n] = Scanned(h[n - 1], events[n])
    BY <2>1, <2>2
  <2>5. h[0] = <<>>
    BY <2>1, <2>2
  <2>6. ASSUME NEW n \in 0 .. k + 1
        PROVE  g[n] = IF n = 0 THEN <<>> ELSE Scanned(g[n - 1], events[n])
    <3>1. CASE n = 0
      BY <2>2, <2>5, <3>1
    <3>2. CASE n = k + 1
      <4>1. g[n] = Scanned(h[k], events[k + 1]) /\ g[n - 1] = h[k]
        BY <2>2, <3>2
      <4>2. QED
        BY <2>2, <3>2, <4>1
    <3>3. CASE n \in 1 .. k
      <4>1. g[n] = h[n] /\ g[n - 1] = h[n - 1] /\ n # 0
        BY <2>2, <2>3, <3>3
      <4>2. QED
        BY <2>4, <3>3, <4>1
    <3>4. QED
      BY <2>2, <3>1, <3>2, <3>3
  <2>7. g = [n \in 0 .. k + 1 |-> g[n]]
    OBVIOUS
  <2> HIDE DEF g
  <2>8. Scans(k + 1, g)
    BY <2>6, <2>7
  <2> HIDE DEF Scans
  <2>9. QED
    BY <2>2, <2>8
<1> HIDE DEF S
<1>4. \A k \in 0 .. C : k \in S
  BY <1>2, <1>3, Induction
<1>5. C \in S
  BY <1>4
<1>6. \E h : Scans(C, h)
  BY <1>5 DEF S
<1>7. PICK h : h = CHOOSE x : Scans(C, x)
  OBVIOUS
<1> HIDE DEF Scans
<1>8. Scans(C, h)
  BY <1>6, <1>7
<1>9. h = [n \in 0 .. C |-> IF n = 0 THEN <<>> ELSE Scanned(h[n - 1], events[n])]
  BY <1>8 DEF Scans
<1>10. h[0] = <<>> /\ \A n \in 1 .. C : h[n] = Scanned(h[n - 1], events[n])
  BY <1>9
<1>11. Scan(events) = h[C]
  BY <1>1, <1>7
<1>12. QED
  BY <1>10, <1>11

\* The boundary events among records.
BoundaryOf(all) == {e \in all : e.kind = 0}

\* One scan of events in seal order finds, for each producer, what it sent.
LEMMA ScanIsExact ==
    ASSUME NEW all, Records(all), NEW events, InSealOrder(events, all)
    PROVE  ScanOK(Scan(events), BoundaryOf(all))
<1>1. PICK C \in Nat : C = Cardinality(all)
  BY DEF InSealOrder
<1>2. events \in [1 .. C -> all] /\ Len(events) = C /\ InOrder(events) /\ ToSet(events) = all
  BY <1>1 DEF InSealOrder
<1>3. all \subseteq Record /\ IsFiniteSet(all) /\ events \in [1 .. C -> Record]
  BY <1>2 DEF Records
<1>4. \A i, j \in 1 .. C : i < j => Before(events[i], events[j])
  BY <1>2, <1>3, InOrderThroughout
<1>5. PICK scan : /\ Scan(events) = scan[C] /\ scan[0] = <<>>
                  /\ \A n \in 1 .. C : scan[n] = Scanned(scan[n - 1], events[n])
  BY <1>2, ScanSteps
<1> DEFINE P(n) == {e \in {events[i] : i \in 1 .. n} : e.kind = 0}
           S == {n \in 0 .. C : ScanOK(scan[n], P(n))}
<1>6. 0 \in S
  <2>1. ScanOK(<<>>, {})
    BY DEF ScanOK
  <2>2. P(0) = {}
    OBVIOUS
  <2> HIDE DEF P
  <2>3. ScanOK(scan[0], P(0))
    BY <1>5, <2>1, <2>2
  <2>4. QED
    BY <2>3
<1>7. ASSUME NEW n \in 0 .. C - 1, n \in S PROVE n + 1 \in S
  <2>1. n \in Nat /\ n + 1 \in 0 .. C /\ n + 1 \in 1 .. C /\ (n + 1) - 1 = n
    OBVIOUS
  <2>2. PICK e : e = events[n + 1]
    OBVIOUS
  <2>3. e \in Record /\ scan[n + 1] = Scanned(scan[n], e) /\ ScanOK(scan[n], P(n))
    BY <1>3, <1>5, <1>7, <2>1, <2>2
  <2>4. P(n + 1) = IF e.kind = 0 THEN P(n) \cup {e} ELSE P(n)
    <3>1. 1 .. n + 1 = 1 .. n \cup {n + 1}
      BY <2>1
    <3>2. {events[i] : i \in 1 .. n + 1} = {events[i] : i \in 1 .. n} \cup {e}
      BY <2>2, <3>1
    <3>3. QED
      BY <3>2
  <2>5. \A i \in 1 .. n : i \in 1 .. C /\ i < n + 1
    BY <2>1
  <2>6. \A p \in P(n) : Before(p, e)
    BY <1>4, <2>1, <2>2, <2>5
  <2>7. Boundary(P(n))
    <3>1. P(n) \subseteq all /\ \A p \in P(n) : p.kind = 0
      BY <1>2, <2>5
    <3>2. QED
      BY <1>3, <3>1, FS_Subset DEF Boundary, Records
  <2> HIDE DEF P
  <2>8. ScanOK(scan[n + 1], P(n + 1))
    BY <2>3, <2>4, <2>6, <2>7, ScannedKeeps
  <2>9. QED
    BY <2>1, <2>8
<1> HIDE DEF S
<1>8. \A n \in 0 .. C : n \in S
  BY <1>6, <1>7, Induction
<1>9. C \in S
  BY <1>8
<1>10. P(C) = BoundaryOf(all)
  <2>1. {events[i] : i \in 1 .. C} = all
    BY <1>2 DEF ToSet
  <2>2. QED
    BY <2>1 DEF BoundaryOf
<1>11. QED
  BY <1>5, <1>9, <1>10 DEF S

-----------------------------------------------------------------------------
(* What a manifest says of its landing.                                    *)

\* The recording stays one of those considered, with what its objects collate to.
RecordingInv ==
    \E r \in Landings : recording = Recording(r)

LEMMA CollatedIs ==
    ASSUME RecordingInv, NEW keys, keys \subseteq Objects
    PROVE  LET r == recording.objects
           IN /\ IsLanding(r) /\ keys \subseteq DOMAIN r
              /\ Collated(keys).runs = Runs(r, keys)
              /\ Collated(keys).merged = Merged(Runs(r, keys))
              /\ Collated(keys).events = Events(r, keys)
              /\ Collated(keys).coverage = Coverage(r, keys)
<1>1. PICK r \in Landings : recording = Recording(r)
  BY DEF RecordingInv
<1>2. recording.objects = r
  BY <1>1 DEF Recording
<1>3. keys \in SUBSET DOMAIN r
  BY <1>2 DEF Objects
<1>4. Collated(keys) =
        [runs |-> Runs(r, keys), merged |-> Merged(Runs(r, keys)),
         events |-> Events(r, keys), coverage |-> Coverage(r, keys),
         weight |-> Weight(r, keys)]
  BY <1>1, <1>3 DEF Collated, Recording
<1>5. IsLanding(r)
  BY SealAssumption DEF IsLanding
<1>6. QED
  BY <1>2, <1>3, <1>4, <1>5

LEMMA RecordingStays == Spec => []RecordingInv
<1>1. Init => RecordingInv
  BY DEF Init, RecordingInv
<1>2. RecordingInv /\ [Next]_vars => RecordingInv'
  <2> SUFFICES ASSUME [Next]_vars PROVE recording' = recording
    BY DEF RecordingInv
  <2>1. QED
    BY DEF Next, vars, Land, Sweep, GoQuiet, BeginPass, BeginByHand, Step, Stop, Plan,
       ReadManifest, ReadLanding, List, Get, PutPart, Publish, Reads
<1>3. QED
  BY <1>1, <1>2, PTL DEF Spec

\* What is said to be shed lies in the gaps.
LEMMA AccountedInGaps ==
    ASSUME NEW shed, shed \subseteq Nat \X Nat, NEW gaps, gaps \subseteq Nat \X Nat
    PROVE  Numbers(Accounted(shed, gaps)) \subseteq Numbers(gaps)
<1> SUFFICES ASSUME NEW x \in Numbers(Accounted(shed, gaps)) PROVE x \in Numbers(gaps)
  OBVIOUS
<1>1. PICK r \in Accounted(shed, gaps) : x \in r[1] .. r[2]
  BY DEF Numbers
<1>2. PICK g \in gaps : r \in shed /\ r[1] >= g[1] /\ r[2] <= g[2]
  BY <1>1 DEF Accounted
<1>3. r[1] \in Nat /\ r[2] \in Nat /\ g[1] \in Nat /\ g[2] \in Nat
  BY <1>2
<1>4. x \in g[1] .. g[2]
  BY <1>1, <1>2, <1>3
<1>5. QED
  BY <1>4 DEF Numbers

\* The scan's answer, with what the recorder says it shed.
LEMMA CoverageFields ==
    ASSUME NEW landing, IsLanding(landing), NEW keys, keys \subseteq DOMAIN landing
    PROVE  LET scan == Scan(Events(landing, keys))
               cov == Coverage(landing, keys)
           IN /\ ScanOK(scan, BoundaryOf(Held(landing, keys)))
              /\ DOMAIN cov = DOMAIN scan
              /\ \A i \in DOMAIN scan :
                    /\ cov[i].inst = scan[i].inst /\ cov[i].min = scan[i].min
                    /\ cov[i].max = scan[i].max /\ cov[i].count = scan[i].count
                    /\ cov[i].gaps = scan[i].gaps
                    /\ Numbers(cov[i].accounted) \subseteq Numbers(cov[i].gaps)
<1> DEFINE shed(i) == UNION {landing[k].shed : k \in {k \in keys : landing[k].inst = i}}
           cov == Coverage(landing, keys)
<1>1. PICK scan : scan = Scan(Events(landing, keys))
  OBVIOUS
<1>2. ScanOK(scan, BoundaryOf(Held(landing, keys)))
  BY <1>1, ObjectsAreFinite, EventsInSealOrder, ScanIsExact
<1>3. cov = [i \in DOMAIN scan |->
               [scan[i] EXCEPT !.accounted = Accounted(shed(scan[i].inst), scan[i].gaps)]]
  BY <1>1 DEF Coverage
<1>4. \A i : shed(i) \subseteq Nat \X Nat
  BY ObjectsAreFinite DEF Object
<1> HIDE DEF shed, cov
<1>5. ASSUME NEW i \in DOMAIN scan
      PROVE  /\ cov[i].inst = scan[i].inst /\ cov[i].min = scan[i].min
             /\ cov[i].max = scan[i].max /\ cov[i].count = scan[i].count
             /\ cov[i].gaps = scan[i].gaps
             /\ Numbers(cov[i].accounted) \subseteq Numbers(cov[i].gaps)
  <2>1. scan[i] \in CoverageRec
    BY <1>2, CoverageTyped DEF ScanOK
  <2>2. PICK told : told = Accounted(shed(scan[i].inst), scan[i].gaps)
    OBVIOUS
  <2>3. cov[i] = [scan[i] EXCEPT !.accounted = told]
    BY <1>3, <2>2
  <2>4. /\ cov[i].inst = scan[i].inst /\ cov[i].min = scan[i].min
        /\ cov[i].max = scan[i].max /\ cov[i].count = scan[i].count
        /\ cov[i].gaps = scan[i].gaps /\ cov[i].accounted = told
    BY <2>1, <2>3 DEF CoverageRec
  <2>5. scan[i].gaps \subseteq Nat \X Nat
    BY <2>1 DEF CoverageRec
  <2>6. Numbers(told) \subseteq Numbers(scan[i].gaps)
    BY <1>4, <2>2, <2>5, AccountedInGaps
  <2>7. QED
    BY <2>4, <2>6
<1>6. DOMAIN cov = DOMAIN scan
  BY <1>3
<1>7. QED
  BY <1>1, <1>2, <1>5, <1>6 DEF cov

\* What CoverageIsExact says of a coverage and the events it is to tell.
AllExact(cov, events) ==
    LET seqs(i) == {e.seq : e \in {e \in events : e.inst = i}}
    IN /\ {cov[i].inst : i \in DOMAIN cov} = {e.inst : e \in events}
       /\ \A i, j \in DOMAIN cov : cov[i].inst = cov[j].inst => i = j
       /\ \A i \in DOMAIN cov :
            /\ {cov[i].min, cov[i].max} \subseteq seqs(cov[i].inst)
            /\ seqs(cov[i].inst) \subseteq cov[i].min .. cov[i].max
            /\ cov[i].count = Cardinality(seqs(cov[i].inst))
            /\ Numbers(cov[i].gaps) = (cov[i].min .. cov[i].max) \ seqs(cov[i].inst)
            /\ Numbers(cov[i].accounted) \subseteq Numbers(cov[i].gaps)

\* Whatever landed, in whatever order and however far out of it, the coverage
\* in a manifest (collate_runs) counts each producer's boundary events once, and
\* its gaps are the numbers between them that did not land.
THEOREM CoverageExact == Spec => []CoverageIsExact
<1>1. SealInv /\ RecordingInv => CoverageIsExact
  <2> SUFFICES ASSUME SealInv, RecordingInv, manifest # Nothing PROVE CoverageIsExact
    BY DEF CoverageIsExact
  <2>1. PICK keys, r : keys = manifest.of /\ r = recording.objects
    OBVIOUS
  <2>2. keys \subseteq Objects
    BY <2>1 DEF SealInv, TypeOK, ManifestInv
  <2>3. IsLanding(r) /\ keys \subseteq DOMAIN r /\ Collated(keys).coverage = Coverage(r, keys)
    BY <2>1, <2>2, CollatedIs
  <2>4. PICK cov, scan : cov = Coverage(r, keys) /\ scan = Scan(Events(r, keys))
    OBVIOUS
  <2> DEFINE events == {e \in UNION {r[k].recs : k \in keys} : e.kind = 0}
  <2> DEFINE seqs(i) == {e.seq : e \in {e \in events : e.inst = i}}
  <2>5. events = BoundaryOf(Held(r, keys)) /\ \A i : seqs(i) = SeqsOf(events, i)
    BY DEF BoundaryOf, Held, SeqsOf
  <2> HIDE DEF events
  <2>6. /\ ScanOK(scan, events)
        /\ DOMAIN cov = DOMAIN scan
        /\ \A i \in DOMAIN scan :
              /\ cov[i].inst = scan[i].inst /\ cov[i].min = scan[i].min
              /\ cov[i].max = scan[i].max /\ cov[i].count = scan[i].count
              /\ cov[i].gaps = scan[i].gaps
              /\ Numbers(cov[i].accounted) \subseteq Numbers(cov[i].gaps)
    BY <2>3, <2>4, <2>5, CoverageFields
  <2>7. {cov[i].inst : i \in DOMAIN cov} = {e.inst : e \in events}
    BY <2>6 DEF ScanOK
  <2>8. \A i, j \in DOMAIN cov : cov[i].inst = cov[j].inst => i = j
    <3>1. \A i, j \in DOMAIN scan : i < j => scan[i].inst < scan[j].inst
      BY <2>6 DEF ScanOK
    <3>2. \A i \in DOMAIN scan : scan[i].inst \in Int
      BY <2>6, CoverageTyped DEF ScanOK
    <3>3. \A i, j \in DOMAIN scan : i = j \/ i < j \/ j < i
      BY <2>6 DEF ScanOK
    <3>4. QED
      BY <2>6, <3>1, <3>2, <3>3
  <2>9. ASSUME NEW i \in DOMAIN cov
        PROVE  /\ {cov[i].min, cov[i].max} \subseteq seqs(cov[i].inst)
               /\ seqs(cov[i].inst) \subseteq cov[i].min .. cov[i].max
               /\ cov[i].count = Cardinality(seqs(cov[i].inst))
               /\ Numbers(cov[i].gaps) = (cov[i].min .. cov[i].max) \ seqs(cov[i].inst)
               /\ Numbers(cov[i].accounted) \subseteq Numbers(cov[i].gaps)
    <3>1. Exact(scan[i], events) /\ i \in DOMAIN scan
      BY <2>6 DEF ScanOK
    <3>2. PICK q : q = seqs(cov[i].inst) /\ q = SeqsOf(events, scan[i].inst)
      BY <2>5, <2>6, <3>1
    <3>3. /\ {cov[i].min, cov[i].max} \subseteq q /\ q \subseteq cov[i].min .. cov[i].max
          /\ cov[i].count = Cardinality(q)
          /\ Numbers(cov[i].gaps) = (cov[i].min .. cov[i].max) \ q
      BY <2>6, <3>1, <3>2 DEF Exact
    <3>4. QED
      BY <2>6, <3>1, <3>2, <3>3
  <2>10. AllExact(cov, events)
    BY <2>7, <2>8, <2>9 DEF AllExact
  <2>11. cov = Collated(manifest.of).coverage
    BY <2>1, <2>3, <2>4
  <2>12. events = {e \in UNION {recording.objects[k].recs : k \in manifest.of} : e.kind = 0}
    BY <2>1 DEF events
  <2>13. AllExact(Collated(manifest.of).coverage,
                  {e \in UNION {recording.objects[k].recs : k \in manifest.of} : e.kind = 0})
    <3> HIDE DEF events
    <3>1. QED
      BY <2>10, <2>11, <2>12, Zenon
  <2>14. QED
    BY <2>13, Zenon DEF CoverageIsExact, AllExact
<1>2. QED
  BY <1>1, SealInvHolds, RecordingStays, PTL

\* When no record is overtaken by one of an object a window or more after its
\* own, merge_runs writes them in seal order without the repair sort, whatever
\* the window (MERGE_WINDOW) is.
THEOREM WindowSuffices == Spec => []OneObjectLateIsMerged
<1>1. SealInv /\ RecordingInv => OneObjectLateIsMerged
  <2> SUFFICES ASSUME SealInv, RecordingInv, Displaced(Collated(Landing).runs)
               PROVE  InOrder(Collated(Landing).merged)
    BY DEF OneObjectLateIsMerged, Displaced
  <2>1. PICK keys, r : keys = Landing /\ r = recording.objects
    OBVIOUS
  <2>2. keys \subseteq Objects
    BY <2>1, LandingCounted DEF SealInv, TypeOK
  <2>3. /\ IsLanding(r) /\ keys \subseteq DOMAIN r
        /\ Collated(keys).runs = Runs(r, keys)
        /\ Collated(keys).merged = Merged(Runs(r, keys))
    BY <2>1, <2>2, CollatedIs
  <2>4. Displaced(Runs(r, keys))
    BY <2>1, <2>3
  <2>5. InOrder(Merged(Runs(r, keys)))
    BY <2>3, <2>4, RunsAreRuns, DisplacedIsMerged
  <2>6. QED
    BY <2>1, <2>3, <2>5
<1>2. QED
  BY <1>1, SealInvHolds, RecordingStays, PTL

-----------------------------------------------------------------------------
(* What a seal reads back as.                                              *)

LEMMA Divides ==
    ASSUME NEW a \in Nat, NEW b \in Nat \ {0}
    PROVE  a \div b \in Nat /\ (a \div b) * b <= a /\ a < (a \div b) * b + b
OBVIOUS

LEMMA Times ==
    ASSUME NEW n \in Nat, NEW b \in Nat \ {0}
    PROVE  /\ n * b \in Nat /\ (n + 1) * b = n * b + b
           /\ \A m \in Nat : n <= m => n * b <= m * b
OBVIOUS

\* A part is a stretch of the events.
LEMMA BodyIs ==
    ASSUME NEW all, NEW events \in Seq(all), NEW q \in Nat, q * PartSize < Len(events)
    PROVE  LET body == Body(events, q + 1)
               end  == IF q * PartSize + PartSize < Len(events)
                         THEN q * PartSize + PartSize ELSE Len(events)
           IN /\ DOMAIN body = 1 .. end - q * PartSize
              /\ \A k \in 1 .. end - q * PartSize : body[k] = events[q * PartSize + k]
<1>1. PartSize \in Nat \ {0}
  BY SealAssumption
<1>2. PICK from, L : from = q * PartSize /\ L = Len(events)
  OBVIOUS
<1>3. from \in Nat /\ L \in Nat /\ from < L /\ (q + 1) * PartSize = from + PartSize
  BY <1>1, <1>2, Times
<1>4. PICK end : end = IF from + PartSize < L THEN from + PartSize ELSE L
  OBVIOUS
<1>5. Body(events, q + 1) = SubSeq(events, from + 1, end)
  <2>1. q + 1 # 0 /\ (q + 1) - 1 = q
    OBVIOUS
  <2>2. QED
    BY <1>2, <1>3, <1>4, <2>1 DEF Body
<1>6. end \in Nat /\ from < end /\ end <= L
  BY <1>1, <1>3, <1>4
<1>7. /\ DOMAIN SubSeq(events, from + 1, end) = 1 .. end - from
      /\ \A k \in 1 .. end - from : SubSeq(events, from + 1, end)[k] = events[from + k]
  BY <1>2, <1>3, <1>6
<1>8. QED
  BY <1>2, <1>4, <1>5, <1>7

\* Event p is in a part, and part n ends no later than the events.
LEMMA PartsReach ==
    ASSUME NEW all, NEW events \in Seq(all)
    PROVE  /\ \A p \in 1 .. Len(events) :
                 \E q \in Nat : /\ q + 1 \in 1 .. Parts(events)
                                /\ q * PartSize < p /\ p <= q * PartSize + PartSize
           /\ \A n \in 1 .. Parts(events) : (n - 1) * PartSize < Len(events)
<1>1. PICK b \in Nat \ {0} : b = PartSize
  BY SealAssumption
<1>2. PICK L \in Nat : L = Len(events)
  OBVIOUS
<1>3. PICK N : N = Parts(events)
  OBVIOUS
<1>4. L + b - 1 \in Nat /\ N = (L + b - 1) \div b
  BY <1>1, <1>2, <1>3 DEF Parts
<1>5. N \in Nat /\ N * b <= L + b - 1 /\ L + b - 1 < N * b + b
  BY <1>4, Divides
<1>6. ASSUME NEW p \in 1 .. L
      PROVE  \E q \in Nat : q + 1 \in 1 .. N /\ q * b < p /\ p <= q * b + b
  <2>1. PICK q : q = (p - 1) \div b
    OBVIOUS
  <2>2. q \in Nat /\ q * b <= p - 1 /\ p - 1 < q * b + b
    BY <2>1, Divides
  <2>3. q < N
    <3> SUFFICES ASSUME N <= q PROVE FALSE
      BY <1>5, <2>2
    <3>1. N * b <= q * b /\ N * b \in Nat /\ q * b \in Nat
      BY <1>5, <2>2, Times
    <3>2. QED
      BY <1>5, <2>2, <3>1
  <2>4. q * b < p /\ p <= q * b + b
    BY <2>2, Times
  <2>5. q + 1 \in 1 .. N
    BY <1>5, <2>2, <2>3
  <2>6. QED
    BY <2>2, <2>4, <2>5
<1>7. ASSUME NEW n \in 1 .. N PROVE (n - 1) * b < L
  <2>1. n - 1 \in Nat /\ n \in Nat /\ (n - 1) + 1 = n
    BY <1>5
  <2>2. n * b = (n - 1) * b + b /\ (n - 1) * b \in Nat
    BY <2>1, Times
  <2>3. n * b <= N * b /\ n * b \in Nat /\ N * b \in Nat
    BY <1>5, <2>1, Times
  <2>4. QED
    BY <1>5, <2>2, <2>3
<1>8. QED
  BY <1>1, <1>2, <1>3, <1>6, <1>7

\* The parts a manifest names, read in their order, are these events.
ReadsAs(m, events) ==
    /\ \A p \in DOMAIN events :
          \E q \in Nat : \E o \in store :
             /\ q + 1 \in DOMAIN m.parts /\ o.key = m.parts[q + 1]
             /\ p - q * PartSize \in DOMAIN o.body
             /\ o.body[p - q * PartSize] = events[p]
    /\ \A q \in Nat : \A o \in store :
          q + 1 \in DOMAIN m.parts /\ o.key = m.parts[q + 1] =>
             \A k \in DOMAIN o.body : /\ q * PartSize + k \in DOMAIN events
                                      /\ o.body[k] = events[q * PartSize + k]

LEMMA PartsReadBack ==
    ASSUME NEW all, NEW events \in Seq(all), NEW m,
           DOMAIN m.parts = 1 .. Parts(events),
           \A n \in 1 .. Parts(events) : m.parts[n] = Key(events, n),
           HoldsParts(events), \A o \in store : o.body = Body(o.key[1], o.key[2])
    PROVE  ReadsAs(m, events)
<1>1. PartSize \in Nat \ {0} /\ Len(events) \in Nat /\ DOMAIN events = 1 .. Len(events)
  BY SealAssumption
<1>2. ASSUME NEW p \in 1 .. Len(events)
      PROVE  \E q \in Nat : \E o \in store :
                /\ q + 1 \in DOMAIN m.parts /\ o.key = m.parts[q + 1]
                /\ p - q * PartSize \in DOMAIN o.body
                /\ o.body[p - q * PartSize] = events[p]
  <2>1. PICK q \in Nat : /\ q + 1 \in 1 .. Parts(events)
                         /\ q * PartSize < p /\ p <= q * PartSize + PartSize
    BY PartsReach
  <2>2. PICK o \in store : o.key = Key(events, q + 1) /\ o.body = Body(events, q + 1)
    BY <2>1 DEF HoldsParts, Holds
  <2>3. PICK from : from = q * PartSize
    OBVIOUS
  <2>4. from \in Nat /\ from < p /\ p <= from + PartSize /\ from < Len(events)
    BY <1>1, <2>1, <2>3, Times
  <2>5. PICK end : end = IF from + PartSize < Len(events) THEN from + PartSize ELSE Len(events)
    OBVIOUS
  <2>6. /\ DOMAIN o.body = 1 .. end - from
        /\ \A k \in 1 .. end - from : o.body[k] = events[from + k]
    BY <2>2, <2>3, <2>4, <2>5, BodyIs
  <2>7. p - from \in 1 .. end - from /\ from + (p - from) = p
    <3>1. PICK L \in Nat : L = Len(events)
      BY <1>1
    <3>2. p \in 1 .. L /\ end = IF from + PartSize < L THEN from + PartSize ELSE L
      BY <2>5, <3>1
    <3>3. end \in Nat /\ p <= end
      BY <1>1, <2>4, <3>2
    <3>4. QED
      BY <2>4, <3>2, <3>3
  <2>8. QED
    BY <2>1, <2>2, <2>3, <2>6, <2>7
<1>3. ASSUME NEW q \in Nat, NEW o \in store, q + 1 \in DOMAIN m.parts, o.key = m.parts[q + 1],
             NEW k \in DOMAIN o.body
      PROVE  q * PartSize + k \in DOMAIN events /\ o.body[k] = events[q * PartSize + k]
  <2>1. o.key = Key(events, q + 1)
    BY <1>3
  <2>2. o.key[1] = events /\ o.key[2] = q + 1
    BY <2>1 DEF Key
  <2>3. o.body = Body(events, q + 1)
    BY <2>2
  <2>4. PICK from : from = q * PartSize
    OBVIOUS
  <2>5. from \in Nat /\ from < Len(events)
    <3>1. q + 1 \in 1 .. Parts(events) /\ (q + 1) - 1 = q
      BY <1>3
    <3>2. ((q + 1) - 1) * PartSize < Len(events)
      BY <3>1, PartsReach
    <3>3. QED
      BY <1>1, <2>4, <3>1, <3>2, Times
  <2>6. PICK end : end = IF from + PartSize < Len(events) THEN from + PartSize ELSE Len(events)
    OBVIOUS
  <2>7. /\ DOMAIN o.body = 1 .. end - from
        /\ \A j \in 1 .. end - from : o.body[j] = events[from + j]
    BY <2>3, <2>4, <2>5, <2>6, BodyIs
  <2>8. k \in 1 .. end - from /\ from + k \in 1 .. Len(events)
    <3>1. PICK L \in Nat : L = Len(events)
      BY <1>1
    <3>2. k \in 1 .. end - from /\ end = IF from + PartSize < L THEN from + PartSize ELSE L
      BY <2>6, <2>7, <3>1
    <3>3. end \in Nat /\ end <= L
      BY <1>1, <2>5, <3>2
    <3>4. from + k \in 1 .. L
      BY <2>5, <3>2, <3>3
    <3>5. QED
      BY <3>1, <3>2, <3>4
  <2>9. QED
    BY <1>1, <2>4, <2>7, <2>8
<1>4. QED
  BY <1>1, <1>2, <1>3 DEF ReadsAs

\* Every seal ever published, whoever overwrote or survived it, reads back from
\* its parts (write_seal) as the records of the objects it was made of, each of
\* them once and in seal order.
THEOREM SealsReadBack ==
    Spec => [](\A m \in published :
                 /\ InSealOrder(Collated(m.of).events, Held(recording.objects, m.of))
                 /\ ReadsAs(m, Collated(m.of).events))
<1> DEFINE ReadBack(m) == /\ InSealOrder(Collated(m.of).events, Held(recording.objects, m.of))
                          /\ ReadsAs(m, Collated(m.of).events)
<1>1. SealInv /\ RecordingInv => \A m \in published : ReadBack(m)
  <2> SUFFICES ASSUME SealInv, RecordingInv, NEW m \in published PROVE ReadBack(m)
    OBVIOUS
  <2>1. PICK keys, r, events :
          keys = m.of /\ r = recording.objects /\ events = Collated(m.of).events
    OBVIOUS
  <2>2. m = Manifest(keys) /\ keys \subseteq Objects
    BY <2>1 DEF SealInv, TypeOK, ManifestInv
  <2>3. IsLanding(r) /\ keys \subseteq DOMAIN r /\ events = Events(r, keys)
    BY <2>1, <2>2, CollatedIs
  <2>4. InSealOrder(events, Held(r, keys))
    BY <2>3, EventsInSealOrder
  <2>5. events \in Seq(Held(r, keys))
    <3>1. PICK all, C : all = Held(r, keys) /\ C = Cardinality(all)
      OBVIOUS
    <3>2. C \in Nat /\ events \in [1 .. C -> all]
      BY <2>4, <3>1 DEF InSealOrder
    <3>3. QED
      BY <3>1, <3>2
  <2>6. HoldsParts(events) /\ \A o \in store : o.body = Body(o.key[1], o.key[2])
    BY <2>1 DEF SealInv, StoreInv
  <2>7. /\ DOMAIN m.parts = 1 .. Parts(events)
        /\ \A n \in 1 .. Parts(events) : m.parts[n] = Key(events, n)
    BY <2>1, <2>2, ManifestFields
  <2>8. ReadsAs(m, events)
    BY <2>5, <2>6, <2>7, PartsReadBack
  <2>9. QED
    BY <2>1, <2>4, <2>8
<1>2. QED
  BY <1>1, SealInvHolds, RecordingStays, PTL
=============================================================================
