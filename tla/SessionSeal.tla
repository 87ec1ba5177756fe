----------------------------- MODULE SessionSeal ----------------------------
(***************************************************************************)
(* Sealing one recorded session in the object store (crates/deja-compactor:*)
(* plan_in, seal_outcome_in, readiness_of, seal_decision,                  *)
(* compact_session_inner and write_seal).                                  *)
(*                                                                         *)
(* The aggregator lands objects; sealers, which take no lock, turn what has*)
(* landed into data parts, an index and, last, the manifest that replays   *)
(* read instead of the landing.  A lifecycle rule may sweep what a seal    *)
(* covers.  A step is one call of the store: a listing, a get or a put.    *)
(***************************************************************************)
EXTENDS Collate

CONSTANTS
    Sealers,
    Cron,      \* those of them the cron runs: the others are started by hand
    Landings,  \* the recordings considered: sequences of objects, by key
    Budget,    \* DEJA_SEAL_MAX_LANDING_BYTES, in lines; without one, more than can land
    PartSize,  \* PART_MAX_EVENTS
    Nothing,   \* no manifest
    MaxFaults  \* bound: sealers that stop, and objects the lifecycle rule removes

ASSUME SealAssumption ==
    /\ Cron \subseteq Sealers
    /\ {PartSize, Budget} \subseteq Nat \ {0} /\ MaxFaults \in Nat
    /\ \A r \in Landings : r \in Seq(Object) /\ \A k \in DOMAIN r : IsFiniteSet(r[k].recs)

VARIABLES
    recording, \* what the aggregator lands
    landed,    \* the objects that have landed
    swept,     \* those the lifecycle rule has removed
    quiet,     \* nothing has landed for the quiet period
    store,     \* objects under sessions/v1/<id>/: key and body
    manifest,  \* sessions/v1/<id>/manifest.json
    sealer,
    published, \* every manifest ever put (history)
    faults     \* how many more faults may happen

vars == <<recording, landed, swept, quiet, store, manifest, sealer, published, faults>>

-----------------------------------------------------------------------------
\* A recording, with what every set of its objects collates to.
Recording(r) ==
    [objects |-> r,
     collated |-> [keys \in SUBSET DOMAIN r |->
        [runs |-> Runs(r, keys), merged |-> Merged(Runs(r, keys)),
         events |-> Events(r, keys), coverage |-> Coverage(r, keys),
         weight |-> Weight(r, keys)]]]

Objects == DOMAIN recording.objects
Collated(keys) == recording.collated[keys]

Landing == landed \ swept

\* The index is part 0; the bodies are what the keys address.
Parts(events) == (Len(events) + PartSize - 1) \div PartSize
Body(events, n) ==
    IF n = 0 THEN events
    ELSE SubSeq(events, (n - 1) * PartSize + 1,
                IF n * PartSize < Len(events) THEN n * PartSize ELSE Len(events))

\* variant: named by the session alone
KeyOfSession(events, n) == <<<<>>, n>>

\* part_key and correlations_key: under the seal's id, a hash of its events.
Key(events, n) == <<events, n>>

Put(key, body) == {o \in store : o.key # key} \cup {[key |-> key, body |-> body]}

\* The manifest of a seal: `of' is not in the file but fixes what is, its
\* coverage too.
Manifest(keys) ==
    LET events == Collated(keys).events
    IN [parts |-> [n \in 1 .. Parts(events) |-> Key(events, n)],
        objects |-> Cardinality(keys), of |-> keys]

Idle == [pc |-> "idle", saw |-> Nothing, count |-> 0, keys |-> {}, n |-> 0]

TypeOK ==
    /\ recording.objects \in Landings /\ landed \subseteq Objects
    /\ swept \subseteq landed /\ quiet \in BOOLEAN
    /\ manifest = Nothing \/ manifest \in published
    /\ \A s \in Sealers :
         /\ sealer[s].pc \in {"idle", "plan", "manifest", "landing", "list", "get",
                              "put", "publish"}
         /\ sealer[s].saw = Nothing \/ sealer[s].saw \in published
         /\ sealer[s].keys \subseteq landed

Init ==
    /\ recording \in {Recording(r) : r \in Landings}
    /\ landed = {} /\ swept = {} /\ quiet = TRUE
    /\ store = {} /\ manifest = Nothing /\ published = {}
    /\ sealer = [s \in Sealers |-> Idle]
    /\ faults = MaxFaults

Fault == faults > 0 /\ faults' = faults - 1

-----------------------------------------------------------------------------
(* The aggregator, the clock and the lifecycle rule.                       *)

Land(k) ==
    /\ k \notin landed
    /\ landed' = landed \cup {k} /\ quiet' = FALSE
    /\ UNCHANGED <<recording, swept, store, manifest, sealer, published, faults>>

GoQuiet ==
    /\ ~quiet /\ quiet' = TRUE
    /\ UNCHANGED <<recording, landed, swept, store, manifest, sealer, published, faults>>

\* What a seal covers may be removed from the landing.
Sweep(k) ==
    /\ manifest # Nothing /\ k \in manifest.of \ swept /\ Fault
    /\ swept' = swept \cup {k}
    /\ UNCHANGED <<recording, landed, quiet, store, manifest, sealer, published>>

-----------------------------------------------------------------------------
(* A sealer.                                                               *)

Sealer(s, pc) == sealer[s].pc = pc
Goes(s, to)   == sealer' = [sealer EXCEPT ![s] = to]
Reads == UNCHANGED <<recording, landed, swept, quiet, store, manifest, published, faults>>

\* A pass lists what has landed to plan by.
BeginPass(s) ==
    /\ s \in Cron /\ Sealer(s, "idle") /\ Landing # {}
    /\ Goes(s, [Idle EXCEPT !.pc = "plan", !.count = Cardinality(Landing)])
    /\ Reads

\* By hand: `seal' plans nothing, and `compact' asks nothing at all.
BeginByHand(s) ==
    /\ s \notin Cron /\ Sealer(s, "idle")
    /\ \E pc \in {"manifest", "list"} : Goes(s, [Idle EXCEPT !.pc = pc])
    /\ Reads

\* variant: the shell loop's filter
UnsealedOnly(found, objects) == found = Nothing

\* plan_in: no seal, or a landing grown past it.
Planned(found, objects) == found = Nothing \/ objects > found.objects

Plan(s) ==
    /\ Sealer(s, "plan")
    /\ Goes(s, IF Planned(manifest, sealer[s].count)
                 THEN [Idle EXCEPT !.pc = "manifest"] ELSE Idle)
    /\ Reads

ReadManifest(s) ==
    /\ Sealer(s, "manifest")
    /\ Goes(s, [sealer[s] EXCEPT !.pc = "landing", !.saw = manifest])
    /\ Reads

\* variant: one object of slack
CurrentButOne(found, objects) == found # Nothing /\ objects <= found.objects + 1

\* seal_decision: AlreadyCurrent.
Current(found, objects) == found # Nothing /\ objects <= found.objects

\* readiness_of and seal_decision: a listing, then for a landing that has gone
\* quiet the end markers, which change what is said and not what is done.
ReadLanding(s) ==
    /\ Sealer(s, "landing")
    /\ Goes(s, IF Current(sealer[s].saw, Cardinality(Landing)) \/ Landing = {} \/ ~quiet
                 THEN Idle ELSE [Idle EXCEPT !.pc = "list"])
    /\ Reads

\* compact_session_inner lists again.
List(s) ==
    /\ Sealer(s, "list")
    /\ Goes(s, IF Landing = {} THEN Idle
               ELSE [sealer[s] EXCEPT !.pc = "get", !.keys = Landing])
    /\ Reads

\* RefusedTooLarge: the cron holds no more than its budget of one session.
TooLarge(keys) == Collated(keys).weight > Budget

\* The objects are immutable: all of them are there still, or the sealer
\* fails.  It refuses to seal no records.
Get(s) ==
    LET keys == sealer[s].keys
    IN /\ Sealer(s, "get")
       /\ Goes(s, IF /\ keys \subseteq Landing /\ Collated(keys).events # <<>>
                     /\ s \in Cron => ~TooLarge(keys)
                    THEN [sealer[s] EXCEPT !.pc = "put", !.n = 1] ELSE Idle)
       /\ Reads

\* write_seal puts the data parts in order and then the index.
PutPart(s) ==
    LET events == Collated(sealer[s].keys).events
        n == sealer[s].n
    IN /\ Sealer(s, "put")
       /\ store' = Put(Key(events, n), Body(events, n))
       /\ Goes(s, CASE n = 0 -> [sealer[s] EXCEPT !.pc = "publish"]
                    [] n # 0 /\ n = Parts(events) -> [sealer[s] EXCEPT !.n = 0]
                    [] OTHER -> [sealer[s] EXCEPT !.n = @ + 1])
       /\ UNCHANGED <<recording, landed, swept, quiet, manifest, published, faults>>

\* The manifest is the last put.
Publish(s) ==
    /\ Sealer(s, "publish")
    /\ manifest' = Manifest(sealer[s].keys)
    /\ published' = published \cup {manifest'}
    /\ Goes(s, Idle)
    /\ UNCHANGED <<recording, landed, swept, quiet, store, faults>>

\* Killed, or a call that fails: what was put stays.
Stop(s) ==
    /\ ~Sealer(s, "idle") /\ Fault
    /\ Goes(s, Idle)
    /\ UNCHANGED <<recording, landed, swept, quiet, store, manifest, published>>

-----------------------------------------------------------------------------
Step(s) == \/ Plan(s) \/ ReadManifest(s) \/ ReadLanding(s) \/ List(s) \/ Get(s)
           \/ PutPart(s) \/ Publish(s)

Next ==
    \/ \E k \in Objects : Land(k) \/ Sweep(k)
    \/ GoQuiet
    \/ \E s \in Sealers : BeginPass(s) \/ BeginByHand(s) \/ Step(s) \/ Stop(s)

Spec == Init /\ [][Next]_vars

\* Time passes, the cron starts a pass whenever none runs, and a pass goes on
\* until it ends or stops.
Fairness ==
    /\ WF_vars(GoQuiet)
    /\ \A s \in Cron : WF_vars(BeginPass(s)) /\ WF_vars(Step(s))

FairSpec == Spec /\ Fairness

-----------------------------------------------------------------------------
(* Properties                                                              *)

Whole(m) ==
    LET events == Collated(m.of).events
    IN \A n \in {0} \cup DOMAIN m.parts :
         \E o \in store : /\ o.key = (IF n = 0 THEN Key(events, 0) ELSE m.parts[n])
                          /\ o.body = Body(events, n)

\* Whatever the sealers do to one another and wherever one is killed, every
\* manifest a reader may hold names parts and an index that are in the store
\* and say exactly what its objects said, then and ever after.
PublishedStaysWhole == \A m \in published : Whole(m)

Numbers(ranges) == UNION {r[1] .. r[2] : r \in ranges}

\* A manifest lists each producer of an event once, with the first and last of
\* its events and the numbers between them that did not land for its gaps,
\* though objects overlap, repeat or beat the merge window; what it says the
\* recorder shed is part of those gaps.
CoverageIsExact ==
    manifest # Nothing =>
        LET cov == Collated(manifest.of).coverage
            events == {e \in UNION {recording.objects[k].recs : k \in manifest.of} : e.kind = 0}
            seqs(i) == {e.seq : e \in {e \in events : e.inst = i}}
        IN /\ {cov[i].inst : i \in DOMAIN cov} = {e.inst : e \in events}
           /\ \A i, j \in DOMAIN cov : cov[i].inst = cov[j].inst => i = j
           /\ \A i \in DOMAIN cov :
                /\ {cov[i].min, cov[i].max} \subseteq seqs(cov[i].inst)
                /\ seqs(cov[i].inst) \subseteq cov[i].min .. cov[i].max
                /\ cov[i].count = Cardinality(seqs(cov[i].inst))
                /\ Numbers(cov[i].gaps) = (cov[i].min .. cov[i].max) \ seqs(cov[i].inst)
                /\ Numbers(cov[i].accounted) \subseteq Numbers(cov[i].gaps)

\* MERGE_WINDOW: when no record is overtaken by one of an object a window or
\* more after its own, the merge alone puts them in order.
OneObjectLateIsMerged ==
    LET runs == Collated(Landing).runs
    IN (\A i, j \in DOMAIN runs :
          j >= i + Window => \A a \in runs[i], b \in runs[j] : Before(a, b))
         => InOrder(Collated(Landing).merged)

\* A sealer that finds a seal current is right: when nothing was swept, the
\* manifest it read covers all that had landed when it looked.
CurrentIsCovered ==
    \A s \in Sealers :
        (/\ Sealer(s, "landing") /\ swept = {}
         /\ Current(sealer[s].saw, Cardinality(Landing)))
          => sealer[s].saw.of = Landing

\* Unless objects are swept, what lands is sealed in the end, a landing that
\* resumed after its seal and a seal overwritten by a shorter one included, or
\* has outgrown what the cron will hold.
LandedIsSealed ==
    (\E k \in landed : recording.objects[k].recs # {})
      ~> \/ swept # {} \/ TooLarge(landed)
         \/ manifest # Nothing /\ manifest.of = landed

=============================================================================
