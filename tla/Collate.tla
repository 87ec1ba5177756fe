------------------------------- MODULE Collate ------------------------------
(***************************************************************************)
(* What a seal is made of (crates/deja-compactor/src/lib.rs: collate_runs, *)
(* merge_runs, the coverage scan and the parts of write_seal), as operators*)
(* on the landing objects of one session.                                  *)
(*                                                                         *)
(* A landing object is [inst, recs, shed]: the producer its key names, the *)
(* records in it (the order inside an object is undone at once, a run that *)
(* is not sorted is sorted) and the ranges its dropped markers name.  A    *)
(* record is [inst, seq, kind], kind 0 for a boundary event and 1 for a    *)
(* graph node.  Instances are numbers, in the order of their names.        *)
(***************************************************************************)
EXTENDS Integers, Sequences, FiniteSets, SequencesExt

CONSTANT Window \* MERGE_WINDOW: how many runs the merge holds

ASSUME WindowAssumption == Window \in Nat \ {0}

Record == [inst : Int, seq : Nat, kind : {0, 1}]

\* What a landing object can be: sets of records have an end.
Object == [inst : Int, recs : SUBSET Record, shed : SUBSET (Nat \X Nat)]

\* seal_order: instance, then sequence, then kind.
Before(a, b) ==
    \/ a.inst < b.inst
    \/ a.inst = b.inst /\ \/ a.seq < b.seq
                          \/ a.seq = b.seq /\ a.kind < b.kind

InOrder(events) ==
    \A i \in 1 .. Len(events) - 1 : Before(events[i], events[i + 1])

Least(S) == CHOOSE a \in S : \A b \in S \ {a} : Before(a, b)

\* The elements of rank's domain, each once: the one of rank 0 first.
ByRank(rank) ==
    LET S == DOMAIN rank
    IN [n \in 1 .. Cardinality(S) |-> CHOOSE e \in S : rank[e] = n - 1]

-----------------------------------------------------------------------------
(* Objects of a landing, and the runs they become.                         *)

\* compact_session_inner lists a landing by instance, then by key.
InstanceFirst(landing, keys) ==
    ByRank([k \in keys |-> Cardinality({j \in keys :
                \/ landing[j].inst < landing[k].inst
                \/ landing[j].inst = landing[k].inst /\ j < k})])

\* Each object is a run, of what no earlier object held.
Runs(landing, keys) ==
    LET order == InstanceFirst(landing, keys)
    IN [i \in DOMAIN order |->
          landing[order[i]].recs \ UNION {landing[order[j]].recs : j \in 1 .. i - 1}]

\* What the objects come to once they are decompressed, in envelope lines.
Weight(landing, keys) ==
    Cardinality(UNION {{k} \X landing[k].recs : k \in keys})
      + Cardinality(UNION {{k} \X landing[k].shed : k \in keys})

-----------------------------------------------------------------------------
(* merge_runs.                                                             *)

Live(runs, done, open) == {r \in 1 .. open : ~(runs[r] \subseteq done)}

\* variant: the window is refilled only when all it held is spent
AdmittedInBatches(runs, done) ==
    LET full == {o \in 1 .. Len(runs) :
                   /\ o % Window = 0 \/ o = Len(runs)
                   /\ Live(runs, done, o) # {} \/ o = Len(runs)}
    IN CHOOSE o \in full : \A q \in full : o <= q

\* Runs are admitted until Window of them are live.
Admitted(runs, done) ==
    LET full == {o \in 1 .. Len(runs) :
                   Cardinality(Live(runs, done, o)) >= Window \/ o = Len(runs)}
    IN CHOOSE o \in full : \A q \in full : o <= q

\* What the admitted runs hold that is not written yet.
InWindow(runs, out) ==
    (UNION {runs[r] : r \in 1 .. Admitted(runs, ToSet(out))}) \ ToSet(out)

\* The least head is written next.
Taken(runs, out) == Append(out, Least(InWindow(runs, out)))

\* Heads are taken until all runs are dry.
Merged(runs) ==
    LET all == UNION {runs[r] : r \in DOMAIN runs}
        after[n \in 0 .. Cardinality(all)] ==
            IF n = 0 THEN <<>> ELSE Taken(runs, after[n - 1])
    IN after[Cardinality(all)]

\* variant: written as merged
EventsAsMerged(landing, keys) == Merged(Runs(landing, keys))

\* The records of a set, sorted.
Sorted(S) == ByRank([e \in S |-> Cardinality({x \in S : Before(x, e)})])

\* The accepted records, sorted after all when the window was beaten.
Events(landing, keys) ==
    LET merged == Merged(Runs(landing, keys))
    IN IF InOrder(merged) THEN merged
       ELSE Sorted(ToSet(merged))

-----------------------------------------------------------------------------
(* The coverage of each instance, one scan over its boundary events.       *)

NewCoverage(e) == [inst |-> e.inst, min |-> e.seq, max |-> e.seq, count |-> 1,
                   gaps |-> {}, accounted |-> {}]

Gap(max, seq) == IF seq > max + 1 THEN {<<max + 1, seq - 1>>} ELSE {}

Extended(cov, e) ==
    [cov EXCEPT !.gaps = @ \cup Gap(cov.max, e.seq), !.max = e.seq, !.count = @ + 1]

Scanned(done, e) ==
    IF e.kind # 0 THEN done
    ELSE IF done # <<>> /\ Last(done).inst = e.inst
      THEN [done EXCEPT ![Len(done)] = Extended(@, e)]
      ELSE Append(done, NewCoverage(e))

Scan(events) ==
    LET scan[n \in 0 .. Len(events)] ==
            IF n = 0 THEN <<>> ELSE Scanned(scan[n - 1], events[n])
    IN scan[Len(events)]

\* What the recorder says it shed explains a gap it lies in.
Accounted(shed, gaps) == {r \in shed : \E g \in gaps : r[1] >= g[1] /\ r[2] <= g[2]}

Coverage(landing, keys) ==
    LET scan == Scan(Events(landing, keys))
        shed(i) == UNION {landing[k].shed : k \in {k \in keys : landing[k].inst = i}}
    IN [i \in DOMAIN scan |->
          [scan[i] EXCEPT !.accounted = Accounted(shed(scan[i].inst), scan[i].gaps)]]
=============================================================================
