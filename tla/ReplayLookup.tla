---------------------------- MODULE ReplayLookup -----------------------------
(***************************************************************************)
(* The lookup a replay substitutes from: the table the orchestrator renders*)
(* off a recording (crates/deja-orchestrator/src/lookup/mod.rs) and the    *)
(* hook that answers the candidate's calls out of it (crates/deja-runtime/ *)
(* src/replay.rs).  A request runs in concurrent branches, each in a span  *)
(* of its own; recording and candidate interleave them as they like.       *)
(*                                                                         *)
(* A call is addressed by loci, strongest first, and at each of them by its*)
(* operation, its arguments and its occurrence: how many calls came before *)
(* it in that scope.  Both sides must count alike or a call is answered    *)
(* with another call's row.  Keys of two correlations or two lineage       *)
(* buckets never meet, so one of each is modelled.                         *)
(*                                                                         *)
(* A counter is not a variable here: it stands at the number of earlier    *)
(* calls in its scope, as every call advances it whatever became of it.    *)
(***************************************************************************)
EXTENDS Integers, Sequences, FiniteSets

CONSTANTS
    Branches,    \* concurrent branches of the request
    Path,        \* the span path of each: branches of one path are twins
    Recordings,  \* what may be recorded: a sequence of calls per branch
    Candidates,  \* what a candidate of each may do instead
    Entropy,     \* the operations of the time, id and rng boundaries
    Argless,     \* arguments that are null or an empty object
    SetLike,     \* arguments identity applies to
    Identity,    \* what identity reads in each of those
    Policies,    \* ArgMismatchPolicy of the deployment
    None         \* no tag, no instance

\* What a call of the application says of itself.
CallType == [op : STRING, arg : STRING, tag : STRING \cup {None},
             site : STRING \cup {None}]

ASSUME LookupAssumption ==
    /\ Path \in [Branches -> STRING] /\ None \notin Branches \cup STRING
    /\ Recordings \subseteq [Branches -> Seq(CallType)]
    /\ \A r \in Recordings : Candidates[r] \subseteq [Branches -> Seq(CallType)]
    /\ Policies \subseteq {"Never", "OnlyForArgful", "Always"}
    /\ DOMAIN Identity = SetLike

VARIABLES
    script,     \* the recorded program
    tape,       \* its events so far, in the order of their global sequence
    legacy,     \* captured before span instances were
    candidate,  \* the candidate's program; the recorded one until it boots
    place,      \* whose place in the order of span creation each branch took
    policy,     \* ArgMismatchPolicy; "unset" until the candidate boots
    calls,      \* its calls so far and what each was answered with
    claimed     \* events claimed by an exact answer

vars == <<script, tape, legacy, candidate, place, policy, calls, claimed>>

-----------------------------------------------------------------------------
(* Addresses.                                                              *)

\* variant: the plain path is tried before the instance
OrderPathFirst ==
    [declared |-> 1, instance |-> 3, path |-> 2, source |-> 4, unlocated |-> 5]

\* The order loci are tried in.
Order == [declared |-> 1, instance |-> 2, path |-> 3, source |-> 4, unlocated |-> 5]

Stronger(l, m) == Order[l.kind] < Order[m.kind]

\* loci_for: where a call is, each only when it is known, the last one always.
Loci(c) == {l \in {[kind |-> "declared",  at |-> c.tag],
                   [kind |-> "instance",  at |-> c.instance],
                   [kind |-> "path",      at |-> c.path],
                   [kind |-> "source",    at |-> c.site],
                   [kind |-> "unlocated", at |-> "anywhere"]} : l.at # None}

At(c, l) == l \in Loci(c)

\* What a scope is made of besides the locus.
Exact(c)      == <<c.op, c.arg>>
ByIdentity(c) == IF c.arg \in SetLike THEN <<c.op, "set", Identity[c.arg]>> ELSE Exact(c)
AnyArgs(c)    == <<c.op>>
Scope(c, by)  == CASE by = "exact"    -> Exact(c)
                   [] by = "identity" -> ByIdentity(c)
                   [] by = "any"      -> AnyArgs(c)

\* The occurrence of call c at locus l after the calls `before'.
Occurrence(c, before, l, by) ==
    Cardinality({j \in DOMAIN before :
                    At(before[j], l) /\ Scope(before[j], by) = Scope(c, by)})

\* variant: the args-free sequence counts only what exact answers left over
OccurrenceOfMisses(c, before, l) ==
    Cardinality({j \in DOMAIN before : /\ At(before[j], l)
                                       /\ AnyArgs(before[j]) = AnyArgs(c)
                                       /\ before[j].how # "exact"})

\* The args-free sequence counts every call.
ArgFreeOccurrence(c, before, l) == Occurrence(c, before, l, "any")

\* The row the table holds for an address: the event with that occurrence.
Rows(c, l, by, occurrence) ==
    {e \in DOMAIN tape :
        /\ At(tape[e], l) /\ Scope(tape[e], by) = Scope(c, by)
        /\ Occurrence(tape[e], SubSeq(tape, 1, e - 1), l, by) = occurrence}

\* The table has identity entries, and has instance loci.
HasIdentities == \E e \in DOMAIN tape : tape[e].arg \in SetLike
Tracking      == \E e \in DOMAIN tape : tape[e].instance # None

-----------------------------------------------------------------------------
(* What a call is answered.                                                *)

\* variant: every row of the address will do
UnclaimedAlways(rows) == rows

Unclaimed(rows) == rows \ claimed

\* The row of the strongest locus with one that nobody claimed; 0: none.
Strongest(c, by) ==
    LET stands(l) == IF by = "any" THEN ArgFreeOccurrence(c, calls, l)
                     ELSE Occurrence(c, calls, l, by)
        open(l) == Unclaimed(Rows(c, l, by, stands(l)))
        first   == UNION {open(l) : l \in {m \in Loci(c) :
                             \A k \in Loci(c) : Stronger(k, m) => open(k) = {}}}
    IN IF first = {} THEN 0 ELSE CHOOSE e \in first : TRUE

ExactRow(c) ==
    Strongest(c, IF HasIdentities /\ c.arg \in SetLike THEN "identity" ELSE "exact")

AddressRow(c) == Strongest(c, "any")

AllowsArgMismatch(arg) ==
    \/ policy = "Always"
    \/ policy = "OnlyForArgful" /\ arg \notin Argless

\* Only a substituted call is answered by its address alone, an executed one
\* has the real boundary under it; and never one of an entropy boundary.
ByAddress(c, mode) ==
    mode = "lookup" /\ AllowsArgMismatch(c.arg) /\ c.op \notin Entropy

Answer(c, mode) ==
    IF ExactRow(c) # 0 THEN [how |-> "exact", row |-> ExactRow(c)]
    ELSE IF ByAddress(c, mode) /\ AddressRow(c) # 0
      THEN [how |-> "address", row |-> AddressRow(c)]
      ELSE [how |-> "missed", row |-> 0]

-----------------------------------------------------------------------------
Of(b, s) == Cardinality({i \in DOMAIN s : s[i].branch = b})
Finished(program, s) == \A b \in Branches : Of(b, s) = Len(program[b])

Twins(b) == {x \in Branches : Path[x] = Path[b]}
Creations == {f \in [Branches -> Branches] :
                 /\ \A b \in Branches : f[b] \in Twins(b)
                 /\ \A b, x \in Branches : f[b] = f[x] => b = x}
AsRecorded == [b \in Branches |-> b]

\* The next call of branch b, in the span instance `instance'.
Call(program, s, b, instance) ==
    LET n == Of(b, s) + 1
        c == program[b][n]
    IN [branch |-> b, nth |-> n, op |-> c.op, arg |-> c.arg, tag |-> c.tag,
        site |-> c.site, path |-> Path[b], instance |-> instance]

Answered(c, mode, answer) ==
    [branch |-> c.branch, nth |-> c.nth, op |-> c.op, arg |-> c.arg, tag |-> c.tag,
     site |-> c.site, path |-> c.path, instance |-> c.instance,
     mode |-> mode, how |-> answer.how, row |-> answer.row]

Init ==
    /\ script \in Recordings /\ candidate = script
    /\ legacy \in BOOLEAN
    /\ tape = <<>> /\ calls = <<>> /\ claimed = {}
    /\ place = AsRecorded
    /\ policy = "unset"

\* The recording: the branches' calls in the order they arrived.
Capture(b) ==
    /\ policy = "unset" /\ Of(b, tape) < Len(script[b])
    /\ tape' = Append(tape, Call(script, tape, b, IF legacy THEN None ELSE b))
    /\ UNCHANGED <<script, legacy, candidate, place, policy, calls, claimed>>

\* A candidate boots with the table rendered of it; where spans are created
\* after an await, twins may have taken each other's place.
Boot ==
    /\ policy = "unset" /\ Finished(script, tape)
    /\ policy' \in Policies
    /\ candidate' \in Candidates[script] \cup {script}
    /\ place' \in Creations
    /\ UNCHANGED <<script, tape, legacy, calls, claimed>>

\* One call of the candidate: stamped, looked up and claimed under the locks.
Resolve(b, mode) ==
    /\ policy # "unset" /\ Of(b, calls) < Len(candidate[b])
    /\ LET c == Call(candidate, calls, b, place[b])
           a == Answer(c, mode)
       IN /\ calls' = Append(calls, Answered(c, mode, a))
          /\ claimed' = IF Tracking /\ a.how = "exact"
                          THEN claimed \cup {a.row} ELSE claimed
    /\ UNCHANGED <<script, tape, legacy, candidate, place, policy>>

Done == policy # "unset" /\ Finished(candidate, calls) /\ UNCHANGED vars

Next ==
    \/ \E b \in Branches : Capture(b)
    \/ Boot
    \/ \E b \in Branches : Resolve(b, "lookup") \/ Resolve(b, "execute")
    \/ Done

Spec == Init /\ [][Next]_vars

-----------------------------------------------------------------------------
(* Properties                                                              *)

Unraced  == place = AsRecorded
Untagged == \A e \in DOMAIN tape : tape[e].tag = None

\* Answered with the event its own branch recorded at this point of it.
Own(c) == /\ c.how = "exact"
          /\ tape[c.row].branch = c.branch /\ tape[c.row].nth = c.nth

\* However the candidate differs, no recorded event is the exact answer of
\* two calls, whichever locus and whichever of the two tables found it.
ServedOnce ==
    Tracking => \A i, j \in DOMAIN calls :
        i # j /\ calls[i].how = "exact" /\ calls[j].how = "exact"
            => calls[i].row # calls[j].row

\* A candidate that does what was recorded is answered everywhere, with a row
\* for each call, in whatever order the branches run on either side; and with
\* span instances on the tape twins are told apart.  (A tag is one site
\* wherever it is used: calls that share one go by arrival, and without
\* instances they may share a row with a call that has none.)
UnchangedIsAnswered ==
    candidate = script /\ (IF legacy THEN Untagged ELSE Unraced) =>
        /\ \A i \in DOMAIN calls : calls[i].how = "exact"
        /\ \A i, j \in DOMAIN calls : i # j => calls[i].row # calls[j].row
        /\ ~legacy => \A i \in DOMAIN calls : calls[i].tag = None => Own(calls[i])

\* The candidate differs from the recording in the arguments of call n of
\* branch b alone: they were recorded nowhere, and those recorded there are
\* at no other call of the branch.
OnlyMoved(b, n) ==
    LET was == script[b][n]
        now == candidate[b][n]
        key(c) == ByIdentity(c)
    IN /\ candidate = [script EXCEPT ![b][n].arg = now.arg] /\ now # was
       /\ was.tag = None /\ was.op \notin Entropy /\ AllowsArgMismatch(now.arg)
       /\ \A e \in DOMAIN tape : key(tape[e]) # key(now)
       /\ \A m \in DOMAIN script[b] : key(script[b][m]) = key(was) => m = n

\* When one call's arguments moved, that call is answered with the row of the
\* event it was, marked as answered by its address, and every other call is
\* answered as if nothing had happened, in any interleaving and whichever
\* calls are executed instead of substituted.
MovedIsAnsweredByAddress ==
    Tracking /\ Unraced => \A b \in Branches : \A n \in DOMAIN script[b] :
        n \in DOMAIN candidate[b] /\ OnlyMoved(b, n) =>
            \A i \in DOMAIN calls :
                IF calls[i].branch = b /\ calls[i].nth = n
                  THEN calls[i].mode = "lookup" =>
                         /\ calls[i].how = "address"
                         /\ tape[calls[i].row].branch = b
                         /\ tape[calls[i].row].nth = n
                  ELSE calls[i].tag = None => Own(calls[i])

\* Where the twins' spans were created in another order, the plain path still
\* finds every call a row.
RacedInstancesStillResolve ==
    candidate = script => \A i \in DOMAIN calls : calls[i].how = "exact"
=============================================================================
