----------------------------- MODULE CallPairing -----------------------------
(***************************************************************************)
(* What the scorer makes of a replay: which recorded event each call of the*)
(* candidate is paired with, and whether the pair counts as a change       *)
(* (crates/deja-orchestrator/src/divergence/mod.rs).  It reads what the    *)
(* hook of ReplayLookup answered, in the order the observations were       *)
(* written, which is the order of the lookups up to a race of the branches.*)
(*                                                                         *)
(* Exact answers own their events.  A call answered by its address takes   *)
(* the event it was served, if that is free; any other call takes the first*)
(* free event of its queue: same span path, operation and shape of         *)
(* arguments.  Every call here has a correlation and a path, every event is*)
(* on the tape, the results of resolved calls agree, and no declared clause*)
(* or approved noise excuses a request.  Every boundary is one whose       *)
(* omission blocks (omission_is_blocking) and no seed gap cuts a           *)
(* correlation off: what the scorer tolerates or calls inconclusive is left*)
(* out.                                                                    *)
(***************************************************************************)
EXTENDS ReplayLookup

CONSTANT Shape   \* what pairing_shape keeps of each argument

VARIABLES
    pass,       \* the pass of the scorer; "replay" until the run is over
    observed,   \* the calls in the order their observations were written
    at,         \* the element the pass is at
    served,     \* pairs of calls with the event they were served
    twins,      \* pairs of calls with the head of their queue
    jumped,     \* twins that are out of order and explain no other call yet
    displaced   \* calls whose change is the other half of such a pair's

scoreVars == <<pass, observed, at, served, twins, jumped, displaced>>
pairVars  == <<vars, scoreVars>>

-----------------------------------------------------------------------------
\* A call and its observation are two steps: another branch may come between,
\* but no later call of its own.
Overtaken(i, j) ==
    \E k \in i + 1 .. j : calls[k].branch = calls[i].branch

Streams ==
    {s \in [DOMAIN calls -> DOMAIN calls] :
        \A m, n \in DOMAIN calls :
            /\ s[m] = s[n] => m = n
            /\ s[m] < s[n] /\ Overtaken(s[m], s[n]) => m < n}

\* variant: an executed call owns nothing, as nothing was substituted for it
OwnedBySubstituted ==
    {calls[i].row : i \in {j \in DOMAIN calls : calls[j].how = "exact"
                                              /\ calls[j].mode = "lookup"}}

Owned == {calls[i].row : i \in {j \in DOMAIN calls : calls[j].how = "exact"}}

Events(pairs) == {pairs[n].event : n \in DOMAIN pairs}
Callers(pairs) == {pairs[n].call : n \in DOMAIN pairs}

\* variant: an event a resolved call owns may be paired
TakenByPairs(e) == e \in Events(served) \cup Events(twins)

\* An event of an exact answer or of one pair is no other pair's.
IsTaken(e) == e \in Owned \cup Events(served) \cup Events(twins)

\* The recorded events a call may be one of.
Queue(c) == {e \in DOMAIN tape : /\ tape[e].path = c.path /\ tape[e].op = c.op
                                 /\ Shape[tape[e].arg] = Shape[c.arg]}

Free(c) == {e \in Queue(c) : ~IsTaken(e)}

\* The element of S that comes first, if there is any.
First(S) == {e \in S : \A x \in S : e <= x}

\* variant: the served event is looked for by shape too
ServedOfItsShape(c) == c.how = "address" /\ c.row \in Free(c)

\* Answered by its address, with an event that is nobody's yet.
ServedFree(c) == c.how = "address" /\ ~IsTaken(c.row)

\* The head is not what the call sent, and something behind it is.
OutOfOrder(c) == /\ \E e \in Free(c) : tape[e].arg = c.arg
                 /\ \A e \in First(Free(c)) : tape[e].arg # c.arg

\* variant: the event a call was served is taken for the one it asked for
DivergedUnlessServed(c, e) ==
    IF c.how = "address" THEN c.row # e ELSE ByIdentity(c) # ByIdentity(tape[e])

\* A call served another event than it is compared with changed its request.
RequestDiverged(c, e) ==
    \/ ByIdentity(c) # ByIdentity(tape[e])
    \/ c.how = "address" /\ c.row # e

-----------------------------------------------------------------------------
PairInit ==
    /\ Init
    /\ pass = "replay" /\ observed = <<>> /\ at = 1
    /\ served = <<>> /\ twins = <<>> /\ jumped = {} /\ displaced = {}

Replaying == pass = "replay" /\ Next /\ UNCHANGED scoreVars

\* The run is over and its artifacts are read.
Observe ==
    /\ pass = "replay" /\ policy # "unset" /\ Finished(candidate, calls)
    /\ observed' \in Streams
    /\ pass' = "served"
    /\ UNCHANGED <<vars, at, served, twins, jumped, displaced>>

PairServed ==
    /\ pass = "served" /\ at \in DOMAIN observed
    /\ LET i == observed[at]
           c == calls[i]
       IN served' = IF ServedFree(c)
                      THEN Append(served, [call |-> i, event |-> c.row, ahead |-> FALSE])
                      ELSE served
    /\ at' = at + 1
    /\ UNCHANGED <<vars, pass, observed, twins, jumped, displaced>>

AllServed ==
    /\ pass = "served" /\ at \notin DOMAIN observed
    /\ pass' = "twins" /\ at' = 1
    /\ UNCHANGED <<vars, observed, served, twins, jumped, displaced>>

\* take_twin: the head of the queue, whatever was recorded there.
PairTwin ==
    /\ pass = "twins" /\ at \in DOMAIN observed
    /\ LET i == observed[at]
           c == calls[i]
           head == IF c.how = "exact" \/ i \in Callers(served) THEN {} ELSE First(Free(c))
       IN IF head = {} THEN UNCHANGED twins
          ELSE \E e \in head :
                 twins' = Append(twins, [call |-> i, event |-> e, ahead |-> OutOfOrder(c)])
    /\ at' = at + 1
    /\ UNCHANGED <<vars, pass, observed, served, jumped, displaced>>

AllPaired ==
    /\ pass = "twins" /\ at \notin DOMAIN observed
    /\ jumped' = {n \in DOMAIN twins : twins[n].ahead}
    /\ pass' = "displaced" /\ at' = 1
    /\ UNCHANGED <<vars, observed, served, twins, displaced>>

Pairs == twins \o served

\* The jumps that took an event which is what call c sent.
Explaining(c) ==
    {n \in jumped : LET e == twins[n].event
                    IN /\ tape[e].path = c.path /\ tape[e].op = c.op
                       /\ ~RequestDiverged(c, e)}

\* A pair that did not jump and sent what a jump took is the other half of it;
\* each jump has one.
Displace ==
    /\ pass = "displaced" /\ at \in DOMAIN Pairs
    /\ LET p == Pairs[at]
           same == IF p.ahead THEN {} ELSE First(Explaining(calls[p.call]))
       IN /\ jumped' = jumped \ same
          /\ displaced' = IF same = {} THEN displaced ELSE displaced \cup {p.call}
    /\ at' = at + 1
    /\ UNCHANGED <<vars, pass, observed, served, twins>>

Score ==
    /\ pass = "displaced" /\ at \notin DOMAIN Pairs
    /\ pass' = "scored"
    /\ UNCHANGED <<vars, observed, at, served, twins, jumped, displaced>>

Scored == pass = "scored" /\ UNCHANGED pairVars

PairNext ==
    \/ Replaying
    \/ Observe
    \/ PairServed \/ AllServed
    \/ PairTwin \/ AllPaired
    \/ Displace \/ Score
    \/ Scored

PairSpec == PairInit /\ [][PairNext]_pairVars

-----------------------------------------------------------------------------
(* What the scorecard says.                                                *)

\* variant: both halves of an order change count
ChangedOnItsOwn(p) == p.ahead \/ RequestDiverged(calls[p.call], p.event)

\* The pair went out of order or sent something else; the displaced half of
\* an order change is not counted again.
Changed(p) ==
    p.ahead \/ (RequestDiverged(calls[p.call], p.event) /\ p.call \notin displaced)

ChangedCalls == {Pairs[n].call : n \in {m \in DOMAIN Pairs : Changed(Pairs[m])}}

Unpaired == {i \in DOMAIN calls : calls[i].how # "exact" /\ i \notin Callers(Pairs)}

\* Served by its address with no event left to pair it with: charged.
ServedUnpaired == {i \in Unpaired : calls[i].how = "address"}

\* Any other call without a pair was added: shown, and charged to nothing.
Novel == Unpaired \ ServedUnpaired

\* OmittedCall, every boundary being a blocking one.
Omitted == {e \in DOMAIN tape : ~IsTaken(e)}

Charged == ChangedCalls \cup ServedUnpaired

-----------------------------------------------------------------------------
(* Properties                                                              *)

\* Every recorded event is paired with at most one call, none with a call
\* while an exact answer owns it, and no call is paired twice.
PairedOnce ==
    \A m, n \in DOMAIN Pairs :
        /\ Pairs[m].event \notin Owned
        /\ Pairs[m].event = Pairs[n].event \/ Pairs[m].call = Pairs[n].call => m = n

\* A candidate that does what was recorded is charged with nothing, misses
\* nothing and adds nothing, in whatever order calls and observations came.
\* (Twins that took each other's place may be charged: a call without a row of
\* its own is answered by its address, with what the other did.)
UnchangedIsClean ==
    /\ pass = "scored" /\ candidate = script
    /\ IF legacy THEN Untagged ELSE Unraced
    => Charged = {} /\ Omitted = {} /\ Unpaired = {}

\* One call that moved is one change, whatever runs beside it: nothing else is
\* charged, omitted or added.  Where the pairing has no queue to find its event
\* in, the call was executed and what it sent is of another shape, it is added
\* and one event omitted.
OneChangeCountsOnce ==
    pass = "scored" /\ Tracking /\ Unraced =>
        \A b \in Branches : \A n \in DOMAIN script[b] :
            n \in DOMAIN candidate[b] /\ OnlyMoved(b, n) =>
                \A i \in DOMAIN calls : calls[i].branch = b /\ calls[i].nth = n =>
                    IF i \in Callers(Pairs)
                      THEN Charged = {i} /\ Omitted = {} /\ Novel = {}
                      ELSE /\ calls[i].how = "missed"
                           /\ Shape[calls[i].arg] # Shape[script[b][n].arg]
                           /\ Novel = {i} /\ Charged = {} /\ Cardinality(Omitted) = 1

\* How often a program makes a request.
Times(program, request) ==
    Cardinality({c \in UNION {{b} \X DOMAIN program[b] : b \in Branches} :
                    ByIdentity(program[c[1]][c[2]]) = request})
Requests(program) ==
    UNION {{ByIdentity(program[b][n]) : n \in DOMAIN program[b]} : b \in Branches}

\* One element for each time the candidate makes a request too few times.
Lost == UNION {{r} \X (1 .. Times(script, r) - Times(candidate, r)) : r \in Requests(script)}

\* All branches run in spans of one name; no call is paired across names.
OneName == \A b, x \in Branches : Path[b] = Path[x]

\* No call got another event's value.
NoneByAddress == \A i \in DOMAIN calls : calls[i].how # "address"

\* What is one by identity has one shape.  (Bytes that hold one document at two
\* lengths have not.)
SameShape == \A s, t \in SetLike : Identity[s] = Identity[t] => Shape[s] = Shape[t]

\* Whatever the candidate makes instead, in other branches and other orders,
\* nothing it lost goes uncharged, and among twins no more is reported omitted
\* than was lost.  (A call answered by its address takes an event of any shape,
\* and with it the place of one that then reads as omitted.)
LossesAreCounted ==
    pass = "scored" /\ Tracking =>
        /\ Cardinality(Lost) <= Cardinality(Omitted) + Cardinality(Charged)
        /\ OneName /\ NoneByAddress /\ SameShape =>
              Cardinality(Omitted) <= Cardinality(Lost)

\* Every request as often as recorded, and none got another event's value.
OnlyReordered ==
    /\ \A r \in Requests(script) \cup Requests(candidate) :
          Times(script, r) = Times(candidate, r)
    /\ NoneByAddress

\* No queue has more than two events left to pair, with arguments that identity
\* takes as they are.
OnlySwaps ==
    /\ \A e, f, g \in DOMAIN tape \ Owned :
          f \in Queue(tape[e]) /\ g \in Queue(tape[e]) => e = f \/ e = g \/ f = g
    /\ \A e \in DOMAIN tape \ Owned : tape[e].arg \notin SetLike

\* Twins' requests in other places and orders, each as often as recorded, are
\* all paired; and where two of them swapped they are no other change than their
\* order, and the half that did not jump is not counted again.  (Of three that
\* went round one half has no jump to explain it, and a repeated request that
\* did not move uses one up: there a half counts too.)
ReorderingCountsOnce ==
    pass = "scored" /\ Tracking /\ OneName /\ SameShape /\ OnlyReordered =>
        /\ Omitted = {} /\ Unpaired = {}
        /\ OnlySwaps => \A n \in DOMAIN Pairs : Changed(Pairs[n]) => Pairs[n].ahead
=============================================================================
