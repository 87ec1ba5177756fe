-------------------------- MODULE CallPairingProofs --------------------------
(***************************************************************************)
(* Proofs about CallPairing, for every recording, candidate and order of   *)
(* the observations: what the lookup guarantees still holds under the      *)
(* scorer, no event is paired twice, an unchanged candidate is clean, one  *)
(* call that moved is one change, no loss goes uncharged, and a swap is    *)
(* one change.                                                             *)
(***************************************************************************)
EXTENDS CallPairing, ReplayLookupProofs

\* The pairs of one list: one event and one call each, no event with an owner.
Apart(pairs) ==
    /\ Listed(pairs)
    /\ Events(pairs) \cap Owned = {}
    /\ \A m, n \in DOMAIN pairs :
          pairs[m].event = pairs[n].event \/ pairs[m].call = pairs[n].call => m = n

\* The calls the pass has handled.
Handled == {observed[k] : k \in {j \in DOMAIN observed : j < at}}

PairInv ==
    /\ ServedInv
    /\ at \in Nat
    /\ DOMAIN observed \subseteq Nat
    /\ \A m, n \in DOMAIN observed : observed[m] = observed[n] => m = n
    /\ Apart(served) /\ Apart(twins)
    /\ Events(served) \cap Events(twins) = {}
    /\ Callers(served) \cap Callers(twins) = {}
    /\ pass \in {"replay", "served"} => twins = <<>>
    /\ pass = "replay" => served = <<>> /\ at = 1
    /\ pass = "served" => Callers(served) \subseteq Handled
    /\ pass = "twins" => Callers(twins) \subseteq Handled

-----------------------------------------------------------------------------
\* One more pair, of a call and an event that have none and are owned by none.
LEMMA OneMore ==
    ASSUME NEW pairs, Apart(pairs), NEW p,
           p.event \notin Owned \cup Events(pairs), p.call \notin Callers(pairs)
    PROVE  /\ Apart(Append(pairs, p))
           /\ Events(Append(pairs, p)) = Events(pairs) \cup {p.event}
           /\ Callers(Append(pairs, p)) = Callers(pairs) \cup {p.call}
<1> DEFINE new == Append(pairs, p)
           last == Len(pairs) + 1
<1>1. /\ Listed(new) /\ DOMAIN new = DOMAIN pairs \cup {last}
      /\ \A n \in DOMAIN pairs : new[n] = pairs[n]
      /\ new[last] = p /\ last \notin DOMAIN pairs
  BY AppendListed DEF Apart
<1> HIDE DEF new, last
<1>2. Events(new) = Events(pairs) \cup {p.event}
  BY <1>1 DEF Events
<1>3. Callers(new) = Callers(pairs) \cup {p.call}
  BY <1>1 DEF Callers
<1>4. \A n \in DOMAIN pairs : pairs[n].event # p.event /\ pairs[n].call # p.call
  BY Zenon DEF Events, Callers
<1>5. ASSUME NEW m \in DOMAIN new, NEW n \in DOMAIN new,
             new[m].event = new[n].event \/ new[m].call = new[n].call
      PROVE  m = n
  <2>1. CASE m \in DOMAIN pairs /\ n \in DOMAIN pairs
    BY <1>1, <1>5, <2>1 DEF Apart
  <2>2. CASE m = last \/ n = last
    BY <1>1, <1>4, <1>5, <2>2
  <2>3. QED
    BY <1>1, <2>1, <2>2
<1>6. Events(new) \cap Owned = {}
  BY <1>2, Zenon DEF Apart
<1>7. Apart(new)
  BY <1>1, <1>5, <1>6, Zenon DEF Apart
<1>8. QED
  BY <1>2, <1>3, <1>7 DEF new

\* What is owned and handled, and who is apart, hangs on the calls alone.
LEMMA OwnedFrame ==
    ASSUME calls' = calls
    PROVE  Owned' = Owned /\ \A pairs : Apart(pairs)' <=> Apart(pairs)
BY Zenon DEF Owned, Apart

\* No pairs are apart.
LEMMA ApartEmpty == Apart(<<>>)
<1>1. DOMAIN <<>> = {} /\ Listed(<<>>)
  BY DEF Listed
<1>2. QED
  BY <1>1, Zenon DEF Apart, Events

\* A step of the scorer leaves what the run left.
LEMMA StepReplays == [PairNext]_pairVars => [Next]_vars
<1> SUFFICES ASSUME [PairNext]_pairVars PROVE [Next]_vars
  OBVIOUS
<1>1. CASE Replaying
  BY <1>1, Zenon DEF Replaying
<1>2. CASE \/ Observe \/ PairServed \/ AllServed \/ PairTwin \/ AllPaired
           \/ Displace \/ Score \/ Scored
  BY <1>2 DEF Observe, PairServed, AllServed, PairTwin, AllPaired, Displace,
     Score, Scored, pairVars
<1>3. CASE UNCHANGED pairVars
  BY <1>3 DEF pairVars
<1>4. QED
  BY <1>1, <1>2, <1>3, Zenon DEF PairNext

-----------------------------------------------------------------------------
LEMMA PairedInit == PairInit => PairInv
<1> SUFFICES ASSUME PairInit PROVE PairInv
  OBVIOUS
<1>1. /\ Init /\ pass = "replay" /\ at = 1 /\ observed = <<>>
      /\ served = <<>> /\ twins = <<>>
  BY Zenon DEF PairInit
<1>2. DOMAIN observed = {} /\ Events(<<>>) = {} /\ Callers(<<>>) = {}
  BY <1>1 DEF Events, Callers
<1>3. ServedInv
  BY <1>1, ServedInit, Zenon
<1>4. QED
  BY <1>1, <1>2, <1>3, ApartEmpty DEF PairInv

\* While the run lasts nothing is paired.
LEMMA PairedReplaying == ASSUME PairInv, ServedInv', Replaying PROVE PairInv'
<1>1. /\ pass = "replay" /\ pass' = pass /\ observed' = observed /\ at' = at
      /\ served' = served /\ twins' = twins
  BY Zenon DEF Replaying, scoreVars
<1>2. served = <<>> /\ twins = <<>> /\ at = 1
  BY <1>1 DEF PairInv
<1>3. Apart(served)' /\ Apart(twins)'
  <2>1. \A s : s = <<>> => Listed(s) /\ Events(s) = {} /\ DOMAIN s = {}
    BY DEF Listed, Events
  <2>2. QED
    BY <1>1, <1>2, <2>1, Zenon DEF Apart
<1>4. Events(served') = {} /\ Callers(served') = {}
  BY <1>1, <1>2 DEF Events, Callers
<1>5. QED
  BY <1>1, <1>2, <1>3, <1>4 DEF PairInv

\* The observations are the calls, each one once.
LEMMA PairedObserve == ASSUME PairInv, ServedInv', Observe PROVE PairInv'
<1>1. /\ observed' \in Streams /\ pass' = "served" /\ at' = at /\ calls' = calls
      /\ served' = served /\ twins' = twins /\ pass = "replay"
  BY Zenon DEF Observe, vars
<1>2. served = <<>> /\ twins = <<>> /\ at = 1
  BY <1>1 DEF PairInv
<1>3. DOMAIN observed' \subseteq Nat
  <2>1. DOMAIN observed' = DOMAIN calls
    BY <1>1 DEF Streams
  <2>2. PICK S : calls \in Seq(S)
    BY Zenon DEF PairInv, ServedInv, Listed
  <2>3. QED
    BY <2>1, <2>2
<1>4. \A m, n \in DOMAIN observed' : observed'[m] = observed'[n] => m = n
  BY <1>1 DEF Streams
<1>5. Apart(served)' /\ Apart(twins)'
  BY <1>1, OwnedFrame DEF PairInv, Apart
<1>6. Callers(served') = {}
  BY <1>1, <1>2 DEF Callers
<1>7. QED
  BY <1>1, <1>2, <1>3, <1>4, <1>5, <1>6 DEF PairInv

\* A pass moves on: the call it is at was not handled, and is now.
LEMMA NextHandled ==
    ASSUME PairInv, at \in DOMAIN observed, at' = at + 1, observed' = observed
    PROVE  /\ observed[at] \notin Handled
           /\ Handled \cup {observed[at]} \subseteq Handled'
<1>1. /\ at \in Nat /\ DOMAIN observed \subseteq Nat
      /\ \A m, n \in DOMAIN observed : observed[m] = observed[n] => m = n
  BY DEF PairInv
<1>2. observed[at] \notin Handled
  BY <1>1 DEF Handled
<1>3. \A j \in DOMAIN observed : j < at => j < at + 1
  BY <1>1
<1>4. at < at + 1
  BY <1>1
<1>5. Handled \cup {observed[at]} \subseteq Handled'
  BY <1>3, <1>4 DEF Handled
<1>6. QED
  BY <1>2, <1>5

\* A served call takes an event that is nobody's.
LEMMA PairedServed == ASSUME PairInv, ServedInv', PairServed PROVE PairInv'
<1> DEFINE i == observed[at]
           c == calls[i]
           p == [call |-> i, event |-> c.row, ahead |-> FALSE]
<1>1. /\ pass = "served" /\ pass' = pass /\ at \in DOMAIN observed /\ at' = at + 1
      /\ calls' = calls /\ observed' = observed /\ twins' = twins
      /\ served' = IF ServedFree(c) THEN Append(served, p) ELSE served
  BY Zenon DEF PairServed, vars
<1>2. i \notin Handled /\ Handled \cup {i} \subseteq Handled'
  BY <1>1, NextHandled, Zenon
<1>3. ServedFree(c) => p.event \notin Owned \cup Events(served)
  BY DEF ServedFree, IsTaken
<1>4. p.call = i
  OBVIOUS
<1> HIDE DEF i, c, p
<1>5. /\ at \in Nat /\ DOMAIN observed \subseteq Nat /\ twins = <<>>
      /\ Apart(served) /\ Apart(twins) /\ Callers(served) \subseteq Handled
      /\ \A m, n \in DOMAIN observed : observed[m] = observed[n] => m = n
  BY <1>1 DEF PairInv
<1>6. Owned' = Owned
  BY <1>1, OwnedFrame, Zenon
<1>7. Apart(served') /\ Callers(served') \subseteq Callers(served) \cup {i}
  <2>1. CASE ServedFree(c)
    <3>1. p.call \notin Callers(served)
      BY <1>2, <1>4, <1>5, Zenon
    <3>2. /\ Apart(Append(served, p))
          /\ Callers(Append(served, p)) = Callers(served) \cup {p.call}
      BY <1>3, <1>5, <2>1, <3>1, OneMore, Zenon
    <3>3. QED
      BY <1>1, <1>4, <2>1, <3>2, Zenon
  <2>2. CASE ~ServedFree(c)
    BY <1>1, <1>5, <2>2, Zenon
  <2>3. QED
    BY <2>1, <2>2
<1>8. Apart(served)' /\ Apart(twins)'
  BY <1>1, <1>5, <1>6, <1>7, Zenon DEF Apart
<1>9. Callers(served') \subseteq Handled'
  BY <1>2, <1>5, <1>7, Zenon
<1>10. Events(twins') = {} /\ Callers(twins') = {}
  BY <1>1, <1>5 DEF Events, Callers
<1>11. at' \in Nat
  BY <1>1, <1>5
<1>12. QED
  BY <1>1, <1>5, <1>8, <1>9, <1>10, <1>11 DEF PairInv

\* A twin comes off the head of a queue, which holds no taken event, for a call
\* that is not a served one.
LEMMA PairedTwin == ASSUME PairInv, ServedInv', PairTwin PROVE PairInv'
<1> DEFINE i == observed[at]
           c == calls[i]
           head == IF c.how = "exact" \/ i \in Callers(served) THEN {} ELSE First(Free(c))
<1>1. /\ pass = "twins" /\ pass' = pass /\ at \in DOMAIN observed /\ at' = at + 1
      /\ calls' = calls /\ observed' = observed /\ served' = served
      /\ IF head = {} THEN UNCHANGED twins
         ELSE \E e \in head :
                twins' = Append(twins, [call |-> i, event |-> e, ahead |-> OutOfOrder(c)])
  BY Zenon DEF PairTwin, vars
<1>2. i \notin Handled /\ Handled \cup {i} \subseteq Handled'
  BY <1>1, NextHandled, Zenon
<1>3. \A e \in head : /\ e \notin Owned \cup Events(served) \cup Events(twins)
                      /\ i \notin Callers(served)
  BY DEF First, Free, IsTaken
<1> HIDE DEF i, c, head
<1>4. /\ at \in Nat /\ DOMAIN observed \subseteq Nat
      /\ Apart(served) /\ Apart(twins) /\ Callers(twins) \subseteq Handled
      /\ Events(served) \cap Events(twins) = {}
      /\ Callers(served) \cap Callers(twins) = {}
      /\ \A m, n \in DOMAIN observed : observed[m] = observed[n] => m = n
  BY <1>1 DEF PairInv
<1>5. Owned' = Owned /\ at' \in Nat
  BY <1>1, <1>4, OwnedFrame
<1>6. /\ Apart(twins')
      /\ Events(served) \cap Events(twins') = {}
      /\ Callers(served) \cap Callers(twins') = {}
      /\ Callers(twins') \subseteq Callers(twins) \cup {i}
  <2>1. CASE head = {}
    BY <1>1, <1>4, <2>1, Zenon
  <2>2. CASE head # {}
    <3>1. PICK e \in head :
            twins' = Append(twins, [call |-> i, event |-> e, ahead |-> OutOfOrder(c)])
      BY <1>1, <2>2, Zenon
    <3> DEFINE p == [call |-> i, event |-> e, ahead |-> OutOfOrder(c)]
    <3>2. p.call = i /\ p.event = e
      OBVIOUS
    <3>3. twins' = Append(twins, p)
      BY <3>1
    <3> HIDE DEF p
    <3>4. p.event \notin Owned \cup Events(twins) /\ p.call \notin Callers(twins)
      BY <1>2, <1>3, <1>4, <3>2, Zenon
    <3>5. /\ Apart(twins')
          /\ Events(twins') = Events(twins) \cup {e}
          /\ Callers(twins') = Callers(twins) \cup {i}
      BY <1>4, <3>2, <3>3, <3>4, OneMore, Zenon
    <3>6. QED
      BY <1>3, <1>4, <3>5, Zenon
  <2>3. QED
    BY <2>1, <2>2
<1>7. Apart(served)' /\ Apart(twins)'
  BY <1>1, <1>4, <1>5, <1>6, Zenon DEF Apart
<1>8. Callers(twins') \subseteq Handled'
  BY <1>2, <1>4, <1>6, Zenon
<1>9. /\ Events(served') = Events(served) /\ Callers(served') = Callers(served)
  BY <1>1, Zenon
<1>10. QED
  BY <1>1, <1>4, <1>5, <1>6, <1>7, <1>8, <1>9 DEF PairInv

\* What only turns to the next pass, or goes through the pairs made.
LEMMA PairedKept ==
    ASSUME PairInv, ServedInv', calls' = calls, observed' = observed,
           served' = served, twins' = twins, at' \in Nat,
           \/ pass' = pass /\ at' = at
           \/ pass = "served" /\ pass' = "twins"
           \/ pass' \in {"displaced", "scored"}
    PROVE  PairInv'
<1>1. Owned' = Owned
  BY OwnedFrame, Zenon
<1>2. Apart(served)' /\ Apart(twins)'
  BY <1>1, Zenon DEF PairInv, Apart
<1>3. /\ Events(served') = Events(served) /\ Callers(served') = Callers(served)
      /\ Events(twins') = Events(twins) /\ Callers(twins') = Callers(twins)
  BY Zenon
<1>4. pass' = pass /\ at' = at => Handled' = Handled
  BY Zenon DEF Handled
<1>5. twins = <<>> => Callers(twins) = {}
  BY DEF Callers
<1>6. QED
  BY <1>2, <1>3, <1>4, <1>5 DEF PairInv

LEMMA PairedNext == PairInv /\ [PairNext]_pairVars => PairInv'
<1> SUFFICES ASSUME PairInv, [PairNext]_pairVars PROVE PairInv'
  OBVIOUS
<1>1. ServedInv'
  BY StepReplays, ServedNext, Zenon DEF PairInv
<1>2. at \in Nat
  BY DEF PairInv
<1>3. CASE Replaying
  BY <1>1, <1>3, PairedReplaying, Zenon
<1>4. CASE Observe
  BY <1>1, <1>4, PairedObserve, Zenon
<1>5. CASE PairServed
  BY <1>1, <1>5, PairedServed, Zenon
<1>6. CASE PairTwin
  BY <1>1, <1>6, PairedTwin, Zenon
<1>7. CASE AllServed
  BY <1>1, <1>7, PairedKept DEF AllServed, vars
<1>8. CASE AllPaired
  BY <1>1, <1>8, PairedKept DEF AllPaired, vars
<1>9. CASE Displace
  <2>1. at' \in Nat
    BY <1>2, <1>9 DEF Displace
  <2>2. /\ pass' = "displaced" /\ calls' = calls /\ observed' = observed
        /\ served' = served /\ twins' = twins
    BY <1>9, Zenon DEF Displace, vars
  <2>3. QED
    BY <1>1, <2>1, <2>2, PairedKept, Zenon
<1>10. CASE Score
  BY <1>1, <1>2, <1>10, PairedKept DEF Score, vars
<1>11. CASE UNCHANGED pairVars
  BY <1>1, <1>2, <1>11, PairedKept DEF pairVars, scoreVars, vars
<1>12. CASE Scored
  BY <1>11, <1>12, Zenon DEF Scored
<1>13. QED
  BY <1>3, <1>4, <1>5, <1>6, <1>7, <1>8, <1>9, <1>10, <1>11, <1>12, Zenon DEF PairNext

-----------------------------------------------------------------------------
\* The pairs of both lists are apart when the lists are.
LEMMA PairedOnceHolds == PairInv => PairedOnce
<1> SUFFICES ASSUME PairInv, NEW m \in DOMAIN Pairs, NEW n \in DOMAIN Pairs
             PROVE  /\ Pairs[m].event \notin Owned
                    /\ Pairs[m].event = Pairs[n].event \/ Pairs[m].call = Pairs[n].call
                         => m = n
  BY Zenon DEF PairedOnce
<1>1. PICK S, T : twins \in Seq(S) /\ served \in Seq(T)
  BY DEF PairInv, Apart, Listed
<1>2. twins \in Seq(S \cup T) /\ served \in Seq(S \cup T)
  BY <1>1
<1>3. /\ Len(twins) \in Nat /\ DOMAIN twins = 1 .. Len(twins)
      /\ Len(served) \in Nat /\ DOMAIN served = 1 .. Len(served)
      /\ DOMAIN Pairs = 1 .. Len(twins) + Len(served)
      /\ \A k \in 1 .. Len(twins) + Len(served) :
            Pairs[k] = IF k <= Len(twins) THEN twins[k] ELSE served[k - Len(twins)]
  BY <1>2, ConcatProperties DEF Pairs
<1>4. \A k \in DOMAIN Pairs :
         \/ k \in DOMAIN twins /\ k <= Len(twins) /\ Pairs[k] = twins[k]
         \/ /\ k - Len(twins) \in DOMAIN served /\ k > Len(twins)
            /\ Pairs[k] = served[k - Len(twins)]
  BY <1>3
<1>5. /\ \A k \in DOMAIN twins : twins[k].event \in Events(twins)
                                 /\ twins[k].call \in Callers(twins)
      /\ \A k \in DOMAIN served : served[k].event \in Events(served)
                                  /\ served[k].call \in Callers(served)
  BY Zenon DEF Events, Callers
<1>6. /\ Events(served) \cap Events(twins) = {} /\ Callers(served) \cap Callers(twins) = {}
      /\ Events(served) \cap Owned = {} /\ Events(twins) \cap Owned = {}
  BY Zenon DEF PairInv, Apart
<1>7. Pairs[m].event \notin Owned
  BY <1>4, <1>5, <1>6
<1>8. ASSUME Pairs[m].event = Pairs[n].event \/ Pairs[m].call = Pairs[n].call PROVE m = n
  <2>1. CASE m \in DOMAIN twins /\ n \in DOMAIN twins /\ Pairs[m] = twins[m] /\ Pairs[n] = twins[n]
    BY <1>8, <2>1 DEF PairInv, Apart
  <2>2. CASE /\ m - Len(twins) \in DOMAIN served /\ Pairs[m] = served[m - Len(twins)]
             /\ n - Len(twins) \in DOMAIN served /\ Pairs[n] = served[n - Len(twins)]
    <3>1. m - Len(twins) = n - Len(twins)
      BY <1>8, <2>2 DEF PairInv, Apart
    <3>2. QED
      BY <1>3, <3>1
  <2>3. QED
    BY <1>4, <1>5, <1>6, <1>8, <2>1, <2>2
<1>9. QED
  BY <1>7, <1>8

\* The scorer reads what the run left and changes none of it: everything proved
\* of the lookup holds under it.
THEOREM ScorerReplays == PairSpec => Spec
<1>1. PairInit => Init
  BY DEF PairInit
<1>2. QED
  BY <1>1, StepReplays, PTL DEF PairSpec, Spec

\* The assertion of pairing_balance, in every pass: no recorded event is paired
\* with two calls or taken from the exact answer that owns it, no call is
\* paired twice, whatever the recording, the candidate and the order in which
\* its observations were written.
THEOREM EventsPairedOnce == PairSpec => []PairedOnce
<1>1. QED
  BY PairedInit, PairedNext, PairedOnceHolds, PTL DEF PairSpec

-----------------------------------------------------------------------------
(* What the answers say.                                                   *)

\* An exact answer is an event of the same request; only substituted calls are
\* answered by their address.
Honest(c) ==
    /\ c.how \in {"exact", "address", "missed"}
    /\ c.how # "missed" => c.row \in DOMAIN tape
    /\ c.how = "exact" => ByIdentity(tape[c.row]) = ByIdentity(c)
    /\ c.how = "address" => c.mode = "lookup"

HonestInv == \A i \in DOMAIN calls : Honest(calls[i])

LEMMA StrongestFits ==
    ASSUME NEW c, NEW by, Strongest(c, by) # 0
    PROVE  /\ Strongest(c, by) \in DOMAIN tape
           /\ Scope(tape[Strongest(c, by)], by) = Scope(c, by)
<1>1. Strongest(c, by) \in FromBest(c, by)
  BY StrongestIs
<1>2. PICK m : Strongest(c, by) \in Open(c, m, by)
  BY <1>1 DEF FromBest
<1> QED BY <1>2 DEF Open, Unclaimed, Rows

LEMMA AnswerIsHonest ==
    ASSUME NEW c, NEW mode
    PROVE  Honest(Answered(c, mode, Answer(c, mode)))
<1>1. PICK a : a = Answer(c, mode)
  OBVIOUS
<1>2. PICK new : new = Answered(c, mode, a)
  OBVIOUS
<1>3. new.how = a.how /\ new.row = a.row /\ new.mode = mode /\ new.op = c.op /\ new.arg = c.arg
  BY <1>2 DEF Answered
<1>4. ByIdentity(new) = ByIdentity(c)
  BY <1>3 DEF ByIdentity, Exact
<1>5. CASE ExactRow(c) # 0
  <2>1. a = [how |-> "exact", row |-> ExactRow(c)]
    BY <1>1, <1>5 DEF Answer
  <2>2. PICK by \in {"exact", "identity"} : ExactRow(c) = Strongest(c, by)
    BY Zenon DEF ExactRow
  <2>3. ExactRow(c) \in DOMAIN tape /\ Scope(tape[ExactRow(c)], by) = Scope(c, by)
    BY <1>5, <2>2, StrongestFits
  <2>4. ByIdentity(tape[ExactRow(c)]) = ByIdentity(c)
    <3>1. \A x : Exact(x) = Exact(c) => ByIdentity(x) = ByIdentity(c)
      BY DEF Exact, ByIdentity
    <3> QED BY <2>3, <3>1 DEF Scope
  <2> QED BY <1>1, <1>2, <1>3, <1>4, <2>1, <2>3, <2>4 DEF Honest
<1>6. CASE ExactRow(c) = 0 /\ ByAddress(c, mode) /\ AddressRow(c) # 0
  <2>1. a = [how |-> "address", row |-> AddressRow(c)] /\ mode = "lookup"
    BY <1>1, <1>6 DEF Answer, ByAddress
  <2>2. AddressRow(c) \in DOMAIN tape
    BY <1>6, StrongestFits DEF AddressRow
  <2> QED BY <1>1, <1>2, <1>3, <2>1, <2>2 DEF Honest
<1>7. CASE ExactRow(c) = 0 /\ ~(ByAddress(c, mode) /\ AddressRow(c) # 0)
  <2>1. a = [how |-> "missed", row |-> 0]
    BY <1>1, <1>7, Zenon DEF Answer
  <2> QED BY <1>1, <1>2, <1>3, <2>1 DEF Honest
<1> QED BY <1>5, <1>6, <1>7

LEMMA HonestInit == Init => HonestInv
<1> SUFFICES ASSUME Init PROVE HonestInv
  OBVIOUS
<1>1. calls = <<>>
  BY DEF Init
<1>2. DOMAIN calls = {}
  BY <1>1
<1> QED BY <1>2 DEF HonestInv

LEMMA HonestNext == ASSUME WeaveInv, HonestInv, [Next]_vars PROVE HonestInv'
<1>1. ASSUME calls' = <<>> PROVE HonestInv'
  <2>1. DOMAIN calls' = {}
    BY <1>1
  <2> QED BY <2>1 DEF HonestInv
<1>2. ASSUME NEW b \in Branches, Capture(b) PROVE HonestInv'
  BY <1>1, <1>2 DEF Capture, WeaveInv
<1>3. CASE Boot
  BY <1>1, <1>3 DEF Boot, WeaveInv
<1>4. ASSUME NEW b \in Branches, NEW mode, Resolve(b, mode) PROVE HonestInv'
  <2>1. PICK c : c = Call(candidate, calls, b, place[b])
    OBVIOUS
  <2>2. PICK new : new = Answered(c, mode, Answer(c, mode))
    OBVIOUS
  <2>3. calls' = Append(calls, new) /\ tape' = tape
    BY <1>4, <2>1, <2>2 DEF Resolve
  <2>4. Honest(new)
    BY <2>2, AnswerIsHonest
  <2>5. /\ DOMAIN calls' = DOMAIN calls \cup {Len(calls) + 1}
        /\ \A i \in DOMAIN calls : calls'[i] = calls[i]
        /\ calls'[Len(calls) + 1] = new
    BY <2>3, AppendListed DEF WeaveInv, Woven
  <2>6. \A i \in DOMAIN calls' : Honest(calls'[i])
    BY <2>4, <2>5 DEF HonestInv
  <2> QED BY <2>3, <2>6 DEF HonestInv, Honest
<1>5. CASE UNCHANGED vars
  <2>1. calls' = calls /\ tape' = tape
    BY <1>5 DEF vars
  <2> QED BY <2>1 DEF HonestInv, Honest
<1> QED BY <1>2, <1>3, <1>4, <1>5 DEF Next, Done

-----------------------------------------------------------------------------
(* What the passes leave.                                                  *)

Sought(i) == calls[i].how = "address" =>
                i \in Callers(served) \/ calls[i].row \in Owned \cup Events(served)

Twinned(i) == calls[i].how # "exact" =>
                 i \in Callers(served) \cup Callers(twins) \/ Free(calls[i]) = {}

\* Each displaced call has a jump of its own that took what it sent.
Explains(ex) ==
    /\ ex \in [displaced -> {n \in DOMAIN twins : twins[n].ahead} \ jumped]
    /\ \A i, j \in displaced : ex[i] = ex[j] => i = j
    /\ \A i \in displaced : ByIdentity(tape[twins[ex[i]].event]) = ByIdentity(calls[i])

\* The run is over, and every call of it was observed.
Whole ==
    /\ policy # "unset" /\ Finished(candidate, calls)
    /\ DOMAIN observed = DOMAIN calls
    /\ \A k \in DOMAIN observed : observed[k] \in DOMAIN calls
    /\ \A i \in DOMAIN calls : \E k \in DOMAIN observed : observed[k] = i

Fitting ==
    /\ \A n \in DOMAIN served :
          /\ served[n].call \in DOMAIN calls /\ calls[served[n].call].how = "address"
          /\ served[n].event = calls[served[n].call].row /\ ~served[n].ahead
    /\ \A n \in DOMAIN twins :
          /\ twins[n].call \in DOMAIN calls /\ calls[twins[n].call].how # "exact"
          /\ twins[n].event \in Queue(calls[twins[n].call])

Passed ==
    /\ \A k \in DOMAIN observed : (pass = "served" => k < at) => Sought(observed[k])
    /\ pass \in {"twins", "displaced", "scored"} =>
          \A k \in DOMAIN observed : (pass = "twins" => k < at) => Twinned(observed[k])

Settled ==
    /\ pass \in {"replay", "served", "twins"} => displaced = {}
    /\ pass \in {"displaced", "scored"} =>
          /\ \E ex : Explains(ex)
          /\ \A i \in displaced : \E n \in DOMAIN Pairs :
                /\ Pairs[n].call = i /\ ~Pairs[n].ahead
                /\ pass = "displaced" => n < at
          /\ jumped \subseteq {n \in DOMAIN twins : twins[n].ahead}
          /\ \A n \in DOMAIN Pairs :
                ~Pairs[n].ahead /\ (pass = "displaced" => n < at) =>
                    Pairs[n].call \in displaced \/ Explaining(calls[Pairs[n].call]) = {}

ScoreInv ==
    /\ PairInv /\ AnswersInv /\ HonestInv
    /\ at # 0 /\ pass \in {"replay", "served", "twins", "displaced", "scored"}
    /\ pass = "replay" => observed = <<>>
    /\ pass # "replay" => Whole
    /\ Fitting /\ Passed /\ Settled

-----------------------------------------------------------------------------
\* A set of numbers that is not empty has a first, if finite.
LEMMA FirstThere ==
    ASSUME NEW S \in SUBSET Nat, IsFiniteSet(S), S # {}
    PROVE  \E e \in S : First(S) = {e}
<1>1. Cardinality(S) \in Nat /\ Cardinality(S) # 0
  BY FS_CardinalityType, FS_EmptySet
<1>2. PICK e \in S : Cardinality({x \in S : x < e}) = 0
  <2>1. 0 \in Nat /\ 0 < Cardinality(S)
    BY <1>1
  <2> QED BY <2>1, BelowAll
<1>3. {x \in S : x < e} = {}
  <2>1. IsFiniteSet({x \in S : x < e})
    <3>1. {x \in S : x < e} \in SUBSET S
      OBVIOUS
    <3> QED BY <3>1, FS_Subset
  <2> QED BY <1>2, <2>1, FS_EmptySet
<1>4. \A x \in S : e <= x
  <2>1. \A x \in S : ~(x < e) /\ x \in Nat /\ e \in Nat
    BY <1>3
  <2> QED BY <2>1
<1>5. \A d \in First(S) : d = e
  BY <1>4 DEF First
<1>6. e \in First(S)
  BY <1>4 DEF First
<1> QED BY <1>5, <1>6

LEMMA FreeIsFinite ==
    ASSUME WeaveInv, NEW c
    PROVE  Free(c) \in SUBSET Nat /\ IsFiniteSet(Free(c))
<1>1. DOMAIN tape = 1 .. Len(tape) /\ Len(tape) \in Nat
  BY ListedDomain DEF WeaveInv, Woven
<1>2. Free(c) \in SUBSET (1 .. Len(tape))
  BY <1>1 DEF Free, Queue
<1>3. IsFiniteSet(1 .. Len(tape))
  BY <1>1, FS_Interval
<1> QED BY <1>1, <1>2, <1>3, FS_Subset

\* The pairs are those of the two lists.
LEMMA PairsAre ==
    ASSUME PairInv
    PROVE  /\ Len(twins) \in Nat /\ Len(served) \in Nat
           /\ DOMAIN twins = 1 .. Len(twins) /\ DOMAIN served = 1 .. Len(served)
           /\ DOMAIN Pairs = 1 .. Len(twins) + Len(served)
           /\ \A n \in DOMAIN twins : n \in DOMAIN Pairs /\ Pairs[n] = twins[n]
           /\ \A n \in DOMAIN served : Len(twins) + n \in DOMAIN Pairs
                                       /\ Pairs[Len(twins) + n] = served[n]
           /\ \A n \in DOMAIN Pairs : \/ n \in DOMAIN twins /\ Pairs[n] = twins[n]
                                      \/ \E m \in DOMAIN served : Pairs[n] = served[m]
<1>1. PICK S, T : twins \in Seq(S) /\ served \in Seq(T)
  BY DEF PairInv, Apart, Listed
<1>2. twins \in Seq(S \cup T) /\ served \in Seq(S \cup T)
  BY <1>1
<1>3. /\ Len(twins) \in Nat /\ DOMAIN twins = 1 .. Len(twins)
      /\ Len(served) \in Nat /\ DOMAIN served = 1 .. Len(served)
      /\ DOMAIN Pairs = 1 .. Len(twins) + Len(served)
      /\ \A k \in 1 .. Len(twins) + Len(served) :
            Pairs[k] = IF k <= Len(twins) THEN twins[k] ELSE served[k - Len(twins)]
  BY <1>2, ConcatProperties DEF Pairs
<1>4. ASSUME NEW n \in DOMAIN Pairs
      PROVE  \/ n \in DOMAIN twins /\ Pairs[n] = twins[n]
             \/ \E m \in DOMAIN served : Pairs[n] = served[m]
  <2>1. CASE n <= Len(twins)
    BY <1>3, <2>1
  <2>2. CASE ~(n <= Len(twins))
    <3>1. n - Len(twins) \in DOMAIN served /\ Pairs[n] = served[n - Len(twins)]
      BY <1>3, <2>2
    <3> QED BY <3>1
  <2> QED BY <2>1, <2>2
<1>5. \A n \in DOMAIN twins : n \in DOMAIN Pairs /\ Pairs[n] = twins[n]
  BY <1>3
<1>6. \A n \in DOMAIN served : Len(twins) + n \in DOMAIN Pairs
                               /\ Pairs[Len(twins) + n] = served[n]
  BY <1>3
<1> QED BY <1>3, <1>4, <1>5, <1>6

-----------------------------------------------------------------------------
\* What a step makes of the run.
LEMMA RunNext ==
    ASSUME ScoreInv, [PairNext]_pairVars
    PROVE  PairInv' /\ AnswersInv' /\ HonestInv'
<1>1. PairInv /\ AnswersInv /\ HonestInv
  BY DEF ScoreInv
<1>2. [Next]_vars
  BY StepReplays
<1> QED BY <1>1, <1>2, PairedNext, AnswersNext, HonestNext DEF AnswersInv

LEMMA ScoreInit == PairInit => ScoreInv
<1> SUFFICES ASSUME PairInit PROVE ScoreInv
  OBVIOUS
<1>1. /\ Init /\ pass = "replay" /\ observed = <<>> /\ at = 1 /\ served = <<>>
      /\ twins = <<>> /\ displaced = {}
  BY DEF PairInit
<1>2. DOMAIN observed = {} /\ DOMAIN served = {} /\ DOMAIN twins = {}
  BY <1>1
<1>3. PairInv /\ AnswersInv /\ HonestInv
  BY <1>1, PairedInit, AnswersInit, HonestInit
<1> QED BY <1>1, <1>2, <1>3 DEF ScoreInv, Fitting, Passed, Settled

LEMMA ScoreReplaying ==
    ASSUME ScoreInv, PairInv', AnswersInv', HonestInv', Replaying
    PROVE  ScoreInv'
<1>1. /\ pass = "replay" /\ pass' = pass /\ observed' = observed /\ at' = at
      /\ served' = served /\ twins' = twins /\ displaced' = displaced
  BY DEF Replaying, scoreVars
<1>2. observed = <<>> /\ served = <<>> /\ twins = <<>> /\ displaced = {} /\ at # 0
  BY <1>1 DEF ScoreInv, PairInv, Settled
<1>3. DOMAIN observed' = {} /\ DOMAIN served' = {} /\ DOMAIN twins' = {}
  BY <1>1, <1>2
<1>4. Fitting' /\ Passed' /\ Settled'
  BY <1>1, <1>2, <1>3 DEF Fitting, Passed, Settled
<1> QED BY <1>1, <1>2, <1>4 DEF ScoreInv

\* The observations are all of the calls: as many, and no two the same.
LEMMA ScoreObserve ==
    ASSUME ScoreInv, PairInv', AnswersInv', HonestInv', Observe
    PROVE  ScoreInv'
<1>1. /\ pass = "replay" /\ pass' = "served" /\ policy # "unset"
      /\ Finished(candidate, calls) /\ observed' \in Streams
      /\ UNCHANGED <<policy, candidate, calls, tape, at, served, twins, displaced>>
  BY DEF Observe, vars
<1>2. served = <<>> /\ twins = <<>> /\ displaced = {} /\ at = 1
  BY <1>1 DEF ScoreInv, PairInv, Settled
<1>3. DOMAIN calls = 1 .. Len(calls) /\ Len(calls) \in Nat
  BY ListedDomain DEF ScoreInv, AnswersInv, WeaveInv, Woven
<1>4. /\ observed' \in [DOMAIN calls -> DOMAIN calls]
      /\ \A m, n \in DOMAIN calls : observed'[m] = observed'[n] => m = n
  BY <1>1 DEF Streams
<1>5. observed' \in Injection(DOMAIN calls, DOMAIN calls)
  BY <1>4 DEF Injection, IsInjective
<1>6. IsFiniteSet(DOMAIN calls)
  BY <1>3, FS_Interval
<1>7. observed' \in Surjection(DOMAIN calls, DOMAIN calls)
  BY <1>5, <1>6, FS_Injection
<1>8. \A i \in DOMAIN calls : \E k \in DOMAIN calls : observed'[k] = i
  BY <1>7 DEF Surjection
<1>9. DOMAIN observed' = DOMAIN calls /\ \A k \in DOMAIN calls : observed'[k] \in DOMAIN calls
  BY <1>4
<1>10. Whole'
  BY <1>1, <1>8, <1>9 DEF Whole, Finished
<1>11. Fitting'
  BY <1>1, <1>2 DEF Fitting
<1>12. \A k \in DOMAIN observed' : ~(k < at')
  BY <1>1, <1>2, <1>3, <1>9
<1>13. Passed'
  BY <1>1, <1>12 DEF Passed
<1>14. Settled'
  BY <1>1, <1>2 DEF Settled
<1> QED BY <1>1, <1>2, <1>10, <1>11, <1>13, <1>14 DEF ScoreInv

\* Where the run is over its calls and events stay.
LEMMA RunRests ==
    ASSUME UNCHANGED vars
    PROVE  /\ calls' = calls /\ tape' = tape /\ policy' = policy /\ candidate' = candidate
           /\ Owned' = Owned
           /\ Finished(candidate, calls)' <=> Finished(candidate, calls)
           /\ \A c : Queue(c)' = Queue(c)
BY DEF vars, Owned, Finished, Queue

\* The lists only grow: what is passed stays passed.
LEMMA PassedStays ==
    ASSUME UNCHANGED vars,
           Callers(served) \subseteq Callers(served'), Events(served) \subseteq Events(served'),
           Callers(twins) \subseteq Callers(twins'), Events(twins) \subseteq Events(twins')
    PROVE  \A i : (Sought(i) => Sought(i)') /\ (Twinned(i) => Twinned(i)')
<1>1. calls' = calls /\ Owned' = Owned /\ \A c : Queue(c)' = Queue(c)
  BY RunRests
<1>2. \A c : Free(c)' \subseteq Free(c)
  BY <1>1 DEF Free, IsTaken
<1>3. \A i : Sought(i) => Sought(i)'
  BY <1>1 DEF Sought
<1>4. ASSUME NEW i, Twinned(i) PROVE Twinned(i)'
  <2>1. PICK c : c = calls[i]
    OBVIOUS
  <2>2. Free(c) = {} => Free(c)' = {}
    BY <1>2
  <2>3. Free(calls[i])' = Free(c)'
    BY <1>1, <2>1 DEF Free, Queue, IsTaken
  <2> QED BY <1>1, <1>4, <2>1, <2>2, <2>3 DEF Twinned
<1> QED BY <1>3, <1>4

\* One more pair.
LEMMA ListGrows ==
    ASSUME NEW s, NEW p, Listed(s)
    PROVE  LET t == Append(s, p)
           IN /\ Callers(s) \subseteq Callers(t) /\ Events(s) \subseteq Events(t)
              /\ p.call \in Callers(t) /\ p.event \in Events(t)
              /\ \A n \in DOMAIN t : (n \in DOMAIN s /\ t[n] = s[n]) \/ t[n] = p
<1> DEFINE t == Append(s, p)
<1>1. /\ DOMAIN t = DOMAIN s \cup {Len(s) + 1}
      /\ \A i \in DOMAIN s : t[i] = s[i]
      /\ t[Len(s) + 1] = p
  BY AppendListed
<1> HIDE DEF t
<1>2. /\ Callers(s) \subseteq Callers(t) /\ Events(s) \subseteq Events(t)
      /\ p.call \in Callers(t) /\ p.event \in Events(t)
      /\ \A n \in DOMAIN t : (n \in DOMAIN s /\ t[n] = s[n]) \/ t[n] = p
  BY <1>1 DEF Callers, Events
<1> QED BY <1>2 DEF t

LEMMA ScorePairServed ==
    ASSUME ScoreInv, PairInv', AnswersInv', HonestInv', PairServed
    PROVE  ScoreInv'
<1>i. PICK i : i = observed[at]
  OBVIOUS
<1>c. PICK c : c = calls[i]
  OBVIOUS
<1>p. PICK p : p = [call |-> i, event |-> c.row, ahead |-> FALSE]
  OBVIOUS
<1>1. /\ pass = "served" /\ pass' = "served" /\ at \in DOMAIN observed /\ at' = at + 1
      /\ UNCHANGED vars /\ observed' = observed /\ twins' = twins /\ displaced' = displaced
      /\ served' = IF ServedFree(c) THEN Append(served, p) ELSE served
  BY <1>i, <1>c, <1>p DEF PairServed
<1>2. /\ calls' = calls /\ tape' = tape /\ policy' = policy /\ candidate' = candidate
      /\ Owned' = Owned /\ (Finished(candidate, calls)' <=> Finished(candidate, calls))
      /\ \A x : Queue(x)' = Queue(x)
  BY <1>1, RunRests
<1>3. Whole /\ at \in Nat /\ Listed(served) /\ twins = <<>> /\ DOMAIN observed \subseteq Nat
  BY <1>1 DEF ScoreInv, PairInv, Apart
<1>4. i \in DOMAIN calls
  BY <1>1, <1>3, <1>i DEF Whole
<1>5. p.call = i /\ p.event = c.row /\ ~p.ahead
  BY <1>p
<1>6. ServedFree(c) => c.how = "address" /\ c.row \notin Owned \cup Events(served)
  BY DEF ServedFree, IsTaken
<1>7. ~ServedFree(c) => c.how # "address" \/ c.row \in Owned \cup Events(served)
  <2>1. Events(twins) = {}
    BY <1>3 DEF Events
  <2> QED BY <2>1 DEF ServedFree, IsTaken
<1>8. /\ Callers(served) \subseteq Callers(served') /\ Events(served) \subseteq Events(served')
      /\ ServedFree(c) => i \in Callers(served')
      /\ \A n \in DOMAIN served' : \/ n \in DOMAIN served /\ served'[n] = served[n]
                                   \/ ServedFree(c) /\ served'[n] = p
  <2>1. CASE ServedFree(c)
    <3>1. served' = Append(served, p)
      BY <1>1, <2>1
    <3> QED BY <1>3, <1>5, <2>1, <3>1, ListGrows
  <2>2. CASE ~ServedFree(c)
    BY <1>1, <2>2
  <2> QED BY <2>1, <2>2
<1>10. Fitting'
  <2>1. ASSUME NEW n \in DOMAIN served'
        PROVE  /\ served'[n].call \in DOMAIN calls /\ calls[served'[n].call].how = "address"
               /\ served'[n].event = calls[served'[n].call].row /\ ~served'[n].ahead
    <3>1. CASE n \in DOMAIN served /\ served'[n] = served[n]
      BY <3>1 DEF ScoreInv, Fitting
    <3>2. CASE ServedFree(c) /\ served'[n] = p
      BY <1>4, <1>5, <1>6, <1>c, <3>2
    <3> QED BY <1>8, <3>1, <3>2
  <2>2. DOMAIN twins' = {}
    BY <1>1, <1>3
  <2> QED BY <1>2, <2>1, <2>2 DEF Fitting
<1>11. \A j : Sought(j) => Sought(j)'
  BY <1>1, <1>8, PassedStays
<1>12. Sought(i)'
  BY <1>2, <1>7, <1>8, <1>c DEF Sought
<1>13. Passed'
  <2>1. ASSUME NEW k \in DOMAIN observed', k < at' PROVE Sought(observed[k])'
    <3>1. k < at \/ k = at
      BY <1>1, <1>3, <2>1
    <3>2. CASE k < at
      <4>1. Sought(observed[k])
        BY <1>1, <2>1, <3>2 DEF ScoreInv, Passed
      <4>2. PICK j : j = observed[k]
        OBVIOUS
      <4> QED BY <1>1, <1>11, <4>1, <4>2 DEF Sought
    <3>3. CASE k = at
      BY <1>1, <1>12, <1>i, <3>3 DEF Sought
    <3> QED BY <3>1, <3>2, <3>3
  <2> QED BY <1>1, <2>1 DEF Passed
<1>14. Settled'
  BY <1>1 DEF ScoreInv, Settled
<1>15. Whole'
  BY <1>1, <1>2, <1>3 DEF Whole
<1>16. at' # 0
  BY <1>1, <1>3
<1> QED BY <1>1, <1>10, <1>13, <1>14, <1>15, <1>16 DEF ScoreInv

LEMMA ScoreAllServed ==
    ASSUME ScoreInv, PairInv', AnswersInv', HonestInv', AllServed
    PROVE  ScoreInv'
<1>1. /\ pass = "served" /\ pass' = "twins" /\ at \notin DOMAIN observed /\ at' = 1
      /\ UNCHANGED vars /\ observed' = observed /\ served' = served /\ twins' = twins
      /\ displaced' = displaced
  BY DEF AllServed
<1>2. /\ calls' = calls /\ tape' = tape /\ policy' = policy /\ candidate' = candidate
      /\ Owned' = Owned /\ (Finished(candidate, calls)' <=> Finished(candidate, calls))
      /\ \A x : Queue(x)' = Queue(x)
  BY <1>1, RunRests
<1>3. Whole /\ at \in Nat /\ at # 0
  BY <1>1 DEF ScoreInv, PairInv
<1>4. DOMAIN observed = 1 .. Len(calls) /\ Len(calls) \in Nat
  BY <1>3, ListedDomain DEF Whole, ScoreInv, AnswersInv, WeaveInv, Woven
<1>5. \A k \in DOMAIN observed : k < at /\ ~(k < 1)
  BY <1>1, <1>3, <1>4
<1>6. \A k \in DOMAIN observed : Sought(observed[k])
  BY <1>5 DEF ScoreInv, Passed
<1>7. Passed'
  <2>1. \A k \in DOMAIN observed' : Sought(observed[k])'
    BY <1>1, <1>2, <1>6 DEF Sought
  <2>2. \A k \in DOMAIN observed' : ~(k < at')
    BY <1>1, <1>5
  <2> QED BY <1>1, <2>1, <2>2 DEF Passed
<1>8. Fitting'
  BY <1>1, <1>2 DEF ScoreInv, Fitting
<1>9. Settled' /\ Whole'
  BY <1>1, <1>2, <1>3 DEF ScoreInv, Settled, Whole
<1> QED BY <1>1, <1>7, <1>8, <1>9 DEF ScoreInv

LEMMA ScorePairTwin ==
    ASSUME ScoreInv, PairInv', AnswersInv', HonestInv', PairTwin
    PROVE  ScoreInv'
<1>i. PICK i : i = observed[at]
  OBVIOUS
<1>c. PICK c : c = calls[i]
  OBVIOUS
<1>h. PICK head : head = IF c.how = "exact" \/ i \in Callers(served) THEN {} ELSE First(Free(c))
  OBVIOUS
<1>1. /\ pass = "twins" /\ pass' = "twins" /\ at \in DOMAIN observed /\ at' = at + 1
      /\ UNCHANGED vars /\ observed' = observed /\ served' = served /\ displaced' = displaced
      /\ IF head = {} THEN UNCHANGED twins
         ELSE \E e \in head :
                twins' = Append(twins, [call |-> i, event |-> e, ahead |-> OutOfOrder(c)])
  BY <1>i, <1>c, <1>h DEF PairTwin
<1>2. /\ calls' = calls /\ tape' = tape /\ policy' = policy /\ candidate' = candidate
      /\ Owned' = Owned /\ (Finished(candidate, calls)' <=> Finished(candidate, calls))
      /\ \A x : Queue(x)' = Queue(x)
  BY <1>1, RunRests
<1>3. Whole /\ at \in Nat /\ Listed(twins) /\ DOMAIN observed \subseteq Nat
  BY <1>1 DEF ScoreInv, PairInv, Apart
<1>4. i \in DOMAIN calls
  BY <1>1, <1>3, <1>i DEF Whole
<1>5. head = {} => Twinned(i)
  <2>1. Free(c) # {} => First(Free(c)) # {}
    BY FreeIsFinite, FirstThere DEF ScoreInv, AnswersInv
  <2> QED BY <1>c, <1>h, <2>1 DEF Twinned
<1>6. head # {} => c.how # "exact" /\ head \subseteq Queue(c)
  BY <1>h DEF First, Free
<1>7. /\ Callers(twins) \subseteq Callers(twins') /\ Events(twins) \subseteq Events(twins')
      /\ head # {} => i \in Callers(twins')
      /\ \A n \in DOMAIN twins' :
            \/ n \in DOMAIN twins /\ twins'[n] = twins[n]
            \/ head # {} /\ twins'[n].call = i /\ twins'[n].event \in head
  <2>1. CASE head = {}
    BY <1>1, <2>1
  <2>2. CASE head # {}
    <3>1. PICK e \in head :
            twins' = Append(twins, [call |-> i, event |-> e, ahead |-> OutOfOrder(c)])
      BY <1>1, <2>2
    <3>2. PICK p : p = [call |-> i, event |-> e, ahead |-> OutOfOrder(c)]
      OBVIOUS
    <3>3. twins' = Append(twins, p) /\ p.call = i /\ p.event = e
      BY <3>1, <3>2
    <3> QED BY <1>3, <2>2, <3>3, ListGrows
  <2> QED BY <2>1, <2>2
<1>8. Fitting'
  <2>1. ASSUME NEW n \in DOMAIN twins'
        PROVE  /\ twins'[n].call \in DOMAIN calls /\ calls[twins'[n].call].how # "exact"
               /\ twins'[n].event \in Queue(calls[twins'[n].call])
    <3>1. CASE n \in DOMAIN twins /\ twins'[n] = twins[n]
      BY <3>1 DEF ScoreInv, Fitting
    <3>2. CASE head # {} /\ twins'[n].call = i /\ twins'[n].event \in head
      BY <1>4, <1>6, <1>c, <3>2
    <3> QED BY <1>7, <3>1, <3>2
  <2>2. \A n \in DOMAIN twins' : (twins[n].event \in Queue(calls[twins[n].call]))'
    <3>1. ASSUME NEW n \in DOMAIN twins' PROVE (twins[n].event \in Queue(calls[twins[n].call]))'
      <4>1. PICK x, e : x = calls[twins'[n].call] /\ e = twins'[n].event
        OBVIOUS
      <4>2. e \in Queue(x)'
        BY <1>2, <2>1, <4>1
      <4> QED BY <1>2, <4>1, <4>2 DEF Queue
    <3> QED BY <3>1
  <2> QED BY <1>1, <1>2, <2>1, <2>2 DEF ScoreInv, Fitting
<1>9. \A j : (Sought(j) => Sought(j)') /\ (Twinned(j) => Twinned(j)')
  <2>1. Callers(served) \subseteq Callers(served') /\ Events(served) \subseteq Events(served')
    BY <1>1
  <2> QED BY <1>1, <1>7, <2>1, PassedStays
<1>10. Twinned(i)'
  <2>1. head # {} => i \in Callers(twins')
    BY <1>7
  <2> QED BY <1>5, <1>9, <2>1 DEF Twinned
<1>11. Passed'
  <2>1. ASSUME NEW k \in DOMAIN observed' PROVE Sought(observed[k])'
    <3>1. PICK j : j = observed[k]
      OBVIOUS
    <3>2. Sought(j)
      BY <1>1, <2>1, <3>1 DEF ScoreInv, Passed
    <3> QED BY <1>1, <1>9, <3>1, <3>2 DEF Sought
  <2>2. ASSUME NEW k \in DOMAIN observed', k < at' PROVE Twinned(observed[k])'
    <3>1. PICK j : j = observed[k]
      OBVIOUS
    <3>2. k < at \/ k = at
      BY <1>1, <1>3, <2>2
    <3>3. Twinned(j)'
      <4>1. CASE k < at
        <5>1. Twinned(j)
          BY <1>1, <2>2, <3>1, <4>1 DEF ScoreInv, Passed
        <5> QED BY <1>9, <5>1
      <4>2. CASE k = at
        BY <1>10, <1>i, <3>1, <4>2
      <4> QED BY <3>2, <4>1, <4>2
    <3> QED BY <1>1, <3>1, <3>3 DEF Twinned, Free
  <2> QED BY <1>1, <2>1, <2>2 DEF Passed
<1>12. Settled' /\ Whole'
  BY <1>1, <1>2, <1>3 DEF ScoreInv, Settled, Whole
<1>13. at' # 0
  BY <1>1, <1>3
<1> QED BY <1>1, <1>8, <1>11, <1>12, <1>13 DEF ScoreInv

LEMMA ScoreAllPaired ==
    ASSUME ScoreInv, PairInv', AnswersInv', HonestInv', AllPaired
    PROVE  ScoreInv'
<1>1. /\ pass = "twins" /\ pass' = "displaced" /\ at \notin DOMAIN observed /\ at' = 1
      /\ UNCHANGED vars /\ observed' = observed /\ served' = served /\ twins' = twins
      /\ displaced' = displaced /\ jumped' = {n \in DOMAIN twins : twins[n].ahead}
  BY DEF AllPaired
<1>2. /\ calls' = calls /\ tape' = tape /\ policy' = policy /\ candidate' = candidate
      /\ Owned' = Owned /\ (Finished(candidate, calls)' <=> Finished(candidate, calls))
      /\ \A x : Queue(x)' = Queue(x)
  BY <1>1, RunRests
<1>3. Whole /\ at \in Nat /\ at # 0 /\ displaced = {}
  BY <1>1 DEF ScoreInv, PairInv, Settled
<1>4. DOMAIN observed = 1 .. Len(calls) /\ Len(calls) \in Nat
  BY <1>3, ListedDomain DEF Whole, ScoreInv, AnswersInv, WeaveInv, Woven
<1>5. \A k \in DOMAIN observed : k < at
  BY <1>1, <1>3, <1>4
<1>6. \A k \in DOMAIN observed : Sought(observed[k]) /\ Twinned(observed[k])
  BY <1>1, <1>5 DEF ScoreInv, Passed
<1>7. Passed'
  <2>1. \A j : (Sought(j) => Sought(j)') /\ (Twinned(j) => Twinned(j)')
    BY <1>1, PassedStays
  <2>2. ASSUME NEW k \in DOMAIN observed' PROVE Sought(observed[k])' /\ Twinned(observed[k])'
    <3>1. PICK j : j = observed[k]
      OBVIOUS
    <3>2. Sought(j)' /\ Twinned(j)'
      BY <1>1, <1>6, <2>1, <2>2, <3>1
    <3> QED BY <1>1, <3>1, <3>2 DEF Sought, Twinned, Free
  <2> QED BY <1>1, <2>2 DEF Passed
<1>8. Fitting'
  BY <1>1, <1>2 DEF ScoreInv, Fitting, Queue
<1>9. DOMAIN Pairs' = DOMAIN Pairs /\ DOMAIN Pairs \subseteq Nat \ {0}
  BY <1>1, PairsAre DEF Pairs, ScoreInv
<1>10. \A n \in DOMAIN Pairs' : ~(n < at')
  BY <1>1, <1>9
<1>11. \E ex : Explains(ex)'
  <2>1. PICK ex : ex = [x \in {} |-> x]
    OBVIOUS
  <2>2. ex \in [displaced' -> {n \in DOMAIN twins' : twins'[n].ahead} \ jumped']
    BY <1>1, <1>3, <2>1
  <2>3. displaced' = {}
    BY <1>1, <1>3
  <2>4. Explains(ex)'
    BY <2>2, <2>3 DEF Explains
  <2> QED BY <2>4
<1>12. Settled'
  <2>1. displaced' = {} /\ pass' = "displaced"
    BY <1>1, <1>3
  <2>2. jumped' \subseteq {n \in DOMAIN twins' : twins'[n].ahead}
    BY <1>1
  <2> QED BY <1>10, <1>11, <2>1, <2>2 DEF Settled
<1>13. Whole'
  BY <1>1, <1>2, <1>3 DEF Whole
<1> QED BY <1>1, <1>7, <1>8, <1>12, <1>13 DEF ScoreInv

\* What stays once all is paired.
LEMMA PairedRests ==
    ASSUME ScoreInv, UNCHANGED vars, pass \in {"displaced", "scored"},
           pass' \in {"displaced", "scored"},
           observed' = observed, served' = served, twins' = twins, at' \in Nat \ {0},
           PairInv', AnswersInv', HonestInv', Settled'
    PROVE  ScoreInv'
<1>1. /\ calls' = calls /\ tape' = tape /\ policy' = policy /\ candidate' = candidate
      /\ Owned' = Owned /\ (Finished(candidate, calls)' <=> Finished(candidate, calls))
      /\ \A x : Queue(x)' = Queue(x)
  BY RunRests
<1>2. \A k \in DOMAIN observed : Sought(observed[k]) /\ Twinned(observed[k])
  BY DEF ScoreInv, Passed
<1>3. Passed'
  <2>1. \A j : (Sought(j) => Sought(j)') /\ (Twinned(j) => Twinned(j)')
    BY PassedStays
  <2>2. ASSUME NEW k \in DOMAIN observed' PROVE Sought(observed[k])' /\ Twinned(observed[k])'
    <3>1. PICK j : j = observed[k]
      OBVIOUS
    <3>2. Sought(j)' /\ Twinned(j)'
      BY <1>2, <2>1, <2>2, <3>1
    <3> QED BY <3>1, <3>2 DEF Sought, Twinned, Free
  <2> QED BY <2>2 DEF Passed
<1>4. Fitting'
  BY <1>1 DEF ScoreInv, Fitting, Queue
<1>5. Whole'
  BY <1>1 DEF Whole, ScoreInv
<1> QED BY <1>3, <1>4, <1>5 DEF ScoreInv

LEMMA ScoreScore ==
    ASSUME ScoreInv, PairInv', AnswersInv', HonestInv', Score
    PROVE  ScoreInv'
<1>1. /\ pass = "displaced" /\ pass' = "scored" /\ at \notin DOMAIN Pairs
      /\ UNCHANGED vars
      /\ UNCHANGED <<observed, at, served, twins, jumped, displaced>>
  BY DEF Score
<1>2. calls' = calls /\ tape' = tape
  BY <1>1, RunRests
<1>3. at \in Nat /\ at # 0 /\ \A n \in DOMAIN Pairs : n < at
  <2>1. at \in Nat /\ at # 0
    BY DEF ScoreInv, PairInv
  <2> QED BY <1>1, <2>1, PairsAre DEF ScoreInv
<1>4. PICK ex : Explains(ex)
  BY <1>1 DEF ScoreInv, Settled
<1>5. Explains(ex)'
  BY <1>1, <1>2, <1>4 DEF Explains
<1>6. Pairs' = Pairs
  BY <1>1 DEF Pairs
<1>7. Settled'
  <2>1. \A c : Explaining(c)' = Explaining(c)
    BY <1>1, <1>2 DEF Explaining, RequestDiverged
  <2>2. ASSUME NEW n \in DOMAIN Pairs, ~Pairs[n].ahead
        PROVE  Pairs[n].call \in displaced \/ Explaining(calls[Pairs[n].call])' = {}
    <3>1. Pairs[n].call \in displaced \/ Explaining(calls[Pairs[n].call]) = {}
      BY <1>1, <1>3, <2>2 DEF ScoreInv, Settled
    <3>2. PICK c : c = calls[Pairs[n].call]
      OBVIOUS
    <3>3. Explaining(c)' = Explaining(calls[Pairs[n].call])'
      BY <1>1, <1>2, <1>6, <3>2 DEF Explaining, RequestDiverged
    <3> QED BY <2>1, <3>1, <3>2, <3>3
  <2>3. \A i \in displaced' : \E n \in DOMAIN Pairs' : Pairs'[n].call = i /\ ~Pairs'[n].ahead
    BY <1>1, <1>6 DEF ScoreInv, Settled
  <2>4. jumped' \subseteq {n \in DOMAIN twins' : twins'[n].ahead}
    BY <1>1 DEF ScoreInv, Settled
  <2>5. \A n \in DOMAIN Pairs' : ~Pairs'[n].ahead =>
           Pairs'[n].call \in displaced' \/ Explaining(calls[Pairs[n].call])' = {}
    BY <1>1, <1>6, <2>2
  <2> QED BY <1>1, <1>5, <2>3, <2>4, <2>5 DEF Settled
<1> QED BY <1>1, <1>3, <1>7, PairedRests

LEMMA ScoreRests ==
    ASSUME ScoreInv, PairInv', AnswersInv', HonestInv', UNCHANGED pairVars
    PROVE  ScoreInv'
<1>1. /\ UNCHANGED <<pass, observed, at, served, twins, jumped, displaced>>
      /\ calls' = calls /\ tape' = tape /\ policy' = policy /\ candidate' = candidate
      /\ claimed' = claimed
  BY DEF pairVars, scoreVars, vars
<1>2. Owned' = Owned /\ Pairs' = Pairs
  BY <1>1 DEF Owned, Pairs
<1>3. Fitting'
  BY <1>1 DEF ScoreInv, Fitting, Queue
<1>4. Passed'
  BY <1>1, <1>2 DEF ScoreInv, Passed, Sought, Twinned, Free, Queue, IsTaken
<1>5. Settled'
  <2>1. pass \in {"displaced", "scored"} => \E ex : Explains(ex)'
    <3>1. \A ex : Explains(ex) => Explains(ex)'
      BY <1>1 DEF Explains
    <3> QED BY <3>1 DEF ScoreInv, Settled
  <2> QED BY <1>1, <1>2, <2>1 DEF ScoreInv, Settled, Explaining, RequestDiverged
<1>6. pass # "replay" => Whole'
  BY <1>1 DEF ScoreInv, Whole, Finished
<1> QED BY <1>1, <1>3, <1>4, <1>5, <1>6 DEF ScoreInv

\* A displaced call takes the first jump that explains it, and it alone.
LEMMA ScoreDisplace ==
    ASSUME ScoreInv, PairInv', AnswersInv', HonestInv', Displace
    PROVE  ScoreInv'
<1>p. PICK p : p = Pairs[at]
  OBVIOUS
<1>c. PICK c : c = calls[p.call]
  OBVIOUS
<1>s. PICK same : same = IF p.ahead THEN {} ELSE First(Explaining(c))
  OBVIOUS
<1>1. /\ pass = "displaced" /\ pass' = "displaced" /\ at \in DOMAIN Pairs /\ at' = at + 1
      /\ UNCHANGED vars /\ UNCHANGED <<observed, served, twins>>
      /\ jumped' = jumped \ same
      /\ displaced' = IF same = {} THEN displaced ELSE displaced \cup {p.call}
  BY <1>p, <1>c, <1>s DEF Displace
<1>2. calls' = calls /\ tape' = tape /\ Pairs' = Pairs
  BY <1>1, RunRests DEF Pairs
<1>3. PairInv /\ at \in Nat /\ DOMAIN Pairs \subseteq Nat /\ DOMAIN twins = 1 .. Len(twins)
      /\ Len(twins) \in Nat
  BY PairsAre DEF ScoreInv, PairInv
<1>4. PICK ex : Explains(ex)
  BY <1>1 DEF ScoreInv, Settled
<1>5. jumped \subseteq {n \in DOMAIN twins : twins[n].ahead}
  BY <1>1 DEF ScoreInv, Settled
<1>6. \A i \in displaced : \E n \in DOMAIN Pairs : Pairs[n].call = i /\ ~Pairs[n].ahead /\ n < at
  BY <1>1 DEF ScoreInv, Settled
<1>7. Explaining(c) \subseteq jumped /\ Explaining(c) \in SUBSET Nat /\ IsFiniteSet(Explaining(c))
  <2>1. Explaining(c) \in SUBSET (1 .. Len(twins)) /\ Explaining(c) \subseteq jumped
    BY <1>3, <1>5 DEF Explaining
  <2>2. IsFiniteSet(1 .. Len(twins))
    BY <1>3, FS_Interval
  <2>3. IsFiniteSet(Explaining(c))
    BY <2>1, <2>2, FS_Subset
  <2> QED BY <1>3, <2>1, <2>3
<1>8. same = {} => p.ahead \/ Explaining(c) = {}
  BY <1>7, <1>s, FirstThere
<1>9. ASSUME NEW n \in same PROVE same = {n} /\ n \in Explaining(c) /\ ~p.ahead
  <2>1. same = First(Explaining(c)) /\ ~p.ahead /\ Explaining(c) # {}
    BY <1>9, <1>s DEF First
  <2> QED BY <1>7, <1>9, <2>1, FirstThere
<1>10. same # {} => p.call \notin displaced
  <2>1. ASSUME p.call \in displaced PROVE FALSE
    <3>1. PICK n \in DOMAIN Pairs : Pairs[n].call = p.call /\ n < at
      BY <1>6, <2>1
    <3>2. n = at
      BY <1>1, <1>3, <1>p, <3>1, PairedOnceHolds DEF PairedOnce
    <3> QED BY <1>3, <3>1, <3>2
  <2> QED BY <2>1
<1>11. \E new : Explains(new)'
  <2>1. CASE same = {}
    <3>1. jumped' = jumped /\ displaced' = displaced
      BY <1>1, <2>1
    <3>2. Explains(ex)'
      BY <1>1, <1>2, <1>4, <3>1 DEF Explains
    <3> QED BY <3>2
  <2>2. CASE same # {}
    <3>1. PICK n : n \in same
      BY <2>2
    <3>2. n \in jumped /\ same = {n} /\ ByIdentity(tape[twins[n].event]) = ByIdentity(c)
      <4>1. n \in Explaining(c) /\ same = {n}
        BY <1>9, <3>1
      <4>2. ~RequestDiverged(c, twins[n].event) /\ n \in jumped
        BY <4>1 DEF Explaining
      <4> QED BY <4>1, <4>2 DEF RequestDiverged
    <3>3. PICK new : new = [i \in displaced \cup {p.call} |-> IF i = p.call THEN n ELSE ex[i]]
      OBVIOUS
    <3>4. displaced' = displaced \cup {p.call} /\ jumped' = jumped \ {n}
      BY <1>1, <2>2, <3>2
    <3>5. /\ ex \in [displaced -> {m \in DOMAIN twins : twins[m].ahead} \ jumped]
          /\ \A i, j \in displaced : ex[i] = ex[j] => i = j
          /\ \A i \in displaced : ByIdentity(tape[twins[ex[i]].event]) = ByIdentity(calls[i])
      BY <1>4 DEF Explains
    <3>6. \A i \in displaced : new[i] = ex[i] /\ ex[i] # n
      BY <1>10, <2>2, <3>2, <3>3, <3>5
    <3>7. new[p.call] = n
      BY <3>3
    <3>8. new \in [displaced' -> {m \in DOMAIN twins : twins[m].ahead} \ jumped']
      BY <1>5, <3>2, <3>3, <3>4, <3>5
    <3>9. \A i, j \in displaced' : new[i] = new[j] => i = j
      BY <3>4, <3>5, <3>6, <3>7
    <3>10. \A i \in displaced' : ByIdentity(tape[twins[new[i]].event]) = ByIdentity(calls[i])
      BY <1>c, <3>2, <3>4, <3>5, <3>6, <3>7
    <3>11. Explains(new)'
      BY <1>1, <1>2, <3>8, <3>9, <3>10 DEF Explains
    <3> QED BY <3>11
  <2> QED BY <2>1, <2>2
<1>12. \A i \in displaced' : \E n \in DOMAIN Pairs' :
          Pairs'[n].call = i /\ ~Pairs'[n].ahead /\ n < at'
  <2>1. ASSUME NEW i \in displaced
        PROVE  \E n \in DOMAIN Pairs : Pairs[n].call = i /\ ~Pairs[n].ahead /\ n < at + 1
    <3>1. PICK n \in DOMAIN Pairs : Pairs[n].call = i /\ ~Pairs[n].ahead /\ n < at
      BY <1>6
    <3> QED BY <1>3, <3>1
  <2>2. same # {} => \E n \in DOMAIN Pairs : Pairs[n].call = p.call /\ ~Pairs[n].ahead /\ n < at + 1
    <3>1. same # {} => ~p.ahead
      BY <1>9
    <3>2. at < at + 1
      BY <1>3
    <3> QED BY <1>1, <1>p, <3>1, <3>2
  <2> QED BY <1>1, <1>2, <2>1, <2>2
<1>13. ASSUME NEW n \in DOMAIN Pairs, ~Pairs[n].ahead, n < at'
       PROVE  Pairs[n].call \in displaced' \/ Explaining(calls[Pairs[n].call])' = {}
  <2>1. PICK x : x = calls[Pairs[n].call]
    OBVIOUS
  <2>2. Explaining(x)' \subseteq Explaining(x)
    BY <1>1, <1>2 DEF Explaining, RequestDiverged
  <2>3. Explaining(calls[Pairs[n].call])' = Explaining(x)'
    BY <1>2, <2>1 DEF Explaining, RequestDiverged
  <2>4. n < at \/ n = at
    BY <1>1, <1>3, <1>13
  <2>5. CASE n < at
    BY <1>1, <1>13, <2>1, <2>2, <2>3, <2>5 DEF ScoreInv, Settled
  <2>6. CASE n = at
    BY <1>1, <1>8, <1>13, <1>c, <1>p, <2>1, <2>2, <2>3, <2>6
  <2> QED BY <2>4, <2>5, <2>6
<1>14. Settled'
  <2>1. jumped' \subseteq {n \in DOMAIN twins' : twins'[n].ahead}
    BY <1>1, <1>5
  <2>2. \A n \in DOMAIN Pairs' : ~Pairs'[n].ahead /\ n < at' =>
           Pairs'[n].call \in displaced' \/ Explaining(calls[Pairs[n].call])' = {}
    BY <1>2, <1>13
  <2> QED BY <1>1, <1>11, <1>12, <2>1, <2>2 DEF Settled
<1>15. at' \in Nat \ {0}
  BY <1>1, <1>3
<1> QED BY <1>1, <1>14, <1>15, PairedRests

LEMMA ScoreNext == ScoreInv /\ [PairNext]_pairVars => ScoreInv'
<1> SUFFICES ASSUME ScoreInv, [PairNext]_pairVars PROVE ScoreInv'
  OBVIOUS
<1>1. PairInv' /\ AnswersInv' /\ HonestInv'
  BY RunNext
<1>2. CASE Replaying
  BY <1>1, <1>2, ScoreReplaying
<1>3. CASE Observe
  BY <1>1, <1>3, ScoreObserve
<1>4. CASE PairServed
  BY <1>1, <1>4, ScorePairServed
<1>5. CASE AllServed
  BY <1>1, <1>5, ScoreAllServed
<1>6. CASE PairTwin
  BY <1>1, <1>6, ScorePairTwin
<1>7. CASE AllPaired
  BY <1>1, <1>7, ScoreAllPaired
<1>8. CASE Displace
  BY <1>1, <1>8, ScoreDisplace
<1>9. CASE Score
  BY <1>1, <1>9, ScoreScore
<1>10. CASE UNCHANGED pairVars
  BY <1>1, <1>10, ScoreRests
<1> QED BY <1>2, <1>3, <1>4, <1>5, <1>6, <1>7, <1>8, <1>9, <1>10 DEF PairNext, Scored

-----------------------------------------------------------------------------
(* Counting requests.                                                      *)

Places(program) == UNION {{b} \X DOMAIN program[b] : b \in Branches}

\* The elements of s that make a request.
Making(s, r) == {i \in DOMAIN s : ByIdentity(s[i]) = r}

PlaceOf(s) == [i \in DOMAIN s |-> <<s[i].branch, s[i].nth>>]

\* A finished program's calls are its places, one each.
LEMMA PlacesAre ==
    ASSUME NEW s, NEW program \in Programs, NEW instance, Woven(s, program, instance),
           Finished(program, s)
    PROVE  /\ PlaceOf(s) \in Bijection(DOMAIN s, Places(program))
           /\ \A i \in DOMAIN s : LET c == PlaceOf(s)[i]
                                  IN ByIdentity(program[c[1]][c[2]]) = ByIdentity(s[i])
<1> DEFINE f == PlaceOf(s)
<1>0. DOMAIN s = 1 .. Len(s) /\ Len(s) \in Nat /\ Listed(s)
  BY ListedDomain DEF Woven
<1>1. ASSUME NEW i \in DOMAIN s
      PROVE  /\ s[i].branch \in Branches /\ s[i].nth \in DOMAIN program[s[i].branch]
             /\ Says(s[i], program[s[i].branch][s[i].nth])
             /\ s[i].nth \in 1 .. Of(s[i].branch, s)
  BY DEF Woven
<1>2. ASSUME NEW i \in DOMAIN s
      PROVE  f[i] \in Places(program) /\ f[i] = <<s[i].branch, s[i].nth>>
  <2>1. f[i] = <<s[i].branch, s[i].nth>>
    BY DEF PlaceOf
  <2>2. f[i] \in {s[i].branch} \X DOMAIN program[s[i].branch]
    BY <1>1, <2>1
  <2> QED BY <1>1, <2>1, <2>2 DEF Places
<1>3. ASSUME NEW i \in DOMAIN s, NEW j \in DOMAIN s, f[i] = f[j] PROVE i = j
  <2>1. s[i].branch = s[j].branch /\ s[i].nth = s[j].nth
    BY <1>2, <1>3
  <2>2. (i < j <=> s[i].nth < s[j].nth) /\ (j < i <=> s[j].nth < s[i].nth)
    BY <2>1 DEF Woven
  <2>3. ~(s[i].nth < s[i].nth)
    BY <1>1
  <2>4. ~(i < j) /\ ~(j < i)
    BY <2>1, <2>2, <2>3
  <2> QED BY <1>0, <2>4
<1>4. ASSUME NEW c \in Places(program) PROVE \E i \in DOMAIN s : f[i] = c
  <2>1. PICK b \in Branches : c \in {b} \X DOMAIN program[b]
    BY DEF Places
  <2>2. PICK n \in DOMAIN program[b] : c = <<b, n>>
    BY <2>1
  <2>3. program[b] \in Seq(CallType) /\ Of(b, s) = Len(program[b])
    BY DEF Programs, Finished
  <2>4. n \in 1 .. Of(b, s)
    BY <2>2, <2>3
  <2>5. PICK i \in DOMAIN s : s[i].branch = b /\ s[i].nth = n
    BY <2>4 DEF Woven
  <2> QED BY <1>2, <2>2, <2>5
<1>5. f \in [DOMAIN s -> Places(program)]
  BY <1>2 DEF PlaceOf
<1>6. f \in Bijection(DOMAIN s, Places(program))
  BY <1>3, <1>4, <1>5 DEF Bijection, Injection, Surjection, IsInjective
<1>7. ASSUME NEW i \in DOMAIN s
      PROVE  ByIdentity(program[f[i][1]][f[i][2]]) = ByIdentity(s[i])
  <2>1. f[i][1] = s[i].branch /\ f[i][2] = s[i].nth
    BY <1>2
  <2> QED BY <1>1, <2>1, SaysIdentity
<1> QED BY <1>6, <1>7

LEMMA TimesIs ==
    ASSUME NEW s, NEW program \in Programs, NEW instance, Woven(s, program, instance),
           Finished(program, s), NEW r
    PROVE  /\ IsFiniteSet(Making(s, r)) /\ Times(program, r) = Cardinality(Making(s, r))
           /\ Times(program, r) \in Nat
           /\ r \in Requests(program) <=> Making(s, r) # {}
<1> DEFINE f == PlaceOf(s)
           S == Making(s, r)
           T == {c \in Places(program) : ByIdentity(program[c[1]][c[2]]) = r}
           g == [i \in S |-> f[i]]
<1>1. /\ f \in [DOMAIN s -> Places(program)]
      /\ \A i, j \in DOMAIN s : f[i] = f[j] => i = j
      /\ \A c \in Places(program) : \E i \in DOMAIN s : f[i] = c
      /\ \A i \in DOMAIN s : ByIdentity(program[f[i][1]][f[i][2]]) = ByIdentity(s[i])
  BY PlacesAre DEF Bijection, Injection, Surjection, IsInjective
<1>2. IsFiniteSet(S)
  <2>1. DOMAIN s = 1 .. Len(s) /\ Len(s) \in Nat
    BY ListedDomain DEF Woven
  <2>2. S \in SUBSET (1 .. Len(s)) /\ IsFiniteSet(1 .. Len(s))
    BY <2>1, FS_Interval DEF Making
  <2> QED BY <2>2, FS_Subset
<1> HIDE DEF f
<1>3. g \in Bijection(S, T)
  <2>1. g \in [S -> T]
    BY <1>1 DEF Making
  <2>2. \A i, j \in S : g[i] = g[j] => i = j
    BY <1>1 DEF Making
  <2>3. \A c \in T : \E i \in S : g[i] = c
    BY <1>1 DEF Making
  <2> QED BY <2>1, <2>2, <2>3 DEF Bijection, Injection, Surjection, IsInjective
<1>4. Cardinality(T) = Cardinality(S) /\ Cardinality(S) \in Nat
  BY <1>2, <1>3, FS_Bijection, FS_CardinalityType DEF ExistsBijection
<1>5. Times(program, r) = Cardinality(T)
  BY DEF Times, Places
<1>6. r \in Requests(program) <=> T # {}
  <2>1. ASSUME NEW c \in T PROVE r \in Requests(program)
    <3>1. PICK b \in Branches : c \in {b} \X DOMAIN program[b]
      BY DEF Places
    <3>2. c[1] = b /\ c[2] \in DOMAIN program[b] /\ ByIdentity(program[c[1]][c[2]]) = r
      BY <3>1
    <3> QED BY <3>2 DEF Requests
  <2>2. ASSUME r \in Requests(program) PROVE T # {}
    <3>0. PICK b \in Branches : \E n \in DOMAIN program[b] : r = ByIdentity(program[b][n])
      BY <2>2 DEF Requests
    <3>1. PICK n \in DOMAIN program[b] : r = ByIdentity(program[b][n])
      BY <3>0
    <3>2. PICK c : c = <<b, n>>
      OBVIOUS
    <3>3. c \in Places(program) /\ c[1] = b /\ c[2] = n
      BY <3>1, <3>2 DEF Places
    <3> QED BY <3>1, <3>3
  <2> QED BY <2>1, <2>2
<1>7. S # {} <=> T # {}
  BY <1>3 DEF Bijection, Surjection
<1> QED BY <1>2, <1>4, <1>5, <1>6, <1>7

-----------------------------------------------------------------------------
(* The scorecard.                                                          *)

\* What is known once the scorecard is written.
LEMMA Over ==
    ASSUME ScoreInv, pass = "scored"
    PROVE  /\ PairInv /\ AnswersInv /\ HonestInv /\ WeaveInv /\ Fitting
           /\ policy # "unset" /\ Finished(script, tape) /\ Finished(candidate, calls)
           /\ script \in Programs /\ candidate \in Programs
           /\ Woven(tape, script, [b \in Branches |-> IF legacy THEN None ELSE b])
           /\ Woven(calls, candidate, place)
           /\ DOMAIN calls = 1 .. Len(calls) /\ Len(calls) \in Nat
           /\ DOMAIN tape = 1 .. Len(tape) /\ Len(tape) \in Nat
           /\ IsFiniteSet(DOMAIN calls) /\ IsFiniteSet(DOMAIN tape)
           /\ \A i \in DOMAIN calls : Sought(i) /\ Twinned(i)
<1>1. /\ PairInv /\ AnswersInv /\ HonestInv /\ WeaveInv /\ Fitting /\ Whole
  BY DEF ScoreInv, AnswersInv
<1>2. /\ policy # "unset" /\ Finished(script, tape) /\ Finished(candidate, calls)
      /\ script \in Programs /\ candidate \in Programs
      /\ Woven(tape, script, [b \in Branches |-> IF legacy THEN None ELSE b])
      /\ Woven(calls, candidate, place)
  BY <1>1 DEF Whole, WeaveInv
<1>3. /\ DOMAIN calls = 1 .. Len(calls) /\ Len(calls) \in Nat
      /\ DOMAIN tape = 1 .. Len(tape) /\ Len(tape) \in Nat
  BY <1>2, ListedDomain DEF Woven
<1>4. IsFiniteSet(1 .. Len(calls)) /\ IsFiniteSet(1 .. Len(tape))
  BY <1>3, FS_Interval
<1>5. \A k \in DOMAIN observed : Sought(observed[k]) /\ Twinned(observed[k])
  BY DEF ScoreInv, Passed
<1>6. \A i \in DOMAIN calls : Sought(i) /\ Twinned(i)
  BY <1>1, <1>5 DEF Whole
<1> QED BY <1>1, <1>2, <1>3, <1>4, <1>6

\* A pair is a served one or a twin.
LEMMA PairIs ==
    ASSUME PairInv, Fitting, NEW n \in DOMAIN Pairs
    PROVE  LET p == Pairs[n]
           IN /\ p.call \in DOMAIN calls /\ calls[p.call].how # "exact"
              /\ \/ /\ p.call \in Callers(served) /\ p.event \in Events(served)
                    /\ calls[p.call].how = "address" /\ p.event = calls[p.call].row
                    /\ ~p.ahead
                 \/ /\ p.call \in Callers(twins) /\ p.event \in Events(twins)
                    /\ p.event \in Queue(calls[p.call]) /\ n \in DOMAIN twins
                    /\ p = twins[n]
<1>1. \/ n \in DOMAIN twins /\ Pairs[n] = twins[n]
      \/ \E m \in DOMAIN served : Pairs[n] = served[m]
  BY PairsAre
<1>2. CASE n \in DOMAIN twins /\ Pairs[n] = twins[n]
  BY <1>2 DEF Fitting, Callers, Events
<1>3. ASSUME NEW m \in DOMAIN served, Pairs[n] = served[m]
      PROVE  LET p == Pairs[n]
             IN /\ p.call \in DOMAIN calls /\ calls[p.call].how # "exact"
                /\ p.call \in Callers(served) /\ p.event \in Events(served)
                /\ calls[p.call].how = "address" /\ p.event = calls[p.call].row
                /\ ~p.ahead
  BY <1>3 DEF Fitting, Callers, Events
<1> QED BY <1>1, <1>2, <1>3

LEMMA PairsTogether ==
    ASSUME PairInv
    PROVE  /\ Callers(Pairs) = Callers(twins) \cup Callers(served)
           /\ Events(Pairs) = Events(twins) \cup Events(served)
<1>1. /\ \A n \in DOMAIN twins : n \in DOMAIN Pairs /\ Pairs[n] = twins[n]
      /\ \A n \in DOMAIN served : Len(twins) + n \in DOMAIN Pairs
                                  /\ Pairs[Len(twins) + n] = served[n]
      /\ \A n \in DOMAIN Pairs : \/ n \in DOMAIN twins /\ Pairs[n] = twins[n]
                                 \/ \E m \in DOMAIN served : Pairs[n] = served[m]
  BY PairsAre
<1>2. \A x : x \in Callers(Pairs) <=> x \in Callers(twins) \cup Callers(served)
  BY <1>1 DEF Callers
<1>3. \A x : x \in Events(Pairs) <=> x \in Events(twins) \cup Events(served)
  BY <1>1 DEF Events
<1> QED BY <1>2, <1>3

\* As many calls as events: what is owned by some of the calls, one each, is all
\* there is but as many.
LEMMA SameLength ==
    ASSUME ScoreInv, pass = "scored",
           \A b \in Branches : DOMAIN candidate[b] = DOMAIN script[b]
    PROVE  Cardinality(DOMAIN calls) = Cardinality(DOMAIN tape)
<1>1. Places(candidate) = Places(script)
  BY DEF Places
<1>2. PlaceOf(calls) \in Bijection(DOMAIN calls, Places(candidate))
  BY Over, PlacesAre
<1>3. PlaceOf(tape) \in Bijection(DOMAIN tape, Places(script))
  BY Over, PlacesAre
<1>4. Cardinality(Places(candidate)) = Cardinality(DOMAIN calls)
  BY <1>2, Over, FS_Bijection DEF ExistsBijection
<1>5. Cardinality(Places(script)) = Cardinality(DOMAIN tape)
  BY <1>3, Over, FS_Bijection DEF ExistsBijection
<1> QED BY <1>1, <1>4, <1>5

\* If all calls but those of M are exact, and no two have one row or one of R,
\* which are as many as M, then every event but those of R has its owner.
LEMMA OwnedAre ==
    ASSUME ScoreInv, pass = "scored",
           \A b \in Branches : DOMAIN candidate[b] = DOMAIN script[b],
           NEW M \in SUBSET DOMAIN calls, NEW R \in SUBSET DOMAIN tape,
           Cardinality(M) = Cardinality(R),
           \A i \in DOMAIN calls : calls[i].how = "exact" <=> i \notin M,
           \A i \in DOMAIN calls \ M : calls[i].row \notin R,
           \A i, j \in DOMAIN calls \ M : calls[i].row = calls[j].row => i = j
    PROVE  Owned = DOMAIN tape \ R
<1> DEFINE S == DOMAIN calls \ M
           T == DOMAIN tape \ R
           f == [i \in S |-> calls[i].row]
<1>1. IsFiniteSet(DOMAIN calls) /\ IsFiniteSet(DOMAIN tape) /\ HonestInv
  BY Over
<1>2. Cardinality(DOMAIN calls) = Cardinality(DOMAIN tape)
  BY SameLength
<1>3. /\ IsFiniteSet(S) /\ Cardinality(S) = Cardinality(DOMAIN calls) - Cardinality(M)
      /\ IsFiniteSet(T) /\ Cardinality(T) = Cardinality(DOMAIN tape) - Cardinality(R)
  <2>1. DOMAIN calls \cap M = M /\ DOMAIN tape \cap R = R
    OBVIOUS
  <2>2. IsFiniteSet(S) /\ Cardinality(S) = Cardinality(DOMAIN calls) - Cardinality(DOMAIN calls \cap M)
    BY <1>1, FS_Difference
  <2>3. IsFiniteSet(T) /\ Cardinality(T) = Cardinality(DOMAIN tape) - Cardinality(DOMAIN tape \cap R)
    BY <1>1, FS_Difference
  <2> QED BY <2>1, <2>2, <2>3
<1>4. \A i \in S : calls[i].how = "exact" /\ calls[i].row \in T
  BY <1>1 DEF HonestInv, Honest
<1>5. f \in Injection(S, T)
  BY <1>4 DEF Injection, IsInjective
<1>6. f \in Surjection(S, T)
  BY <1>2, <1>3, <1>5, FS_Injection
<1>7. \A e \in T : \E i \in S : calls[i].row = e
  BY <1>6 DEF Surjection
<1>8. \A i \in DOMAIN calls : calls[i].how = "exact" => i \in S
  OBVIOUS
<1> QED BY <1>4, <1>7, <1>8 DEF Owned

LEMMA UnchangedClean == ScoreInv => UnchangedIsClean
<1> SUFFICES ASSUME ScoreInv, pass = "scored", candidate = script,
                    IF legacy THEN Untagged ELSE Unraced
             PROVE  Charged = {} /\ Omitted = {} /\ Unpaired = {}
  BY DEF UnchangedIsClean
<1>1. /\ \A i \in DOMAIN calls : calls[i].how = "exact"
      /\ \A i, j \in DOMAIN calls : i # j => calls[i].row # calls[j].row
  BY Over, AnswersUnchanged DEF UnchangedIsAnswered
<1>2. Owned = DOMAIN tape
  <2>1. Owned = DOMAIN tape \ {}
    <3>1. PICK M, R : M = {} /\ R = {}
      OBVIOUS
    <3>2. /\ M \in SUBSET DOMAIN calls /\ R \in SUBSET DOMAIN tape
          /\ Cardinality(M) = Cardinality(R)
          /\ \A i \in DOMAIN calls : calls[i].how = "exact" <=> i \notin M
          /\ \A i \in DOMAIN calls \ M : calls[i].row \notin R
          /\ \A i, j \in DOMAIN calls \ M : calls[i].row = calls[j].row => i = j
      BY <1>1, <3>1
    <3>3. Owned = DOMAIN tape \ R
      BY <3>2, OwnedAre
    <3> QED BY <3>1, <3>3
  <2> QED BY <2>1
<1>3. Omitted = {}
  BY <1>2 DEF Omitted, IsTaken
<1>4. Unpaired = {}
  BY <1>1 DEF Unpaired
<1>5. DOMAIN Pairs = {}
  <2>1. ASSUME NEW n \in DOMAIN Pairs PROVE FALSE
    BY <1>1, Over, PairIs
  <2> QED BY <2>1
<1>6. Charged = {}
  BY <1>4, <1>5 DEF Charged, ChangedCalls, ServedUnpaired
<1> QED BY <1>3, <1>4, <1>6

\* A candidate that does what was recorded has a clean scorecard, however its
\* branches are interleaved, whichever of its calls are executed and in whatever
\* order its observations were written: as many exact answers as there are
\* events own them all, and leave nothing to pair or to omit.
THEOREM UnchangedCandidateIsClean == PairSpec => []UnchangedIsClean
BY ScoreInit, ScoreNext, UnchangedClean, PTL DEF PairSpec

-----------------------------------------------------------------------------
\* Where one call moved, its event is the only one without an exact answer, and
\* it is the only call without one.
LEMMA OneIsLeft ==
    ASSUME ScoreInv, pass = "scored", Tracking, Unraced,
           NEW b \in Branches, NEW n \in DOMAIN script[b], n \in DOMAIN candidate[b],
           OnlyMoved(b, n),
           NEW i \in DOMAIN calls, calls[i].branch = b, calls[i].nth = n
    PROVE  \E e \in DOMAIN tape :
              /\ Owned = DOMAIN tape \ {e}
              /\ \A j \in DOMAIN calls : calls[j].how = "exact" <=> j # i
              /\ tape[e].path = calls[i].path /\ tape[e].op = calls[i].op
              /\ tape[e].arg = script[b][n].arg
              /\ calls[i].how = "address" => calls[i].row = e
              /\ \A d \in DOMAIN tape : ByIdentity(tape[d]) # ByIdentity(calls[i])
<1>0. AnswersInv /\ WeaveInv /\ AlikeInv /\ HonestInv /\ policy # "unset"
      /\ DOMAIN calls = 1 .. Len(calls) /\ Len(calls) \in Nat
  BY Over DEF AnswersInv
<1>1. /\ Alike /\ ~legacy
      /\ \A x \in Branches : \A m \in DOMAIN candidate[x] :
            Unmoved(x, m) <=> ~(x = b /\ m = n)
  BY <1>0, OnlyMovedIsAlike
<1>2. ASSUME NEW j \in DOMAIN calls
      PROVE  /\ IsCall(calls[j]) /\ Right(calls[j], j - 1)
             /\ Unmoved(calls[j].branch, calls[j].nth) <=> j # i
  <2>1. IsCall(calls[j]) /\ Right(calls[j], j - 1)
    BY <1>0, <1>1, CallIs DEF AlikeInv
  <2>2. calls[j].branch = b /\ calls[j].nth = n <=> j = i
    BY <1>0, CallIs
  <2>3. Unmoved(calls[j].branch, calls[j].nth) <=> ~(calls[j].branch = b /\ calls[j].nth = n)
    BY <1>1, <2>1 DEF IsCall
  <2> QED BY <2>1, <2>2, <2>3
<1>3. PICK e : e = Recorded(calls[i])
  OBVIOUS
<1>4. /\ e \in DOMAIN tape /\ tape[e].branch = b /\ tape[e].nth = n
      /\ tape[e].path = calls[i].path /\ tape[e].op = calls[i].op
      /\ tape[e].tag = calls[i].tag
  BY <1>0, <1>1, <1>2, <1>3, RecordedIs, RecordedSays
<1>5. tape[e].arg = script[b][n].arg /\ tape[e].tag = script[b][n].tag
  BY <1>0, <1>4, EventIs DEF Says
<1>6. script[b][n].tag = None
  BY DEF OnlyMoved
<1>7. ASSUME NEW j \in DOMAIN calls, j # i
      PROVE  calls[j].how = "exact" /\ Fits(calls[j], calls[j].row, j - 1) /\ calls[j].row # e
  <2>1. calls[j].how = "exact" /\ Fits(calls[j], calls[j].row, j - 1)
    BY <1>2, <1>7 DEF Right
  <2>2. CASE calls[j].tag = None
    <3>1. calls[j].row = Recorded(calls[j])
      BY <1>1, <2>1, <2>2 DEF Fits
    <3>2. tape[calls[j].row].branch = calls[j].branch /\ tape[calls[j].row].nth = calls[j].nth
      BY <1>0, <1>1, <1>2, <3>1, RecordedIs
    <3> QED BY <1>0, <1>4, <1>7, <2>1, <3>2, CallIs
  <2>3. CASE calls[j].tag # None
    BY <1>5, <1>6, <2>1, <2>3 DEF Fits
  <2> QED BY <2>1, <2>2, <2>3
<1>8. ASSUME NEW j \in DOMAIN calls, NEW k \in DOMAIN calls, j # i, k # i, j < k
      PROVE  calls[j].row # calls[k].row
  <2>1. ~(calls[j].branch = calls[k].branch /\ calls[j].nth = calls[k].nth)
    BY <1>0, <1>8, CallIs
  <2>2. k - 1 \in Nat /\ j <= k - 1
    BY <1>0, <1>8
  <2> QED BY <1>0, <1>1, <1>2, <1>7, <1>8, <2>1, <2>2, Differ
<1>9. \A j, k \in DOMAIN calls : j = k \/ j < k \/ k < j
  BY <1>0
<1>10. calls[i].how # "exact" /\ (calls[i].how = "address" => calls[i].row = e)
  BY <1>0, <1>2, <1>3 DEF Right, HonestInv, Honest
<1>11. Owned = DOMAIN tape \ {e}
  <2>1. PICK M, R : M = {i} /\ R = {e}
    OBVIOUS
  <2>2. Cardinality(M) = Cardinality(R) /\ M \in SUBSET DOMAIN calls /\ R \in SUBSET DOMAIN tape
    BY <1>4, <2>1, FS_Singleton
  <2>3. \A j \in DOMAIN calls : calls[j].how = "exact" <=> j \notin M
    BY <1>7, <1>10, <2>1
  <2>4. \A j \in DOMAIN calls \ M : calls[j].row \notin R
    BY <1>7, <2>1
  <2>5. \A j, k \in DOMAIN calls \ M : calls[j].row = calls[k].row => j = k
    BY <1>8, <1>9, <2>1
  <2>6. \A x \in Branches : DOMAIN candidate[x] = DOMAIN script[x]
    BY <1>1 DEF Alike
  <2>7. Owned = DOMAIN tape \ R
    BY <2>2, <2>3, <2>4, <2>5, <2>6, OwnedAre
  <2> QED BY <2>1, <2>7
<1>12. \A d \in DOMAIN tape : ByIdentity(tape[d]) # ByIdentity(calls[i])
  <2>1. ByIdentity(calls[i]) = ByIdentity(candidate[b][n])
    BY <1>2, SaysIdentity DEF IsCall
  <2> QED BY <2>1 DEF OnlyMoved
<1> QED BY <1>4, <1>5, <1>7, <1>10, <1>11, <1>12

LEMMA OneChange == ScoreInv => OneChangeCountsOnce
<1> SUFFICES ASSUME ScoreInv, pass = "scored", Tracking, Unraced,
                    NEW b \in Branches, NEW n \in DOMAIN script[b], n \in DOMAIN candidate[b],
                    OnlyMoved(b, n),
                    NEW i \in DOMAIN calls, calls[i].branch = b, calls[i].nth = n
             PROVE  IF i \in Callers(Pairs)
                      THEN Charged = {i} /\ Omitted = {} /\ Novel = {}
                      ELSE /\ calls[i].how = "missed"
                           /\ Shape[calls[i].arg] # Shape[script[b][n].arg]
                           /\ Novel = {i} /\ Charged = {} /\ Cardinality(Omitted) = 1
  BY DEF OneChangeCountsOnce
<1>1. PICK e \in DOMAIN tape :
         /\ Owned = DOMAIN tape \ {e}
         /\ \A j \in DOMAIN calls : calls[j].how = "exact" <=> j # i
         /\ tape[e].path = calls[i].path /\ tape[e].op = calls[i].op
         /\ tape[e].arg = script[b][n].arg
         /\ calls[i].how = "address" => calls[i].row = e
         /\ \A d \in DOMAIN tape : ByIdentity(tape[d]) # ByIdentity(calls[i])
  BY OneIsLeft
<1>2. PairInv /\ Fitting /\ HonestInv /\ Sought(i) /\ Twinned(i) /\ PairedOnce
  BY Over, PairedOnceHolds
<1>3. ASSUME NEW m \in DOMAIN Pairs PROVE Pairs[m].call = i /\ Pairs[m].event = e
  <2>1. Pairs[m].call = i
    BY <1>1, <1>2, PairIs
  <2>2. Pairs[m].event \in DOMAIN tape
    BY <1>1, <1>2, PairIs DEF HonestInv, Honest, Queue
  <2>3. Pairs[m].event \notin Owned
    BY <1>2 DEF PairedOnce
  <2> QED BY <1>1, <2>1, <2>2, <2>3
<1>4. /\ Callers(Pairs) = Callers(twins) \cup Callers(served)
      /\ Events(Pairs) = Events(twins) \cup Events(served)
  BY <1>2, PairsTogether
<1>5. Omitted = {e} \ Events(Pairs)
  BY <1>1, <1>4 DEF Omitted, IsTaken
<1>6. Unpaired = {i} \ Callers(Pairs)
  BY <1>1 DEF Unpaired
<1>7. CASE i \in Callers(Pairs)
  <2>1. PICK m \in DOMAIN Pairs : Pairs[m].call = i
    BY <1>7 DEF Callers
  <2>2. e \in Events(Pairs)
    BY <1>3, <2>1 DEF Events
  <2>3. i \notin displaced
    <3>1. PICK ex : Explains(ex)
      BY DEF ScoreInv, Settled
    <3>2. ASSUME i \in displaced PROVE FALSE
      <4>1. ex[i] \in DOMAIN twins /\ ByIdentity(tape[twins[ex[i]].event]) = ByIdentity(calls[i])
        BY <3>1, <3>2 DEF Explains
      <4>2. twins[ex[i]].event \in DOMAIN tape
        BY <1>2, <4>1 DEF Fitting, Queue
      <4> QED BY <1>1, <4>1, <4>2
    <3> QED BY <3>2
  <2>4. RequestDiverged(calls[i], e)
    BY <1>1 DEF RequestDiverged
  <2>5. Changed(Pairs[m])
    BY <1>3, <2>1, <2>3, <2>4 DEF Changed
  <2>6. ChangedCalls = {i}
    BY <1>3, <2>1, <2>5 DEF ChangedCalls
  <2> QED BY <1>5, <1>6, <1>7, <2>2, <2>6 DEF Charged, ServedUnpaired, Novel
<1>8. CASE i \notin Callers(Pairs)
  <2>1. DOMAIN Pairs = {}
    <3>1. \A m \in DOMAIN Pairs : Pairs[m].call \in Callers(Pairs)
      BY DEF Callers
    <3> QED BY <1>3, <1>8, <3>1
  <2>2. Events(Pairs) = {} /\ Callers(Pairs) = {} /\ ChangedCalls = {}
    BY <2>1 DEF Events, Callers, ChangedCalls
  <2>3. ~IsTaken(e)
    BY <1>1, <1>4, <2>2 DEF IsTaken
  <2>4. calls[i].how = "missed"
    <3>1. calls[i].how # "address"
      BY <1>1, <1>2, <1>4, <2>2 DEF Sought
    <3> QED BY <1>1, <1>2, <3>1 DEF HonestInv, Honest
  <2>5. Shape[calls[i].arg] # Shape[script[b][n].arg]
    <3>1. Free(calls[i]) = {}
      BY <1>2, <1>4, <2>2, <2>4 DEF Twinned
    <3> QED BY <1>1, <2>3, <3>1 DEF Free, Queue
  <2>6. Unpaired = {i} /\ ServedUnpaired = {} /\ Novel = {i} /\ Charged = {}
    BY <1>6, <2>2, <2>4 DEF ServedUnpaired, Novel, Charged
  <2>7. Omitted = {e} /\ Cardinality({e}) = 1
    BY <1>5, <2>2, FS_Singleton
  <2> QED BY <1>8, <2>4, <2>5, <2>6, <2>7
<1> QED BY <1>7, <1>8

\* One call whose arguments moved is one change of the scorecard, whatever runs
\* beside it and whichever calls are executed: the event it was is the only one
\* no exact answer owns, so it is paired with that event or, where it was
\* executed and sent another shape, added while that one event is omitted.
THEOREM OneMovedCallIsOneChange == PairSpec => []OneChangeCountsOnce
BY ScoreInit, ScoreNext, OneChange, PTL DEF PairSpec

-----------------------------------------------------------------------------
(* Counting by injections.                                                 *)

\* What is not more goes into what is not less, one to one.
LEMMA FewerInject ==
    ASSUME NEW S, NEW T, IsFiniteSet(S), IsFiniteSet(T), Cardinality(S) <= Cardinality(T)
    PROVE  Injection(S, T) # {}
<1>1. PICK m \in Nat : ExistsBijection(1 .. m, S)
  BY FS_NatBijection
<1>2. PICK n \in Nat : ExistsBijection(1 .. n, T)
  BY FS_NatBijection
<1>3. m <= n
  BY <1>1, <1>2, FS_CountingElements
<1>4. PICK f \in Bijection(1 .. m, S) : TRUE
  BY <1>1 DEF ExistsBijection
<1>5. PICK g \in Bijection(1 .. n, T) : TRUE
  BY <1>2 DEF ExistsBijection
<1> DEFINE index(s) == CHOOSE i \in 1 .. m : f[i] = s
           h == [s \in S |-> g[index(s)]]
<1>6. \A s \in S : index(s) \in 1 .. m /\ f[index(s)] = s
  <2>1. \A s \in S : \E i \in 1 .. m : f[i] = s
    BY <1>4 DEF Bijection, Surjection
  <2> QED BY <2>1
<1> HIDE DEF index
<1>7. \A s \in S : index(s) \in 1 .. n
  BY <1>3, <1>6
<1>8. h \in [S -> T]
  BY <1>5, <1>7 DEF Bijection, Injection
<1>9. \A s, t \in S : h[s] = h[t] => s = t
  <2>1. \A i, j \in 1 .. n : g[i] = g[j] => i = j
    BY <1>5 DEF Bijection, Injection, IsInjective
  <2> QED BY <1>6, <1>7, <2>1
<1> QED BY <1>8, <1>9 DEF Injection, IsInjective

\* The elements of S of one colour.
OfColour(S, f, k) == {x \in S : f[x] = k}

\* A, coloured by f, has of no colour more than B, coloured by g.
NoMoreOfEach(A, f, B, g, K) ==
    /\ f \in [A -> K] /\ g \in [B -> K]
    /\ \A k \in K : /\ IsFiniteSet(OfColour(A, f, k)) /\ IsFiniteSet(OfColour(B, g, k))
                    /\ Cardinality(OfColour(A, f, k)) <= Cardinality(OfColour(B, g, k))

\* Where that is so of each colour, the colours can be kept.
LEMMA FewerOfEachInject ==
    ASSUME NEW A, NEW B, NEW K, NEW f, NEW g, NoMoreOfEach(A, f, B, g, K)
    PROVE  \E h \in Injection(A, B) : \A a \in A : g[h[a]] = f[a]
<1> USE DEF OfColour, NoMoreOfEach
<1> DEFINE As(k) == OfColour(A, f, k)
           Bs(k) == OfColour(B, g, k)
           j(k) == CHOOSE x \in Injection(As(k), Bs(k)) : TRUE
           h == [a \in A |-> j(f[a])[a]]
<1>1. ASSUME NEW k \in K
      PROVE  j(k) \in [As(k) -> Bs(k)] /\ \A a, b \in As(k) : j(k)[a] = j(k)[b] => a = b
  <2>1. Injection(As(k), Bs(k)) # {}
    BY FewerInject
  <2>2. j(k) \in Injection(As(k), Bs(k))
    BY <2>1
  <2> QED BY <2>2 DEF Injection, IsInjective
<1> HIDE DEF j
<1>2. ASSUME NEW a \in A PROVE h[a] = j(f[a])[a] /\ h[a] \in B /\ g[h[a]] = f[a]
  <2>1. f[a] \in K /\ a \in As(f[a])
    OBVIOUS
  <2>2. j(f[a])[a] \in Bs(f[a])
    BY <1>1, <2>1
  <2> QED BY <2>2
<1>3. ASSUME NEW a \in A, NEW b \in A, h[a] = h[b] PROVE a = b
  <2>1. f[a] = f[b]
    BY <1>2, <1>3
  <2>2. PICK k \in K : k = f[a]
    OBVIOUS
  <2>3. a \in As(k) /\ b \in As(k)
    BY <2>1, <2>2
  <2>4. h[a] = j(k)[a] /\ h[b] = j(k)[b]
    BY <1>2, <2>1, <2>2
  <2> QED BY <1>1, <1>3, <2>3, <2>4
<1>4. h \in Injection(A, B)
  BY <1>2, <1>3 DEF Injection, IsInjective
<1> QED BY <1>2, <1>4

-----------------------------------------------------------------------------
(* What a lost request leaves behind.                                      *)

\* Call i sent what event e was: it was answered with it, paired with it, or its
\* pair is the other half of the jump that took it.
Mated(ex, e, i) ==
    \/ calls[i].how = "exact" /\ calls[i].row = e
    \/ \E n \in DOMAIN Pairs :
          /\ Pairs[n].event = e /\ Pairs[n].call = i /\ ~Pairs[n].ahead
          /\ ~RequestDiverged(calls[i], e)
    \/ /\ i \in displaced /\ twins[ex[i]].event = e
       /\ \E n \in DOMAIN Pairs :
             Pairs[n].call = i /\ RequestDiverged(calls[i], Pairs[n].event)

\* The call that is charged for event e.
Pays(ex, e, i) ==
    \E n \in DOMAIN Pairs :
        /\ Pairs[n].event = e
        /\ IF Pairs[n].call \in displaced THEN i = twins[ex[Pairs[n].call]].call
                                          ELSE i = Pairs[n].call

\* One call is the mate of one event, and sent what it was.
LEMMA MateIsOne ==
    ASSUME ScoreInv, pass = "scored", Tracking, NEW ex, Explains(ex),
           NEW i \in DOMAIN calls, NEW e \in DOMAIN tape, Mated(ex, e, i)
    PROVE  /\ ByIdentity(calls[i]) = ByIdentity(tape[e])
           /\ \A d \in DOMAIN tape : Mated(ex, d, i) => d = e
<1>1. PairInv /\ HonestInv /\ Fitting /\ PairedOnce
  BY Over, PairedOnceHolds
<1>2. ByIdentity(calls[i]) = ByIdentity(tape[e])
  <2>1. CASE calls[i].how = "exact" /\ calls[i].row = e
    BY <1>1, <2>1 DEF HonestInv, Honest
  <2>2. CASE ~RequestDiverged(calls[i], e)
    BY <2>2 DEF RequestDiverged
  <2>3. CASE i \in displaced /\ twins[ex[i]].event = e
    BY <2>3 DEF Explains
  <2> QED BY <2>1, <2>2, <2>3 DEF Mated
<1>3. \A n \in DOMAIN Pairs : calls[Pairs[n].call].how # "exact"
  BY <1>1, PairIs
<1>4. \A m, n \in DOMAIN Pairs : Pairs[m].call = Pairs[n].call => m = n
  BY <1>1 DEF PairedOnce
<1>5. \A d \in DOMAIN tape : Mated(ex, d, i) => d = e
  BY <1>3, <1>4 DEF Mated
<1> QED BY <1>2, <1>5

\* An event that is paired and has no mate is charged to a call of its own.
LEMMA PayerIsOne ==
    ASSUME ScoreInv, pass = "scored", NEW ex, Explains(ex),
           NEW e \in DOMAIN tape, IsTaken(e), \A i \in DOMAIN calls : ~Mated(ex, e, i)
    PROVE  /\ \E i \in Charged : Pays(ex, e, i)
           /\ \A d \in DOMAIN tape : \A i :
                 /\ \A k \in DOMAIN calls : ~Mated(ex, d, k)
                 /\ Pays(ex, e, i) /\ Pays(ex, d, i)
                 => d = e
<1>1. PairInv /\ HonestInv /\ Fitting /\ PairedOnce
  BY Over, PairedOnceHolds
<1>2. Events(Pairs) = Events(twins) \cup Events(served)
  BY <1>1, PairsTogether
<1>3. e \notin Owned
  BY DEF Owned, Mated
<1>4. PICK n \in DOMAIN Pairs : Pairs[n].event = e
  BY <1>2, <1>3 DEF IsTaken, Events
<1>5. \A l, m \in DOMAIN Pairs : Pairs[l].call = Pairs[m].call => l = m
  BY <1>1 DEF PairedOnce
<1>6. ASSUME NEW i \in displaced
      PROVE  /\ ex[i] \in DOMAIN twins /\ twins[ex[i]].ahead
             /\ ex[i] \in DOMAIN Pairs /\ Pairs[ex[i]] = twins[ex[i]]
             /\ \E m \in DOMAIN Pairs : Pairs[m].call = i /\ ~Pairs[m].ahead
  <2>1. ex[i] \in DOMAIN twins /\ twins[ex[i]].ahead
    BY DEF Explains
  <2> QED BY <1>1, <2>1, PairsAre DEF ScoreInv, Settled
<1>7. \A m \in DOMAIN Pairs : Pairs[m].ahead => Pairs[m].call \notin displaced
  BY <1>5, <1>6
<1>8. ASSUME NEW d \in DOMAIN tape, \A k \in DOMAIN calls : ~Mated(ex, d, k),
             NEW m \in DOMAIN Pairs, Pairs[m].event = d
      PROVE  Pairs[m].ahead \/ RequestDiverged(calls[Pairs[m].call], d)
  <2>1. Pairs[m].call \in DOMAIN calls
    BY <1>1, PairIs
  <2> QED BY <1>8, <2>1 DEF Mated
<1>9. \E i \in Charged : Pays(ex, e, i)
  <2>1. CASE Pairs[n].call \notin displaced
    <3>1. Changed(Pairs[n])
      BY <1>4, <1>8, <2>1 DEF Changed
    <3>2. Pairs[n].call \in Charged
      BY <3>1 DEF Charged, ChangedCalls
    <3> QED BY <1>4, <2>1, <3>2 DEF Pays
  <2>2. CASE Pairs[n].call \in displaced
    <3>1. PICK m \in DOMAIN Pairs : m = ex[Pairs[n].call] /\ Pairs[m] = twins[m] /\ Pairs[m].ahead
      BY <1>6, <2>2
    <3>2. Pairs[m].call \in Charged
      BY <3>1 DEF Charged, ChangedCalls, Changed
    <3> QED BY <1>4, <2>2, <3>1, <3>2 DEF Pays
  <2> QED BY <2>1, <2>2
<1>10. ASSUME NEW a \in DOMAIN tape, NEW d \in DOMAIN tape, NEW l \in DOMAIN Pairs, NEW m \in DOMAIN Pairs,
              Pairs[l].event = a, Pairs[m].event = d,
              Pairs[l].call \in displaced, Pairs[m].call = twins[ex[Pairs[l].call]].call,
              \A k \in DOMAIN calls : ~Mated(ex, a, k),
              \A k \in DOMAIN calls : ~Mated(ex, d, k)
       PROVE  FALSE
  <2>1. PICK i : i = Pairs[l].call
    OBVIOUS
  <2>2. ex[i] = m /\ twins[m] = Pairs[m]
    BY <1>5, <1>6, <1>10, <2>1
  <2>3. twins[ex[i]].event = d /\ i \in DOMAIN calls
    BY <1>1, <1>10, <2>1, <2>2, PairIs
  <2>4. ~Pairs[l].ahead
    BY <1>7, <1>10
  <2>5. RequestDiverged(calls[i], Pairs[l].event)
    BY <1>8, <1>10, <2>1, <2>4
  <2>6. Mated(ex, d, i)
    BY <1>10, <2>1, <2>3, <2>5 DEF Mated
  <2> QED BY <1>10, <2>3, <2>6
<1>11. ASSUME NEW d \in DOMAIN tape, NEW i, \A k \in DOMAIN calls : ~Mated(ex, d, k),
              Pays(ex, e, i), Pays(ex, d, i)
       PROVE  d = e
  <2>1. PICK l \in DOMAIN Pairs :
           /\ Pairs[l].event = e
           /\ IF Pairs[l].call \in displaced THEN i = twins[ex[Pairs[l].call]].call
                                             ELSE i = Pairs[l].call
    BY <1>11 DEF Pays
  <2>2. PICK m \in DOMAIN Pairs :
           /\ Pairs[m].event = d
           /\ IF Pairs[m].call \in displaced THEN i = twins[ex[Pairs[m].call]].call
                                             ELSE i = Pairs[m].call
    BY <1>11 DEF Pays
  <2>3. CASE Pairs[l].call \notin displaced /\ Pairs[m].call \notin displaced
    BY <1>5, <2>1, <2>2, <2>3
  <2>4. CASE Pairs[l].call \in displaced /\ Pairs[m].call \in displaced
    <3>1. PICK a, c \in displaced : a = Pairs[l].call /\ c = Pairs[m].call
      BY <2>4
    <3>2. Pairs[ex[a]].call = Pairs[ex[c]].call
      BY <1>6, <2>1, <2>2, <3>1
    <3>3. ex[a] = ex[c]
      BY <1>5, <1>6, <3>2
    <3>4. a = c
      BY <3>3 DEF Explains
    <3> QED BY <1>5, <2>1, <2>2, <3>1, <3>4
  <2>5. ~(Pairs[l].call \in displaced /\ Pairs[m].call \notin displaced)
    BY <1>10, <1>11, <2>1, <2>2
  <2>6. ~(Pairs[m].call \in displaced /\ Pairs[l].call \notin displaced)
    BY <1>10, <1>11, <2>1, <2>2
  <2> QED BY <2>3, <2>4, <2>5, <2>6
<1> QED BY <1>9, <1>11

\* The events without a mate are omitted, or charged one by one.
LEMMA MatelessAre ==
    ASSUME ScoreInv, pass = "scored", Tracking, NEW ex, Explains(ex),
           NEW U, U = {e \in DOMAIN tape : \A i \in DOMAIN calls : ~Mated(ex, e, i)}
    PROVE  /\ IsFiniteSet(U) /\ IsFiniteSet(Omitted) /\ IsFiniteSet(Charged)
           /\ Cardinality(U) <= Cardinality(Omitted) + Cardinality(Charged)
<1> DEFINE V == {e \in U : IsTaken(e)}
           f == [e \in V |-> CHOOSE i \in Charged : Pays(ex, e, i)]
<1>1. PairInv /\ Fitting /\ IsFiniteSet(DOMAIN calls) /\ IsFiniteSet(DOMAIN tape)
  BY Over
<1>2. Charged \in SUBSET DOMAIN calls
  BY <1>1, PairIs DEF Charged, ChangedCalls, ServedUnpaired, Unpaired
<1>3. Omitted \in SUBSET DOMAIN tape /\ U \in SUBSET DOMAIN tape /\ V \in SUBSET DOMAIN tape
  BY DEF Omitted
<1>4. IsFiniteSet(U) /\ IsFiniteSet(Omitted) /\ IsFiniteSet(Charged) /\ IsFiniteSet(V)
  BY <1>1, <1>2, <1>3, FS_Subset
<1>5. \A e \in V : f[e] \in Charged /\ Pays(ex, e, f[e])
  <2>1. \A e \in V : \E i \in Charged : Pays(ex, e, i)
    BY PayerIsOne
  <2> QED BY <2>1
<1>6. \A d, e \in V : f[d] = f[e] => d = e
  BY <1>5, PayerIsOne
<1>7. f \in Injection(V, Charged)
  BY <1>5, <1>6 DEF Injection, IsInjective
<1>8. Cardinality(V) <= Cardinality(Charged)
  BY <1>4, <1>7, FS_Injection
<1>9. U \in SUBSET (Omitted \cup V)
  BY <1>3 DEF Omitted
<1>10. /\ IsFiniteSet(Omitted \cup V) /\ IsFiniteSet(Omitted \cap V)
       /\ Cardinality(Omitted \cup V) = Cardinality(Omitted) + Cardinality(V) - Cardinality(Omitted \cap V)
  <2>1. Omitted \cap V \in SUBSET V
    OBVIOUS
  <2> QED BY <1>4, <2>1, FS_Union, FS_Subset
<1>11. Cardinality(U) <= Cardinality(Omitted \cup V)
  BY <1>9, <1>10, FS_Subset
<1>12. /\ Cardinality(U) \in Nat /\ Cardinality(Omitted) \in Nat /\ Cardinality(V) \in Nat
       /\ Cardinality(Charged) \in Nat /\ Cardinality(Omitted \cap V) \in Nat
       /\ Cardinality(Omitted \cup V) \in Nat
  BY <1>4, <1>10, FS_CardinalityType
<1> QED BY <1>4, <1>8, <1>10, <1>11, <1>12

\* What both sides made, and how often.
LEMMA TimesAre ==
    ASSUME ScoreInv, pass = "scored", NEW r
    PROVE  /\ IsFiniteSet(Making(tape, r)) /\ IsFiniteSet(Making(calls, r))
           /\ Times(script, r) = Cardinality(Making(tape, r)) /\ Times(script, r) \in Nat
           /\ Times(candidate, r) = Cardinality(Making(calls, r)) /\ Times(candidate, r) \in Nat
           /\ r \in Requests(script) <=> Making(tape, r) # {}
           /\ r \in Requests(candidate) <=> Making(calls, r) # {}
BY Over, TimesIs

\* The lost ones of one request.
LEMMA LostOfOne ==
    ASSUME ScoreInv, pass = "scored", NEW r \in Requests(script),
           NEW n \in Int, n = Times(script, r) - Times(candidate, r)
    PROVE  /\ {l \in Lost : l[1] = r} = {r} \X (1 .. n)
           /\ IsFiniteSet({r} \X (1 .. n))
           /\ Cardinality({r} \X (1 .. n)) = IF n < 0 THEN 0 ELSE n
<1>1. \A l : l \in Lost /\ l[1] = r => l \in {r} \X (1 .. n)
  <2> SUFFICES ASSUME NEW l \in Lost, l[1] = r PROVE l \in {r} \X (1 .. n)
    OBVIOUS
  <2>1. PICK x \in Requests(script) : l \in {x} \X (1 .. Times(script, x) - Times(candidate, x))
    BY DEF Lost
  <2> QED BY <2>1
<1>2. \A l \in {r} \X (1 .. n) : l \in Lost /\ l[1] = r
  BY DEF Lost
<1>3. IsFiniteSet(1 .. n) /\ Cardinality(1 .. n) = IF n < 0 THEN 0 ELSE n
  <2>1. PICK a \in Int : a = 1
    OBVIOUS
  <2>2. IsFiniteSet(a .. n) /\ Cardinality(a .. n) = IF a > n THEN 0 ELSE n - a + 1
    BY FS_Interval
  <2> QED BY <2>1, <2>2
<1>4. IsFiniteSet({r}) /\ Cardinality({r}) = 1
  BY FS_Singleton
<1>5. IsFiniteSet({r} \X (1 .. n)) /\ Cardinality({r} \X (1 .. n)) = 1 * Cardinality(1 .. n)
  BY <1>3, <1>4, FS_Product
<1> QED BY <1>1, <1>2, <1>3, <1>5

\* Of each request at least as many events are without a mate as were lost.
LEMMA LostAreMateless ==
    ASSUME ScoreInv, pass = "scored", Tracking, NEW ex, Explains(ex),
           NEW U, U = {e \in DOMAIN tape : \A i \in DOMAIN calls : ~Mated(ex, e, i)}
    PROVE  IsFiniteSet(Lost) /\ Cardinality(Lost) <= Cardinality(U)
<1> DEFINE K == Requests(script)
           f == [l \in Lost |-> l[1]]
           g == [e \in U |-> ByIdentity(tape[e])]
<1>1. f \in [Lost -> K]
  <2>1. ASSUME NEW l \in Lost PROVE l[1] \in K
    <3>1. PICK x \in K : l \in {x} \X (1 .. Times(script, x) - Times(candidate, x))
      BY DEF Lost
    <3> QED BY <3>1
  <2> QED BY <2>1
<1>2. g \in [U -> K]
  <2>1. ASSUME NEW e \in U PROVE ByIdentity(tape[e]) \in K
    <3>1. e \in Making(tape, ByIdentity(tape[e]))
      BY DEF Making
    <3> QED BY <3>1, TimesAre
  <2> QED BY <2>1
<1>3. ASSUME NEW r \in K
      PROVE  /\ IsFiniteSet(OfColour(Lost, f, r)) /\ IsFiniteSet(OfColour(U, g, r))
             /\ Cardinality(OfColour(Lost, f, r)) <= Cardinality(OfColour(U, g, r))
  <2> DEFINE S == Making(tape, r)
             C == Making(calls, r)
             B == {e \in U : g[e] = r}
             M == {e \in S : \E i \in DOMAIN calls : Mated(ex, e, i)}
             mate == [e \in M |-> CHOOSE i \in DOMAIN calls : Mated(ex, e, i)]
  <2>1. PICK n \in Int : n = Times(script, r) - Times(candidate, r)
    BY TimesAre
  <2>2. {l \in Lost : f[l] = r} = {l \in Lost : l[1] = r}
    OBVIOUS
  <2>3. /\ IsFiniteSet({l \in Lost : f[l] = r})
        /\ Cardinality({l \in Lost : f[l] = r}) = IF n < 0 THEN 0 ELSE n
    BY <2>1, <2>2, LostOfOne
  <2>4. \A e \in M : mate[e] \in DOMAIN calls /\ Mated(ex, e, mate[e])
    OBVIOUS
  <2> HIDE DEF mate
  <2>5. \A e \in M : e \in DOMAIN tape /\ ByIdentity(tape[e]) = r
    BY DEF Making
  <2>6. \A e \in M : mate[e] \in C
    BY <2>4, <2>5, MateIsOne DEF Making
  <2>7. \A d, e \in M : mate[d] = mate[e] => d = e
    BY <2>4, <2>5, MateIsOne
  <2>8. mate \in Injection(M, C)
    BY <2>6, <2>7 DEF Injection, IsInjective, mate
  <2>9. IsFiniteSet(C) /\ IsFiniteSet(S) /\ IsFiniteSet(M) /\ Cardinality(M) <= Cardinality(C)
    BY <2>8, TimesAre, FS_Injection
  <2>10. B = S \ M
    <3>1. \A e \in U : g[e] = ByIdentity(tape[e])
      OBVIOUS
    <3> QED BY <3>1 DEF Making
  <2>11. S \cap M = M
    OBVIOUS
  <2>12. IsFiniteSet(B) /\ Cardinality(B) = Cardinality(S) - Cardinality(M)
    <3>1. IsFiniteSet(S \ M) /\ Cardinality(S \ M) = Cardinality(S) - Cardinality(S \cap M)
      BY <2>9, FS_Difference
    <3> QED BY <2>10, <2>11, <3>1
  <2>13. Cardinality(S) = Times(script, r) /\ Cardinality(C) = Times(candidate, r)
         /\ Cardinality(S) \in Nat /\ Cardinality(C) \in Nat
    BY TimesAre
  <2>14. Cardinality(M) \in Nat /\ Cardinality(B) \in Nat
    BY <2>9, <2>12, FS_CardinalityType
  <2>15. (IF n < 0 THEN 0 ELSE n) <= Cardinality(B)
    BY <2>1, <2>9, <2>12, <2>13, <2>14
  <2> QED BY <2>3, <2>12, <2>15 DEF OfColour
<1> HIDE DEF f, g, K
<1>4. PICK h \in Injection(Lost, U) : TRUE
  <2>1. NoMoreOfEach(Lost, f, U, g, K)
    BY <1>1, <1>2, <1>3 DEF NoMoreOfEach
  <2> QED BY <2>1, FewerOfEachInject
<1>5. IsFiniteSet(U)
  BY MatelessAre
<1> QED BY <1>4, <1>5, FS_Injection

\* Nothing that was lost goes uncharged.
LEMMA LostAreCharged ==
    ASSUME ScoreInv, pass = "scored", Tracking
    PROVE  Cardinality(Lost) <= Cardinality(Omitted) + Cardinality(Charged)
<1>1. PICK ex : Explains(ex)
  BY DEF ScoreInv, Settled
<1>2. PICK U : U = {e \in DOMAIN tape : \A i \in DOMAIN calls : ~Mated(ex, e, i)}
  OBVIOUS
<1>3. IsFiniteSet(Lost) /\ Cardinality(Lost) <= Cardinality(U)
  BY <1>1, <1>2, LostAreMateless
<1>4. /\ IsFiniteSet(U) /\ IsFiniteSet(Omitted) /\ IsFiniteSet(Charged)
      /\ Cardinality(U) <= Cardinality(Omitted) + Cardinality(Charged)
  BY <1>1, <1>2, MatelessAre
<1>5. /\ Cardinality(U) \in Nat /\ Cardinality(Omitted) \in Nat
      /\ Cardinality(Charged) \in Nat /\ Cardinality(Lost) \in Nat
  BY <1>3, <1>4, FS_CardinalityType
<1> QED BY <1>3, <1>4, <1>5

-----------------------------------------------------------------------------
(* What is left over of a kind.                                            *)

\* What a queue holds, where all spans have one name.
Kind(x) == <<x.op, Shape[x.arg]>>

LEMMA KindOfRequest ==
    ASSUME NEW x, NEW y, ByIdentity(x) = ByIdentity(y)
    PROVE  /\ x.op = y.op
           /\ SameShape => Kind(x) = Kind(y)
           /\ x.arg \notin SetLike => y.arg = x.arg
<1>1. CASE x.arg \in SetLike /\ y.arg \in SetLike
  <2>1. x.op = y.op /\ Identity[x.arg] = Identity[y.arg]
    BY <1>1 DEF ByIdentity
  <2> QED BY <1>1, <2>1 DEF Kind, SameShape
<1>2. CASE x.arg \notin SetLike /\ y.arg \notin SetLike
  <2>1. x.op = y.op /\ x.arg = y.arg
    BY <1>2 DEF ByIdentity, Exact
  <2> QED BY <2>1 DEF Kind
<1>3. \A a, b, c, d, e : <<a, b, c>> # <<d, e>>
  OBVIOUS
<1>4. ~(x.arg \in SetLike /\ y.arg \notin SetLike)
  BY <1>3 DEF ByIdentity, Exact
<1>5. ~(y.arg \in SetLike /\ x.arg \notin SetLike)
  BY <1>3 DEF ByIdentity, Exact
<1> QED BY <1>1, <1>2, <1>4, <1>5

\* Where all spans have one name, the queue of a call is what is of its kind.
LEMMA QueueIsKind ==
    ASSUME WeaveInv, OneName, NEW i \in DOMAIN calls
    PROVE  Queue(calls[i]) = {e \in DOMAIN tape : Kind(tape[e]) = Kind(calls[i])}
<1>1. \A e \in DOMAIN tape : tape[e].path = calls[i].path
  BY CallIs, EventIs DEF IsCall, OneName
<1>2. \A e \in DOMAIN tape :
         Kind(tape[e]) = Kind(calls[i]) <=>
            tape[e].op = calls[i].op /\ Shape[tape[e].arg] = Shape[calls[i].arg]
  BY DEF Kind
<1> QED BY <1>1, <1>2 DEF Queue

\* Event e is the exact answer of call i or paired with it.
Got(i, e) ==
    \/ calls[i].how = "exact" /\ calls[i].row = e
    \/ \E n \in DOMAIN Pairs : Pairs[n].call = i /\ Pairs[n].event = e

\* What a call got is of its kind, and nobody else's.
LEMMA GotIs ==
    ASSUME ScoreInv, pass = "scored", Tracking, OneName, NoneByAddress, SameShape,
           NEW i \in DOMAIN calls, NEW e, Got(i, e)
    PROVE  /\ e \in DOMAIN tape /\ IsTaken(e) /\ Kind(tape[e]) = Kind(calls[i])
           /\ \A j \in DOMAIN calls : Got(j, e) => j = i
           /\ \A d : Got(i, d) => d = e
<1>1. PairInv /\ HonestInv /\ Fitting /\ WeaveInv /\ PairedOnce /\ ServedOnce
  BY Over, PairedOnceHolds DEF PairInv, ServedInv
<1>2. \A n \in DOMAIN Pairs :
         /\ Pairs[n].call \in DOMAIN calls /\ calls[Pairs[n].call].how # "exact"
         /\ Pairs[n].event \in Queue(calls[Pairs[n].call]) /\ Pairs[n].event \notin Owned
  BY <1>1, PairIs DEF NoneByAddress, PairedOnce
<1>3. \A n \in DOMAIN Pairs : Pairs[n].event \in Events(twins) \cup Events(served)
  BY <1>1, PairIs
<1>4. \A j \in DOMAIN calls : calls[j].how = "exact" => calls[j].row \in Owned
  BY DEF Owned
<1>5. CASE calls[i].how = "exact" /\ calls[i].row = e
  <2>1. e \in DOMAIN tape /\ ByIdentity(tape[e]) = ByIdentity(calls[i])
    BY <1>1, <1>5 DEF HonestInv, Honest
  <2>2. Kind(tape[e]) = Kind(calls[i])
    BY <2>1, KindOfRequest
  <2>3. \A j \in DOMAIN calls : Got(j, e) => j = i
    BY <1>1, <1>2, <1>4, <1>5 DEF Got, ServedOnce
  <2>4. \A d : Got(i, d) => d = e
    BY <1>2, <1>5 DEF Got
  <2> QED BY <1>4, <1>5, <2>1, <2>2, <2>3, <2>4 DEF IsTaken
<1>6. ASSUME NEW n \in DOMAIN Pairs, Pairs[n].call = i, Pairs[n].event = e
      PROVE  /\ e \in DOMAIN tape /\ IsTaken(e) /\ Kind(tape[e]) = Kind(calls[i])
             /\ \A j \in DOMAIN calls : Got(j, e) => j = i
             /\ \A d : Got(i, d) => d = e
  <2>1. e \in DOMAIN tape /\ Kind(tape[e]) = Kind(calls[i])
    BY <1>1, <1>2, <1>6, QueueIsKind
  <2>2. \A m \in DOMAIN Pairs : Pairs[m].call = i \/ Pairs[m].event = e => m = n
    BY <1>1, <1>6 DEF PairedOnce
  <2>3. \A j \in DOMAIN calls : Got(j, e) => j = i
    BY <1>2, <1>4, <1>6, <2>2 DEF Got
  <2>4. \A d : Got(i, d) => d = e
    BY <1>2, <1>6, <2>2 DEF Got
  <2> QED BY <1>3, <1>6, <2>1, <2>3, <2>4 DEF IsTaken
<1> QED BY <1>5, <1>6 DEF Got

\* Where an event is omitted, every call of its kind got one.
LEMMA CallersOfAKind ==
    ASSUME ScoreInv, pass = "scored", Tracking, OneName, NoneByAddress, SameShape,
           NEW e \in Omitted,
           NEW E, E = {d \in DOMAIN tape : Kind(tape[d]) = Kind(tape[e])},
           NEW C, C = {i \in DOMAIN calls : Kind(calls[i]) = Kind(tape[e])}
    PROVE  /\ IsFiniteSet(E) /\ IsFiniteSet(C) /\ IsFiniteSet(E \cap Omitted)
           /\ Cardinality(C) <= Cardinality(E) - Cardinality(E \cap Omitted)
<1> DEFINE f == [i \in C |-> CHOOSE d : Got(i, d)]
<1>1. PairInv /\ WeaveInv /\ IsFiniteSet(DOMAIN calls) /\ IsFiniteSet(DOMAIN tape)
      /\ \A i \in DOMAIN calls : Twinned(i)
  BY Over
<1>2. ASSUME NEW i \in C PROVE \E d : Got(i, d)
  <2>1. CASE calls[i].how = "exact"
    BY <2>1 DEF Got
  <2>2. CASE calls[i].how # "exact"
    <3>1. e \in Queue(calls[i])
      BY <1>1, QueueIsKind DEF Omitted
    <3>2. e \in Free(calls[i])
      BY <3>1 DEF Free, Omitted
    <3>3. i \in Callers(Pairs)
      BY <1>1, <2>2, <3>2, PairsTogether DEF Twinned
    <3>4. PICK n \in DOMAIN Pairs : Pairs[n].call = i
      BY <3>3 DEF Callers
    <3>5. Got(i, Pairs[n].event)
      BY <3>4 DEF Got
    <3> QED BY <3>5
  <2> QED BY <2>1, <2>2
<1>3. \A i \in C : Got(i, f[i])
  BY <1>2
<1> HIDE DEF f
<1>4. \A i \in C : f[i] \in E \ Omitted
  BY <1>3, GotIs DEF Omitted
<1>5. \A i, j \in C : f[i] = f[j] => i = j
  BY <1>3, GotIs
<1>6. f \in Injection(C, E \ Omitted)
  BY <1>4, <1>5 DEF Injection, IsInjective, f
<1>7. E \in SUBSET DOMAIN tape /\ E \cap Omitted \in SUBSET DOMAIN tape
  OBVIOUS
<1>8. IsFiniteSet(E) /\ IsFiniteSet(E \cap Omitted)
  BY <1>1, <1>7, FS_Subset
<1>9. /\ IsFiniteSet(E \ Omitted)
      /\ Cardinality(E \ Omitted) = Cardinality(E) - Cardinality(E \cap Omitted)
  BY <1>8, FS_Difference
<1>10. IsFiniteSet(C) /\ Cardinality(C) <= Cardinality(E \ Omitted)
  BY <1>6, <1>9, FS_Injection
<1> QED BY <1>8, <1>9, <1>10

\* Two sets kept apart.
Apiece(S, T) == ({0} \X S) \cup ({1} \X T)

LEMMA ApieceCounts ==
    ASSUME NEW S, NEW T, IsFiniteSet(S), IsFiniteSet(T)
    PROVE  IsFiniteSet(Apiece(S, T)) /\ Cardinality(Apiece(S, T)) = Cardinality(S) + Cardinality(T)
<1> DEFINE X == {0} \X S
           Y == {1} \X T
<1>1. \A n : IsFiniteSet({n}) /\ Cardinality({n}) = 1
  BY FS_Singleton
<1>2. IsFiniteSet(X) /\ Cardinality(X) = 1 * Cardinality(S)
  <2>1. PICK A : A = {0}
    OBVIOUS
  <2>2. IsFiniteSet(A) /\ Cardinality(A) = 1
    BY <1>1, <2>1
  <2>3. IsFiniteSet(A \X S) /\ Cardinality(A \X S) = Cardinality(A) * Cardinality(S)
    BY <2>2, FS_Product
  <2> QED BY <2>1, <2>2, <2>3
<1>3. IsFiniteSet(Y) /\ Cardinality(Y) = 1 * Cardinality(T)
  <2>1. PICK A : A = {1}
    OBVIOUS
  <2>2. IsFiniteSet(A) /\ Cardinality(A) = 1
    BY <1>1, <2>1
  <2>3. IsFiniteSet(A \X T) /\ Cardinality(A \X T) = Cardinality(A) * Cardinality(T)
    BY <2>2, FS_Product
  <2> QED BY <2>1, <2>2, <2>3
<1>4. Cardinality(S) \in Nat /\ Cardinality(T) \in Nat
  BY FS_CardinalityType
<1>5. X \cap Y = {}
  OBVIOUS
<1> HIDE DEF X, Y
<1>6. /\ IsFiniteSet(X \cup Y)
      /\ Cardinality(X \cup Y) = Cardinality(X) + Cardinality(Y) - Cardinality(X \cap Y)
  BY <1>2, <1>3, FS_Union
<1>7. Cardinality(X \cap Y) = 0
  BY <1>5, FS_EmptySet
<1>8. Cardinality(X \cup Y) = Cardinality(S) + Cardinality(T)
  BY <1>2, <1>3, <1>4, <1>6, <1>7
<1>9. Apiece(S, T) = X \cup Y
  BY DEF Apiece, X, Y
<1> QED BY <1>6, <1>8, <1>9

\* The kind of a lost request is that of the events that made it.
LostKind(l) == Kind(tape[CHOOSE e \in DOMAIN tape : ByIdentity(tape[e]) = l[1]])

LEMMA LostKindIs ==
    ASSUME SameShape, NEW l, NEW e \in DOMAIN tape, ByIdentity(tape[e]) = l[1]
    PROVE  LostKind(l) = Kind(tape[e])
<1>1. PICK d \in DOMAIN tape :
         /\ d = CHOOSE x \in DOMAIN tape : ByIdentity(tape[x]) = l[1]
         /\ ByIdentity(tape[d]) = l[1]
  OBVIOUS
<1>2. Kind(tape[d]) = Kind(tape[e])
  BY <1>1, KindOfRequest
<1> QED BY <1>1, <1>2 DEF LostKind

LEMMA LostIs ==
    ASSUME ScoreInv, pass = "scored", NEW l \in Lost
    PROVE  /\ l[1] \in Requests(script)
           /\ \E e \in DOMAIN tape : ByIdentity(tape[e]) = l[1]
<1>1. PICK r \in Requests(script) : l \in {r} \X (1 .. Times(script, r) - Times(candidate, r))
  BY DEF Lost
<1>2. l[1] = r /\ Making(tape, r) # {}
  BY <1>1, TimesAre
<1> QED BY <1>2 DEF Making

\* An event goes with a call that makes its request, or with one that is lost.
LEMMA EventsGoWith ==
    ASSUME ScoreInv, pass = "scored"
    PROVE  \E h : /\ h \in Injection(DOMAIN tape, Apiece(DOMAIN calls, Lost))
                  /\ \A e \in DOMAIN tape :
                        LET b == h[e]
                        IN IF b[1] = 0 THEN ByIdentity(calls[b[2]]) = ByIdentity(tape[e])
                                       ELSE b[2][1] = ByIdentity(tape[e])
<1> DEFINE K == Requests(script)
           D == {i \in DOMAIN calls : ByIdentity(calls[i]) \in K}
           B == Apiece(D, Lost)
           f == [e \in DOMAIN tape |-> ByIdentity(tape[e])]
           g == [b \in B |-> IF b[1] = 0 THEN ByIdentity(calls[b[2]]) ELSE b[2][1]]
<1>1. f \in [DOMAIN tape -> K]
  <2>1. ASSUME NEW e \in DOMAIN tape PROVE ByIdentity(tape[e]) \in K
    <3>1. e \in Making(tape, ByIdentity(tape[e]))
      BY DEF Making
    <3> QED BY <3>1, TimesAre
  <2> QED BY <2>1
<1>2. \A b \in B : (b[1] = 0 /\ b[2] \in D) \/ (b[1] = 1 /\ b[2] \in Lost)
  BY DEF Apiece
<1>3. g \in [B -> K]
  <2>1. ASSUME NEW b \in B PROVE g[b] \in K
    <3>1. CASE b[1] = 0 /\ b[2] \in D
      BY <3>1
    <3>2. CASE b[1] = 1 /\ b[2] \in Lost
      BY <3>2, LostIs
    <3> QED BY <1>2, <3>1, <3>2
  <2> QED BY <2>1
<1>4. ASSUME NEW r \in K
      PROVE  /\ IsFiniteSet(OfColour(DOMAIN tape, f, r)) /\ IsFiniteSet(OfColour(B, g, r))
             /\ Cardinality(OfColour(DOMAIN tape, f, r)) <= Cardinality(OfColour(B, g, r))
  <2>1. PICK n \in Int : n = Times(script, r) - Times(candidate, r)
    BY TimesAre
  <2>2. PICK C, L : C = Making(calls, r) /\ L = {l \in Lost : l[1] = r}
    OBVIOUS
  <2>3. IsFiniteSet(L) /\ Cardinality(L) = IF n < 0 THEN 0 ELSE n
    BY <2>1, <2>2, LostOfOne
  <2>4. IsFiniteSet(Apiece(C, L)) /\ Cardinality(Apiece(C, L)) = Cardinality(C) + Cardinality(L)
    BY <2>2, <2>3, TimesAre, ApieceCounts
  <2>5. OfColour(DOMAIN tape, f, r) = Making(tape, r)
    BY DEF OfColour, Making
  <2>6. OfColour(B, g, r) = Apiece(C, L)
    <3>1. ASSUME NEW b \in B PROVE g[b] = r <=> b \in Apiece(C, L)
      <4>1. CASE b \in {0} \X D
        BY <2>2, <4>1 DEF Apiece, Making
      <4>2. CASE b \in {1} \X Lost
        BY <2>2, <4>2 DEF Apiece
      <4> QED BY <4>1, <4>2 DEF Apiece
    <3>2. \A b \in Apiece(C, L) : b \in B
      BY <2>2 DEF Apiece, Making
    <3> QED BY <3>1, <3>2 DEF OfColour
  <2>7. /\ IsFiniteSet(Making(tape, r)) /\ Cardinality(Making(tape, r)) = Times(script, r)
        /\ Cardinality(C) = Times(candidate, r)
        /\ Times(script, r) \in Nat /\ Times(candidate, r) \in Nat
    BY <2>2, TimesAre
  <2>8. Cardinality(Making(tape, r)) <= Cardinality(Apiece(C, L))
    BY <2>1, <2>3, <2>4, <2>7
  <2> QED BY <2>4, <2>5, <2>6, <2>7, <2>8
<1>5. \A b \in B : g[b] = IF b[1] = 0 THEN ByIdentity(calls[b[2]]) ELSE b[2][1]
  OBVIOUS
<1>6. \A e \in DOMAIN tape : f[e] = ByIdentity(tape[e])
  OBVIOUS
<1>7. B \subseteq Apiece(DOMAIN calls, Lost)
  BY DEF Apiece
<1> HIDE DEF f, g, K, B
<1>8. PICK h \in Injection(DOMAIN tape, B) : \A e \in DOMAIN tape : g[h[e]] = f[e]
  <2>1. NoMoreOfEach(DOMAIN tape, f, B, g, K)
    BY <1>1, <1>3, <1>4 DEF NoMoreOfEach
  <2> QED BY <2>1, FewerOfEachInject
<1>9. h \in Injection(DOMAIN tape, Apiece(DOMAIN calls, Lost))
  BY <1>7, <1>8 DEF Injection, IsInjective
<1>10. \A e \in DOMAIN tape : h[e] \in B
  BY <1>8 DEF Injection
<1> QED BY <1>5, <1>6, <1>8, <1>9, <1>10

LEMMA LostIsFinite ==
    ASSUME ScoreInv, pass = "scored", Tracking
    PROVE  IsFiniteSet(Lost) /\ Cardinality(Lost) \in Nat
<1>1. PICK ex : Explains(ex)
  BY DEF ScoreInv, Settled
<1>2. PICK U : U = {e \in DOMAIN tape : \A i \in DOMAIN calls : ~Mated(ex, e, i)}
  OBVIOUS
<1> QED BY <1>1, <1>2, LostAreMateless, FS_CardinalityType

\* Of each kind there are no more events than calls and lost requests.
LEMMA EventsOfAKind ==
    ASSUME ScoreInv, pass = "scored", Tracking, SameShape, NEW k,
           NEW E, E = {e \in DOMAIN tape : Kind(tape[e]) = k},
           NEW C, C = {i \in DOMAIN calls : Kind(calls[i]) = k},
           NEW L, L = {l \in Lost : LostKind(l) = k}
    PROVE  /\ IsFiniteSet(E) /\ IsFiniteSet(C) /\ IsFiniteSet(L)
           /\ Cardinality(E) <= Cardinality(C) + Cardinality(L)
<1>1. PICK h : /\ h \in Injection(DOMAIN tape, Apiece(DOMAIN calls, Lost))
               /\ \A e \in DOMAIN tape :
                     LET b == h[e]
                     IN IF b[1] = 0 THEN ByIdentity(calls[b[2]]) = ByIdentity(tape[e])
                                    ELSE b[2][1] = ByIdentity(tape[e])
  BY EventsGoWith
<1>2. IsFiniteSet(DOMAIN calls) /\ IsFiniteSet(DOMAIN tape) /\ IsFiniteSet(Lost)
  BY Over, LostIsFinite
<1>3. E \in SUBSET DOMAIN tape /\ C \in SUBSET DOMAIN calls /\ L \in SUBSET Lost
  OBVIOUS
<1>4. IsFiniteSet(E) /\ IsFiniteSet(C) /\ IsFiniteSet(L)
  BY <1>2, <1>3, FS_Subset
<1>5. ASSUME NEW e \in E PROVE h[e] \in Apiece(C, L)
  <2>1. PICK b \in Apiece(DOMAIN calls, Lost) : b = h[e]
    BY <1>1 DEF Injection
  <2>2. IF b[1] = 0 THEN ByIdentity(calls[b[2]]) = ByIdentity(tape[e])
                    ELSE b[2][1] = ByIdentity(tape[e])
    BY <1>1, <2>1
  <2>3. CASE b \in {0} \X DOMAIN calls
    <3>1. PICK i \in DOMAIN calls : b = <<0, i>>
      BY <2>3
    <3>2. ByIdentity(calls[i]) = ByIdentity(tape[e])
      <4>1. b[1] = 0 /\ b[2] = i
        BY <3>1
      <4> QED BY <2>2, <4>1
    <3>3. Kind(calls[i]) = Kind(tape[e])
      BY <3>2, KindOfRequest
    <3> QED BY <2>1, <3>1, <3>3 DEF Apiece
  <2>4. CASE b \in {1} \X Lost
    <3>1. PICK l \in Lost : b = <<1, l>>
      BY <2>4
    <3>2. l[1] = ByIdentity(tape[e])
      <4>1. b[1] = 1 /\ b[2] = l
        BY <3>1
      <4> QED BY <2>2, <4>1
    <3>3. LostKind(l) = Kind(tape[e])
      BY <3>2, LostKindIs
    <3> QED BY <2>1, <3>1, <3>3 DEF Apiece
  <2> QED BY <2>3, <2>4 DEF Apiece
<1>6. PICK f : f = [e \in E |-> h[e]]
  OBVIOUS
<1>7. f \in Injection(E, Apiece(C, L))
  BY <1>1, <1>5, <1>6 DEF Injection, IsInjective
<1>8. IsFiniteSet(Apiece(C, L)) /\ Cardinality(Apiece(C, L)) = Cardinality(C) + Cardinality(L)
  BY <1>4, ApieceCounts
<1>9. Cardinality(E) <= Cardinality(Apiece(C, L))
  BY <1>7, <1>8, FS_Injection
<1> QED BY <1>4, <1>8, <1>9

\* Among twins no more is omitted than was lost.
LEMMA OmittedAreLost ==
    ASSUME ScoreInv, pass = "scored", Tracking, OneName, NoneByAddress, SameShape
    PROVE  Cardinality(Omitted) <= Cardinality(Lost)
<1> DEFINE f == [e \in Omitted |-> Kind(tape[e])]
           g == [l \in Lost |-> LostKind(l)]
           K == {Kind(tape[e]) : e \in DOMAIN tape}
<1>1. f \in [Omitted -> K]
  BY DEF Omitted
<1>2. g \in [Lost -> K]
  <2>1. ASSUME NEW l \in Lost PROVE LostKind(l) \in K
    BY LostIs, LostKindIs
  <2> QED BY <2>1
<1>3. ASSUME NEW k \in K
      PROVE  /\ IsFiniteSet(OfColour(Omitted, f, k)) /\ IsFiniteSet(OfColour(Lost, g, k))
             /\ Cardinality(OfColour(Omitted, f, k)) <= Cardinality(OfColour(Lost, g, k))
  <2>1. PICK E, C, L :
           /\ E = {e \in DOMAIN tape : Kind(tape[e]) = k}
           /\ C = {i \in DOMAIN calls : Kind(calls[i]) = k}
           /\ L = {l \in Lost : LostKind(l) = k}
    OBVIOUS
  <2>2. OfColour(Omitted, f, k) = E \cap Omitted
    BY <2>1 DEF OfColour, Omitted
  <2>3. OfColour(Lost, g, k) = L
    BY <2>1 DEF OfColour
  <2>4. /\ IsFiniteSet(E) /\ IsFiniteSet(C) /\ IsFiniteSet(L)
        /\ Cardinality(E) <= Cardinality(C) + Cardinality(L)
    BY <2>1, EventsOfAKind
  <2>5. IsFiniteSet(E \cap Omitted)
    <3>1. E \cap Omitted \in SUBSET E
      OBVIOUS
    <3> QED BY <2>4, <3>1, FS_Subset
  <2>6. /\ Cardinality(E) \in Nat /\ Cardinality(C) \in Nat /\ Cardinality(L) \in Nat
        /\ Cardinality(E \cap Omitted) \in Nat
    BY <2>4, <2>5, FS_CardinalityType
  <2>7. CASE E \cap Omitted = {}
    <3>1. Cardinality(E \cap Omitted) = 0
      BY <2>7, FS_EmptySet
    <3>2. Cardinality(E \cap Omitted) <= Cardinality(L)
      BY <2>6, <3>1
    <3> QED BY <2>2, <2>3, <2>4, <2>5, <3>2
  <2>8. CASE E \cap Omitted # {}
    <3>1. PICK e \in Omitted : e \in E
      BY <2>8
    <3>2. Kind(tape[e]) = k
      BY <2>1, <3>1
    <3>3. Cardinality(C) <= Cardinality(E) - Cardinality(E \cap Omitted)
      BY <2>1, <3>2, CallersOfAKind
    <3>4. Cardinality(E \cap Omitted) <= Cardinality(L)
      BY <2>4, <2>6, <3>3
    <3> QED BY <2>2, <2>3, <2>4, <2>5, <3>4
  <2> QED BY <2>7, <2>8
<1> HIDE DEF f, g, K
<1>4. PICK h \in Injection(Omitted, Lost) : TRUE
  <2>1. NoMoreOfEach(Omitted, f, Lost, g, K)
    BY <1>1, <1>2, <1>3 DEF NoMoreOfEach
  <2> QED BY <2>1, FewerOfEachInject
<1> QED BY <1>4, LostIsFinite, FS_Injection

LEMMA LossesCounted == ScoreInv => LossesAreCounted
BY LostAreCharged, OmittedAreLost DEF LossesAreCounted

\* Whatever a candidate makes instead, each request it makes too few times is
\* omitted or charged: an event no call sent what it was is omitted, or its pair
\* is a change, and no two of them are excused by or charged to one call.  Among
\* twins of one span name what is omitted was lost: where an event of a kind is
\* left over, every call of that kind got one.
THEOREM LossesAreNeverHidden == PairSpec => []LossesAreCounted
BY ScoreInit, ScoreNext, LossesCounted, PTL DEF PairSpec

-----------------------------------------------------------------------------
(* Requests that changed places.                                           *)

LEMMA ReorderedLoseNothing ==
    ASSUME ScoreInv, pass = "scored", OnlyReordered
    PROVE  Lost = {}
<1> SUFFICES ASSUME NEW l \in Lost PROVE FALSE
  OBVIOUS
<1>1. PICK r \in Requests(script) : l \in {r} \X (1 .. Times(script, r) - Times(candidate, r))
  BY DEF Lost
<1>2. Times(script, r) = Times(candidate, r) /\ Times(script, r) \in Nat
  BY TimesAre DEF OnlyReordered
<1>3. Times(script, r) - Times(candidate, r) = 0
  BY <1>2
<1>4. 1 .. 0 = {}
  OBVIOUS
<1> QED BY <1>1, <1>3, <1>4

LEMMA ReorderedAreAsMany ==
    ASSUME ScoreInv, pass = "scored", OnlyReordered
    PROVE  Cardinality(DOMAIN calls) <= Cardinality(DOMAIN tape)
<1> DEFINE K == Requests(script) \cup Requests(candidate)
           f == [i \in DOMAIN calls |-> ByIdentity(calls[i])]
           g == [e \in DOMAIN tape |-> ByIdentity(tape[e])]
<1>1. f \in [DOMAIN calls -> K]
  <2>1. ASSUME NEW i \in DOMAIN calls PROVE ByIdentity(calls[i]) \in K
    <3>1. i \in Making(calls, ByIdentity(calls[i]))
      BY DEF Making
    <3> QED BY <3>1, TimesAre
  <2> QED BY <2>1
<1>2. g \in [DOMAIN tape -> K]
  <2>1. ASSUME NEW e \in DOMAIN tape PROVE ByIdentity(tape[e]) \in K
    <3>1. e \in Making(tape, ByIdentity(tape[e]))
      BY DEF Making
    <3> QED BY <3>1, TimesAre
  <2> QED BY <2>1
<1>3. ASSUME NEW r \in K
      PROVE  /\ IsFiniteSet(OfColour(DOMAIN calls, f, r)) /\ IsFiniteSet(OfColour(DOMAIN tape, g, r))
             /\ Cardinality(OfColour(DOMAIN calls, f, r)) <= Cardinality(OfColour(DOMAIN tape, g, r))
  <2>1. OfColour(DOMAIN calls, f, r) = Making(calls, r)
    BY DEF OfColour, Making
  <2>2. OfColour(DOMAIN tape, g, r) = Making(tape, r)
    BY DEF OfColour, Making
  <2>3. Times(script, r) = Times(candidate, r)
    BY DEF OnlyReordered
  <2>4. /\ IsFiniteSet(Making(calls, r)) /\ IsFiniteSet(Making(tape, r))
        /\ Cardinality(Making(calls, r)) = Cardinality(Making(tape, r))
        /\ Cardinality(Making(calls, r)) \in Nat
    BY <2>3, TimesAre
  <2> QED BY <2>1, <2>2, <2>4
<1> HIDE DEF f, g, K
<1>4. PICK h \in Injection(DOMAIN calls, DOMAIN tape) : TRUE
  <2>1. NoMoreOfEach(DOMAIN calls, f, DOMAIN tape, g, K)
    BY <1>1, <1>2, <1>3 DEF NoMoreOfEach
  <2> QED BY <2>1, FewerOfEachInject
<1>5. IsFiniteSet(DOMAIN tape)
  BY Over
<1> QED BY <1>4, <1>5, FS_Injection

\* All are paired.
LEMMA ReorderedAreAllPaired ==
    ASSUME ScoreInv, pass = "scored", Tracking, OneName, SameShape, OnlyReordered
    PROVE  Omitted = {} /\ Unpaired = {}
<1>1. NoneByAddress /\ IsFiniteSet(DOMAIN calls) /\ IsFiniteSet(DOMAIN tape) /\ PairInv
  BY Over DEF OnlyReordered
<1>2. Cardinality(Lost) = 0
  BY ReorderedLoseNothing, FS_EmptySet
<1>3. Cardinality(Omitted) <= 0
  BY <1>1, <1>2, OmittedAreLost
<1>4. Omitted = {}
  <2>1. IsFiniteSet(Omitted)
    <3>1. Omitted \in SUBSET DOMAIN tape
      BY DEF Omitted
    <3> QED BY <1>1, <3>1, FS_Subset
  <2>2. Cardinality(Omitted) = 0
    BY <1>3, <2>1, FS_CardinalityType
  <2> QED BY <2>1, <2>2, FS_EmptySet
<1>5. ASSUME NEW e \in DOMAIN tape PROVE \E i \in DOMAIN calls \ Unpaired : Got(i, e)
  <2>1. IsTaken(e)
    BY <1>4 DEF Omitted
  <2>2. CASE e \in Owned
    BY <2>2 DEF Owned, Got, Unpaired
  <2>3. CASE e \in Events(Pairs)
    <3>1. PICK n \in DOMAIN Pairs : Pairs[n].event = e
      BY <2>3 DEF Events
    <3>2. Pairs[n].call \in DOMAIN calls /\ Pairs[n].call \in Callers(Pairs)
      BY <1>1, PairIs, Over DEF Callers
    <3> QED BY <3>1, <3>2 DEF Got, Unpaired
  <2> QED BY <1>1, <2>1, <2>2, <2>3, PairsTogether DEF IsTaken
<1>6. PICK f : f = [e \in DOMAIN tape |-> CHOOSE i \in DOMAIN calls \ Unpaired : Got(i, e)]
  OBVIOUS
<1>7. \A e \in DOMAIN tape : f[e] \in DOMAIN calls \ Unpaired /\ Got(f[e], e)
  BY <1>5, <1>6
<1>8. \A d, e \in DOMAIN tape : f[d] = f[e] => d = e
  BY <1>1, <1>7, GotIs
<1>9. f \in Injection(DOMAIN tape, DOMAIN calls \ Unpaired)
  BY <1>6, <1>7, <1>8 DEF Injection, IsInjective
<1>10. DOMAIN calls \cap Unpaired = Unpaired /\ Unpaired \in SUBSET DOMAIN calls
  BY DEF Unpaired
<1>11. /\ IsFiniteSet(DOMAIN calls \ Unpaired) /\ IsFiniteSet(Unpaired)
       /\ Cardinality(DOMAIN calls \ Unpaired) = Cardinality(DOMAIN calls) - Cardinality(Unpaired)
  BY <1>1, <1>10, FS_Difference, FS_Subset
<1>12. Cardinality(DOMAIN tape) <= Cardinality(DOMAIN calls \ Unpaired)
  BY <1>9, <1>11, FS_Injection
<1>13. Cardinality(DOMAIN calls) <= Cardinality(DOMAIN tape)
  BY ReorderedAreAsMany
<1>14. Cardinality(DOMAIN calls) \in Nat /\ Cardinality(DOMAIN tape) \in Nat /\ Cardinality(Unpaired) \in Nat
  BY <1>1, <1>11, FS_CardinalityType
<1>15. Cardinality(Unpaired) = 0
  BY <1>11, <1>12, <1>13, <1>14
<1> QED BY <1>4, <1>11, <1>15, FS_EmptySet

\* Of each request as many events are left to pair as calls.
LEMMA ReorderedBalance ==
    ASSUME ScoreInv, pass = "scored", Tracking, OnlyReordered, NEW r
    PROVE  (\E i \in DOMAIN calls : calls[i].how # "exact" /\ ByIdentity(calls[i]) = r)
           <=> (\E e \in DOMAIN tape \ Owned : ByIdentity(tape[e]) = r)
<1> DEFINE S == Making(tape, r)
           C == Making(calls, r)
           X == {i \in C : calls[i].how = "exact"}
           O == {e \in S : e \in Owned}
           f == [i \in X |-> calls[i].row]
<1>1. /\ IsFiniteSet(S) /\ IsFiniteSet(C) /\ Cardinality(S) = Cardinality(C)
      /\ Cardinality(S) \in Nat
  <2>1. CASE r \in Requests(script) \cup Requests(candidate)
    <3>1. Times(script, r) = Times(candidate, r)
      BY <2>1 DEF OnlyReordered
    <3> QED BY <3>1, TimesAre
  <2>2. CASE r \notin Requests(script) \cup Requests(candidate)
    <3>1. S = {} /\ C = {}
      BY <2>2, TimesAre
    <3> QED BY <3>1, TimesAre
  <2> QED BY <2>1, <2>2
<1>2. HonestInv /\ ServedOnce
  BY Over DEF PairInv, ServedInv
<1>3. \A i \in X : calls[i].row \in O
  BY <1>2 DEF Making, HonestInv, Honest, Owned
<1>4. \A i, j \in X : calls[i].row = calls[j].row => i = j
  BY <1>2 DEF Making, ServedOnce
<1>5. \A e \in O : \E i \in X : calls[i].row = e
  <2> SUFFICES ASSUME NEW e \in O PROVE \E i \in X : calls[i].row = e
    OBVIOUS
  <2>1. PICK i \in DOMAIN calls : calls[i].how = "exact" /\ calls[i].row = e
    BY DEF Owned
  <2>2. ByIdentity(calls[i]) = r
    BY <1>2, <2>1 DEF HonestInv, Honest, Making
  <2> QED BY <2>1, <2>2 DEF Making
<1>6. f \in Bijection(X, O)
  BY <1>3, <1>4, <1>5 DEF Bijection, Injection, Surjection, IsInjective
<1>7. X \in SUBSET C /\ O \in SUBSET S /\ C \cap X = X /\ S \cap O = O
  OBVIOUS
<1> HIDE DEF X, O, S, C, f
<1>8. IsFiniteSet(X) /\ IsFiniteSet(O) /\ Cardinality(X) = Cardinality(O)
  BY <1>1, <1>6, <1>7, FS_Subset, FS_Bijection DEF ExistsBijection
<1>9. /\ IsFiniteSet(C \ X) /\ Cardinality(C \ X) = Cardinality(C) - Cardinality(X)
      /\ IsFiniteSet(S \ O) /\ Cardinality(S \ O) = Cardinality(S) - Cardinality(O)
  <2>1. IsFiniteSet(C \ X) /\ Cardinality(C \ X) = Cardinality(C) - Cardinality(C \cap X)
    BY <1>1, FS_Difference
  <2>2. IsFiniteSet(S \ O) /\ Cardinality(S \ O) = Cardinality(S) - Cardinality(S \cap O)
    BY <1>1, FS_Difference
  <2> QED BY <1>7, <2>1, <2>2
<1>10. Cardinality(C \ X) = Cardinality(S \ O)
  BY <1>1, <1>8, <1>9
<1>11. C \ X = {} <=> S \ O = {}
  BY <1>9, <1>10, FS_EmptySet
<1> USE DEF X, O, S, C
<1>12. C \ X # {} <=> \E i \in DOMAIN calls : calls[i].how # "exact" /\ ByIdentity(calls[i]) = r
  BY DEF Making
<1>13. S \ O # {} <=> \E e \in DOMAIN tape \ Owned : ByIdentity(tape[e]) = r
  BY DEF Making
<1> QED BY <1>11, <1>12, <1>13

-----------------------------------------------------------------------------
\* What is in a call's queue but owned or gone.
Rest(c, gone) == {e \in Queue(c) : e \notin Owned \cup gone}

\* The pair took the head of that, and says whether what its call sent was
\* behind it.
Took(p, gone) ==
    LET rest == Rest(calls[p.call], gone)
    IN /\ p.event \in First(rest)
       /\ p.ahead = /\ \E e \in rest : tape[e].arg = calls[p.call].arg
                    /\ \A e \in First(rest) : tape[e].arg # calls[p.call].arg

\* What went before the n-th twin.
Before(n) == Events(served) \cup {twins[m].event : m \in {k \in DOMAIN twins : k < n}}

InTurn == \A n \in DOMAIN twins : Took(twins[n], Before(n))

\* A jump that is used up explains a call that sent what it took.
UsedUp ==
    \A n \in DOMAIN twins :
        twins[n].ahead /\ n \notin jumped =>
            \E i \in displaced : ByIdentity(tape[twins[n].event]) = ByIdentity(calls[i])

TurnInv ==
    /\ ScoreInv /\ InTurn
    /\ pass \in {"displaced", "scored"} => UsedUp

LEMMA TookRests ==
    ASSUME UNCHANGED vars
    PROVE  \A p, gone : Took(p, gone)' <=> Took(p, gone)
<1>1. calls' = calls /\ tape' = tape /\ Owned' = Owned /\ \A c : Queue(c)' = Queue(c)
  BY RunRests
<1>2. \A c, gone : Rest(c, gone)' = Rest(c, gone)
  BY <1>1 DEF Rest
<1> QED BY <1>1, <1>2 DEF Took

LEMMA TurnInit == PairInit => TurnInv
<1> SUFFICES ASSUME PairInit PROVE TurnInv
  OBVIOUS
<1>1. ScoreInv /\ twins = <<>> /\ pass = "replay"
  BY ScoreInit DEF PairInit
<1> QED BY <1>1 DEF TurnInv, InTurn

\* The lists rest.
LEMMA InTurnRests ==
    ASSUME InTurn, UNCHANGED <<vars, served, twins>>
    PROVE  InTurn'
<1>1. \A n : Before(n)' = Before(n)
  BY DEF Before, Events
<1>2. \A p, gone : Took(p, gone)' <=> Took(p, gone)
  BY TookRests
<1>3. ASSUME NEW n \in DOMAIN twins' PROVE Took(twins[n], Before(n))'
  <2>1. PICK p, gone : p = twins[n] /\ gone = Before(n)
    OBVIOUS
  <2>2. Took(p, gone)'
    BY <1>2, <1>3, <2>1 DEF InTurn
  <2>3. twins'[n] = p /\ Before(n)' = gone
    BY <1>1, <2>1
  <2> QED BY <2>2, <2>3 DEF Took
<1> QED BY <1>3 DEF InTurn

LEMMA TurnPairTwin ==
    ASSUME TurnInv, PairTwin
    PROVE  InTurn'
<1>i. PICK i : i = observed[at]
  OBVIOUS
<1>c. PICK c : c = calls[i]
  OBVIOUS
<1>h. PICK head : head = IF c.how = "exact" \/ i \in Callers(served) THEN {} ELSE First(Free(c))
  OBVIOUS
<1>1. /\ UNCHANGED vars /\ served' = served
      /\ IF head = {} THEN UNCHANGED twins
         ELSE \E e \in head :
                twins' = Append(twins, [call |-> i, event |-> e, ahead |-> OutOfOrder(c)])
  BY <1>i, <1>c, <1>h DEF PairTwin
<1>2. CASE head = {}
  BY <1>1, <1>2, InTurnRests DEF TurnInv
<1>3. CASE head # {}
  <2>1. PICK e \in head :
           twins' = Append(twins, [call |-> i, event |-> e, ahead |-> OutOfOrder(c)])
    BY <1>1, <1>3
  <2>2. PICK p : p = [call |-> i, event |-> e, ahead |-> OutOfOrder(c)]
    OBVIOUS
  <2>3. PICK last : last = Len(twins) + 1
    OBVIOUS
  <2>4. Len(twins) \in Nat /\ DOMAIN twins = 1 .. Len(twins)
    BY ListedDomain DEF TurnInv, ScoreInv, PairInv, Apart
  <2>5. /\ DOMAIN twins' = DOMAIN twins \cup {last} /\ twins'[last] = p
        /\ \A n \in DOMAIN twins : twins'[n] = twins[n]
    BY <2>1, <2>2, <2>3, AppendListed DEF TurnInv, ScoreInv, PairInv, Apart
  <2>6. \A p1, gone : Took(p1, gone)' <=> Took(p1, gone)
    BY <1>1, TookRests
  <2>7. Events(served)' = Events(served)
    BY <1>1 DEF Events
  <2>8. \A n \in DOMAIN twins : \A k \in DOMAIN twins' : k < n <=> k \in DOMAIN twins /\ k < n
    BY <2>3, <2>4, <2>5
  <2>9. \A n \in DOMAIN twins : Before(n)' = Before(n)
    <3>1. ASSUME NEW n \in DOMAIN twins PROVE Before(n)' = Before(n)
      <4>1. {k \in DOMAIN twins' : k < n} = {k \in DOMAIN twins : k < n}
        BY <2>5, <2>8
      <4>2. \A m \in {k \in DOMAIN twins : k < n} : twins'[m] = twins[m]
        BY <2>5
      <4>3. {twins'[m].event : m \in {k \in DOMAIN twins' : k < n}}
              = {twins[m].event : m \in {k \in DOMAIN twins : k < n}}
        BY <4>1, <4>2
      <4> QED BY <2>7, <4>3 DEF Before
    <3> QED BY <3>1
  <2>10. Before(last)' = Events(served) \cup Events(twins)
    <3>1. {k \in DOMAIN twins' : k < last} = DOMAIN twins
      BY <2>3, <2>4, <2>5
    <3>2. {twins'[m].event : m \in DOMAIN twins} = {twins[m].event : m \in DOMAIN twins}
      BY <2>5
    <3> QED BY <2>7, <3>1, <3>2 DEF Before, Events
  <2>11. PICK gone : gone = Events(served) \cup Events(twins)
    OBVIOUS
  <2>12. Rest(c, gone) = Free(c)
    BY <2>11 DEF Rest, Free, IsTaken
  <2>13. p.call = i /\ p.event = e /\ p.ahead = OutOfOrder(c)
    BY <2>2
  <2>14. e \in First(Free(c))
    BY <1>3, <1>h
  <2>15. Took(p, gone)
    BY <1>c, <2>12, <2>13, <2>14 DEF Took, OutOfOrder
  <2>16. ASSUME NEW n \in DOMAIN twins' PROVE Took(twins[n], Before(n))'
    <3>1. CASE n \in DOMAIN twins
      <4>1. PICK q, g : q = twins[n] /\ g = Before(n)
        OBVIOUS
      <4>2. Took(q, g)'
        BY <2>6, <3>1, <4>1 DEF TurnInv, InTurn
      <4>3. twins'[n] = q /\ Before(n)' = g
        BY <2>5, <2>9, <3>1, <4>1
      <4> QED BY <4>2, <4>3 DEF Took
    <3>2. CASE n = last
      <4>1. Took(p, gone)'
        BY <2>6, <2>15
      <4>2. twins'[n] = p /\ Before(n)' = gone
        BY <2>5, <2>10, <2>11, <3>2
      <4> QED BY <4>1, <4>2 DEF Took
    <3> QED BY <2>5, <3>1, <3>2
  <2> QED BY <2>16 DEF InTurn
<1> QED BY <1>2, <1>3

LEMMA TurnNext == TurnInv /\ [PairNext]_pairVars => TurnInv'
<1> SUFFICES ASSUME TurnInv, [PairNext]_pairVars PROVE TurnInv'
  OBVIOUS
<1>1. ScoreInv /\ ScoreInv' /\ PairInv
  BY ScoreNext DEF TurnInv, ScoreInv
<1>2. CASE Replaying \/ Observe \/ PairServed
  <2>1. twins' = twins /\ twins = <<>> /\ pass' \in {"replay", "served"}
    BY <1>1, <1>2 DEF Replaying, Observe, PairServed, scoreVars, PairInv
  <2> QED BY <1>1, <2>1 DEF TurnInv, InTurn
<1>3. CASE AllServed
  <2>1. UNCHANGED <<vars, served, twins>> /\ pass' = "twins"
    BY <1>3 DEF AllServed
  <2> QED BY <1>1, <2>1, InTurnRests DEF TurnInv
<1>4. CASE PairTwin
  <2>1. pass' = "twins"
    BY <1>4 DEF PairTwin
  <2> QED BY <1>1, <1>4, <2>1, TurnPairTwin DEF TurnInv
<1>5. CASE AllPaired
  <2>1. UNCHANGED <<vars, served, twins>> /\ jumped' = {n \in DOMAIN twins : twins[n].ahead}
    BY <1>5 DEF AllPaired
  <2>2. UsedUp'
    BY <2>1 DEF UsedUp
  <2> QED BY <1>1, <2>1, <2>2, InTurnRests DEF TurnInv
<1>6. CASE Displace
  <2>1. PICK p, same : /\ p = Pairs[at]
                       /\ same = IF p.ahead THEN {} ELSE First(Explaining(calls[p.call]))
    OBVIOUS
  <2>2. /\ UNCHANGED <<vars, served, twins>> /\ pass = "displaced"
        /\ jumped' = jumped \ same
        /\ displaced' = IF same = {} THEN displaced ELSE displaced \cup {p.call}
    BY <1>6, <2>1 DEF Displace
  <2>3. calls' = calls /\ tape' = tape
    BY <2>2 DEF vars
  <2>4. \A n \in same : ByIdentity(tape[twins[n].event]) = ByIdentity(calls[p.call])
    BY <2>1 DEF First, Explaining, RequestDiverged
  <2>5. ASSUME NEW n \in DOMAIN twins, twins[n].ahead, n \notin jumped'
        PROVE  \E i \in displaced' : ByIdentity(tape[twins[n].event]) = ByIdentity(calls[i])
    <3>1. CASE n \in same
      BY <2>2, <2>4, <3>1
    <3>2. CASE n \notin same
      <4>1. \E i \in displaced : ByIdentity(tape[twins[n].event]) = ByIdentity(calls[i])
        BY <2>2, <2>5, <3>2 DEF TurnInv, UsedUp
      <4> QED BY <2>2, <4>1
    <3> QED BY <3>1, <3>2
  <2>6. UsedUp'
    BY <2>2, <2>3, <2>5 DEF UsedUp
  <2> QED BY <1>1, <2>2, <2>6, InTurnRests DEF TurnInv
<1>7. CASE Score
  <2>1. UNCHANGED <<vars, served, twins>> /\ pass = "displaced"
        /\ jumped' = jumped /\ displaced' = displaced /\ calls' = calls /\ tape' = tape
    BY <1>7 DEF Score, vars
  <2>2. UsedUp'
    BY <2>1 DEF UsedUp, TurnInv
  <2> QED BY <1>1, <2>1, <2>2, InTurnRests DEF TurnInv
<1>8. CASE UNCHANGED pairVars
  <2>1. UNCHANGED <<vars, served, twins>> /\ pass' = pass
        /\ jumped' = jumped /\ displaced' = displaced /\ calls' = calls /\ tape' = tape
    BY <1>8 DEF pairVars, scoreVars, vars
  <2>2. UsedUp => UsedUp'
    BY <2>1 DEF UsedUp
  <2> QED BY <1>1, <2>1, <2>2, InTurnRests DEF TurnInv
<1> QED BY <1>2, <1>3, <1>4, <1>5, <1>6, <1>7, <1>8 DEF PairNext, Scored

\* A twin that did not take what its call sent jumped, if that was left after it.
LEMMA Jumps ==
    ASSUME TurnInv, pass = "scored", NEW n \in DOMAIN twins, NEW m \in DOMAIN twins, n < m,
           twins[m].event \in Queue(calls[twins[n].call]),
           tape[twins[m].event].arg = calls[twins[n].call].arg,
           tape[twins[n].event].arg # calls[twins[n].call].arg
    PROVE  twins[n].ahead
<1>1. PICK rest : rest = Rest(calls[twins[n].call], Before(n))
  OBVIOUS
<1>2. PairInv /\ Fitting /\ DOMAIN twins = 1 .. Len(twins) /\ Len(twins) \in Nat
      /\ DOMAIN tape = 1 .. Len(tape) /\ Len(tape) \in Nat
  BY Over, ListedDomain DEF TurnInv, PairInv, Apart
<1>3. twins[n].event \in First(rest)
  BY <1>1 DEF TurnInv, InTurn, Took
<1>4. twins[m].event \in rest
  <2>1. twins[m].event \in Events(twins)
    BY DEF Events
  <2>2. twins[m].event \notin Owned /\ twins[m].event \notin Events(served)
    BY <1>2, <2>1 DEF PairInv, Apart
  <2>3. \A k \in DOMAIN twins : k < n => twins[k].event # twins[m].event
    BY <1>2 DEF PairInv, Apart
  <2> QED BY <1>1, <2>2, <2>3 DEF Rest, Before
<1>5. \A e \in First(rest) : e = twins[n].event
  <2>1. \A e \in First(rest) : e <= twins[n].event /\ twins[n].event <= e
    BY <1>3 DEF First
  <2>2. \A e \in First(rest) : e \in 1 .. Len(tape)
    BY <1>1, <1>2 DEF First, Rest, Queue
  <2> QED BY <1>2, <1>3, <2>1, <2>2
<1> QED BY <1>1, <1>4, <1>5 DEF TurnInv, InTurn, Took

\* Two requests that swapped are one change, that of the one that jumped.
LEMMA SwapsAreOneChange ==
    ASSUME TurnInv, pass = "scored", Tracking, OneName, SameShape, OnlyReordered, OnlySwaps,
           NEW n \in DOMAIN Pairs, Changed(Pairs[n])
    PROVE  Pairs[n].ahead
<1> SUFFICES ASSUME ~Pairs[n].ahead PROVE FALSE
  OBVIOUS
<1>1. /\ ScoreInv /\ PairInv /\ Fitting /\ WeaveInv /\ PairedOnce /\ NoneByAddress
      /\ Unpaired = {} /\ Len(twins) \in Nat /\ DOMAIN twins = 1 .. Len(twins)
  BY Over, PairedOnceHolds, ReorderedAreAllPaired, ListedDomain
     DEF TurnInv, OnlyReordered, PairInv, Apart
<1>2. \A j \in DOMAIN Pairs :
         /\ j \in DOMAIN twins /\ Pairs[j] = twins[j]
         /\ Pairs[j].call \in DOMAIN calls /\ calls[Pairs[j].call].how # "exact"
         /\ Pairs[j].event \in Queue(calls[Pairs[j].call])
         /\ Pairs[j].event \in DOMAIN tape \ Owned
  BY <1>1, PairIs DEF NoneByAddress, PairedOnce, Queue
<1>3. \A i, j \in DOMAIN Pairs :
         Pairs[i].event = Pairs[j].event \/ Pairs[i].call = Pairs[j].call => i = j
  BY <1>1 DEF PairedOnce
<1>4. PICK c, e : c = Pairs[n].call /\ e = Pairs[n].event
  OBVIOUS
<1>5. ASSUME NEW i \in DOMAIN calls
      PROVE  Queue(calls[i]) = {x \in DOMAIN tape : Kind(tape[x]) = Kind(calls[i])}
  BY <1>1, QueueIsKind
<1>6. /\ c \in DOMAIN calls /\ e \in DOMAIN tape \ Owned /\ Kind(tape[e]) = Kind(calls[c])
      /\ c \notin displaced /\ ByIdentity(calls[c]) # ByIdentity(tape[e])
      /\ tape[e].arg \notin SetLike
  BY <1>1, <1>2, <1>4, <1>5 DEF Changed, RequestDiverged, NoneByAddress, OnlySwaps
<1>7. PICK f \in DOMAIN tape \ Owned : ByIdentity(tape[f]) = ByIdentity(calls[c])
  BY <1>1, <1>2, <1>4, <1>6, ReorderedBalance
<1>8. /\ Kind(tape[f]) = Kind(calls[c]) /\ tape[f].arg \notin SetLike
      /\ calls[c].arg = tape[f].arg /\ calls[c].op = tape[f].op /\ f # e
  BY <1>6, <1>7, KindOfRequest DEF OnlySwaps
<1>9. PICK g \in DOMAIN calls : calls[g].how # "exact" /\ ByIdentity(calls[g]) = ByIdentity(tape[e])
  BY <1>1, <1>6, ReorderedBalance
<1>10. /\ Kind(calls[g]) = Kind(tape[e]) /\ calls[g].arg = tape[e].arg /\ g # c
  BY <1>6, <1>9, KindOfRequest
<1>11. tape[e].op = tape[f].op /\ tape[e].arg # tape[f].arg
  <2>1. tape[e].op = tape[f].op
    BY <1>6, <1>8 DEF Kind
  <2>2. tape[e].arg = tape[f].arg => ByIdentity(tape[e]) = ByIdentity(tape[f])
    BY <2>1 DEF ByIdentity, Exact
  <2> QED BY <1>6, <1>7, <2>1, <2>2
<1>12. ASSUME NEW x \in DOMAIN tape \ Owned, Kind(tape[x]) = Kind(tape[e]) PROVE x = e \/ x = f
  <2>1. ASSUME NEW y \in DOMAIN tape, Kind(tape[y]) = Kind(tape[e]) PROVE y \in Queue(tape[e])
    <3>1. tape[y].op = tape[e].op /\ Shape[tape[y].arg] = Shape[tape[e].arg]
      BY <2>1 DEF Kind
    <3>2. tape[y].path = tape[e].path
      BY <1>1, <1>6, <2>1, EventIs DEF OneName
    <3> QED BY <3>1, <3>2 DEF Queue
  <2>2. f \in Queue(tape[e]) /\ x \in Queue(tape[e])
    BY <1>6, <1>8, <1>12, <2>1
  <2> QED BY <1>6, <1>8, <2>2 DEF OnlySwaps
<1>13. ASSUME NEW i \in DOMAIN calls, calls[i].how # "exact", Kind(calls[i]) = Kind(tape[e]), i # c
       PROVE  \E j \in DOMAIN Pairs : Pairs[j].call = i /\ Pairs[j].event = f
  <2>1. i \in Callers(Pairs)
    BY <1>1, <1>13 DEF Unpaired
  <2>2. PICK j \in DOMAIN Pairs : Pairs[j].call = i
    BY <2>1 DEF Callers
  <2>3. PICK x : x = Pairs[j].event
    OBVIOUS
  <2>4. x \in DOMAIN tape \ Owned /\ Kind(tape[x]) = Kind(tape[e])
    BY <1>2, <1>5, <1>13, <2>2, <2>3
  <2>5. x # e
    BY <1>3, <1>4, <1>13, <2>2, <2>3
  <2> QED BY <1>12, <2>2, <2>3, <2>4, <2>5
<1>14. PICK m \in DOMAIN Pairs : Pairs[m].call = g /\ Pairs[m].event = f
  BY <1>9, <1>10, <1>13
<1>15. /\ n \in DOMAIN twins /\ twins[n].call = c /\ twins[n].event = e /\ ~twins[n].ahead
       /\ m \in DOMAIN twins /\ twins[m].call = g /\ twins[m].event = f /\ m # n
  BY <1>2, <1>4, <1>8, <1>14
<1>16. f \in Queue(calls[c]) /\ e \in Queue(calls[g])
  BY <1>5, <1>6, <1>8, <1>10
<1>17. ~(n < m)
  BY <1>8, <1>11, <1>15, <1>16, Jumps
<1>18. m < n
  BY <1>1, <1>15, <1>17
<1>19. twins[m].ahead
  BY <1>10, <1>11, <1>15, <1>16, <1>18, Jumps
<1>20. m \notin jumped
  <2>1. Explaining(calls[c]) = {}
    BY <1>1, <1>4, <1>6 DEF ScoreInv, Settled
  <2>2. ~RequestDiverged(calls[c], f)
    BY <1>1, <1>6, <1>7 DEF RequestDiverged, NoneByAddress
  <2>3. tape[f].path = calls[c].path /\ tape[f].op = calls[c].op
    BY <1>16 DEF Queue
  <2> QED BY <1>15, <2>1, <2>2, <2>3 DEF Explaining
<1>21. PICK i \in displaced : ByIdentity(tape[f]) = ByIdentity(calls[i])
  BY <1>15, <1>19, <1>20 DEF TurnInv, UsedUp
<1>22. PICK j \in DOMAIN Pairs : Pairs[j].call = i /\ ~Pairs[j].ahead
  BY <1>1, <1>21 DEF ScoreInv, Settled
<1>23. i \in DOMAIN calls /\ calls[i].how # "exact" /\ i # c /\ Kind(calls[i]) = Kind(tape[e])
  <2>1. Kind(calls[i]) = Kind(tape[f])
    BY <1>21, KindOfRequest
  <2> QED BY <1>2, <1>6, <1>8, <1>21, <1>22, <2>1
<1>24. \E l \in DOMAIN Pairs : Pairs[l].call = i /\ Pairs[l].event = f
  BY <1>13, <1>23
<1>25. j = m
  BY <1>3, <1>14, <1>22, <1>24
<1> QED BY <1>2, <1>15, <1>19, <1>22, <1>25

LEMMA ReorderingCounts == TurnInv => ReorderingCountsOnce
<1> SUFFICES ASSUME TurnInv, pass = "scored", Tracking, OneName, SameShape, OnlyReordered
             PROVE  /\ Omitted = {} /\ Unpaired = {}
                    /\ OnlySwaps => \A n \in DOMAIN Pairs : Changed(Pairs[n]) => Pairs[n].ahead
  BY DEF ReorderingCountsOnce
<1>1. Omitted = {} /\ Unpaired = {}
  BY ReorderedAreAllPaired DEF TurnInv
<1> QED BY <1>1, SwapsAreOneChange

\* Where the requests are those of the recording in another order, every event
\* is paired and no call is added; and of two that swapped only the one that
\* jumped the queue is a change, because its jump is still there, or was used
\* up by the other half, when that is looked at.
THEOREM SwappedRequestsAreOneChange == PairSpec => []ReorderingCountsOnce
BY TurnInit, TurnNext, ReorderingCounts, PTL DEF PairSpec
=============================================================================
