---------------------------- MODULE MCDeltaRules ----------------------------
(***************************************************************************)
(* The comparison of DeltaRules on every pair of small trees: one address  *)
(* of a request the runs may drive, with everything an entry can say, and  *)
(* a second one of another request.                                        *)
(***************************************************************************)
EXTENDS DeltaRules, Sequences

CONSTANTS Requests, Hashes, Rules

VARIABLES
    m, y,   \* the trees of the two runs of one tape
    delta   \* <<>>, then the delta of y against m and of m against y

vars == <<m, y, delta>>

Full  == [request |-> CHOOSE r \in Requests : TRUE, shape |-> "full"]
Other == [request |-> CHOOSE r \in Requests : r # Full.request, shape |-> "other"]

Results(value) == {ByResult(value, h, {h} \cup more, TRUE) : h \in Hashes, more \in SUBSET Hashes}
Values(value)  == {ByArguments(value, h, b) : h \in Hashes, b \in BOOLEAN} \cup Results(value)

\* What a run may list at an address the tape holds, and at one it does not.
HeldEntries  == {Plain(v, b) : v \in {"reproduced", "absent"}, b \in BOOLEAN} \cup Values("diverged")
NovelEntries == Values("novel")
FewEntries   == {Plain("absent", TRUE), ByArguments("diverged", CHOOSE h \in Hashes : TRUE, TRUE)}

\* A run lists an address, or leaves it out.
Lists(a, among) == [{a} -> among] \cup {<<>>}
Join(f, g) == [a \in DOMAIN f \cup DOMAIN g |-> IF a \in DOMAIN f THEN f[a] ELSE g[a]]

Trees(full) ==
    {[rules |-> r, drove |-> d,
      entries |-> Join(IF Full.request \in d THEN f ELSE <<>>,
                       IF Other.request \in d THEN g ELSE <<>>)] :
        r \in Rules, d \in SUBSET Requests,
        f \in Lists(Full, full), g \in Lists(Other, FewEntries)}

Init ==
    /\ \E full \in {HeldEntries, NovelEntries} :
          LET trees == Trees(full)
          IN m \in trees /\ y \in {t \in trees : t.rules = "current"}
    /\ delta = <<>>

Compare ==
    /\ delta = <<>>
    /\ delta' = IF Refuses(m, y) THEN <<"refused">>
                ELSE <<ThreeWay(m, y), ThreeWay(y, m)>>
    /\ UNCHANGED <<m, y>>

Stop == delta # <<>> /\ UNCHANGED vars
Next == Compare \/ Stop
Spec == Init /\ [][Next]_vars

-----------------------------------------------------------------------------
Compared == Len(delta) = 2
Forth == delta[1]
Back  == delta[2]

\* A run is charged with nothing where it does what the baseline did: what
\* both list at an address, or both leave out, is inherited or clean.
SameBehaviourIsNotCharged ==
    Compared => \A a \in DOMAIN Forth.buckets :
        (IF Has(m, a) THEN Has(y, a) /\ m.entries[a] = y.entries[a] ELSE ~Has(y, a))
            => a \notin Forth.charged

\* A run that reproduced the tape on every request both drove passes, whatever
\* the baseline did and whatever either did on other requests.
TapeIsNotCharged ==
    Compared /\ (\A a \in DOMAIN y.entries :
                    a.request \in m.drove => y.entries[a].value = "reproduced")
        => Forth.pass

\* Measured the other way round, exactly what was introduced is resolved:
\* neither direction hides a divergence the other one shows.
DirectionsMirror ==
    Compared =>
        /\ DOMAIN Forth.buckets = DOMAIN Back.buckets
        /\ \A a \in DOMAIN Forth.buckets :
              LET f == Family(Forth.buckets[a])  b == Family(Back.buckets[a])
              IN CASE f = "introduced" -> b = "resolved"
                   [] f = "resolved"   -> b = "introduced"
                   [] OTHER            -> f = b

\* Where the baseline answered and the run answered neither as the tape nor as
\* the baseline, the run is charged.  (Where the baseline never reached the
\* address, whatever the run answers counts as a resolved omission.)
ThirdAnswerIsCharged ==
    Compared => \A a \in DOMAIN Forth.buckets :
        LET held == TapeHas(m, y, a)
            ms   == SideOf(m, a, held)
            ys   == SideOf(y, a, held)
        IN (ms.is # "absent" \/ ~held) /\ ys.is = "hash" /\ ys # ms /\ ~SameResult(m, y, a)
             => ChargesY(Forth.buckets[a])
=============================================================================
