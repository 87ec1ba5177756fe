---------------------------- MODULE MCCallPairing ----------------------------
(* Small instances of ReplayLookup and CallPairing for TLC.                *)
EXTENDS CallPairing, SequencesExt, TLC

CONSTANTS left, right   \* the branches

Find(arg)   == [op |-> "find", arg |-> arg, tag |-> None, site |-> "l1"]
Tagged(arg) == [op |-> "find", arg |-> arg, tag |-> "t", site |-> "l2"]
Now         == [op |-> "now", arg |-> "none", tag |-> None, site |-> "l1"]

\* Two branches in spans of one name.
MCPath == [x \in Branches |-> "root>create_address"]

\* Sets written in two orders, and what identity reads in them.
MCIdentity == [s \in SetLike |-> "s"]

\* The two texts have one shape, the two sets another.
MCShape == [arg \in {"x", "y", "n", "s12", "s21", "none"} |->
               CASE arg \in {"x", "y"} -> "text" [] arg \in SetLike -> "set"
                 [] OTHER -> arg]

Program(ofL, ofR) == left :> ofL @@ right :> ofR

Pair   == Program(<<Find("x")>>, <<Find("y")>>)
Plain  == {Program(<<Find("x"), Find("x")>>, <<Find("x")>>),
           Program(<<Find("x"), Find("y")>>, <<Find("x")>>),
           Program(<<Find("s12"), Find("y")>>, <<Find("s21")>>)}
Marked == Program(<<Tagged("x"), Find("x")>>, <<Now, Tagged("x")>>)
Cross  == Program(<<Find("y"), Find("x")>>, <<Find("x"), Find("y")>>)

MCRecordings == {Pair, Marked, Cross} \cup Plain

\* Anything in two calls and one; a call added to one side; a changed
\* argument after a tag; the work of one twin done by the other.
Short == BoundedSeq({Find(arg) : arg \in {"x", "y", "n", "s21"}}, 2)
MCCandidates ==
    [r \in MCRecordings |->
        CASE r = Marked -> {Program(<<Tagged("x"), Find("n")>>, <<Now, Tagged("x")>>)}
          [] r = Pair   -> {Program(p, <<Find("y")>>) : p \in {s \in Short : Len(s) = 2}}
          [] r = Cross  -> {Program(<<>>, <<Find("x"), Find("x"), Find("y"), Find("y")>>),
                            Program(<<>>, <<Find("x"), Find("x"), Find("y"), Find("n")>>)}
          [] OTHER      -> {Program(p, q) : p \in Short, q \in {s \in Short : Len(s) <= 1}}]

\* A candidate that only does what was recorded.
Unchanged == [r \in MCRecordings |-> {}]
=============================================================================
