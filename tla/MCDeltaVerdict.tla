--------------------------- MODULE MCDeltaVerdict ---------------------------
(***************************************************************************)
(* Instances of DeltaVerdict for TLC: a run `cand' of a pull request,      *)
(* created against `base', which answers as the tape does where `cand'     *)
(* diverges; and `alike', which diverges as it does.                       *)
(***************************************************************************)
EXTENDS DeltaVerdict, TLC

CONSTANTS cand, base, alike, ann, bob

Diverges == [request |-> "q", shape |-> "s"]
Lists(e) == [rules |-> "current", drove |-> {"q"}, entries |-> [a \in {Diverges} |-> e]]

MCTree ==
    [r \in Runs |-> IF r = base THEN Lists(Plain("reproduced", TRUE))
                    ELSE Lists(ByArguments("diverged", "h", TRUE))]

\* All read one tape; `alike' was started by hand, so its record names none.
MCTapeName  == [r \in Runs |-> IF r = alike THEN Nobody ELSE "recording"]
MCReport    == [r \in Runs |-> "tape"]
MCFirstBase == [r \in Measured |-> base]
MCChange    == [r \in Measured |-> "v1"]

\* Confirmed on a version since replaced.
MCOldAcks == {[id |-> 1, shape |-> "s", change |-> "v0", by |-> ann, confirmed |-> bob,
               withdrawn |-> FALSE]}

\* Safety properties only.
MCSymmetry == Permutations(Tasks)
=============================================================================
