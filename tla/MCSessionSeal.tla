---------------------------- MODULE MCSessionSeal ---------------------------
(* Small instances of SessionSeal for TLC: recordings of two or three
   objects. *)
EXTENDS SessionSeal

A(recs, shed) == [inst |-> 1, recs |-> recs, shed |-> shed]
B(recs, shed) == [inst |-> 2, recs |-> recs, shed |-> shed]

Event(i, n) == [inst |-> i, seq |-> n, kind |-> 0]
Node(i, n)  == [inst |-> i, seq |-> n, kind |-> 1]

\* A record two objects late, which beats the window.
TwoLate == <<A({Event(1, 1)}, {}), A({Event(1, 2)}, {}), A({Event(1, 0)}, {})>>

\* An object of markers only; then one object late, a duplicate, a shed range
\* part of which arrived after all, a number nobody names, a graph node.  Nine
\* lines, which is past the budget once all have landed.
OneLate == <<A({}, {<<4, 5>>}), A({Event(1, 0), Event(1, 1), Node(1, 1), Event(1, 3)}, {}),
             A({Event(1, 2), Event(1, 3), Event(1, 5), Event(1, 7)}, {})>>

TwoProducers == <<B({Event(2, 1), Event(2, 3)}, {<<2, 2>>}), A({Event(1, 0), Event(1, 2)}, {})>>

MCLandings == {TwoLate, OneLate, TwoProducers}
=============================================================================
