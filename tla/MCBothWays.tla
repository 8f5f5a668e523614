----------------------------- MODULE MCBothWays ------------------------------
(* BothWays for TLC: records of the kinds the alignment tells apart. *)
EXTENDS BothWays, TLC

Point(x) == [kind |-> "point", at |-> x, val |-> 0]
Poly(x) == [kind |-> "polyline", at |-> x, val |-> 0]

\* Two units to a grid step: 0 and 1 agree across a grid line, 1 and 3 share a
\* key and differ, 0 and 3 have two keys; a polyline with and without a first
\* point, which share a key and are not the same record in another place.
Near == {Point(0), Point(1), Point(3), Poly(NoAt), Poly(5)}

\* Far out two coordinates two steps apart agree: 20 and 24, 24 and 28.
Away == {Point(20), Point(24), Point(28)}
All == Near \cup Away

\* Streams of up to Short records of every kind near or far, longer ones of two:
\* a table of more than Full cells is cut to its band.
CONSTANT Short
Coarse == {Point(0), Point(3)}
UpTo(len, of) == UNION {[1 .. n -> of] : n \in 0 .. len}
MCInit ==
  /\ \/ a \in UpTo(Short, Near) /\ b \in UpTo(Short, Near)
     \/ a \in UpTo(Short, Away) /\ b \in UpTo(Short, Away)
     \/ a \in UpTo(MaxLen, Coarse) /\ b \in UpTo(MaxLen, Coarse)
  /\ BothInit
MCSpec == MCInit /\ [][BothNext]_bothVars
=============================================================================
