-------------------------------- MODULE Align --------------------------------
(***************************************************************************)
(* How src/compare.rs lines two record streams up before it says anything  *)
(* about a field: the banded longest common subsequence of lcs() and       *)
(* middle(), one action per turn of a loop; then the records that moved,   *)
(* the gaps between anchors paired in order, and what is left on a side.   *)
(*                                                                         *)
(* A record is its kind, one coordinate in fine units (NoAt where a kind   *)
(* has none, or an array no first point), and everything else as one       *)
(* value.  Streams are the ones left after the excluded kinds were         *)
(* dropped.                                                                *)
(***************************************************************************)
EXTENDS Integers, FiniteSets, Sequences

CONSTANTS
  Rec,       \* records [kind, at, val]
  NoAt,
  MaxLen,    \* bound: records of a stream
  Step,      \* fine units in one step of the key's grid (1e-3)
  Tol,       \* fine units two equal coordinates may differ by (Tolerance.abs)
  Far,       \* ... or one part in Far of the larger one (1 / Tolerance.rel)
  Full,      \* cells up to which the whole table is filled (4,000,000)
  Slack      \* width of the band beyond the length difference (256)

VARIABLES
  a, b,      \* the two streams
  lo,        \* records of the common prefix
  ea, eb,    \* ends of what lies before the common suffix
  i, j,      \* where the walk back through the table stands
  k,         \* the record of a whose move is looked for
  pairs,     \* index pairs lined up
  moved,     \* index pairs of records found in another place
  pc

vars == <<a, b, lo, ea, eb, i, j, k, pairs, moved, pc>>

ASSUME AlignAssumption ==
  /\ Step \in Nat \ {0} /\ Tol \in Nat /\ Far \in Nat \ {0}
  /\ Full \in Nat /\ Slack \in Nat /\ MaxLen \in Nat
  /\ NoAt \notin Nat
  /\ \A r \in Rec : r.at \in Nat \cup {NoAt}

Streams == UNION {[1 .. n -> Rec] : n \in 0 .. MaxLen}

-----------------------------------------------------------------------------
Dist(x, y) == IF x < y THEN y - x ELSE x - y
Quantise(x) == (2 * x + Step) \div (2 * Step)        \* round to the nearest step

\* Mutant: positions on two sides of a grid line are two positions.
CompatSameCell(r, s) ==
  /\ r.kind = s.kind
  /\ r.at # NoAt /\ s.at # NoAt => Quantise(r.at) = Quantise(s.at)

\* key_of and compat: same kind, and not two positions more than a step apart.
Compat(r, s) ==
  /\ r.kind = s.kind
  /\ r.at # NoAt /\ s.at # NoAt => Dist(Quantise(r.at), Quantise(s.at)) <= 1

\* The lookup of the moved pool: kind and cell, a step to either side, and
\* "no position" only for a record that has none.
Twin(r, s) ==
  /\ r.kind = s.kind
  /\ \/ r.at = NoAt /\ s.at = NoAt
     \/ r.at # NoAt /\ s.at # NoAt /\ Dist(Quantise(r.at), Quantise(s.at)) <= 1

\* Mutant: the part is taken of the first coordinate, not of the larger.
WithinOfTheFirst(x, y) == Dist(x, y) <= Tol \/ Far * Dist(x, y) <= x

\* Tolerance: max(abs, rel * max(|x|, |y|)).  Far from the origin that is more
\* than a step of the key's grid.
Within(x, y) == Dist(x, y) <= Tol \/ Far * Dist(x, y) <= x \/ Far * Dist(x, y) <= y

\* fields() reports nothing on the two records.
Agree(r, s) ==
  /\ r.kind = s.kind /\ r.val = s.val
  /\ \/ r.at = NoAt /\ s.at = NoAt
     \/ r.at # NoAt /\ s.at # NoAt /\ Within(r.at, s.at)

-----------------------------------------------------------------------------
\* The table of middle() over a[lo+1 .. ea] and b[lo+1 .. eb].
N == ea - lo
M == eb - lo
Width == IF N * M <= Full THEN M ELSE Dist(N, M) + Slack
Centre(x) == (x * M) \div N
InBand(x, y) ==
  /\ y + Width >= Centre(x)
  /\ y <= Centre(x) + Width /\ y <= M

\* Mutant: the larger neighbour is extended, the diagonal is not.
TableGreedy ==
  [c \in (0 .. N) \X (0 .. M) |->
     IF c[1] > 0 /\ c[2] > 0 /\ Compat(a[lo + c[1]], b[lo + c[2]]) THEN 1 ELSE 0]

\* rows[i][j]: the longest alignment of the first i and the first j records,
\* 0 outside the band.
Table ==
  LET rows[c \in (0 .. N) \X (0 .. M)] ==
        IF c[1] = 0 \/ c[2] = 0 \/ ~InBand(c[1], c[2]) THEN 0
        ELSE IF Compat(a[lo + c[1]], b[lo + c[2]]) THEN rows[<<c[1] - 1, c[2] - 1>>] + 1
        ELSE LET up == rows[<<c[1] - 1, c[2]>>]
                 left == rows[<<c[1], c[2] - 1>>]
             IN IF up >= left THEN up ELSE left
  IN rows

Indices(s) == 1 .. Len(s)
OnlyA == {x \in Indices(a) : \A p \in pairs : p[1] # x}
OnlyB == {y \in Indices(b) : \A p \in pairs : p[2] # y}

Init ==
  /\ a \in Streams /\ b \in Streams
  /\ lo = 0 /\ ea = Len(a) /\ eb = Len(b)
  /\ i = 0 /\ j = 0 /\ k = 1
  /\ pairs = {} /\ moved = {}
  /\ pc = "front"

\* lcs(): the matching prefix is peeled off ...
PeelFront ==
  /\ pc = "front"
  /\ IF lo < Len(a) /\ lo < Len(b) /\ Compat(a[lo + 1], b[lo + 1])
     THEN /\ pairs' = pairs \cup {<<lo + 1, lo + 1>>}
          /\ lo' = lo + 1 /\ UNCHANGED pc
     ELSE pc' = "back" /\ UNCHANGED <<pairs, lo>>
  /\ UNCHANGED <<a, b, ea, eb, i, j, k, moved>>

\* ... and then the matching suffix of what is left.
PeelBack ==
  /\ pc = "back"
  /\ IF ea > lo /\ eb > lo /\ Compat(a[ea], b[eb])
     THEN /\ pairs' = pairs \cup {<<ea, eb>>}
          /\ ea' = ea - 1 /\ eb' = eb - 1 /\ UNCHANGED <<pc, i, j>>
     ELSE /\ pc' = "walk" /\ i' = N /\ j' = M /\ UNCHANGED <<pairs, ea, eb>>
  /\ UNCHANGED <<a, b, lo, k, moved>>

\* Mutant: on a match the walk goes one row up and stays in its column.
WalkSameColumn ==
  /\ pc = "walk"
  /\ IF i > 0 /\ j > 0
     THEN IF Compat(a[lo + i], b[lo + j])
          THEN pairs' = pairs \cup {<<lo + i, lo + j>>} /\ i' = i - 1 /\ UNCHANGED <<j, pc>>
          ELSE i' = i - 1 /\ UNCHANGED <<j, pairs, pc>>
     ELSE pc' = "move" /\ UNCHANGED <<i, j, pairs>>
  /\ UNCHANGED <<a, b, lo, ea, eb, k, moved>>

\* The walk back from the last cell of the table.
Walk ==
  /\ pc = "walk"
  /\ IF i > 0 /\ j > 0
     THEN IF /\ Compat(a[lo + i], b[lo + j])
             /\ Table[<<i, j>>] = Table[<<i - 1, j - 1>>] + 1
          THEN /\ pairs' = pairs \cup {<<lo + i, lo + j>>}
               /\ i' = i - 1 /\ j' = j - 1 /\ UNCHANGED pc
          ELSE /\ IF Table[<<i - 1, j>>] >= Table[<<i, j - 1>>]
                  THEN i' = i - 1 /\ UNCHANGED j
                  ELSE j' = j - 1 /\ UNCHANGED i
               /\ UNCHANGED <<pairs, pc>>
     ELSE pc' = "move" /\ UNCHANGED <<i, j, pairs>>
  /\ UNCHANGED <<a, b, lo, ea, eb, k, moved>>

\* The cells around a position are tried in order, the records of a cell too.
Sooner(y, z) ==
  LET q(w) == IF b[w].at = NoAt THEN 0 ELSE Quantise(b[w].at)
  IN q(y) < q(z) \/ (q(y) = q(z) /\ y < z)

\* The same record in another place, for each record of a in turn.
Move ==
  /\ pc = "move"
  /\ IF k <= Len(a)
     THEN LET free == {y \in OnlyB : Twin(a[k], b[y]) /\ \A p \in moved : p[2] # y}
          IN /\ IF k \in OnlyA /\ free # {}
                THEN \E y \in free : /\ \A z \in free \ {y} : Sooner(y, z)
                                     /\ moved' = moved \cup {<<k, y>>}
                ELSE UNCHANGED moved
             /\ k' = k + 1 /\ UNCHANGED pc
     ELSE pc' = "done" /\ UNCHANGED <<moved, k>>
  /\ UNCHANGED <<a, b, lo, ea, eb, i, j, pairs>>

Next == PeelFront \/ PeelBack \/ Walk \/ Move

Spec == Init /\ [][Next]_vars

-----------------------------------------------------------------------------
\* What is left of the two sides, in the gaps between the anchors: the n-th of
\* a gap's one side goes with the n-th of its other side.
LeftA == {x \in OnlyA : \A p \in moved : p[1] # x}
LeftB == {y \in OnlyB : \A p \in moved : p[2] # y}
GapA(x) == Cardinality({p \in pairs : p[1] < x})
GapB(y) == Cardinality({p \in pairs : p[2] < y})
RankA(x) == Cardinality({z \in LeftA : z < x /\ GapA(z) = GapA(x)})
RankB(y) == Cardinality({z \in LeftB : z < y /\ GapB(z) = GapB(y)})

Replaced == {p \in LeftA \X LeftB : GapA(p[1]) = GapB(p[2]) /\ RankA(p[1]) = RankB(p[2])}

\* Mutant: a record left over in b is not reported.
OnlyFindingsOfA ==
  {<<"OnlyInA", x>> : x \in {x \in LeftA : \A p \in Replaced : p[1] # x}}

OnlyFindings ==
  {<<"OnlyInA", x>> : x \in {x \in LeftA : \A p \in Replaced : p[1] # x}}
    \cup {<<"OnlyInB", y>> : y \in {y \in LeftB : \A p \in Replaced : p[2] # y}}

\* The index pairs fields() is called on.
Compared == pairs \cup moved \cup {p \in Replaced : a[p[1]].kind = b[p[2]].kind}

\* Every finding of compare() before the class table is consulted.
Findings ==
  OnlyFindings
    \cup {<<"Order", p>> : p \in moved}
    \cup {<<"RecordTypeMismatch", p>> : p \in {p \in Replaced : a[p[1]].kind # b[p[2]].kind}}
    \cup {<<"FieldMismatch", p>> : p \in {p \in Compared : ~Agree(a[p[1]], b[p[2]])}}

Done == pc = "done"
IsMatch == Findings = {}

-----------------------------------------------------------------------------
TypeOK ==
  /\ a \in Seq(Rec) /\ b \in Seq(Rec)
  /\ lo \in Nat /\ ea \in Nat /\ eb \in Nat
  /\ lo <= ea /\ ea <= Len(a) /\ lo <= eb /\ eb <= Len(b)
  /\ i \in 0 .. N /\ j \in 0 .. M /\ k \in 1 .. Len(a) + 1
  /\ pairs \subseteq Indices(a) \X Indices(b)
  /\ moved \subseteq Indices(a) \X Indices(b)
  /\ pc \in {"front", "back", "walk", "move", "done"}

\* The anchors are a common subsequence: they advance on both sides together
\* and every one joins two records a key could not tell apart.
PairsAreACommonSubsequence ==
  /\ \A p \in pairs : Compat(a[p[1]], b[p[2]])
  /\ \A p, q \in pairs : p[1] < q[1] <=> p[2] < q[2]

\* No record is compared with two others, as an anchor or as a moved one.
NothingPairedTwice ==
  \A p, q \in pairs \cup moved : p[1] = q[1] \/ p[2] = q[2] => p = q

\* lcs(): "Longest common subsequence under compat".  Where the whole table was
\* filled, no common subsequence of the two streams is longer than the anchors
\* found after peeling the ends; the band gives up length, and nothing else.
Chains ==
  {c \in SUBSET {p \in Indices(a) \X Indices(b) : Compat(a[p[1]], b[p[2]])} :
     \A p, q \in c : p[1] < q[1] <=> p[2] < q[2]}
PairsAreLongest ==
  Done /\ N * M <= Full => \A c \in Chains : Cardinality(c) <= Cardinality(pairs)

\* "A replaced record is one finding, not a delete and an insert", "the same
\* record in another place: pair it up before anything is called missing": every
\* record of both streams is compared once or is the subject of one finding, and
\* none is called missing while its twin is called extra.
EveryRecordAnswered ==
  Done =>
    LET all == pairs \cup moved \cup Replaced
        of(kind) == {f[2] : f \in {f \in OnlyFindings : f[1] = kind}}
    IN /\ \A x \in Indices(a) : x \in of("OnlyInA") \/ \E p \in all : p[1] = x
       /\ \A y \in Indices(b) : y \in of("OnlyInB") \/ \E p \in all : p[2] = y
       /\ \A p, q \in all : p[1] = q[1] \/ p[2] = q[2] => p = q
       /\ \A p \in all : p[1] \notin of("OnlyInA") /\ p[2] \notin of("OnlyInB")
       /\ \A x \in of("OnlyInA"), y \in of("OnlyInB") : ~Twin(a[x], b[y])

\* Two streams that are as long as each other and agree, record by record; and
\* two no further apart, record by record, than a step of the key's grid.
Same == Len(a) = Len(b) /\ \A x \in Indices(a) : Agree(a[x], b[x])
Beside(r, s) == r.at # NoAt /\ s.at # NoAt => Dist(r.at, s.at) <= Step
Close == \A x \in Indices(a) : Beside(a[x], b[x])

\* A comparison without findings is not a false one: the streams agree, record
\* by record, however large the tolerance is.  And the key is, by its comment,
\* "nothing a tolerance question could change": streams that agree and lie within
\* a step of each other have no finding, on whichever side of a grid line they are.
MatchIsSame == Done => (IsMatch => Same) /\ (Same /\ Close => IsMatch)
=============================================================================
