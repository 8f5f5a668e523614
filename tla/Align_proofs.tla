----------------------------- MODULE Align_proofs -----------------------------
(***************************************************************************)
(* What the alignment of src/compare.rs keeps whatever the streams, the    *)
(* grid, the tolerance and the band are.  The first half looks nowhere     *)
(* into the table: the walk back may be led anywhere by it, and the        *)
(* anchors are a common subsequence all the same.  What the numbers in the *)
(* table are comes after that, and what two calls of compare() answer with *)
(* the sides swapped comes last.                                           *)
(***************************************************************************)
EXTENDS BothWays, TLAPS, FiniteSetTheorems, WellFoundedInduction

\* Where the anchors found so far lie: at or before the peeled prefix, or beyond
\* what the step at hand has yet to look at.
Behind(p, x, y) == (p[1] <= lo /\ p[2] <= lo) \/ (p[1] > x /\ p[2] > y)

Placed ==
  /\ pc \in {"front", "back"} => i = 0 /\ j = 0
  /\ pc = "front" => ea = Len(a) /\ eb = Len(b) /\ \A p \in pairs : p[1] <= lo /\ p[2] <= lo
  /\ pc = "back" => \A p \in pairs : Behind(p, ea, eb)
  /\ pc = "walk" => \A p \in pairs : Behind(p, lo + i, lo + j)

\* The moved pairs join records that have no anchor, each of a before k.
MovedApart ==
  /\ pc \in {"front", "back", "walk"} => moved = {}
  /\ \A p \in moved : p[1] \in OnlyA /\ p[2] \in OnlyB /\ p[1] < k
  /\ \A p, q \in moved : p[1] = q[1] \/ p[2] = q[2] => p = q

IInv == TypeOK /\ Placed /\ PairsAreACommonSubsequence /\ MovedApart

\* The index arithmetic of one new anchor: beyond the prefix and before all the
\* others, it keeps the anchors in order on both sides.
LEMMA Extends ==
  ASSUME NEW x \in Nat, NEW y \in Nat, x > lo, y > lo, lo \in Nat,
         pairs \subseteq Indices(a) \X Indices(b), a \in Seq(Rec), b \in Seq(Rec),
         \A p \in pairs : Behind(p, x, y),
         \A p, q \in pairs : p[1] < q[1] <=> p[2] < q[2]
  PROVE  \A p, q \in pairs \cup {<<x, y>>} : p[1] < q[1] <=> p[2] < q[2]
<1>1. \A p \in pairs : p[1] \in Nat /\ p[2] \in Nat
  BY DEF Indices
<1> QED
  BY <1>1 DEF Behind

LEMMA InitIInv == Init => IInv
<1> SUFFICES ASSUME Init PROVE IInv
  OBVIOUS
<1>1. a \in Seq(Rec) /\ b \in Seq(Rec)
  BY DEF Init, Streams
<1>2. Len(a) \in Nat /\ Len(b) \in Nat
  BY <1>1
<1>3. TypeOK
  BY <1>1, <1>2 DEF Init, TypeOK, N, M, Indices
<1> QED
  BY <1>3 DEF Init, IInv, Placed, PairsAreACommonSubsequence, MovedApart

\* A turn of the loop over the common prefix.
LEMMA FrontStep == IInv /\ PeelFront => IInv'
<1> SUFFICES ASSUME IInv, PeelFront PROVE IInv'
  OBVIOUS
<1> USE DEF IInv
<1>1. CASE lo < Len(a) /\ lo < Len(b) /\ Compat(a[lo + 1], b[lo + 1])
  <2>1. /\ pairs' = pairs \cup {<<lo + 1, lo + 1>>} /\ lo' = lo + 1 /\ pc' = pc
        /\ UNCHANGED <<a, b, ea, eb, i, j, k, moved>>
    BY <1>1 DEF PeelFront
  <2>2. lo + 1 \in Indices(a) /\ lo + 1 \in Indices(b) /\ lo \in Nat
    BY <1>1 DEF TypeOK, Indices
  <2>3. pc = "front" /\ ea = Len(a) /\ eb = Len(b) /\ moved = {} /\ i = 0 /\ j = 0
    BY DEF PeelFront, Placed, MovedApart
  <2>4. TypeOK'
    BY <1>1, <2>1, <2>2, <2>3 DEF TypeOK, Indices, N, M
  <2>5. \A p \in pairs : Behind(p, lo + 1, lo + 1)
    BY <2>3 DEF Placed, Behind
  <2>6. PairsAreACommonSubsequence'
    <3>1. \A p \in pairs' : Compat(a'[p[1]], b'[p[2]])
      BY <1>1, <2>1 DEF PairsAreACommonSubsequence
    <3>2. \A p, q \in pairs' : p[1] < q[1] <=> p[2] < q[2]
      BY <2>1, <2>2, <2>5, Extends DEF TypeOK, PairsAreACommonSubsequence
    <3> QED
      BY <3>1, <3>2 DEF PairsAreACommonSubsequence
  <2>7. Placed'
    BY <2>1, <2>2, <2>3 DEF Placed, TypeOK, Indices
  <2>8. MovedApart'
    BY <2>1, <2>3 DEF MovedApart
  <2> QED
    BY <2>4, <2>6, <2>7, <2>8
<1>2. CASE ~(lo < Len(a) /\ lo < Len(b) /\ Compat(a[lo + 1], b[lo + 1]))
  <2>1. pc = "front" /\ pc' = "back" /\ UNCHANGED <<a, b, lo, ea, eb, i, j, k, pairs, moved>>
    BY <1>2 DEF PeelFront
  <2> QED
    BY <2>1 DEF TypeOK, Placed, Behind, MovedApart, PairsAreACommonSubsequence, Indices, N, M, OnlyA, OnlyB
<1> QED
  BY <1>1, <1>2

\* A turn of the loop over the common suffix, or the entry to the walk.
LEMMA BackStep == IInv /\ PeelBack => IInv'
<1> SUFFICES ASSUME IInv, PeelBack PROVE IInv'
  OBVIOUS
<1> USE DEF IInv
<1>1. CASE ea > lo /\ eb > lo /\ Compat(a[ea], b[eb])
  <2>1. /\ pairs' = pairs \cup {<<ea, eb>>} /\ ea' = ea - 1 /\ eb' = eb - 1
        /\ UNCHANGED <<a, b, lo, i, j, k, moved, pc>>
    BY <1>1 DEF PeelBack
  <2>2. ea \in Indices(a) /\ eb \in Indices(b) /\ ea \in Nat /\ eb \in Nat /\ lo \in Nat
    BY <1>1 DEF TypeOK, Indices
  <2>3. pc = "back" /\ moved = {} /\ i = 0 /\ j = 0
    BY DEF PeelBack, Placed, MovedApart
  <2>4. \A p \in pairs : Behind(p, ea, eb)
    BY <2>3 DEF Placed
  <2>5. TypeOK'
    <3>1. i' \in 0 .. N' /\ j' \in 0 .. M'
      BY <1>1, <2>1, <2>2, <2>3 DEF TypeOK, N, M
    <3> QED
      BY <1>1, <2>1, <2>2, <3>1 DEF TypeOK, Indices
  <2>6. PairsAreACommonSubsequence'
    <3>1. \A p \in pairs' : Compat(a'[p[1]], b'[p[2]])
      BY <1>1, <2>1 DEF PairsAreACommonSubsequence
    <3>2. \A p, q \in pairs' : p[1] < q[1] <=> p[2] < q[2]
      BY <1>1, <2>1, <2>2, <2>4, Extends DEF TypeOK, PairsAreACommonSubsequence
    <3> QED
      BY <3>1, <3>2 DEF PairsAreACommonSubsequence
  <2>7. Placed'
    BY <1>1, <2>1, <2>2, <2>3, <2>4 DEF Placed, Behind, TypeOK, Indices
  <2>8. MovedApart'
    BY <2>1, <2>3 DEF MovedApart
  <2> QED
    BY <2>5, <2>6, <2>7, <2>8
<1>2. CASE ~(ea > lo /\ eb > lo /\ Compat(a[ea], b[eb]))
  <2>1. /\ pc = "back" /\ pc' = "walk" /\ i' = N /\ j' = M
        /\ UNCHANGED <<a, b, lo, ea, eb, k, pairs, moved>>
    BY <1>2 DEF PeelBack
  <2>2. N \in Nat /\ M \in Nat /\ lo + N = ea /\ lo + M = eb
    BY DEF TypeOK, N, M
  <2>3. TypeOK'
    BY <2>1, <2>2 DEF TypeOK, Indices, N, M
  <2>4. Placed'
    BY <2>1, <2>2 DEF Placed, Behind
  <2> QED
    BY <2>1, <2>3, <2>4 DEF MovedApart, PairsAreACommonSubsequence, OnlyA, OnlyB, Indices
<1> QED
  BY <1>1, <1>2

\* A turn of the walk back.  Whichever way the table sends it, it stays behind
\* the anchors it has laid.
LEMMA WalkStep == IInv /\ Walk => IInv'
<1> SUFFICES ASSUME IInv, Walk PROVE IInv'
  OBVIOUS
<1> USE DEF IInv
<1> DEFINE Hit == /\ Compat(a[lo + i], b[lo + j])
                  /\ Table[<<i, j>>] = Table[<<i - 1, j - 1>>] + 1
<1>0. pc = "walk" /\ moved = {} /\ UNCHANGED <<a, b, lo, ea, eb, k, moved>>
  BY DEF Walk, MovedApart
<1>1. CASE i > 0 /\ j > 0 /\ Hit
  <2>1. /\ pairs' = pairs \cup {<<lo + i, lo + j>>} /\ i' = i - 1 /\ j' = j - 1 /\ pc' = pc
    BY <1>1 DEF Walk
  <2>2. /\ lo + i \in Indices(a) /\ lo + j \in Indices(b) /\ lo \in Nat
        /\ lo + i \in Nat /\ lo + j \in Nat /\ lo + i > lo /\ lo + j > lo
    BY <1>1 DEF TypeOK, Indices, N, M
  <2>3. \A p \in pairs : Behind(p, lo + i, lo + j)
    BY <1>0 DEF Placed
  <2>4. TypeOK'
    BY <1>0, <1>1, <2>1, <2>2 DEF TypeOK, Indices, N, M
  <2>5. PairsAreACommonSubsequence'
    <3>1. \A p \in pairs' : Compat(a'[p[1]], b'[p[2]])
      BY <1>0, <1>1, <2>1 DEF PairsAreACommonSubsequence
    <3>2. \A p, q \in pairs' : p[1] < q[1] <=> p[2] < q[2]
      BY <2>1, <2>2, <2>3, Extends DEF TypeOK, PairsAreACommonSubsequence
    <3> QED
      BY <3>1, <3>2 DEF PairsAreACommonSubsequence
  <2>6. Placed'
    BY <1>0, <1>1, <2>1, <2>2, <2>3 DEF Placed, Behind, TypeOK, Indices, N, M
  <2>7. MovedApart'
    BY <1>0, <2>1 DEF MovedApart
  <2> QED
    BY <2>4, <2>5, <2>6, <2>7
<1>2. CASE i > 0 /\ j > 0 /\ ~Hit
  <2>1. /\ UNCHANGED <<pairs, pc>>
        /\ \/ i' = i - 1 /\ j' = j
           \/ i' = i /\ j' = j - 1
    BY <1>2 DEF Walk
  <2>2. TypeOK'
    BY <1>0, <1>2, <2>1 DEF TypeOK, Indices, N, M
  <2>3. Placed'
    BY <1>0, <1>2, <2>1 DEF Placed, Behind, TypeOK, Indices, N, M
  <2> QED
    BY <1>0, <2>1, <2>2, <2>3 DEF MovedApart, PairsAreACommonSubsequence, OnlyA, OnlyB, Indices
<1>3. CASE ~(i > 0 /\ j > 0)
  <2>1. pc' = "move" /\ UNCHANGED <<i, j, pairs>>
    BY <1>3 DEF Walk
  <2> QED
    BY <1>0, <2>1 DEF TypeOK, Placed, MovedApart, PairsAreACommonSubsequence, OnlyA, OnlyB, Indices, N, M
<1> QED
  BY <1>1, <1>2, <1>3

\* One record of a looked up among the records of b that are still free.
LEMMA MoveStep == IInv /\ Move => IInv'
<1> SUFFICES ASSUME IInv, Move PROVE IInv'
  OBVIOUS
<1> USE DEF IInv
<1>0. /\ pc = "move" /\ UNCHANGED <<a, b, lo, ea, eb, i, j, pairs>>
      /\ pc' \in {"move", "done"} /\ k \in Nat /\ Len(a) \in Nat
  BY DEF Move, TypeOK
<1>1. Placed' /\ PairsAreACommonSubsequence'
  BY <1>0 DEF Placed, PairsAreACommonSubsequence
<1>2. CASE k <= Len(a) /\ moved' # moved
  <2>1. PICK y \in OnlyB : /\ \A p \in moved : p[2] # y
                           /\ moved' = moved \cup {<<k, y>>}
    BY <1>2 DEF Move
  <2>2. k \in OnlyA /\ k' = k + 1
    BY <1>2 DEF Move
  <2>3. TypeOK'
    BY <1>0, <1>2, <2>1, <2>2 DEF TypeOK, OnlyA, OnlyB, Indices, N, M
  <2>4. MovedApart'
    <3>1. \A p \in moved' : p[1] \in OnlyA' /\ p[2] \in OnlyB' /\ p[1] < k'
      BY <1>0, <2>1, <2>2 DEF MovedApart, OnlyA, OnlyB, Indices
    <3>2. \A p \in moved : p[1] # k /\ p[2] # y
      BY <1>0, <2>1 DEF MovedApart, OnlyA, Indices
    <3>3. \A p, q \in moved' : p[1] = q[1] \/ p[2] = q[2] => p = q
      BY <2>1, <3>2 DEF MovedApart
    <3> QED
      BY <1>0, <3>1, <3>3 DEF MovedApart
  <2> QED
    BY <1>1, <2>3, <2>4
<1>3. CASE k <= Len(a) /\ moved' = moved
  <2>1. k' = k + 1
    BY <1>3 DEF Move
  <2>2. TypeOK'
    BY <1>0, <1>3, <2>1 DEF TypeOK, Indices, N, M
  <2>3. MovedApart'
    BY <1>0, <1>3, <2>1 DEF MovedApart, OnlyA, OnlyB, Indices
  <2> QED
    BY <1>1, <2>2, <2>3
<1>4. CASE ~(k <= Len(a))
  <2>1. UNCHANGED <<moved, k>>
    BY <1>4 DEF Move
  <2> QED
    BY <1>0, <1>1, <2>1 DEF TypeOK, MovedApart, OnlyA, OnlyB, Indices, N, M
<1> QED
  BY <1>2, <1>3, <1>4

LEMMA StepIInv == IInv /\ [Next]_vars => IInv'
<1>1. IInv /\ UNCHANGED vars => IInv'
  BY DEF vars, IInv, TypeOK, Placed, Behind, PairsAreACommonSubsequence, MovedApart, OnlyA, OnlyB, Indices, N, M
<1> QED
  BY <1>1, FrontStep, BackStep, WalkStep, MoveStep DEF Next

LEMMA Invariant == Spec => []IInv
  BY InitIInv, StepIInv, PTL DEF Spec

\* Every variable of the alignment stays in its type: no index leaves its stream
\* and the walk stays inside the table.
THEOREM AlignTypes == Spec => []TypeOK
  BY Invariant, PTL DEF IInv

\* Whatever the streams, the grid and the band, lcs() and middle() give a common
\* subsequence of compatible records.
THEOREM AnchorsAreACommonSubsequence == Spec => []PairsAreACommonSubsequence
  BY Invariant, PTL DEF IInv

LEMMA NeverPairedTwice == ASSUME IInv PROVE NothingPairedTwice
<1> SUFFICES ASSUME NEW p \in pairs \cup moved, NEW q \in pairs \cup moved,
                    p[1] = q[1] \/ p[2] = q[2]
             PROVE  p = q
  BY DEF NothingPairedTwice
<1>1. CASE p \in pairs /\ q \in pairs
  <2>1. p[1] = q[1] /\ p[2] = q[2]
    BY <1>1 DEF IInv, TypeOK, PairsAreACommonSubsequence, Indices
  <2> QED
    BY <1>1, <2>1 DEF IInv, TypeOK
<1>2. CASE p \in moved /\ q \in moved
  BY <1>2 DEF IInv, MovedApart
<1>3. \A r \in moved, s \in pairs : r[1] # s[1] /\ r[2] # s[2]
  BY DEF IInv, MovedApart, OnlyA, OnlyB
<1> QED
  BY <1>1, <1>2, <1>3

\* Neither lcs() nor the search for moved records uses a record twice.
THEOREM NothingIsPairedTwice == Spec => []NothingPairedTwice
<1>1. IInv => NothingPairedTwice
  BY NeverPairedTwice
<1> QED
  BY <1>1, Invariant, PTL

LEMMA Least == ASSUME NEW S \in SUBSET Nat, S # {} PROVE \E x \in S : \A y \in S : x <= y
<1>1. PICK x \in S : \A y \in S : <<y, x>> \notin OpToRel(<, Nat)
  BY NatLessThanWellFounded, WFMin
<1>2. \A y \in S : ~(y < x)
  BY <1>1 DEF OpToRel
<1> QED
  BY <1>2

-----------------------------------------------------------------------------
(* Every record is answered for. *)

\* The search for moved records leaves no two that it would have paired.
Searched ==
  /\ pc \in {"front", "back", "walk"} => k = 1
  /\ pc = "done" => k = Len(a) + 1
  /\ \A x \in LeftA, y \in LeftB : x < k => ~Twin(a[x], b[y])

LEMMA SearchedStep == IInv /\ Searched /\ [Next]_vars => Searched'
<1> SUFFICES ASSUME IInv, Searched, [Next]_vars PROVE Searched'
  OBVIOUS
<1> USE DEF IInv
<1>0. k \in Nat /\ Len(a) \in Nat /\ LeftA \subseteq Nat
  BY DEF TypeOK, LeftA, OnlyA, Indices
<1>1. CASE PeelFront \/ PeelBack \/ Walk
  <2>1. k' = k /\ k = 1 /\ pc' \in {"front", "back", "walk", "move"} /\ a' = a
    BY <1>1 DEF PeelFront, PeelBack, Walk, Searched
  <2>2. \A x \in LeftA' : x \in Nat /\ ~(x < 1)
    BY <2>1, <1>0 DEF LeftA, OnlyA, Indices
  <2> QED
    BY <2>1, <2>2 DEF Searched
<1>2. CASE Move
  <2>1. pc = "move" /\ UNCHANGED <<a, b, pairs>> /\ moved \subseteq moved'
    BY <1>2 DEF Move
  <2>2. LeftA' \subseteq LeftA /\ LeftB' \subseteq LeftB
    BY <2>1 DEF LeftA, LeftB, OnlyA, OnlyB, Indices
  <2>3. CASE k <= Len(a)
    <3>1. k' = k + 1 /\ pc' = pc
      BY <1>2, <2>3 DEF Move
    <3>2. ASSUME k \in LeftA', NEW y \in LeftB' PROVE ~Twin(a[k], b[y])
      <4>1. k \in OnlyA /\ \A p \in moved' : p[1] # k
        BY <3>2, <2>1 DEF LeftA, OnlyA, Indices
      <4>2. y \in OnlyB /\ \A p \in moved : p[2] # y
        BY <3>2, <2>1 DEF LeftB, OnlyB, Indices
      <4> DEFINE free == {z \in OnlyB : Twin(a[k], b[z]) /\ \A p \in moved : p[2] # z}
      <4>3. free # {} => \E z \in free : moved' = moved \cup {<<k, z>>}
        BY <1>2, <2>3, <4>1 DEF Move
      <4> HIDE DEF free
      <4>4. free = {}
        <5>1. \A z : <<k, z>> \notin moved'
          BY <4>1
        <5> QED
          BY <4>3, <5>1
      <4> QED
        BY <4>2, <4>4 DEF free
    <3>3. \A x \in LeftA', y \in LeftB' : x < k' => ~Twin(a[x], b[y])
      BY <1>0, <2>2, <3>1, <3>2 DEF Searched
    <3> QED
      BY <2>1, <3>1, <3>3 DEF Searched
  <2>4. CASE ~(k <= Len(a))
    <3>1. pc' = "done" /\ moved' = moved /\ k' = k
      BY <1>2, <2>4 DEF Move
    <3>2. k = Len(a) + 1
      BY <1>0, <2>4 DEF TypeOK
    <3> QED
      BY <2>1, <2>2, <3>1, <3>2 DEF Searched
  <2> QED
    BY <2>3, <2>4
<1>3. CASE UNCHANGED vars
  <2>1. LeftA' = LeftA /\ LeftB' = LeftB /\ UNCHANGED <<pc, k, a, b>>
    BY <1>3 DEF vars, LeftA, LeftB, OnlyA, OnlyB, Indices
  <2> QED
    BY <2>1 DEF Searched
<1> QED
  BY <1>1, <1>2, <1>3 DEF Next

LEMMA SearchedFirst == Init => Searched
<1> SUFFICES ASSUME Init PROVE Searched
  OBVIOUS
<1>1. \A x \in LeftA : x \in Nat /\ ~(x < 1)
  BY InitIInv DEF IInv, TypeOK, LeftA, OnlyA, Indices
<1> QED
  BY <1>1 DEF Init, Searched

LEMMA SearchedAlways == Spec => [](IInv /\ Searched)
  BY InitIInv, StepIInv, SearchedFirst, SearchedStep, PTL DEF Spec

(* The gaps. *)

LEMMA Finite ==
  ASSUME TypeOK
  PROVE  /\ IsFiniteSet(pairs) /\ IsFiniteSet(LeftA) /\ IsFiniteSet(LeftB)
         /\ LeftA \subseteq Nat /\ LeftB \subseteq Nat
<1>1. Len(a) \in Nat /\ Len(b) \in Nat
  BY DEF TypeOK
<1>2. IsFiniteSet(Indices(a)) /\ IsFiniteSet(Indices(b))
  BY <1>1, FS_Interval DEF Indices
<1>3. LeftA \in SUBSET Indices(a) /\ LeftB \in SUBSET Indices(b)
  BY DEF LeftA, LeftB, OnlyA, OnlyB
<1>4. IsFiniteSet(Indices(a) \X Indices(b))
  BY <1>2, FS_Product
<1>5. pairs \in SUBSET (Indices(a) \X Indices(b))
  BY DEF TypeOK
<1>6. IsFiniteSet(pairs)
  BY <1>4, <1>5, FS_Subset
<1>7. IsFiniteSet(LeftA) /\ IsFiniteSet(LeftB)
  BY <1>2, <1>3, FS_Subset
<1> QED
  BY <1>3, <1>6, <1>7 DEF Indices

\* A set that leaves one of another's elements out has fewer.
LEMMA Fewer ==
  ASSUME NEW S, IsFiniteSet(S), NEW T \in SUBSET S, NEW x \in S, x \notin T
  PROVE  Cardinality(T) \in Nat /\ Cardinality(S) \in Nat /\ Cardinality(T) < Cardinality(S)
<1>1. IsFiniteSet(T) /\ Cardinality(T) <= Cardinality(S) /\ (Cardinality(S) = Cardinality(T) => S = T)
  BY FS_Subset
<1>2. Cardinality(T) \in Nat /\ Cardinality(S) \in Nat
  BY <1>1, FS_CardinalityType
<1>3. Cardinality(T) # Cardinality(S)
  BY <1>1
<1> QED
  BY <1>1, <1>2, <1>3

\* A later record of a is in the same gap with a higher rank, or in a later gap.
LEMMA LaterInA ==
  ASSUME TypeOK, NEW x \in LeftA, NEW z \in LeftA, x < z
  PROVE  /\ GapA(x) \in Nat /\ GapA(z) \in Nat /\ RankA(x) \in Nat /\ RankA(z) \in Nat
         /\ GapA(x) < GapA(z) \/ (GapA(x) = GapA(z) /\ RankA(x) < RankA(z))
<1>1. IsFiniteSet(pairs) /\ IsFiniteSet(LeftA) /\ LeftA \subseteq Nat
  BY Finite
<1>2. \A p \in pairs : p[1] \in Nat
  BY DEF TypeOK, Indices
<1> DEFINE before == {p \in pairs : p[1] < x}
           beforeZ == {p \in pairs : p[1] < z}
           S == {y \in LeftA : y < x /\ GapA(y) = GapA(x)}
           T == {y \in LeftA : y < z /\ GapA(y) = GapA(z)}
<1>3. /\ IsFiniteSet(beforeZ) /\ IsFiniteSet(before) /\ Cardinality(before) \in Nat
      /\ Cardinality(beforeZ) \in Nat /\ Cardinality(before) <= Cardinality(beforeZ)
  <2>1. beforeZ \in SUBSET pairs /\ before \in SUBSET pairs
    OBVIOUS
  <2>2. IsFiniteSet(beforeZ) /\ IsFiniteSet(before)
    BY <1>1, <2>1, FS_Subset
  <2>3. before \in SUBSET beforeZ
    BY <1>1, <1>2
  <2> QED
    BY <2>2, <2>3, FS_Subset, FS_CardinalityType
<1>4. GapA(x) \in Nat /\ GapA(z) \in Nat /\ GapA(x) <= GapA(z)
  BY <1>3 DEF GapA
<1>5. IsFiniteSet(S) /\ IsFiniteSet(T)
  <2>1. S \in SUBSET LeftA /\ T \in SUBSET LeftA
    OBVIOUS
  <2> QED
    BY <1>1, <2>1, FS_Subset
<1>6. RankA(x) = Cardinality(S) /\ RankA(z) = Cardinality(T)
  BY DEF RankA
<1>7. RankA(x) \in Nat /\ RankA(z) \in Nat
  BY <1>5, <1>6, FS_CardinalityType
<1>8. CASE GapA(x) = GapA(z)
  <2>1. x \in T /\ x \notin S
    BY <1>1, <1>8
  <2>2. \A y \in LeftA : y < x => y < z
    BY <1>1
  <2>3. S \in SUBSET T
    BY <1>8, <2>2, Zenon
  <2>4. Cardinality(S) < Cardinality(T)
    BY <1>5, <2>1, <2>3, Fewer
  <2> QED
    BY <1>4, <1>6, <1>7, <1>8, <2>4
<1> QED
  BY <1>4, <1>7, <1>8

\* ... and so in b.
LEMMA LaterInB ==
  ASSUME TypeOK, NEW x \in LeftB, NEW z \in LeftB, x < z
  PROVE  /\ GapB(x) \in Nat /\ GapB(z) \in Nat /\ RankB(x) \in Nat /\ RankB(z) \in Nat
         /\ GapB(x) < GapB(z) \/ (GapB(x) = GapB(z) /\ RankB(x) < RankB(z))
<1>1. IsFiniteSet(pairs) /\ IsFiniteSet(LeftB) /\ LeftB \subseteq Nat
  BY Finite
<1>2. \A p \in pairs : p[2] \in Nat
  BY DEF TypeOK, Indices
<1> DEFINE before == {p \in pairs : p[2] < x}
           beforeZ == {p \in pairs : p[2] < z}
           S == {y \in LeftB : y < x /\ GapB(y) = GapB(x)}
           T == {y \in LeftB : y < z /\ GapB(y) = GapB(z)}
<1>3. /\ IsFiniteSet(beforeZ) /\ IsFiniteSet(before) /\ Cardinality(before) \in Nat
      /\ Cardinality(beforeZ) \in Nat /\ Cardinality(before) <= Cardinality(beforeZ)
  <2>1. beforeZ \in SUBSET pairs /\ before \in SUBSET pairs
    OBVIOUS
  <2>2. IsFiniteSet(beforeZ) /\ IsFiniteSet(before)
    BY <1>1, <2>1, FS_Subset
  <2>3. before \in SUBSET beforeZ
    BY <1>1, <1>2
  <2> QED
    BY <2>2, <2>3, FS_Subset, FS_CardinalityType
<1>4. GapB(x) \in Nat /\ GapB(z) \in Nat /\ GapB(x) <= GapB(z)
  BY <1>3 DEF GapB
<1>5. IsFiniteSet(S) /\ IsFiniteSet(T)
  <2>1. S \in SUBSET LeftB /\ T \in SUBSET LeftB
    OBVIOUS
  <2> QED
    BY <1>1, <2>1, FS_Subset
<1>6. RankB(x) = Cardinality(S) /\ RankB(z) = Cardinality(T)
  BY DEF RankB
<1>7. RankB(x) \in Nat /\ RankB(z) \in Nat
  BY <1>5, <1>6, FS_CardinalityType
<1>8. CASE GapB(x) = GapB(z)
  <2>1. x \in T /\ x \notin S
    BY <1>1, <1>8
  <2>2. \A y \in LeftB : y < x => y < z
    BY <1>1
  <2>3. S \in SUBSET T
    BY <1>8, <2>2, Zenon
  <2>4. Cardinality(S) < Cardinality(T)
    BY <1>5, <2>1, <2>3, Fewer
  <2> QED
    BY <1>4, <1>6, <1>7, <1>8, <2>4
<1> QED
  BY <1>4, <1>7, <1>8

\* Records put together in the gaps are in the same order on both sides.
LEMMA ReplacedInOrder ==
  ASSUME TypeOK
  PROVE  \A p, q \in Replaced : p[1] < q[1] <=> p[2] < q[2]
<1> SUFFICES ASSUME NEW p \in Replaced, NEW q \in Replaced PROVE p[1] < q[1] <=> p[2] < q[2]
  OBVIOUS
<1>1. /\ p[1] \in LeftA /\ p[2] \in LeftB /\ q[1] \in LeftA /\ q[2] \in LeftB
      /\ GapA(p[1]) = GapB(p[2]) /\ RankA(p[1]) = RankB(p[2])
      /\ GapA(q[1]) = GapB(q[2]) /\ RankA(q[1]) = RankB(q[2])
  BY DEF Replaced
<1>2. p[1] \in Nat /\ p[2] \in Nat /\ q[1] \in Nat /\ q[2] \in Nat
  BY <1>1, Finite
<1>3. ASSUME p[1] < q[1] PROVE p[2] < q[2]
  <2>1. CASE q[2] < p[2]
    BY <1>1, <1>3, <2>1, LaterInA, LaterInB
  <2>2. CASE q[2] = p[2]
    BY <1>1, <1>3, <2>2, LaterInA
  <2> QED
    BY <1>2, <2>1, <2>2
<1>4. ASSUME p[2] < q[2] PROVE p[1] < q[1]
  <2>1. CASE q[1] < p[1]
    BY <1>1, <1>4, <2>1, LaterInA, LaterInB
  <2>2. CASE q[1] = p[1]
    BY <1>1, <1>4, <2>2, LaterInB
  <2> QED
    BY <1>2, <2>1, <2>2
<1> QED
  BY <1>3, <1>4

LEMMA AnsweredWhenSearched == IInv /\ Searched => EveryRecordAnswered
<1> SUFFICES ASSUME IInv, Searched, Done PROVE EveryRecordAnswered
  BY DEF EveryRecordAnswered
<1> USE DEF IInv
<1> DEFINE all == pairs \cup moved \cup Replaced
           onlyA == {x \in LeftA : \A p \in Replaced : p[1] # x}
           onlyB == {y \in LeftB : \A p \in Replaced : p[2] # y}
           of(kind) == {f[2] : f \in {f \in OnlyFindings : f[1] = kind}}
<1>1. of("OnlyInA") = onlyA /\ of("OnlyInB") = onlyB
  <2>1. OnlyFindings = {<<"OnlyInA", x>> : x \in onlyA} \cup {<<"OnlyInB", y>> : y \in onlyB}
    BY DEF OnlyFindings
  <2> HIDE DEF onlyA, onlyB
  <2>2. /\ \A x \in onlyA : <<"OnlyInA", x>> \in OnlyFindings
        /\ \A y \in onlyB : <<"OnlyInB", y>> \in OnlyFindings
    BY <2>1
  <2>3. ASSUME NEW f \in OnlyFindings
        PROVE  (f[1] = "OnlyInA" => f[2] \in onlyA) /\ (f[1] = "OnlyInB" => f[2] \in onlyB)
    BY <2>1
  <2>4. of("OnlyInA") \subseteq onlyA /\ of("OnlyInB") \subseteq onlyB
    BY <2>3
  <2>5. ASSUME NEW x \in onlyA PROVE x \in of("OnlyInA")
    <3>1. <<"OnlyInA", x>> \in {f \in OnlyFindings : f[1] = "OnlyInA"} /\ <<"OnlyInA", x>>[2] = x
      BY <2>2
    <3> QED
      BY <3>1
  <2>6. ASSUME NEW y \in onlyB PROVE y \in of("OnlyInB")
    <3>1. <<"OnlyInB", y>> \in {f \in OnlyFindings : f[1] = "OnlyInB"} /\ <<"OnlyInB", y>>[2] = y
      BY <2>2
    <3> QED
      BY <3>1
  <2> HIDE DEF of
  <2> QED
    BY <2>4, <2>5, <2>6
<1>2. \A x \in Indices(a) : x \in onlyA \/ \E p \in all : p[1] = x
  BY DEF LeftA, OnlyA
<1>3. \A y \in Indices(b) : y \in onlyB \/ \E p \in all : p[2] = y
  BY DEF LeftB, OnlyB
<1>4. \A p \in Replaced : p[1] \in LeftA /\ p[2] \in LeftB /\ p = <<p[1], p[2]>>
  BY DEF Replaced
<1>5. ASSUME NEW p \in all, NEW q \in all, p[1] = q[1] \/ p[2] = q[2] PROVE p = q
  <2>1. CASE p \in Replaced /\ q \in Replaced
    <3>1. p[1] \in Nat /\ q[1] \in Nat /\ p[2] \in Nat /\ q[2] \in Nat
      BY <1>4, <2>1, Finite
    <3>2. (p[1] < q[1] <=> p[2] < q[2]) /\ (q[1] < p[1] <=> q[2] < p[2])
      BY <2>1, ReplacedInOrder
    <3>3. p[1] = q[1] /\ p[2] = q[2]
      BY <1>5, <3>1, <3>2
    <3> QED
      BY <1>4, <2>1, <3>3
  <2>2. CASE p \in pairs \cup moved /\ q \in pairs \cup moved
    BY <1>5, <2>2, NeverPairedTwice DEF NothingPairedTwice
  <2>3. \A r \in Replaced, t \in pairs \cup moved : r[1] # t[1] /\ r[2] # t[2]
    BY <1>4 DEF LeftA, LeftB, OnlyA, OnlyB
  <2> QED
    BY <1>5, <2>1, <2>2, <2>3
<1>6. \A p \in all : p[1] \notin onlyA /\ p[2] \notin onlyB
  BY DEF LeftA, LeftB, OnlyA, OnlyB
<1>7. \A x \in onlyA, y \in onlyB : ~Twin(a[x], b[y])
  <2>1. k = Len(a) + 1 /\ Len(a) \in Nat
    BY DEF Done, Searched, TypeOK
  <2>2. \A x \in LeftA : x < k
    BY <2>1 DEF LeftA, OnlyA, Indices
  <2> QED
    BY <2>2 DEF Searched
<1> HIDE DEF all, onlyA, onlyB, of
<1>8. /\ \A x \in Indices(a) : x \in of("OnlyInA") \/ \E p \in all : p[1] = x
      /\ \A y \in Indices(b) : y \in of("OnlyInB") \/ \E p \in all : p[2] = y
      /\ \A p, q \in all : p[1] = q[1] \/ p[2] = q[2] => p = q
      /\ \A p \in all : p[1] \notin of("OnlyInA") /\ p[2] \notin of("OnlyInB")
      /\ \A x \in of("OnlyInA"), y \in of("OnlyInB") : ~Twin(a[x], b[y])
  BY <1>1, <1>2, <1>3, <1>5, <1>6, <1>7
<1> QED
  BY <1>8 DEF EveryRecordAnswered, all, of

\* For streams of any length: each record of either side is in one pair or under one
\* finding, and no two left over are the same record in another place.
THEOREM EachRecordIsAnswered == Spec => []EveryRecordAnswered
  BY SearchedAlways, AnsweredWhenSearched, PTL

-----------------------------------------------------------------------------
(* What MATCH means. *)

\* A record in a gap is on one side of an anchor in both streams.
LEMMA GapsKeepTheirSide ==
  ASSUME TypeOK, PairsAreACommonSubsequence, NEW p \in pairs, NEW q \in Replaced
  PROVE  (p[1] < q[1] <=> p[2] < q[2]) /\ (q[1] < p[1] <=> q[2] < p[2])
<1> DEFINE inA == {r \in pairs : r[1] < q[1]}
           inB == {r \in pairs : r[2] < q[2]}
<1>1. \A r \in pairs : r[1] \in Nat /\ r[2] \in Nat
  BY DEF TypeOK, Indices
<1>2. /\ q[1] \in LeftA /\ q[2] \in LeftB /\ q[1] \in Nat /\ q[2] \in Nat
      /\ Cardinality(inA) = Cardinality(inB)
  BY Finite DEF Replaced, GapA, GapB
<1>3. IsFiniteSet(inA) /\ IsFiniteSet(inB)
  <2>1. inA \in SUBSET pairs /\ inB \in SUBSET pairs
    OBVIOUS
  <2> QED
    BY <2>1, Finite, FS_Subset
<1>4. inA \in SUBSET inB \/ inB \in SUBSET inA
  <2> SUFFICES ASSUME NEW r \in inA, r \notin inB, NEW t \in inB, t \notin inA PROVE FALSE
    OBVIOUS
  <2>1. r[1] < q[1] /\ ~(r[2] < q[2]) /\ t[2] < q[2] /\ ~(t[1] < q[1]) /\ r \in pairs /\ t \in pairs
    OBVIOUS
  <2>2. r[1] < t[1] /\ t[2] < r[2]
    BY <1>1, <1>2, <2>1
  <2> QED
    BY <1>1, <2>1, <2>2 DEF PairsAreACommonSubsequence
<1>5. inA = inB
  <2> HIDE DEF inA, inB
  <2> QED
    BY <1>2, <1>3, <1>4, FS_Subset
<1>6. p[1] < q[1] <=> p[2] < q[2]
  BY <1>5
<1>7. p[1] # q[1] /\ p[2] # q[2]
  BY <1>2 DEF LeftA, LeftB, OnlyA, OnlyB
<1> QED
  BY <1>1, <1>2, <1>6, <1>7

\* C pairs each of 1 .. m and each of 1 .. n, in order.
PairsAll(C, m, n) ==
  /\ m \in Nat /\ n \in Nat /\ C \subseteq (1 .. m) \X (1 .. n)
  /\ \A x \in 1 .. m : \E p \in C : p[1] = x
  /\ \A y \in 1 .. n : \E p \in C : p[2] = y
  /\ \A p, q \in C : p[1] < q[1] <=> p[2] < q[2]

PairsAlike(C) == \A p \in C : p[1] = p[2]

\* Then it pairs each with itself.
LEMMA InOrderIsIdentity ==
  ASSUME NEW C, NEW m, NEW n, PairsAll(C, m, n)
  PROVE  m = n /\ PairsAlike(C)
<1> USE DEF PairsAll, PairsAlike
<1>0. \A p \in C : p[1] \in 1 .. m /\ p[2] \in 1 .. n
  OBVIOUS
<1>1. \A p \in C : p[1] = p[2]
  <2> DEFINE S == {x \in 1 .. m : \E p \in C : p[1] = x /\ p[2] # x}
  <2> SUFFICES ASSUME S # {} PROVE FALSE
    BY <1>0
  <2>1. S \in SUBSET Nat
    OBVIOUS
  <2>2. PICK x \in S : \A z \in S : x <= z
    <3> HIDE DEF S
    <3> QED
      BY <2>1, Least
  <2>3. PICK p \in C : p[1] = x /\ p[2] # x
    OBVIOUS
  <2>4. \A q \in C : q[1] < x => q[2] = q[1]
    <3> TAKE q \in C
    <3>1. CASE q[1] \in S
      BY <1>0, <2>1, <2>2, <3>1
    <3>2. CASE q[1] \notin S
      BY <1>0, <3>2
    <3> QED
      BY <3>1, <3>2
  <2>5. x \in Nat /\ x \in 1 .. m /\ p[2] \in Nat /\ p[2] \in 1 .. n
    BY <1>0, <2>1
  <2>6. CASE p[2] < x
    <3>1. p[2] \in 1 .. m
      BY <2>5, <2>6
    <3>2. PICK q \in C : q[1] = p[2]
      BY <3>1
    <3>3. q[2] = p[2] /\ q[1] < p[1]
      BY <2>3, <2>4, <2>6, <3>2
    <3>4. q[2] < p[2]
      BY <3>3
    <3> QED
      BY <2>5, <3>3, <3>4
  <2>7. CASE x < p[2]
    <3>1. x \in 1 .. n
      BY <2>5, <2>7
    <3>2. PICK q \in C : q[2] = x
      BY <3>1
    <3>3. q[1] < p[1]
      BY <2>7, <3>2
    <3>4. q[2] = q[1]
      BY <2>3, <2>4, <3>3
    <3> QED
      BY <2>3, <2>5, <3>2, <3>3, <3>4
  <2> QED
    BY <2>3, <2>5, <2>6, <2>7
<1>2. m <= n
  <2>1. CASE m = 0
    BY <2>1
  <2>2. CASE m # 0
    <3>1. PICK p \in C : p[1] = m
      BY <2>2
    <3> QED
      BY <1>0, <1>1, <3>1
  <2> QED
    BY <2>1, <2>2
<1>3. n <= m
  <2>1. CASE n = 0
    BY <2>1
  <2>2. CASE n # 0
    <3>1. PICK p \in C : p[2] = n
      BY <2>2
    <3> QED
      BY <1>0, <1>1, <3>1
  <2> QED
    BY <2>1, <2>2
<1> QED
  BY <1>1, <1>2, <1>3

LEMMA NoFindingIsSame == ASSUME IInv, IsMatch PROVE Same
<1> USE DEF IInv
<1> DEFINE C == pairs \cup Replaced
<1>1. moved = {} /\ OnlyFindings = {}
  BY DEF IsMatch, Findings
<1>2. /\ \A x \in LeftA : \E p \in Replaced : p[1] = x
      /\ \A y \in LeftB : \E p \in Replaced : p[2] = y
  BY <1>1 DEF OnlyFindings
<1>3. \A x \in Indices(a) : \E p \in C : p[1] = x
  BY <1>1, <1>2 DEF LeftA, OnlyA
<1>4. \A y \in Indices(b) : \E p \in C : p[2] = y
  BY <1>1, <1>2 DEF LeftB, OnlyB
<1>5. \A p, q \in C : p[1] < q[1] <=> p[2] < q[2]
  BY GapsKeepTheirSide, ReplacedInOrder DEF PairsAreACommonSubsequence
<1>6. C \in SUBSET (Indices(a) \X Indices(b))
  BY DEF TypeOK, Replaced, LeftA, LeftB, OnlyA, OnlyB
<1>7. \A p \in C : Agree(a[p[1]], b[p[2]])
  <2>1. \A p \in Replaced : a[p[1]].kind = b[p[2]].kind
    BY DEF IsMatch, Findings
  <2>2. \A p \in C : p \in Compared
    BY <2>1 DEF Compared
  <2>3. \A p \in Compared : Agree(a[p[1]], b[p[2]])
    BY DEF IsMatch, Findings
  <2> QED
    BY <2>2, <2>3
<1> HIDE DEF C
<1>8. Len(a) \in Nat /\ Len(b) \in Nat
  BY DEF TypeOK
<1>9. PairsAll(C, Len(a), Len(b))
  BY <1>3, <1>4, <1>5, <1>6, <1>8 DEF PairsAll, Indices
<1>10. Len(a) = Len(b) /\ PairsAlike(C)
  BY <1>9, InOrderIsIdentity
<1>11. \A x \in Indices(a) : Agree(a[x], b[x])
  BY <1>3, <1>7, <1>10 DEF PairsAlike
<1> QED
  BY <1>10, <1>11 DEF Same

\* What \div is to multiplication.
LEMMA Division ==
  ASSUME NEW n \in Nat, NEW d \in Nat \ {0}
  PROVE  n \div d \in Nat /\ d * (n \div d) <= n /\ n < d * (n \div d) + d
  OBVIOUS

LEMMA CellsApart ==
  ASSUME NEW p \in Nat, NEW q \in Nat, NEW d \in Nat, p + 2 <= q
  PROVE  d * p + 2 * d <= d * q
<1>1. PICK e \in Nat : q = p + 2 + e
  <2>1. q - p - 2 \in Nat /\ q = p + 2 + (q - p - 2)
    OBVIOUS
  <2> QED BY <2>1
<1>2. d * q = d * p + 2 * d + d * e
  BY <1>1
<1>3. d * e \in Nat /\ d * p \in Nat
  OBVIOUS
<1> QED BY <1>2, <1>3

\* Two coordinates no more than a step apart are in the same cell or in two next to
\* each other.
LEMMA NearIsNextCell ==
  ASSUME NEW x \in Nat, NEW y \in Nat, y <= x + Step
  PROVE  Quantise(x) \in Nat /\ Quantise(y) \in Nat /\ Quantise(y) <= Quantise(x) + 1
<1> DEFINE d == 2 * Step
           p == (2 * x + Step) \div d
           q == (2 * y + Step) \div d
<1>1. Step \in Nat \ {0} /\ d \in Nat \ {0} /\ 2 * x + Step \in Nat /\ 2 * y + Step \in Nat
  BY AlignAssumption
<1>2. p \in Nat /\ q \in Nat /\ 2 * x + Step < d * p + d /\ d * q <= 2 * y + Step
  <2> HIDE DEF d
  <2> QED BY <1>1, Division
<1>3. Quantise(x) = p /\ Quantise(y) = q
  BY DEF Quantise
<1>4. ~(p + 2 <= q)
  <2> SUFFICES ASSUME p + 2 <= q PROVE FALSE
    OBVIOUS
  <2> HIDE DEF p, q
  <2>1. d * p + 2 * d <= d * q
    <3> HIDE DEF d
    <3> QED BY <1>1, <1>2, CellsApart
  <2>2. d * p \in Nat /\ d * q \in Nat
    <3> HIDE DEF d
    <3> QED BY <1>1, <1>2
  <2> DEFINE u == d * p
             v == d * q
  <2>3. u \in Nat /\ v \in Nat /\ u + 2 * d <= v /\ 2 * x + Step < u + d /\ v <= 2 * y + Step
    BY <1>2, <2>1, <2>2
  <2> HIDE DEF u, v
  <2> QED BY <1>1, <2>3
<1> HIDE DEF p, q
<1> QED
  BY <1>2, <1>3, <1>4

\* Two records without a finding between them are compatible, provided they lie
\* within a step of each other.
LEMMA AgreeIsCompat ==
  ASSUME NEW r \in Rec, NEW s \in Rec, Agree(r, s), Beside(r, s)
  PROVE  Compat(r, s)
<1>1. CASE r.at = NoAt /\ s.at = NoAt
  BY <1>1 DEF Agree, Compat
<1>2. CASE r.at # NoAt /\ s.at # NoAt
  <2>1. r.at \in Nat /\ s.at \in Nat /\ Step \in Nat
    BY <1>2, AlignAssumption
  <2>2. r.at <= s.at + Step /\ s.at <= r.at + Step
    BY <1>2, <2>1 DEF Dist, Beside
  <2>3. Dist(Quantise(r.at), Quantise(s.at)) <= 1
    <3>1. /\ Quantise(r.at) \in Nat /\ Quantise(s.at) \in Nat
          /\ Quantise(s.at) <= Quantise(r.at) + 1
      BY <2>1, <2>2, NearIsNextCell
    <3>2. Quantise(r.at) <= Quantise(s.at) + 1
      BY <2>1, <2>2, NearIsNextCell
    <3> QED
      BY <3>1, <3>2 DEF Dist
  <2> QED
    BY <2>3 DEF Agree, Compat
<1> QED
  BY <1>1, <1>2 DEF Agree

\* Two streams that agree record by record, a step apart at most, are peeled to the
\* last record, and nothing is left for the walk or for the search.
Peeled(n) == pairs = {<<x, x>> : x \in 1 .. n}

SamePeels ==
  Same /\ Close =>
    /\ moved = {} /\ Peeled(lo)
    /\ pc # "front" => lo = Len(a)

LEMMA SameStep ==
  ASSUME IInv, SamePeels, [Next]_vars
  PROVE  SamePeels'
<1> SUFFICES ASSUME Same', Close' PROVE (moved = {} /\ Peeled(lo) /\ (pc # "front" => lo = Len(a)))'
  BY DEF SamePeels
<1> USE DEF IInv
<1>1. UNCHANGED <<a, b>>
  BY DEF Next, PeelFront, PeelBack, Walk, Move, vars
<1>2. Same /\ Close /\ Len(a) = Len(b) /\ Len(a) \in Nat /\ lo \in Nat
  BY <1>1 DEF Same, Close, Indices, TypeOK
<1>3. moved = {} /\ Peeled(lo) /\ (pc # "front" => lo = Len(a))
  BY <1>2 DEF SamePeels
<1>4. CASE PeelFront
  <2>1. CASE lo < Len(a)
    <3>1. lo + 1 \in Indices(a) /\ lo + 1 \in Indices(b)
      BY <1>2, <2>1 DEF Indices
    <3>2. /\ a[lo + 1] \in Rec /\ b[lo + 1] \in Rec
          /\ Agree(a[lo + 1], b[lo + 1]) /\ Beside(a[lo + 1], b[lo + 1])
      BY <1>2, <3>1 DEF Same, Close, TypeOK, Indices
    <3>3. Compat(a[lo + 1], b[lo + 1])
      BY <3>2, AgreeIsCompat
    <3>4. pairs' = pairs \cup {<<lo + 1, lo + 1>>} /\ lo' = lo + 1 /\ pc' = "front" /\ moved' = moved
      BY <1>2, <1>4, <2>1, <3>3 DEF PeelFront
    <3>5. 1 .. lo + 1 = (1 .. lo) \cup {lo + 1}
      BY <1>2
    <3> QED
      BY <1>3, <3>4, <3>5 DEF Peeled
  <2>2. CASE ~(lo < Len(a))
    <3>1. UNCHANGED <<pairs, lo, moved>>
      BY <1>4, <2>2 DEF PeelFront
    <3>2. lo = Len(a)
      BY <1>2, <2>2 DEF TypeOK
    <3> QED
      BY <1>1, <1>3, <3>1, <3>2 DEF Peeled
  <2> QED
    BY <2>1, <2>2
<1>5. CASE PeelBack
  <2>1. lo = Len(a) /\ ~(ea > lo)
    BY <1>2, <1>3, <1>5 DEF PeelBack, TypeOK
  <2> QED
    BY <1>1, <1>3, <1>5, <2>1 DEF PeelBack, Peeled
<1>6. CASE Walk
  <2>1. lo = Len(a) /\ ~(i > 0)
    BY <1>2, <1>3, <1>6 DEF Walk, TypeOK, N
  <2> QED
    BY <1>1, <1>3, <1>6, <2>1 DEF Walk, Peeled
<1>7. CASE Move
  <2>1. lo = Len(a) /\ Peeled(Len(a))
    BY <1>3, <1>7 DEF Move
  <2>2. OnlyA = {}
    <3>1. \A x \in Indices(a) : <<x, x>> \in pairs
      BY <2>1 DEF Peeled, Indices
    <3> QED
      BY <3>1 DEF OnlyA
  <2>3. k \notin OnlyA
    BY <2>2
  <2>4. UNCHANGED <<moved, pairs, lo>>
    BY <1>7, <2>3 DEF Move
  <2> QED
    BY <1>1, <1>3, <2>1, <2>4 DEF Peeled
<1>8. CASE UNCHANGED vars
  BY <1>3, <1>8 DEF vars, Peeled
<1> QED
  BY <1>4, <1>5, <1>6, <1>7, <1>8 DEF Next

LEMMA SameIsNoFinding == ASSUME IInv, SamePeels, Done, Same, Close PROVE IsMatch
<1> USE DEF IInv
<1>1. moved = {} /\ Peeled(Len(a)) /\ Len(a) = Len(b)
  BY DEF SamePeels, Done, Same
<1>2. \A x \in Indices(a) : <<x, x>> \in pairs
  BY <1>1 DEF Peeled, Indices
<1>3. OnlyA = {} /\ OnlyB = {}
  <2>1. Indices(b) = Indices(a)
    BY <1>1 DEF Indices
  <2>2. \A x \in Indices(a) : \E p \in pairs : p[1] = x /\ p[2] = x
    BY <1>2
  <2> QED
    BY <2>1, <2>2 DEF OnlyA, OnlyB
<1>4. LeftA = {} /\ LeftB = {} /\ Replaced = {}
  BY <1>3 DEF LeftA, LeftB, Replaced
<1>5. OnlyFindings = {}
  BY <1>4 DEF OnlyFindings
<1>6. \A p \in Compared : Agree(a[p[1]], b[p[2]])
  <2>1. Compared = pairs
    BY <1>1, <1>4 DEF Compared
  <2>2. \A p \in pairs : p[1] \in Indices(a) /\ p[1] = p[2]
    BY <1>1 DEF Peeled, Indices
  <2> QED
    BY <2>1, <2>2 DEF Same
<1> QED
  BY <1>1, <1>4, <1>5, <1>6 DEF IsMatch, Findings

\* For streams of any length, any grid, any band and any tolerance: compare() is
\* without a finding only when the streams agree record by record, and is without one
\* whenever they agree and lie within a step of each other, record by record.
THEOREM MatchIsExact == Spec => []MatchIsSame
<1>1. Init => SamePeels
  BY DEF Init, SamePeels, Peeled
<1>2. IInv /\ SamePeels /\ [Next]_vars => SamePeels'
  BY SameStep
<1>3. IInv /\ SamePeels => MatchIsSame
  BY NoFindingIsSame, SameIsNoFinding DEF MatchIsSame
<1> QED
  BY <1>1, <1>2, <1>3, InitIInv, StepIInv, PTL DEF Spec

-----------------------------------------------------------------------------
\* The table of middle() over the whole of what the ends leave.

Cells == (0 .. N) \X (0 .. M)

\* What the loop writes into one cell, and what the table is.
Cell(rows, c) ==
  IF c[1] = 0 \/ c[2] = 0 \/ ~InBand(c[1], c[2]) THEN 0
  ELSE IF Compat(a[lo + c[1]], b[lo + c[2]]) THEN rows[<<c[1] - 1, c[2] - 1>>] + 1
  ELSE LET up == rows[<<c[1] - 1, c[2]>>]
           left == rows[<<c[1], c[2] - 1>>]
       IN IF up >= left THEN up ELSE left

IsTable(rows) == rows = [c \in Cells |-> Cell(rows, c)]

LEMMA TableIsChosen == Table = CHOOSE rows : IsTable(rows)
  BY Zenon DEF Table, IsTable, Cell, Cells

\* A cell looks at cells before it only, so the table can be filled.
Filled(rows, n) == rows = [c \in Cells |-> IF c[1] + c[2] <= n THEN Cell(rows, c) ELSE 0]

LEMMA LooksBack ==
  ASSUME NEW rows, NEW others, NEW n \in Nat, NEW c \in Cells, c[1] + c[2] <= n + 1, N \in Nat, M \in Nat,
         \A d \in Cells : d[1] + d[2] <= n => rows[d] = others[d]
  PROVE  Cell(rows, c) = Cell(others, c)
<1>1. CASE c[1] = 0 \/ c[2] = 0
  BY <1>1 DEF Cell
<1>2. CASE ~(c[1] = 0 \/ c[2] = 0)
  <2> DEFINE d1 == <<c[1] - 1, c[2] - 1>>
             d2 == <<c[1] - 1, c[2]>>
             d3 == <<c[1], c[2] - 1>>
  <2>1. c[1] \in 0 .. N /\ c[2] \in 0 .. M
    BY DEF Cells
  <2>2. c[1] - 1 \in 0 .. N /\ c[2] - 1 \in 0 .. M
    BY <1>2, <2>1
  <2>3. d1 \in Cells /\ d2 \in Cells /\ d3 \in Cells
    BY <2>1, <2>2 DEF Cells
  <2>4. d1[1] + d1[2] <= n /\ d2[1] + d2[2] <= n /\ d3[1] + d3[2] <= n
    BY <2>1, <2>2
  <2>5. rows[d1] = others[d1] /\ rows[d2] = others[d2] /\ rows[d3] = others[d3]
    BY <2>3, <2>4
  <2> QED
    BY <2>5 DEF Cell
<1> QED
  BY <1>1, <1>2

LEMMA TableCanBeFilled == ASSUME TypeOK PROVE \E rows : IsTable(rows)
<1>0. N \in Nat /\ M \in Nat
  BY DEF TypeOK, N, M
<1> DEFINE S == {n \in Nat : ~\E rows : Filled(rows, n)}
<1>1. S = {}
  <2> SUFFICES ASSUME S # {} PROVE FALSE
    OBVIOUS
  <2>1. PICK n \in S : \A m \in S : n <= m
    <3>1. S \in SUBSET Nat
      OBVIOUS
    <3> HIDE DEF S
    <3> QED
      BY <3>1, Least
  <2>2. CASE n = 0
    <3> DEFINE rows == [c \in Cells |-> 0]
    <3>1. \A c \in Cells : c[1] + c[2] <= 0 => Cell(rows, c) = 0
      BY <1>0 DEF Cells, Cell
    <3>2. Filled(rows, 0)
      BY <3>1 DEF Filled
    <3> QED
      BY <2>1, <2>2, <3>2
  <2>3. CASE n # 0
    <3>1. n - 1 \in Nat /\ n - 1 \notin S /\ n \in Nat
      BY <2>1, <2>3
    <3>2. PICK rows : Filled(rows, n - 1)
      BY <3>1
    <3> DEFINE next == [c \in Cells |-> IF c[1] + c[2] <= n THEN Cell(rows, c) ELSE 0]
    <3>3. \A d \in Cells : d[1] \in Nat /\ d[2] \in Nat
      BY <1>0 DEF Cells
    <3>4. \A d \in Cells : d[1] + d[2] <= n - 1 => rows[d] = next[d]
      BY <3>1, <3>2, <3>3 DEF Filled
    <3>5. \A c \in Cells : c[1] + c[2] <= n => Cell(rows, c) = Cell(next, c)
      <4> HIDE DEF next
      <4> SUFFICES ASSUME NEW c \in Cells, c[1] + c[2] <= n PROVE Cell(rows, c) = Cell(next, c)
        OBVIOUS
      <4>1. c[1] + c[2] <= (n - 1) + 1
        BY <3>1, <3>3
      <4> QED
        BY <1>0, <3>1, <3>4, <4>1, LooksBack
    <3>6. Filled(next, n)
      BY <3>5, Zenon DEF Filled
    <3> QED
      BY <2>1, <3>6
  <2> QED
    BY <2>2, <2>3
<1>2. N + M \in Nat /\ N + M \notin S
  BY <1>0, <1>1
<1>3. PICK rows : Filled(rows, N + M)
  BY <1>2
<1>4. \A c \in Cells : c[1] + c[2] <= N + M
  BY <1>0 DEF Cells
<1>5. IsTable(rows)
  BY <1>3, <1>4, Zenon DEF Filled, IsTable
<1> QED
  BY <1>5

LEMMA TableIs == ASSUME TypeOK PROVE \A c \in Cells : Table[c] = Cell(Table, c)
<1>1. IsTable(Table)
  BY TableIsChosen, TableCanBeFilled
<1> QED
  BY <1>1 DEF IsTable

LEMMA TableNumbers == ASSUME TypeOK PROVE \A c \in Cells : Table[c] \in Nat
<1>0. N \in Nat /\ M \in Nat /\ \A c \in Cells : c[1] \in Nat /\ c[2] \in Nat
  BY DEF TypeOK, N, M, Cells
<1> DEFINE S == {n \in Nat : \E c \in Cells : c[1] + c[2] = n /\ Table[c] \notin Nat}
<1> SUFFICES ASSUME S # {} PROVE FALSE
  BY <1>0
<1>1. PICK n \in S : \A m \in S : n <= m
  <2>1. S \in SUBSET Nat
    OBVIOUS
  <2> HIDE DEF S
  <2> QED
    BY <2>1, Least
<1>2. PICK c \in Cells : c[1] + c[2] = n /\ Table[c] \notin Nat
  BY <1>1
<1>3. Table[c] = Cell(Table, c)
  BY <1>2, TableIs
<1>4. \A d \in Cells : d[1] + d[2] < n => Table[d] \in Nat
  <2> SUFFICES ASSUME NEW d \in Cells, d[1] + d[2] < n, Table[d] \notin Nat PROVE FALSE
    OBVIOUS
  <2>1. d[1] + d[2] \in S
    BY <1>0
  <2> QED
    BY <1>0, <1>1, <2>1
<1>5. CASE c[1] = 0 \/ c[2] = 0
  BY <1>2, <1>3, <1>5 DEF Cell
<1>6. CASE ~(c[1] = 0 \/ c[2] = 0)
  <2> DEFINE d1 == <<c[1] - 1, c[2] - 1>>
             d2 == <<c[1] - 1, c[2]>>
             d3 == <<c[1], c[2] - 1>>
  <2>1. c[1] \in 0 .. N /\ c[2] \in 0 .. M
    BY <1>2 DEF Cells
  <2>2. c[1] - 1 \in 0 .. N /\ c[2] - 1 \in 0 .. M
    BY <1>0, <1>6, <2>1
  <2>3. d1 \in Cells /\ d2 \in Cells /\ d3 \in Cells
    BY <2>1, <2>2 DEF Cells
  <2>4. d1[1] + d1[2] < n /\ d2[1] + d2[2] < n /\ d3[1] + d3[2] < n
    BY <1>2, <2>1
  <2>5. Table[d1] \in Nat /\ Table[d2] \in Nat /\ Table[d3] \in Nat
    BY <1>4, <2>3, <2>4
  <2>6. Cell(Table, c) \in Nat
    BY <2>5 DEF Cell
  <2> QED
    BY <1>2, <1>3, <2>6
<1> QED
  BY <1>5, <1>6

LEMMA SmallerProduct ==
  ASSUME NEW p \in Nat, NEW q \in Nat, NEW m \in Nat, p <= q
  PROVE  p * m <= q * m
<1>1. PICK e \in Nat : q = p + e
  <2>1. q - p \in Nat /\ q = p + (q - p)
    OBVIOUS
  <2> QED
    BY <2>1
<1>2. q * m = p * m + e * m /\ e * m \in Nat /\ p * m \in Nat
  BY <1>1
<1> QED
  BY <1>2

\* Where the whole table is filled no cell is outside the band.
LEMMA NoBand ==
  ASSUME TypeOK, N * M <= Full, NEW x \in 1 .. N, NEW y \in 1 .. M
  PROVE  InBand(x, y)
<1>0. N \in Nat /\ M \in Nat /\ x \in Nat /\ N \in Nat \ {0} /\ x <= N /\ y <= M /\ y \in Nat
  BY DEF TypeOK, N, M
<1>1. Width = M
  BY DEF Width
<1> DEFINE q == (x * M) \div N
<1>2. x * M \in Nat /\ q \in Nat /\ N * q <= x * M
  BY <1>0, Division
<1>3. x * M <= N * M
  BY <1>0, SmallerProduct
<1>4. q <= M
  <2> SUFFICES ASSUME M + 1 <= q PROVE FALSE
    BY <1>0, <1>2
  <2>1. (M + 1) * N <= q * N
    BY <1>0, <1>2, SmallerProduct
  <2>2. (M + 1) * N = N * M + N /\ q * N = N * q /\ N * M \in Nat /\ N * q \in Nat
    BY <1>0, <1>2
  <2> HIDE DEF q
  <2> QED
    BY <1>0, <1>2, <1>3, <2>1, <2>2
<1>5. Centre(x) = q
  BY DEF Centre
<1> HIDE DEF q
<1> QED
  BY <1>0, <1>1, <1>2, <1>4, <1>5 DEF InBand

\* The recurrence of the whole table.
LEMMA TableRecurs ==
  ASSUME TypeOK, N * M <= Full, NEW x \in 1 .. N, NEW y \in 1 .. M
  PROVE  /\ Table[<<x, y>>] \in Nat /\ Table[<<x - 1, y - 1>>] \in Nat
         /\ Table[<<x - 1, y>>] \in Nat /\ Table[<<x, y - 1>>] \in Nat
         /\ Compat(a[lo + x], b[lo + y]) => Table[<<x, y>>] = Table[<<x - 1, y - 1>>] + 1
         /\ ~Compat(a[lo + x], b[lo + y]) =>
              Table[<<x, y>>] = IF Table[<<x - 1, y>>] >= Table[<<x, y - 1>>]
                                THEN Table[<<x - 1, y>>] ELSE Table[<<x, y - 1>>]
<1>0. N \in Nat /\ M \in Nat
  BY DEF TypeOK, N, M
<1>1. /\ <<x, y>> \in Cells /\ <<x - 1, y - 1>> \in Cells
      /\ <<x - 1, y>> \in Cells /\ <<x, y - 1>> \in Cells
  BY <1>0 DEF Cells
<1>2. Table[<<x, y>>] = Cell(Table, <<x, y>>)
  BY <1>1, TableIs
<1>3. InBand(x, y) /\ ~(x = 0 \/ y = 0)
  BY NoBand
<1>4. /\ Table[<<x, y>>] \in Nat /\ Table[<<x - 1, y - 1>>] \in Nat
      /\ Table[<<x - 1, y>>] \in Nat /\ Table[<<x, y - 1>>] \in Nat
  BY <1>1, TableNumbers
<1> QED
  BY <1>2, <1>3, <1>4 DEF Cell

LEMMA TableEdge ==
  ASSUME TypeOK, NEW x \in 0 .. N, NEW y \in 0 .. M, x = 0 \/ y = 0
  PROVE  Table[<<x, y>>] = 0
<1>1. <<x, y>> \in Cells
  BY DEF Cells
<1>2. Table[<<x, y>>] = Cell(Table, <<x, y>>)
  BY <1>1, TableIs
<1> QED
  BY <1>2 DEF Cell

-----------------------------------------------------------------------------

\* A common subsequence of the first x and the first y records of the middle.
MiddleChain(c, x, y) ==
  /\ c \subseteq (lo + 1 .. lo + x) \X (lo + 1 .. lo + y)
  /\ \A p \in c : Compat(a[p[1]], b[p[2]])
  /\ \A p, q \in c : p[1] < q[1] <=> p[2] < q[2]

LEMMA ChainIsFinite ==
  ASSUME NEW c, NEW x \in Nat, NEW y \in Nat, lo \in Nat, MiddleChain(c, x, y)
  PROVE  IsFiniteSet(c) /\ Cardinality(c) \in Nat
<1>1. IsFiniteSet(lo + 1 .. lo + x) /\ IsFiniteSet(lo + 1 .. lo + y)
  BY FS_Interval
<1>2. IsFiniteSet((lo + 1 .. lo + x) \X (lo + 1 .. lo + y))
  BY <1>1, FS_Product
<1>3. c \in SUBSET ((lo + 1 .. lo + x) \X (lo + 1 .. lo + y))
  BY DEF MiddleChain
<1> QED
  BY <1>2, <1>3, FS_Subset, FS_CardinalityType

\* Without whatever it has in the last row or the last column it has one less at
\* most: two such pairs would cross.
LEMMA ChainWithoutLast ==
  ASSUME NEW c, NEW x \in Nat \ {0}, NEW y \in Nat \ {0}, lo \in Nat, MiddleChain(c, x, y)
  PROVE  \E d : MiddleChain(d, x - 1, y - 1) /\ Cardinality(c) <= Cardinality(d) + 1
<1> DEFINE last == {p \in c : p[1] = lo + x \/ p[2] = lo + y}
<1>0. IsFiniteSet(c) /\ Cardinality(c) \in Nat
  BY ChainIsFinite
<1>1. \A p \in c : p[1] \in lo + 1 .. lo + x /\ p[2] \in lo + 1 .. lo + y /\ p = <<p[1], p[2]>>
  BY DEF MiddleChain
<1>2. ASSUME NEW p \in last, NEW q \in last PROVE p = q
  <2>1. (p[1] < q[1] <=> p[2] < q[2]) /\ (q[1] < p[1] <=> q[2] < p[2])
    BY DEF MiddleChain
  <2>2. p[1] = q[1] /\ p[2] = q[2]
    BY <1>1, <2>1
  <2> QED
    BY <1>1, <2>2
<1> HIDE DEF last
<1>3. MiddleChain(c \ last, x - 1, y - 1)
  <2>1. \A p \in c \ last : p[1] \in lo + 1 .. lo + (x - 1) /\ p[2] \in lo + 1 .. lo + (y - 1)
    <3> SUFFICES ASSUME NEW p \in c \ last
                 PROVE  p[1] \in lo + 1 .. lo + (x - 1) /\ p[2] \in lo + 1 .. lo + (y - 1)
      OBVIOUS
    <3>1. p[1] # lo + x /\ p[2] # lo + y /\ p \in c
      BY DEF last
    <3>2. p[1] \in lo + 1 .. lo + x /\ p[2] \in lo + 1 .. lo + y
      BY <1>1, <3>1
    <3>3. p[1] \in lo + 1 .. lo + (x - 1)
      BY <3>1, <3>2
    <3>4. p[2] \in lo + 1 .. lo + (y - 1)
      BY <3>1, <3>2
    <3> QED
      BY <3>3, <3>4
  <2>2. c \ last \subseteq (lo + 1 .. lo + (x - 1)) \X (lo + 1 .. lo + (y - 1))
    BY <1>1, <2>1
  <2> QED
    BY <2>2 DEF MiddleChain
<1>4. CASE last = {}
  BY <1>0, <1>3, <1>4
<1>5. CASE last # {}
  <2>1. PICK p \in last : TRUE
    BY <1>5
  <2>2. last = {p}
    BY <1>2, <2>1
  <2>3. p \in c
    BY <2>1 DEF last
  <2>4. Cardinality(c \ {p}) = Cardinality(c) - 1
    BY <1>0, <2>3, FS_RemoveElement
  <2> QED
    BY <1>0, <1>3, <2>2, <2>4
<1> QED
  BY <1>4, <1>5

\* A common subsequence that does not line the two last records up leaves one of
\* them out.
LEMMA ChainLeavesOneOut ==
  ASSUME NEW c, NEW x \in Nat \ {0}, NEW y \in Nat \ {0}, lo \in Nat, MiddleChain(c, x, y),
         ~Compat(a[lo + x], b[lo + y])
  PROVE  MiddleChain(c, x - 1, y) \/ MiddleChain(c, x, y - 1)
<1>1. \A p \in c : p[1] \in lo + 1 .. lo + x /\ p[2] \in lo + 1 .. lo + y /\ p = <<p[1], p[2]>>
  BY DEF MiddleChain
<1>2. \A p \in c : ~(p[1] = lo + x /\ p[2] = lo + y)
  BY DEF MiddleChain
<1>3. CASE \A p \in c : p[1] # lo + x
  <2>1. \A p \in c : p[1] \in lo + 1 .. lo + (x - 1)
    BY <1>1, <1>3
  <2>2. c \subseteq (lo + 1 .. lo + (x - 1)) \X (lo + 1 .. lo + y)
    BY <1>1, <2>1
  <2> QED
    BY <2>2 DEF MiddleChain
<1>4. CASE \A p \in c : p[2] # lo + y
  <2>1. \A p \in c : p[2] \in lo + 1 .. lo + (y - 1)
    BY <1>1, <1>4
  <2>2. c \subseteq (lo + 1 .. lo + x) \X (lo + 1 .. lo + (y - 1))
    BY <1>1, <2>1
  <2> QED
    BY <2>2 DEF MiddleChain
<1>5. ASSUME NEW p \in c, p[1] = lo + x, NEW q \in c, q[2] = lo + y PROVE FALSE
  <2>1. (q[1] < p[1] <=> q[2] < p[2]) /\ (p[1] < q[1] <=> p[2] < q[2])
    BY DEF MiddleChain
  <2> QED
    BY <1>1, <1>2, <1>5, <2>1
<1> QED
  BY <1>3, <1>4, <1>5

\* A cell of the whole table is an upper bound of the common subsequences it is for.
LEMMA NoLongerThanItsCell ==
  ASSUME TypeOK, N * M <= Full
  PROVE  \A x \in 0 .. N, y \in 0 .. M : \A c : MiddleChain(c, x, y) => Cardinality(c) <= Table[<<x, y>>]
<1>0. N \in Nat /\ M \in Nat /\ lo \in Nat
  BY DEF TypeOK, N, M
<1> DEFINE Longer(x, y) == \E c : MiddleChain(c, x, y) /\ ~(Cardinality(c) <= Table[<<x, y>>])
           S == {n \in Nat : \E x \in 0 .. N, y \in 0 .. M : x + y = n /\ Longer(x, y)}
<1>a. \A x \in 0 .. N, y \in 0 .. M : Longer(x, y) => x + y \in S
  <2> SUFFICES ASSUME NEW x \in 0 .. N, NEW y \in 0 .. M, Longer(x, y) PROVE x + y \in S
    OBVIOUS
  <2>1. x + y \in Nat
    BY <1>0
  <2> HIDE DEF Longer
  <2> QED
    BY <2>1
<1> SUFFICES ASSUME S # {} PROVE FALSE
  BY <1>a, Zenon
<1>1. PICK n \in S : \A m \in S : n <= m
  <2>1. S \in SUBSET Nat
    OBVIOUS
  <2> HIDE DEF S
  <2> QED
    BY <2>1, Least
<1>2. PICK x \in 0 .. N, y \in 0 .. M : x + y = n /\ Longer(x, y)
  BY <1>1
<1>3. PICK c : MiddleChain(c, x, y) /\ ~(Cardinality(c) <= Table[<<x, y>>])
  BY <1>2
<1>4. \A u \in 0 .. N, v \in 0 .. M : u + v < n => \A d : MiddleChain(d, u, v) => Cardinality(d) <= Table[<<u, v>>]
  <2> SUFFICES ASSUME NEW u \in 0 .. N, NEW v \in 0 .. M, u + v < n, Longer(u, v) PROVE FALSE
    OBVIOUS
  <2>1. u + v \in S
    BY <1>a
  <2>2. u + v \in Nat /\ n \in Nat
    BY <1>0, <1>1
  <2> HIDE DEF S, Longer
  <2> QED
    BY <1>1, <2>1, <2>2
<1> HIDE DEF S, Longer
<1>5. x \in Nat /\ y \in Nat /\ IsFiniteSet(c) /\ Cardinality(c) \in Nat
  BY <1>0, <1>3, ChainIsFinite
<1>6. CASE x = 0 \/ y = 0
  <2>1. c = {}
    <3>1. (lo + 1 .. lo + x) = {} \/ (lo + 1 .. lo + y) = {}
      BY <1>0, <1>5, <1>6
    <3> QED
      BY <1>3, <3>1 DEF MiddleChain
  <2>2. Table[<<x, y>>] = 0
    BY <1>6, TableEdge
  <2> QED
    BY <1>3, <2>1, <2>2, FS_EmptySet
<1>7. CASE ~(x = 0 \/ y = 0)
  <2>1. x \in 1 .. N /\ y \in 1 .. M /\ x \in Nat \ {0} /\ y \in Nat \ {0}
    BY <1>5, <1>7
  <2>2. /\ x - 1 \in 0 .. N /\ y - 1 \in 0 .. M
        /\ (x - 1) + (y - 1) < n /\ (x - 1) + y < n /\ x + (y - 1) < n
    BY <1>0, <1>2, <2>1
  <2>3. CASE Compat(a[lo + x], b[lo + y])
    <3>1. PICK d : MiddleChain(d, x - 1, y - 1) /\ Cardinality(c) <= Cardinality(d) + 1
      BY <1>0, <1>3, <2>1, ChainWithoutLast
    <3>2. Cardinality(d) <= Table[<<x - 1, y - 1>>]
      BY <1>4, <2>2, <3>1
    <3>3. Table[<<x, y>>] = Table[<<x - 1, y - 1>>] + 1 /\ Table[<<x - 1, y - 1>>] \in Nat
      BY <2>1, <2>3, TableRecurs
    <3>4. Cardinality(d) \in Nat
      <4>1. x - 1 \in Nat /\ y - 1 \in Nat
        BY <2>1
      <4> QED
        BY <1>0, <3>1, <4>1, ChainIsFinite
    <3> QED
      BY <1>3, <1>5, <3>1, <3>2, <3>3, <3>4
  <2>4. CASE ~Compat(a[lo + x], b[lo + y])
    <3>1. MiddleChain(c, x - 1, y) \/ MiddleChain(c, x, y - 1)
      BY <1>0, <1>3, <2>1, <2>4, ChainLeavesOneOut
    <3>2. Cardinality(c) <= Table[<<x - 1, y>>] \/ Cardinality(c) <= Table[<<x, y - 1>>]
      BY <1>4, <2>2, <3>1
    <3>3. /\ Table[<<x - 1, y>>] \in Nat /\ Table[<<x, y - 1>>] \in Nat
          /\ Table[<<x, y>>] = IF Table[<<x - 1, y>>] >= Table[<<x, y - 1>>]
                               THEN Table[<<x - 1, y>>] ELSE Table[<<x, y - 1>>]
      BY <2>1, <2>4, TableRecurs
    <3> QED
      BY <1>3, <1>5, <3>2, <3>3
  <2> QED
    BY <2>3, <2>4
<1> QED
  BY <1>6, <1>7

-----------------------------------------------------------------------------

\* How many anchors there are: those of the ends, and those the table promises.
Suffix == Len(a) - ea
Whole == N * M <= Full

Counted ==
  /\ Suffix = Len(b) - eb
  /\ pc = "front" => Cardinality(pairs) = lo
  /\ pc = "back" => Cardinality(pairs) = lo + Suffix
  /\ pc = "walk" /\ Whole =>
       Cardinality(pairs) + Table[<<i, j>>] = lo + Suffix + Table[<<N, M>>]
  /\ pc \in {"move", "done"} /\ Whole => Cardinality(pairs) = lo + Suffix + Table[<<N, M>>]

LEMMA PairsAreFinite == ASSUME TypeOK PROVE IsFiniteSet(pairs) /\ Cardinality(pairs) \in Nat
<1>1. IsFiniteSet(Indices(a)) /\ IsFiniteSet(Indices(b))
  BY FS_Interval DEF TypeOK, Indices
<1>2. IsFiniteSet(Indices(a) \X Indices(b))
  BY <1>1, FS_Product
<1>3. pairs \in SUBSET (Indices(a) \X Indices(b))
  BY DEF TypeOK
<1> QED
  BY <1>2, <1>3, FS_Subset, FS_CardinalityType

LEMMA OneMore ==
  ASSUME TypeOK, NEW p, p \notin pairs
  PROVE  Cardinality(pairs \cup {p}) = Cardinality(pairs) + 1
  BY PairsAreFinite, FS_AddElement

LEMMA SameTable ==
  ASSUME UNCHANGED <<a, b, lo, ea, eb>>
  PROVE  Table' = Table /\ N' = N /\ M' = M /\ Suffix' = Suffix /\ Whole' = Whole
<1>1. N' = N /\ M' = M /\ Suffix' = Suffix /\ Whole' = Whole
  BY DEF N, M, Suffix, Whole
<1>2. Table' = Table
  BY <1>1 DEF Table, InBand, Width, Centre, N, M
<1> QED
  BY <1>1, <1>2

LEMMA CountedFirst == Init => Counted
<1> SUFFICES ASSUME Init PROVE Counted
  OBVIOUS
<1>1. Len(a) \in Nat /\ Len(b) \in Nat
  BY DEF Init, Streams
<1>2. Cardinality({}) = 0
  BY FS_EmptySet
<1> QED
  BY <1>1, <1>2 DEF Init, Counted, Suffix

LEMMA CountedFront == IInv /\ Counted /\ PeelFront => Counted'
<1> SUFFICES ASSUME IInv, Counted, PeelFront PROVE Counted'
  OBVIOUS
<1>0. /\ pc = "front" /\ Len(a) \in Nat /\ Len(b) \in Nat /\ lo \in Nat /\ TypeOK
      /\ ea = Len(a) /\ eb = Len(b) /\ UNCHANGED <<a, b, ea, eb>>
      /\ \A p \in pairs : p[1] <= lo /\ p[2] <= lo
  BY DEF PeelFront, IInv, TypeOK, Placed
<1>1. Suffix' = Len(b') - eb' /\ Suffix' = 0
  BY <1>0 DEF Suffix, Counted
<1>2. CASE lo < Len(a) /\ lo < Len(b) /\ Compat(a[lo + 1], b[lo + 1])
  <2>1. pairs' = pairs \cup {<<lo + 1, lo + 1>>} /\ lo' = lo + 1 /\ pc' = "front"
    BY <1>0, <1>2 DEF PeelFront
  <2>2. <<lo + 1, lo + 1>> \notin pairs
    BY <1>0
  <2>3. Cardinality(pairs') = lo'
    BY <1>0, <2>1, <2>2, OneMore DEF Counted
  <2> QED
    BY <1>1, <2>1, <2>3 DEF Counted
<1>3. CASE ~(lo < Len(a) /\ lo < Len(b) /\ Compat(a[lo + 1], b[lo + 1]))
  <2>1. pairs' = pairs /\ lo' = lo /\ pc' = "back"
    BY <1>3 DEF PeelFront
  <2>2. Cardinality(pairs') = lo' + Suffix'
    BY <1>0, <1>1, <2>1 DEF Counted
  <2> QED
    BY <1>1, <2>1, <2>2 DEF Counted
<1> QED
  BY <1>2, <1>3

LEMMA CountedBack == IInv /\ Counted /\ PeelBack => Counted'
<1> SUFFICES ASSUME IInv, Counted, PeelBack PROVE Counted'
  OBVIOUS
<1>0. /\ pc = "back" /\ Len(a) \in Nat /\ Len(b) \in Nat /\ lo \in Nat /\ TypeOK
      /\ ea \in Nat /\ eb \in Nat /\ UNCHANGED <<a, b, lo>>
      /\ \A p \in pairs : Behind(p, ea, eb)
  BY DEF PeelBack, IInv, TypeOK, Placed
<1>1. CASE ea > lo /\ eb > lo /\ Compat(a[ea], b[eb])
  <2>1. pairs' = pairs \cup {<<ea, eb>>} /\ ea' = ea - 1 /\ eb' = eb - 1 /\ pc' = "back"
    BY <1>0, <1>1 DEF PeelBack
  <2>2. <<ea, eb>> \notin pairs
    BY <1>0, <1>1 DEF Behind
  <2>3. Suffix' = Suffix + 1 /\ Suffix' = Len(b') - eb' /\ Suffix \in Int
    BY <1>0, <2>1 DEF Suffix, Counted
  <2>4. Cardinality(pairs') = lo' + Suffix'
    <3>1. Cardinality(pairs) = lo + Suffix
      BY <1>0 DEF Counted
    <3>2. Cardinality(pairs') = Cardinality(pairs) + 1
      BY <1>0, <2>1, <2>2, OneMore
    <3> QED
      BY <1>0, <2>3, <3>1, <3>2
  <2> QED
    BY <2>1, <2>3, <2>4 DEF Counted
<1>2. CASE ~(ea > lo /\ eb > lo /\ Compat(a[ea], b[eb]))
  <2>1. pc' = "walk" /\ i' = N /\ j' = M /\ pairs' = pairs /\ UNCHANGED <<a, b, lo, ea, eb>>
    BY <1>2 DEF PeelBack
  <2>2. Table' = Table /\ N' = N /\ M' = M /\ Suffix' = Suffix
    BY <2>1, SameTable
  <2>3. Cardinality(pairs') + Table'[<<i', j'>>] = lo' + Suffix' + Table'[<<N', M'>>]
    BY <1>0, <2>1, <2>2 DEF Counted
  <2>4. Suffix' = Len(b') - eb'
    BY <2>1, <2>2 DEF Counted
  <2> QED
    BY <2>1, <2>3, <2>4 DEF Counted
<1> QED
  BY <1>1, <1>2

LEMMA CountedWalk == IInv /\ Counted /\ Walk => Counted'
<1> SUFFICES ASSUME IInv, Counted, Walk PROVE Counted'
  OBVIOUS
<1> DEFINE Hit == /\ Compat(a[lo + i], b[lo + j])
                  /\ Table[<<i, j>>] = Table[<<i - 1, j - 1>>] + 1
<1>0. /\ pc = "walk" /\ lo \in Nat /\ TypeOK /\ N \in Nat /\ M \in Nat /\ i \in 0 .. N /\ j \in 0 .. M
      /\ UNCHANGED <<a, b, lo, ea, eb>> /\ Suffix \in Int /\ Cardinality(pairs) \in Nat
      /\ \A p \in pairs : Behind(p, lo + i, lo + j)
  <2>1. pc = "walk" /\ UNCHANGED <<a, b, lo, ea, eb>>
    BY DEF Walk
  <2>2. TypeOK /\ lo \in Nat /\ i \in 0 .. N /\ j \in 0 .. M /\ N \in Nat /\ M \in Nat
    BY DEF IInv, TypeOK, N, M
  <2>3. Suffix \in Int
    BY DEF IInv, TypeOK, Suffix
  <2>4. \A p \in pairs : Behind(p, lo + i, lo + j)
    BY <2>1 DEF IInv, Placed
  <2> QED
    BY <2>1, <2>2, <2>3, <2>4, PairsAreFinite
<1>1. Table' = Table /\ N' = N /\ M' = M /\ Suffix' = Suffix /\ Whole' = Whole
  BY <1>0, SameTable
<1>2. Suffix' = Len(b') - eb'
  BY <1>0, <1>1 DEF Counted
<1>3. CASE ~Whole
  <2>1. pc' \in {"walk", "move"}
    BY <1>0 DEF Walk
  <2> QED
    BY <1>1, <1>2, <1>3, <2>1 DEF Counted
<1>4. CASE Whole /\ i > 0 /\ j > 0
  <2>1. i \in 1 .. N /\ j \in 1 .. M /\ N * M <= Full
    BY <1>0, <1>4 DEF Whole
  <2>2. /\ Table[<<i, j>>] \in Nat /\ Table[<<i - 1, j - 1>>] \in Nat
        /\ Table[<<i - 1, j>>] \in Nat /\ Table[<<i, j - 1>>] \in Nat
        /\ Compat(a[lo + i], b[lo + j]) => Table[<<i, j>>] = Table[<<i - 1, j - 1>>] + 1
        /\ ~Compat(a[lo + i], b[lo + j]) =>
             Table[<<i, j>>] = IF Table[<<i - 1, j>>] >= Table[<<i, j - 1>>]
                               THEN Table[<<i - 1, j>>] ELSE Table[<<i, j - 1>>]
    BY <1>0, <2>1, TableRecurs
  <2>3. Cardinality(pairs) + Table[<<i, j>>] = lo + Suffix + Table[<<N, M>>]
    BY <1>0, <1>4 DEF Counted
  <2>4. CASE Hit
    <3>1. pairs' = pairs \cup {<<lo + i, lo + j>>} /\ i' = i - 1 /\ j' = j - 1 /\ pc' = "walk"
      BY <1>0, <1>4, <2>4 DEF Walk
    <3>2. <<lo + i, lo + j>> \notin pairs
      BY <1>0, <1>4 DEF Behind
    <3>3. Cardinality(pairs') = Cardinality(pairs) + 1
      BY <1>0, <3>1, <3>2, OneMore
    <3>4. Cardinality(pairs') + Table[<<i', j'>>] = lo + Suffix + Table[<<N, M>>]
      BY <1>0, <2>2, <2>3, <2>4, <3>1, <3>3
    <3> QED
      BY <1>0, <1>1, <1>2, <3>1, <3>4 DEF Counted
  <2>5. CASE ~Hit
    <3>1. ~Compat(a[lo + i], b[lo + j])
      BY <2>2, <2>5
    <3>2. pairs' = pairs /\ pc' = "walk" /\ Table[<<i', j'>>] = Table[<<i, j>>]
      BY <1>0, <1>4, <2>2, <2>5, <3>1 DEF Walk
    <3> QED
      BY <1>0, <1>1, <1>2, <2>3, <3>2 DEF Counted
  <2> QED
    BY <2>4, <2>5
<1>5. CASE Whole /\ ~(i > 0 /\ j > 0)
  <2>1. pairs' = pairs /\ pc' = "move"
    BY <1>5 DEF Walk
  <2>2. Table[<<i, j>>] = 0
    BY <1>0, <1>5, TableEdge
  <2>3. Cardinality(pairs) = lo + Suffix + Table[<<N, M>>]
    BY <1>0, <1>5, <2>2 DEF Counted
  <2> QED
    BY <1>0, <1>1, <1>2, <2>1, <2>3 DEF Counted
<1> QED
  BY <1>3, <1>4, <1>5

LEMMA CountedStep == IInv /\ Counted /\ [Next]_vars => Counted'
<1> SUFFICES ASSUME IInv, Counted, [Next]_vars PROVE Counted'
  OBVIOUS
<1>1. CASE PeelFront
  BY <1>1, CountedFront
<1>2. CASE PeelBack
  BY <1>2, CountedBack
<1>3. CASE Walk
  BY <1>3, CountedWalk
<1>4. CASE Move
  <2>1. UNCHANGED <<a, b, lo, ea, eb, pairs>> /\ pc = "move" /\ pc' \in {"move", "done"}
    BY <1>4 DEF Move
  <2>2. Table' = Table /\ N' = N /\ M' = M /\ Suffix' = Suffix /\ Whole' = Whole
    BY <2>1, SameTable
  <2> QED
    BY <2>1, <2>2 DEF Counted
<1>5. CASE UNCHANGED vars
  <2>1. UNCHANGED <<a, b, lo, ea, eb, i, j, pairs, pc>>
    BY <1>5 DEF vars
  <2>2. Table' = Table /\ N' = N /\ M' = M /\ Suffix' = Suffix /\ Whole' = Whole
    BY <2>1, SameTable
  <2> QED
    BY <2>1, <2>2 DEF Counted
<1> QED
  BY <1>1, <1>2, <1>3, <1>4, <1>5 DEF Next

LEMMA CountedAlways == Spec => [](IInv /\ Counted)
<1>1. Init => IInv /\ Counted
  BY InitIInv, CountedFirst
<1>2. IInv /\ Counted /\ [Next]_vars => (IInv /\ Counted)'
  BY StepIInv, CountedStep
<1> QED
  BY <1>1, <1>2, PTL DEF Spec

\* The pairs of one end of a chain number no more than the end has places: the
\* smaller of a pair's two distances from that end is never another pair's.
Near(x, y) == IF x < y THEN x ELSE y

LEMMA EndOfAChain ==
  ASSUME NEW c, NEW n \in Nat, NEW d1 \in [c -> Nat], NEW d2 \in [c -> Nat],
         \A p \in c : d1[p] < n \/ d2[p] < n,
         \A p, q \in c : d1[p] < d1[q] <=> d2[p] < d2[q],
         \A p, q \in c : d1[p] = d1[q] => p = q
  PROVE  IsFiniteSet(c) /\ Cardinality(c) <= n
<1> DEFINE f == [p \in c |-> Near(d1[p], d2[p])]
<1>1. f \in [c -> 0 .. n - 1]
  BY DEF Near
<1>2. \A p, q \in c : f[p] = f[q] => p = q
  <2> SUFFICES ASSUME NEW p \in c, NEW q \in c, f[p] = f[q] PROVE p = q
    OBVIOUS
  <2>1. /\ d1[p] < d1[q] <=> d2[p] < d2[q]
        /\ d1[q] < d1[p] <=> d2[q] < d2[p]
    OBVIOUS
  <2>2. Near(d1[p], d2[p]) = Near(d1[q], d2[q])
    OBVIOUS
  <2>3. d1[p] \in Nat /\ d1[q] \in Nat /\ d2[p] \in Nat /\ d2[q] \in Nat
    OBVIOUS
  <2>4. d1[p] = d1[q]
    BY <2>1, <2>2, <2>3 DEF Near
  <2> QED
    BY <2>4
<1> HIDE DEF f
<1>3. f \in Injection(c, 0 .. n - 1)
  BY <1>1, <1>2 DEF Injection, IsInjective
<1>4. IsFiniteSet(0 .. n - 1) /\ Cardinality(0 .. n - 1) = n
  BY FS_Interval
<1> QED
  BY <1>3, <1>4, FS_Injection

LEMMA UnionIsNoLarger ==
  ASSUME NEW S, IsFiniteSet(S), NEW T, IsFiniteSet(T)
  PROVE  IsFiniteSet(S \cup T) /\ Cardinality(S \cup T) <= Cardinality(S) + Cardinality(T)
<1>1. Cardinality(S) \in Nat /\ Cardinality(T) \in Nat
  BY FS_CardinalityType
<1>2. IsFiniteSet(S \cap T)
  BY FS_Intersection
<1>3. Cardinality(S \cap T) \in Nat
  BY <1>2, FS_CardinalityType
<1>4. IsFiniteSet(S \cup T) /\ Cardinality(S \cup T) = Cardinality(S) + Cardinality(T) - Cardinality(S \cap T)
  BY FS_Union
<1> QED
  BY <1>1, <1>3, <1>4

LEMMA SmallerTerms ==
  ASSUME NEW x \in Nat, NEW y \in Nat, NEW u \in Nat, NEW v \in Nat, x <= u, y <= v
  PROVE  x + y <= u + v
  OBVIOUS

LEMMA FromTheEnd ==
  ASSUME NEW n \in Nat, NEW x \in Nat, NEW y \in Nat
  PROVE  n - x < n - y <=> y < x
  OBVIOUS

LEMMA NoChainIsLonger ==
  ASSUME IInv, Counted, Done, Whole, NEW c \in Chains
  PROVE  Cardinality(c) <= Cardinality(pairs)
<1> DEFINE F == {p \in c : p[1] <= lo \/ p[2] <= lo}
           B == {p \in c : ~(p[1] <= lo \/ p[2] <= lo) /\ (p[1] > ea \/ p[2] > eb)}
           C == {p \in c : ~(p[1] <= lo \/ p[2] <= lo) /\ ~(p[1] > ea \/ p[2] > eb)}
<1>1. /\ TypeOK /\ lo \in Nat /\ ea \in Nat /\ eb \in Nat /\ Len(a) \in Nat /\ Len(b) \in Nat
      /\ lo <= ea /\ lo <= eb /\ ea <= Len(a) /\ eb <= Len(b)
      /\ N \in Nat /\ M \in Nat /\ lo + N = ea /\ lo + M = eb
      /\ Suffix \in Nat /\ Suffix = Len(a) - ea /\ Suffix = Len(b) - eb
  BY DEF IInv, Counted, TypeOK, N, M, Suffix
<1>2. \A p \in c : p[1] \in 1 .. Len(a) /\ p[2] \in 1 .. Len(b) /\ p = <<p[1], p[2]>>
  BY DEF Chains, Indices
<1>3. \A p \in c : Compat(a[p[1]], b[p[2]])
  BY DEF Chains
<1>4. \A p, q \in c : p[1] < q[1] <=> p[2] < q[2]
  BY DEF Chains
<1>5. \A p, q \in c : p[1] = q[1] => p = q
  <2> SUFFICES ASSUME NEW p \in c, NEW q \in c, p[1] = q[1] PROVE p = q
    OBVIOUS
  <2>1. p[2] \in Nat /\ q[2] \in Nat /\ p[1] \in Nat
    BY <1>1, <1>2
  <2>2. ~(p[2] < q[2]) /\ ~(q[2] < p[2])
    BY <1>4, <2>1
  <2> QED
    BY <1>2, <2>1, <2>2
<1>6. \A p \in c : p[1] \in Nat \ {0} /\ p[2] \in Nat \ {0} /\ p[1] <= Len(a) /\ p[2] <= Len(b)
  BY <1>1, <1>2
<1>7. IsFiniteSet(F) /\ Cardinality(F) <= lo
  <2> DEFINE d1 == [p \in F |-> p[1] - 1]
             d2 == [p \in F |-> p[2] - 1]
  <2>1. d1 \in [F -> Nat] /\ d2 \in [F -> Nat]
    BY <1>6
  <2>2. \A p \in F : d1[p] < lo \/ d2[p] < lo
    BY <1>1, <1>6
  <2>3. \A p, q \in F : d1[p] < d1[q] <=> d2[p] < d2[q]
    BY <1>4, <1>6
  <2>4. \A p, q \in F : d1[p] = d1[q] => p = q
    BY <1>5, <1>6
  <2> HIDE DEF d1, d2, F
  <2> QED
    BY <1>1, <2>1, <2>2, <2>3, <2>4, EndOfAChain
<1>8. IsFiniteSet(B) /\ Cardinality(B) <= Suffix
  <2> DEFINE d1 == [p \in B |-> Len(a) - p[1]]
             d2 == [p \in B |-> Len(b) - p[2]]
  <2>1. d1 \in [B -> Nat] /\ d2 \in [B -> Nat]
    BY <1>1, <1>6
  <2>2. \A p \in B : d1[p] < Suffix \/ d2[p] < Suffix
    BY <1>1, <1>6
  <2>3. \A p, q \in B : d1[p] < d1[q] <=> d2[p] < d2[q]
    <3> SUFFICES ASSUME NEW p \in B, NEW q \in B PROVE d1[p] < d1[q] <=> d2[p] < d2[q]
      OBVIOUS
    <3>1. q[1] < p[1] <=> q[2] < p[2]
      BY <1>4
    <3>2. p[1] \in Nat /\ q[1] \in Nat /\ p[2] \in Nat /\ q[2] \in Nat
      BY <1>6
    <3>3. /\ d1[p] = Len(a) - p[1] /\ d1[q] = Len(a) - q[1]
          /\ d2[p] = Len(b) - p[2] /\ d2[q] = Len(b) - q[2]
      OBVIOUS
    <3> HIDE DEF d1, d2, B
    <3>4. Len(a) \in Nat /\ Len(b) \in Nat
      BY <1>1
    <3>5. d1[p] < d1[q] <=> q[1] < p[1]
      BY <3>2, <3>3, <3>4, FromTheEnd
    <3>6. d2[p] < d2[q] <=> q[2] < p[2]
      BY <3>2, <3>3, <3>4, FromTheEnd
    <3> QED
      BY <3>1, <3>5, <3>6
  <2>4. \A p, q \in B : d1[p] = d1[q] => p = q
    BY <1>1, <1>5, <1>6
  <2> HIDE DEF d1, d2, B
  <2> QED
    BY <1>1, <2>1, <2>2, <2>3, <2>4, EndOfAChain
<1>9. MiddleChain(C, N, M)
  <2>1. \A p \in C : p[1] \in lo + 1 .. lo + N /\ p[2] \in lo + 1 .. lo + M
    BY <1>1, <1>6
  <2>2. C \subseteq (lo + 1 .. lo + N) \X (lo + 1 .. lo + M)
    BY <1>2, <2>1
  <2> QED
    BY <1>3, <1>4, <2>2 DEF MiddleChain
<1> HIDE DEF F, B, C
<1>10. IsFiniteSet(C) /\ Cardinality(C) <= Table[<<N, M>>]
  <2>1. N \in 0 .. N /\ M \in 0 .. M /\ N * M <= Full
    BY <1>1 DEF Whole
  <2> QED
    BY <1>1, <1>9, <2>1, NoLongerThanItsCell, ChainIsFinite
<1>11. c = F \cup (B \cup C)
  BY DEF F, B, C
<1>12. /\ Cardinality(F) \in Nat /\ Cardinality(B) \in Nat /\ Cardinality(C) \in Nat
       /\ Table[<<N, M>>] \in Nat
  <2>1. <<N, M>> \in Cells
    BY <1>1 DEF Cells
  <2> QED
    BY <1>1, <1>7, <1>8, <1>10, <2>1, FS_CardinalityType, TableNumbers
<1>13. IsFiniteSet(B \cup C) /\ Cardinality(B \cup C) <= Cardinality(B) + Cardinality(C)
  BY <1>8, <1>10, UnionIsNoLarger
<1>14. IsFiniteSet(c) /\ Cardinality(c) <= Cardinality(F) + Cardinality(B \cup C)
  BY <1>7, <1>11, <1>13, UnionIsNoLarger
<1>15. Cardinality(pairs) = lo + Suffix + Table[<<N, M>>]
  BY DEF Counted, Done
<1>16. Cardinality(c) \in Nat /\ Cardinality(B \cup C) \in Nat
  BY <1>13, <1>14, FS_CardinalityType
<1>17. Cardinality(c) <= lo + (Suffix + Table[<<N, M>>])
  <2>1. Cardinality(B) + Cardinality(C) <= Suffix + Table[<<N, M>>]
    BY <1>1, <1>8, <1>10, <1>12, SmallerTerms
  <2>2. Cardinality(B \cup C) <= Suffix + Table[<<N, M>>]
    BY <1>1, <1>12, <1>13, <1>16, <2>1
  <2>3. Cardinality(F) + Cardinality(B \cup C) <= lo + (Suffix + Table[<<N, M>>])
    BY <1>1, <1>7, <1>12, <1>16, <2>2, SmallerTerms
  <2> QED
    BY <1>1, <1>12, <1>14, <1>16, <2>3
<1> QED
  BY <1>1, <1>12, <1>15, <1>17

\* lcs(): "Longest common subsequence under compat": where the whole table was
\* filled nothing is longer than the anchors, whatever the streams are.
THEOREM AnchorsAreLongest == Spec => []PairsAreLongest
<1>1. IInv /\ Counted => PairsAreLongest
  BY NoChainIsLonger DEF PairsAreLongest, Whole
<1> QED
  BY <1>1, CountedAlways, PTL

-----------------------------------------------------------------------------
(* The two calls of the fuzz target. *)

\* Whatever is kept by one call of compare() and holds where a call begins is
\* kept by both: the second call begins as any call on two such streams does.
Kept == IInv /\ Searched /\ Counted
StreamsKept == a \in Streams /\ b \in Streams

LEMMA SecondBegins == StreamsKept /\ SwapSides => Init' /\ StreamsKept'
  BY DEF StreamsKept, SwapSides, Init, Streams

LEMMA OneCallAtATime ==
  /\ BothInit => Init /\ StreamsKept
  /\ StreamsKept /\ [BothNext]_bothVars => StreamsKept' /\ ([Next]_vars \/ Init')
<1>1. BothInit => Init /\ StreamsKept
  BY DEF BothInit, Init, StreamsKept
<1>2. ASSUME StreamsKept, [BothNext]_bothVars PROVE StreamsKept' /\ ([Next]_vars \/ Init')
  <2>1. CASE SwapSides
    BY <1>2, <2>1, SecondBegins
  <2>2. CASE Comparing \/ UNCHANGED bothVars
    <3>1. [Next]_vars
      BY <2>2 DEF Comparing, bothVars
    <3>2. a' = a /\ b' = b
      BY <3>1 DEF Next, PeelFront, PeelBack, Walk, Move, vars
    <3> QED
      BY <1>2, <3>1, <3>2 DEF StreamsKept
  <2> QED
    BY <1>2, <2>1, <2>2 DEF BothNext
<1> QED
  BY <1>1, <1>2

LEMMA BothKeep == BothSpec => [](StreamsKept /\ Kept)
<1>1. Init => Kept
  BY InitIInv, SearchedFirst, CountedFirst DEF Kept
<1>2. Init' => Kept'
  BY <1>1, PTL
<1>3. Kept /\ [Next]_vars => Kept'
  BY StepIInv, SearchedStep, CountedStep DEF Kept
<1>4. StreamsKept /\ Kept /\ [BothNext]_bothVars => (StreamsKept /\ Kept)'
  BY <1>2, <1>3, OneCallAtATime
<1> QED
  BY <1>1, <1>4, OneCallAtATime, PTL DEF BothSpec

\* What one call of compare() keeps holds throughout both.
THEOREM BothCallsKeep ==
  BothSpec => [](PairsAreACommonSubsequence /\ NothingPairedTwice /\ PairsAreLongest /\ EveryRecordAnswered)
<1>1. Kept => PairsAreLongest
  BY NoChainIsLonger DEF Kept, PairsAreLongest, Whole
<1>2. Kept => PairsAreACommonSubsequence /\ NothingPairedTwice /\ EveryRecordAnswered
  BY NeverPairedTwice, AnsweredWhenSearched DEF Kept, IInv
<1> QED
  BY <1>1, <1>2, BothKeep, PTL

\* The first call answered whether the streams are the same, which they are on
\* either side, unless they agree further apart than a step.
FirstAnswer == answers = <<>> \/ (Same /\ ~Close) \/ answers = <<Same>>

LEMMA AgreeEitherWay ==
  \A r, s \in Rec : (Agree(r, s) <=> Agree(s, r)) /\ (Beside(r, s) <=> Beside(s, r))
<1> SUFFICES ASSUME NEW r \in Rec, NEW s \in Rec
             PROVE (Agree(r, s) <=> Agree(s, r)) /\ (Beside(r, s) <=> Beside(s, r))
  OBVIOUS
<1>1. \A x, y \in Nat : Dist(x, y) = Dist(y, x)
  BY DEF Dist
<1>2. \A x, y \in Nat : Within(x, y) <=> Within(y, x)
  BY <1>1, Zenon DEF Within
<1>3. r.at \in Nat \cup {NoAt} /\ s.at \in Nat \cup {NoAt}
  BY AlignAssumption
<1>4. CASE r.at = NoAt \/ s.at = NoAt
  BY <1>4, AlignAssumption DEF Agree, Beside
<1>5. CASE r.at \in Nat /\ s.at \in Nat
  BY <1>1, <1>2, <1>5, Zenon DEF Agree, Beside
<1> QED
  BY <1>3, <1>4, <1>5

\* The two streams on the other sides are the same, and as close, as before.
LEMMA SameEitherWay == IInv /\ SwapSides => Same' = Same /\ (Same => Close' = Close)
<1> SUFFICES ASSUME IInv, SwapSides PROVE Same' = Same /\ (Same => Close' = Close)
  OBVIOUS
<1>1. a' = b /\ b' = a
  BY DEF SwapSides
<1>2. ASSUME Len(a) = Len(b), NEW x \in Indices(a)
      PROVE  /\ Agree(a[x], b[x]) <=> Agree(b[x], a[x])
             /\ Beside(a[x], b[x]) <=> Beside(b[x], a[x])
  <2>1. a[x] \in Rec /\ b[x] \in Rec
    BY <1>2 DEF IInv, TypeOK, Indices
  <2> QED
    BY <2>1, AgreeEitherWay
<1>3. Same <=> (Len(b) = Len(a) /\ \A x \in Indices(b) : Agree(b[x], a[x]))
  BY <1>2 DEF Same, Indices
<1>4. Same' <=> (Len(b) = Len(a) /\ \A x \in Indices(b) : Agree(b[x], a[x]))
  BY <1>1 DEF Same, Indices
<1>5. Same \in BOOLEAN /\ Same' \in BOOLEAN /\ Close \in BOOLEAN /\ Close' \in BOOLEAN
  BY DEF Same, Close
<1>6. Same => (Close <=> \A x \in Indices(b) : Beside(b[x], a[x]))
  <2> SUFFICES ASSUME Same PROVE Close <=> \A x \in Indices(b) : Beside(b[x], a[x])
    OBVIOUS
  <2>1. Len(a) = Len(b) /\ Indices(a) = Indices(b)
    BY DEF Same, Indices
  <2> QED
    BY <1>2, <2>1 DEF Close
<1>7. Close' <=> \A x \in Indices(b) : Beside(b[x], a[x])
  BY <1>1 DEF Close, Indices
<1> QED
  BY <1>3, <1>4, <1>5, <1>6, <1>7

LEMMA SameStays == [Next]_vars => Same' = Same /\ Close' = Close
<1> SUFFICES ASSUME [Next]_vars PROVE Same' = Same /\ Close' = Close
  OBVIOUS
<1>1. a' = a /\ b' = b
  BY DEF Next, PeelFront, PeelBack, Walk, Move, vars
<1> QED
  BY <1>1 DEF Same, Close, Indices

\* The fuzz target's assertion, for streams of any length and any tolerance:
\* "compare(a, b) and compare(b, a)" disagree on equal-or-not only on streams that
\* agree record by record with two of their records more than a step apart.
THEOREM SidesDoNotMatter == BothSpec => [](MatchIsSame /\ MatchIsSymmetric)
<1> DEFINE Exact == SamePeels /\ FirstAnswer
<1>1. IInv /\ SamePeels => MatchIsSame
  BY NoFindingIsSame, SameIsNoFinding DEF MatchIsSame
<1>2. Init => SamePeels
  BY DEF Init, SamePeels, Peeled
<1>3. Init' => SamePeels'
  BY <1>2, PTL
<1>4. BothInit => Exact
  BY <1>2 DEF BothInit, FirstAnswer
<1>5. ASSUME StreamsKept, Kept, Exact, [BothNext]_bothVars PROVE Exact'
  <2>1. SamePeels'
    BY <1>3, <1>5, OneCallAtATime, SameStep DEF Kept
  <2>2. FirstAnswer'
    <3>1. CASE SwapSides
      <4>1. Same' = Same /\ (Same => Close' = Close)
        BY <1>5, <3>1, SameEitherWay DEF Kept
      <4>2. answers' = <<IsMatch>>
        BY <3>1 DEF SwapSides
      <4>3. CASE Same /\ ~Close
        BY <4>1, <4>3 DEF FirstAnswer
      <4>4. CASE ~(Same /\ ~Close)
        <5>1. IsMatch <=> Same
          BY <1>1, <1>5, <3>1, <4>4 DEF Kept, MatchIsSame, SwapSides
        <5>2. IsMatch = Same
          BY <5>1 DEF IsMatch, Same
        <5> QED
          BY <4>1, <4>2, <5>2 DEF FirstAnswer
      <4> QED
        BY <4>3, <4>4
    <3>2. CASE Comparing \/ UNCHANGED bothVars
      <4>1. [Next]_vars /\ answers' = answers
        BY <3>2 DEF Comparing, bothVars
      <4> QED
        BY <1>5, <4>1, SameStays DEF FirstAnswer
    <3> QED
      BY <1>5, <3>1, <3>2 DEF BothNext
  <2> QED
    BY <2>1, <2>2
<1>6. Kept /\ Exact => MatchIsSame /\ MatchIsSymmetric
  <2>0. Kept /\ Exact => MatchIsSame
    BY <1>1 DEF Kept
  <2> SUFFICES ASSUME Kept, Exact, Done, Same => Close, NEW n \in DOMAIN answers
               PROVE  answers[n] = IsMatch
    BY <2>0 DEF MatchIsSymmetric, MatchBothWays
  <2>1. IsMatch <=> Same
    BY <1>1 DEF Kept, MatchIsSame
  <2>2. IsMatch = Same
    BY <2>1 DEF IsMatch, Same
  <2> QED
    BY <2>2 DEF FirstAnswer
<1>7. StreamsKept /\ Kept /\ Exact /\ [BothNext]_bothVars => Exact'
  BY <1>5
<1> HIDE DEF Exact
<1> QED
  BY <1>4, <1>6, <1>7, BothKeep, PTL DEF BothSpec
=============================================================================
