----------------------------- MODULE Walks_proofs -----------------------------
(***************************************************************************)
(* The two walks of an emitter.  Whatever refers to whatever in a drawing, *)
(* the walk of Emit.tla opens no block twice, nests no deeper than the     *)
(* limit, and is back where it was when a block ends.  Whatever a document *)
(* is, the walk over the dictionaries of src/acadrust_model1.rs finds what *)
(* can be reached, however many dictionaries there are and whoever refers  *)
(* to whom; for that nothing looks into a path or a key.  What is then     *)
(* said of the paths is that each is a text, and where they stay apart.    *)
(*                                                                         *)
(* What an entity becomes, and what the walk over a drawing has in hand,   *)
(* are records the schema has lines for, each with an entry.               *)
(***************************************************************************)
EXTENDS Emit, Canonical, Dictionaries, SequenceTheorems, FiniteSetTheorems, WellFoundedInduction, TLAPS

-----------------------------------------------------------------------------
(* The drawing. *)

\* What a frame is known by.
Marks == {"block", "path", "saved"}

\* The frames fr, the active names ac and the path a warning carries, a: the
\* names are the blocks of the frames above the view's, none twice; each frame
\* remembers where the one below it stands.
Way(fr, ac, a) ==
  /\ \E S : fr \in Seq(S) /\ \A f \in S : Marks \subseteq DOMAIN f
  /\ \E B : ac \in Seq(B)
  /\ fr = <<>> => ac = <<>> /\ a = <<>>
  /\ fr # <<>> =>
       /\ Len(fr) = Len(ac) + 1
       /\ \A i \in 1..Len(ac) : ac[i] = fr[i + 1].block
       /\ \A i, j \in 1..Len(ac) : ac[i] = ac[j] => i = j
       /\ Len(ac) <= MaxDepth
       /\ fr[1].path = <<>>
       /\ a = fr[Len(fr)].path
       /\ \A i \in 2..Len(fr) : fr[i].saved = fr[i - 1].path

WayInv == Way(frames, active, at)

-----------------------------------------------------------------------------

\* Taking the last frame off leaves the others.
LEMMA FrontOf ==
  ASSUME NEW S, NEW fr \in Seq(S), fr # <<>>
  PROVE  /\ SubSeq(fr, 1, Len(fr) - 1) \in Seq(S)
         /\ Len(SubSeq(fr, 1, Len(fr) - 1)) = Len(fr) - 1
         /\ \A i \in 1..(Len(fr) - 1) : SubSeq(fr, 1, Len(fr) - 1)[i] = fr[i]
         /\ Len(fr) \in Nat \ {0}
<1>1. Len(fr) \in Nat /\ Len(fr) # 0
  BY EmptySeq, LenProperties
<1>2. 1 \in Int /\ Len(fr) - 1 \in Int /\ Len(fr) - 1 - 1 + 1 = Len(fr) - 1
  BY <1>1
<1>3. \A i \in 1..(Len(fr) - 1) : fr[i] \in S /\ 1 + i - 1 = i
  <2> TAKE i \in 1..(Len(fr) - 1)
  <2>1. i \in 1..Len(fr) /\ 1 + i - 1 = i
    BY <1>1
  <2> QED
    BY <2>1, ElementOfSeq
<1> DEFINE front == SubSeq(fr, 1, Len(fr) - 1)
<1>4. /\ front \in Seq(S)
      /\ Len(front) = IF 1 <= Len(fr) - 1 THEN Len(fr) - 1 - 1 + 1 ELSE 0
      /\ \A i \in 1..(Len(fr) - 1 - 1 + 1) : front[i] = fr[1 + i - 1]
  BY <1>2, <1>3, SubSeqProperties
<1> HIDE DEF front
<1>5. Len(front) = Len(fr) - 1
  <2>1. \A n \in Nat : n # 0 => (IF 1 <= n - 1 THEN n - 1 - 1 + 1 ELSE 0) = n - 1
    OBVIOUS
  <2>2. (IF 1 <= Len(fr) - 1 THEN Len(fr) - 1 - 1 + 1 ELSE 0) = Len(fr) - 1
    BY <2>1, <1>1, Zenon
  <2>3. Len(front) = IF 1 <= Len(fr) - 1 THEN Len(fr) - 1 - 1 + 1 ELSE 0
    BY <1>4
  <2> QED
    BY <2>2, <2>3
<1>6. \A i \in 1..(Len(fr) - 1) : front[i] = fr[i]
  <2> TAKE i \in 1..(Len(fr) - 1)
  <2>1. i \in 1..(Len(fr) - 1 - 1 + 1)
    BY <1>2
  <2>2. front[i] = fr[1 + i - 1]
    BY <2>1, <1>4
  <2> QED
    BY <2>2, <1>3
<1> QED
  BY <1>1, <1>4, <1>5, <1>6 DEF front

\* Putting a frame on top.
LEMMA PutOn ==
  ASSUME NEW S, NEW fr \in Seq(S), NEW g
  PROVE  /\ Append(fr, g) \in Seq(S \cup {g})
         /\ Len(Append(fr, g)) = Len(fr) + 1
         /\ \A i \in 1..Len(fr) : Append(fr, g)[i] = fr[i]
         /\ Append(fr, g)[Len(fr) + 1] = g
         /\ Append(fr, g) # <<>>
<1>1. fr \in Seq(S \cup {g})
  BY SeqMonotonic
<1>2. g \in S \cup {g}
  OBVIOUS
<1>3. Len(fr) \in Nat
  BY LenProperties
<1> QED
  BY <1>1, <1>2, <1>3, AppendProperties

\* The top frame is replaced by one that stands for the same block.
LEMMA Replace ==
  ASSUME NEW fr, NEW ac, NEW a, NEW g, Way(fr, ac, a), fr # <<>>,
         Marks \subseteq DOMAIN g,
         g.block = fr[Len(fr)].block, g.path = fr[Len(fr)].path, g.saved = fr[Len(fr)].saved
  PROVE  Way(Append(SubSeq(fr, 1, Len(fr) - 1), g), ac, a)
<1> DEFINE rest == SubSeq(fr, 1, Len(fr) - 1)
           new  == Append(rest, g)
<1>1. PICK S : fr \in Seq(S) /\ \A f \in S : Marks \subseteq DOMAIN f
  BY DEF Way
<1>2. /\ rest \in Seq(S) /\ Len(rest) = Len(fr) - 1
      /\ \A i \in 1..(Len(fr) - 1) : rest[i] = fr[i]
      /\ Len(fr) \in Nat \ {0}
  BY <1>1, FrontOf
<1>3. /\ new \in Seq(S \cup {g}) /\ Len(new) = Len(fr)
      /\ \A i \in 1..(Len(fr) - 1) : new[i] = fr[i]
      /\ new[Len(fr)] = g /\ new # <<>>
  <2> HIDE DEF rest
  <2>1. /\ Append(rest, g) \in Seq(S \cup {g}) /\ Len(Append(rest, g)) = Len(rest) + 1
        /\ \A i \in 1..Len(rest) : Append(rest, g)[i] = rest[i]
        /\ Append(rest, g)[Len(rest) + 1] = g /\ Append(rest, g) # <<>>
    BY <1>2, PutOn
  <2> QED
    BY <2>1, <1>2
<1>4. \A f \in S \cup {g} : Marks \subseteq DOMAIN f
  BY <1>1
<1> HIDE DEF new
<1>5. \A i \in 1..Len(fr) : /\ new[i].block = fr[i].block
                            /\ new[i].path = fr[i].path
                            /\ new[i].saved = fr[i].saved
  BY <1>2, <1>3
<1>6. Way(new, ac, a)
  <2>1. /\ Len(fr) = Len(ac) + 1
        /\ \A i \in 1..Len(ac) : ac[i] = fr[i + 1].block
        /\ \A i, j \in 1..Len(ac) : ac[i] = ac[j] => i = j
        /\ Len(ac) <= MaxDepth /\ fr[1].path = <<>> /\ a = fr[Len(fr)].path
        /\ \A i \in 2..Len(fr) : fr[i].saved = fr[i - 1].path
        /\ \E B : ac \in Seq(B)
    BY DEF Way
  <2>2. Len(ac) \in Nat
    BY <2>1, LenProperties
  <2>3. \A i \in 1..Len(ac) : ac[i] = new[i + 1].block
    BY <2>1, <2>2, <1>2, <1>5
  <2>4. new[1].path = <<>> /\ a = new[Len(new)].path
    BY <2>1, <2>2, <1>2, <1>3, <1>5
  <2>5. \A i \in 2..Len(new) : new[i].saved = new[i - 1].path
    <3> TAKE i \in 2..Len(new)
    <3>1. i \in 1..Len(fr) /\ i - 1 \in 1..Len(fr) /\ i \in 2..Len(fr)
      BY <1>2, <1>3
    <3> QED
      BY <3>1, <2>1, <1>5
  <2>6. \E T : new \in Seq(T) /\ \A f \in T : Marks \subseteq DOMAIN f
    BY <1>3, <1>4
  <2> QED
    BY <2>1, <2>3, <2>4, <2>5, <2>6, <1>3 DEF Way
<1> QED
  BY <1>6 DEF new

\* One more block is opened: a frame and a name, both new.
LEMMA Push ==
  ASSUME NEW fr, NEW ac, NEW a, NEW g, Way(fr, ac, a), fr # <<>>,
         Marks \subseteq DOMAIN g, g.saved = a,
         Len(ac) < MaxDepth, \A i \in DOMAIN ac : ac[i] # g.block
  PROVE  Way(Append(fr, g), Append(ac, g.block), g.path)
<1> DEFINE b == g.block
           new == Append(fr, g)
           names == Append(ac, b)
<1>1. PICK S : fr \in Seq(S) /\ \A f \in S : Marks \subseteq DOMAIN f
  BY DEF Way
<1>2. PICK B : ac \in Seq(B)
  BY DEF Way
<1>3. /\ new \in Seq(S \cup {g}) /\ Len(new) = Len(fr) + 1
      /\ \A i \in 1..Len(fr) : new[i] = fr[i]
      /\ new[Len(fr) + 1] = g /\ new # <<>>
  BY <1>1, PutOn
<1>4. /\ names \in Seq(B \cup {b}) /\ Len(names) = Len(ac) + 1
      /\ \A i \in 1..Len(ac) : names[i] = ac[i]
      /\ names[Len(ac) + 1] = b
  <2> HIDE DEF b
  <2> QED
    BY <1>2, PutOn
<1>5. \A f \in S \cup {g} : Marks \subseteq DOMAIN f
  BY <1>1
<1>6. /\ Len(fr) = Len(ac) + 1
      /\ \A i \in 1..Len(ac) : ac[i] = fr[i + 1].block
      /\ \A i, j \in 1..Len(ac) : ac[i] = ac[j] => i = j
      /\ Len(ac) <= MaxDepth /\ fr[1].path = <<>> /\ a = fr[Len(fr)].path
      /\ \A i \in 2..Len(fr) : fr[i].saved = fr[i - 1].path
  BY DEF Way
<1>7. Len(ac) \in Nat /\ DOMAIN ac = 1..Len(ac) /\ MaxDepth \in Nat
  BY <1>2, LenProperties, EmitAssumption DEF EmitAssumption
<1> HIDE DEF new, names
<1>0. 1..Len(names) = 1..Len(ac) \cup {Len(ac) + 1}
  BY <1>4, <1>7
<1>8. \A i \in 1..Len(names) : names[i] = new[i + 1].block
  <2>1. \A i \in 1..Len(ac) : names[i] = new[i + 1].block
    <3> TAKE i \in 1..Len(ac)
    <3>1. i + 1 \in 1..Len(fr)
      BY <1>6, <1>7
    <3> QED
      BY <3>1, <1>3, <1>4, <1>6
  <2>2. names[Len(ac) + 1] = new[Len(ac) + 1 + 1].block
    BY <1>3, <1>4, <1>6
  <2> QED
    BY <2>1, <2>2, <1>0
<1>9. \A i, j \in 1..Len(names) : names[i] = names[j] => i = j
  <2>1. \A i \in 1..Len(ac) : names[i] = ac[i] /\ ac[i] # b
    BY <1>4, <1>7
  <2> QED
    BY <2>1, <1>0, <1>4, <1>6
<1>10. new[1].path = <<>> /\ g.path = new[Len(new)].path
  BY <1>3, <1>6, <1>7
<1>11. \A i \in 2..Len(new) : new[i].saved = new[i - 1].path
  BY <1>3, <1>6, <1>7
<1>12. Len(new) = Len(names) + 1 /\ Len(names) <= MaxDepth
  BY <1>3, <1>4, <1>6, <1>7
<1>13. \E T : new \in Seq(T) /\ \A f \in T : Marks \subseteq DOMAIN f
  BY <1>3, <1>5
<1>14. \E C : names \in Seq(C)
  BY <1>4
<1>15. Way(new, names, g.path)
  BY <1>3, <1>8, <1>9, <1>10, <1>11, <1>12, <1>13, <1>14 DEF Way
<1> QED
  BY <1>15 DEF new, names

\* Leaving the innermost block takes its name, the last one, and no other.
LEMMA LeftIsFront ==
  ASSUME NEW B, NEW ac \in Seq(B), ac # <<>>,
         \A i, j \in 1..Len(ac) : ac[i] = ac[j] => i = j
  PROVE  /\ Left(ac, ac[Len(ac)]) \in Seq(B)
         /\ Len(Left(ac, ac[Len(ac)])) = Len(ac) - 1
         /\ \A i \in 1..(Len(ac) - 1) : Left(ac, ac[Len(ac)])[i] = ac[i]
<1> DEFINE n == Len(ac)
           front == SubSeq(ac, 1, n - 1)
<1>1. /\ front \in Seq(B) /\ Len(front) = n - 1
      /\ \A i \in 1..(n - 1) : front[i] = ac[i]
      /\ n \in Nat \ {0}
  BY FrontOf
<1>2. {i \in DOMAIN ac : ac[i] = ac[n]} = {n}
  BY <1>1, LenProperties
<1>3. (CHOOSE i \in {n} : \A j \in {n} : j <= i) = n
  BY <1>1
<1>4. SubSeq(ac, n + 1, Len(ac)) = <<>>
  BY <1>1, SubSeqEmpty
<1>5. Left(ac, ac[n]) = front \o <<>>
  BY <1>2, <1>3, <1>4 DEF Left
<1>6. front \o <<>> = front
  <2> HIDE DEF front
  <2> QED
    BY <1>1, ConcatEmptySeq
<1> QED
  BY <1>1, <1>5, <1>6

\* Leaving the innermost block: its frame goes, and its name with it.
LEMMA Pop ==
  ASSUME NEW fr, NEW ac, NEW a, Way(fr, ac, a), fr # <<>>, Len(fr) - 1 > 0
  PROVE  Way(SubSeq(fr, 1, Len(fr) - 1), Left(ac, fr[Len(fr)].block), fr[Len(fr)].saved)
<1> DEFINE rest == SubSeq(fr, 1, Len(fr) - 1)
           names == Left(ac, fr[Len(fr)].block)
<1>1. PICK S : fr \in Seq(S) /\ \A f \in S : Marks \subseteq DOMAIN f
  BY DEF Way
<1>2. PICK B : ac \in Seq(B)
  BY DEF Way
<1>3. /\ rest \in Seq(S) /\ Len(rest) = Len(fr) - 1
      /\ \A i \in 1..(Len(fr) - 1) : rest[i] = fr[i]
      /\ Len(fr) \in Nat \ {0}
  BY <1>1, FrontOf
<1>4. /\ Len(fr) = Len(ac) + 1
      /\ \A i \in 1..Len(ac) : ac[i] = fr[i + 1].block
      /\ \A i, j \in 1..Len(ac) : ac[i] = ac[j] => i = j
      /\ Len(ac) <= MaxDepth /\ fr[1].path = <<>>
      /\ \A i \in 2..Len(fr) : fr[i].saved = fr[i - 1].path
  BY DEF Way
<1>5. Len(ac) \in Nat \ {0} /\ MaxDepth \in Nat
  BY <1>2, <1>3, <1>4, LenProperties, EmitAssumption DEF EmitAssumption
<1>6. ac # <<>> /\ ac[Len(ac)] = fr[Len(fr)].block
  <2>1. Len(ac) \in 1..Len(ac)
    BY <1>5
  <2> QED
    BY Zenon, <2>1, <1>4, <1>5, EmptySeq
<1>7. /\ names \in Seq(B) /\ Len(names) = Len(ac) - 1
      /\ \A i \in 1..(Len(ac) - 1) : names[i] = ac[i]
  BY <1>2, <1>4, <1>6, LeftIsFront
<1> HIDE DEF rest, names
<1>8. (rest # <<>> /\ names # <<>>) \/ Len(names) = 0
  BY <1>3, <1>7, <1>4, <1>5, EmptySeq
<1>9. rest # <<>>
  BY <1>3, EmptySeq
<1>10. Len(rest) = Len(names) + 1 /\ Len(names) <= MaxDepth
  BY <1>3, <1>4, <1>5, <1>7
<1>11. \A i \in 1..Len(names) : names[i] = rest[i + 1].block
  <2> TAKE i \in 1..Len(names)
  <2>1. i \in 1..(Len(ac) - 1) /\ i \in 1..Len(ac) /\ i + 1 \in 1..(Len(fr) - 1)
    BY <1>4, <1>5, <1>7
  <2> QED
    BY <2>1, <1>3, <1>4, <1>7
<1>12. \A i, j \in 1..Len(names) : names[i] = names[j] => i = j
  <2> TAKE i, j \in 1..Len(names)
  <2>1. i \in 1..(Len(ac) - 1) /\ i \in 1..Len(ac) /\ j \in 1..(Len(ac) - 1) /\ j \in 1..Len(ac)
    BY <1>5, <1>7
  <2> QED
    BY Zenon, <2>1, <1>4, <1>7
<1>13. rest[1].path = <<>>
  <2>1. 1 \in 1..(Len(fr) - 1)
    BY <1>3
  <2> QED
    BY <2>1, <1>3, <1>4
<1>14. fr[Len(fr)].saved = rest[Len(rest)].path
  <2>1. Len(fr) \in 2..Len(fr) /\ Len(fr) - 1 \in 1..(Len(fr) - 1)
    BY <1>3
  <2> QED
    BY <2>1, <1>3, <1>4
<1>15. \A i \in 2..Len(rest) : rest[i].saved = rest[i - 1].path
  <2> TAKE i \in 2..Len(rest)
  <2>1. i \in 1..(Len(fr) - 1) /\ i - 1 \in 1..(Len(fr) - 1) /\ i \in 2..Len(fr)
    BY <1>3
  <2> QED
    BY <2>1, <1>3, <1>4
<1>16. Way(rest, names, fr[Len(fr)].saved)
  <2>1. \E T : rest \in Seq(T) /\ \A f \in T : Marks \subseteq DOMAIN f
    BY <1>1, <1>3
  <2>2. \E C : names \in Seq(C)
    BY <1>7
  <2> QED
    BY <2>1, <2>2, <1>9, <1>10, <1>11, <1>12, <1>13, <1>14, <1>15 DEF Way
<1> QED
  BY <1>16 DEF rest, names

-----------------------------------------------------------------------------

LEMMA WayStarts == Started => WayInv
<1> SUFFICES ASSUME Started PROVE WayInv
  OBVIOUS
<1>1. frames = <<>> /\ active = <<>> /\ at = <<>>
  BY DEF Started
<1>2. \E S : frames \in Seq(S) /\ \A f \in S : Marks \subseteq DOMAIN f
  <2>1. frames \in Seq({}) /\ \A f \in {} : Marks \subseteq DOMAIN f
    BY <1>1, EmptySeq
  <2> QED
    BY <2>1
<1>3. \E B : active \in Seq(B)
  BY <1>1, EmptySeq
<1> QED
  BY <1>1, <1>2, <1>3 DEF WayInv, Way

\* The view's own frame is alone, and nothing is active.
LEMMA ViewBegins ==
  ASSUME NEW g, Marks \subseteq DOMAIN g, g.path = <<>>
  PROVE  Way(<<g>>, <<>>, <<>>)
<1>1. <<g>> \in Seq({g}) /\ Len(<<g>>) = 1 /\ <<g>>[1] = g /\ <<g>> # <<>>
  OBVIOUS
<1>2. \A f \in {g} : Marks \subseteq DOMAIN f
  OBVIOUS
<1>3. Len(<<>>) = 0 /\ <<>> \in Seq({})
  BY EmptySeq
<1>4. MaxDepth \in Nat
  BY EmitAssumption DEF EmitAssumption
<1>5. \E S : <<g>> \in Seq(S) /\ \A f \in S : Marks \subseteq DOMAIN f
  <2> DEFINE S == {g}
  <2>1. <<g>> \in Seq(S) /\ \A f \in S : Marks \subseteq DOMAIN f
    BY <1>1, <1>2
  <2> HIDE DEF S
  <2> QED
    BY <2>1
<1>6. 1..0 = {} /\ 2..1 = {}
  OBVIOUS
<1> HIDE DEF Marks
<1>7. /\ Len(<<g>>) = Len(<<>>) + 1 /\ Len(<<>>) <= MaxDepth
      /\ <<g>>[1].path = <<>> /\ <<>> = <<g>>[Len(<<g>>)].path
  BY <1>1, <1>3, <1>4
<1> QED
  BY <1>1, <1>3, <1>5, <1>6, <1>7 DEF Way

\* What a new frame of a block is known by.
LEMMA BlockOpens ==
  ASSUME NEW block, NEW entity, NEW cells, NEW xf, WayInv, frames # <<>>,
         Refusal(block) = <<>>, Enter(block, entity, cells, xf)
  PROVE  WayInv'
<1> DEFINE g == [block |-> block, entity |-> entity, outer |-> Top.xf, xf |-> xf,
                 path |-> Append(Top.path, entity.handle), saved |-> at,
                 cells |-> Tail(cells), members |-> Members(block)]
           t == [Top EXCEPT !.members = Tail(Top.members)]
<1>1. Way(frames, active, at)
  BY DEF WayInv
<1>2. /\ Marks \subseteq DOMAIN t /\ t.block = Top.block /\ t.path = Top.path
      /\ t.saved = Top.saved
  <2>1. PICK S : frames \in Seq(S) /\ \A f \in S : Marks \subseteq DOMAIN f
    BY <1>1 DEF Way
  <2>2. Len(frames) \in 1..Len(frames)
    BY <2>1, EmptySeq
  <2>3. Marks \subseteq DOMAIN Top
    BY <2>1, <2>2, ElementOfSeq DEF Top
  <2> QED
    BY <2>3 DEF Marks
<1>3. Way(Advanced, active, at)
  BY Zenon, <1>1, <1>2, Replace DEF Advanced, Rest, Top
<1>4. Len(active) < MaxDepth /\ \A i \in DOMAIN active : active[i] # block
  <2>1. Depth < MaxDepth
    <3>1. ~(Depth >= MaxDepth)
      BY DEF Refusal, Warn
    <3>2. Len(frames) \in Nat
      <4>1. PICK S : frames \in Seq(S)
        BY <1>1 DEF Way
      <4> QED
        BY <4>1, LenProperties
    <3> QED
      BY <3>1, <3>2, EmitAssumption DEF Depth, EmitAssumption
  <2>2. Depth = Len(active)
    <3>1. Len(frames) = Len(active) + 1
      BY <1>1 DEF Way
    <3>2. PICK B : active \in Seq(B)
      BY <1>1 DEF Way
    <3>3. Len(active) \in Nat
      BY <3>2, LenProperties
    <3> QED
      BY <3>1, <3>3 DEF Depth
  <2>3. ~(\E i \in DOMAIN active : active[i] = block)
    BY DEF Refusal, Warn
  <2> QED
    BY <2>1, <2>2, <2>3
<1>5. Advanced # <<>>
  <2>1. PICK S : frames \in Seq(S)
    BY <1>1 DEF Way
  <2>2. Rest \in Seq(S)
    BY <2>1, FrontOf DEF Rest
  <2> QED
    BY <2>2, PutOn DEF Advanced
<1>6. /\ Marks \subseteq DOMAIN g /\ g.block = block /\ g.saved = at
      /\ g.path = Append(Top.path, entity.handle)
  BY DEF Marks
<1>7. /\ frames' = Append(Advanced, g) /\ active' = Append(active, block)
      /\ at' = Append(Top.path, entity.handle)
  BY DEF Enter
<1> HIDE DEF g, t
<1>8. Way(Append(Advanced, g), Append(active, block), g.path)
  BY Zenon, <1>3, <1>4, <1>5, <1>6, Push
<1> QED
  BY <1>6, <1>7, <1>8 DEF WayInv

\* An entity is done with and nothing was opened.
LEMMA Advances ==
  ASSUME WayInv, frames # <<>>, frames' = Advanced, active' = active, at' = at
  PROVE  WayInv'
<1> DEFINE t == [Top EXCEPT !.members = Tail(Top.members)]
<1>1. Way(frames, active, at)
  BY DEF WayInv
<1>2. PICK S : frames \in Seq(S) /\ \A f \in S : Marks \subseteq DOMAIN f
  BY <1>1 DEF Way
<1>3. Len(frames) \in 1..Len(frames)
  BY <1>2, EmptySeq
<1>4. Marks \subseteq DOMAIN Top
  BY <1>2, <1>3, ElementOfSeq DEF Top
<1>5. /\ Marks \subseteq DOMAIN t /\ t.block = Top.block /\ t.path = Top.path
      /\ t.saved = Top.saved
  BY <1>4 DEF Marks
<1>6. Way(Advanced, active, at)
  BY Zenon, <1>1, <1>5, Replace DEF Advanced, Rest, Top
<1> QED
  BY <1>6 DEF WayInv

LEMMA WayStep == WayInv /\ [EmitNext]_emitVars => WayInv'
<1> SUFFICES ASSUME WayInv, [EmitNext]_emitVars PROVE WayInv'
  OBVIOUS
<1>1. CASE BeginView
  <2>1. frames = <<>> /\ active' = active /\ at' = at
    BY <1>1 DEF BeginView
  <2>2. active = <<>> /\ at = <<>>
    BY <2>1 DEF WayInv, Way
  <2>3. CASE Views[view + 1].block = NoBlock
    <3>1. frames' = frames
      BY <1>1, <2>3 DEF BeginView
    <3> QED
      BY <2>1, <3>1 DEF WayInv
  <2>4. CASE Views[view + 1].block # NoBlock
    <3> DEFINE g == [block |-> Views[view + 1].block, entity |-> NoBlock, outer |-> Identity,
                     xf |-> Identity, path |-> <<>>, saved |-> <<>>,
                     cells |-> <<>>, members |-> Members(Views[view + 1].block)]
    <3>1. frames' = <<g>>
      BY <1>1, <2>4 DEF BeginView
    <3>2. Marks \subseteq DOMAIN g /\ g.path = <<>>
      BY DEF Marks
    <3> HIDE DEF g
    <3>3. Way(<<g>>, <<>>, <<>>)
      BY <3>2, ViewBegins
    <3> QED
      BY <2>1, <2>2, <3>1, <3>3 DEF WayInv
  <2> QED
    BY <2>3, <2>4
<1>2. CASE SkipInvisible
  BY <1>2, Advances DEF SkipInvisible, Reading
<1>3. CASE DrawLeaf
  BY <1>3, Advances DEF DrawLeaf, Reading
<1>4. CASE RefuseInsert
  BY <1>4, Advances DEF RefuseInsert, Reading
<1>5. CASE EnterInsert
  <2>1. /\ frames # <<>> /\ Refusal(Here.block) = <<>>
        /\ Enter(Here.block, Here, Cells(Here),
             Compose(Top.xf, InsertTransform(Here, drawing.blocks[Here.block].base, <<0, 0>>)))
    BY <1>5 DEF EnterInsert, Reading
  <2> QED
    BY <2>1, BlockOpens
<1>6. CASE ReadDimension
  <2> DEFINE why == IF ~Known(Here.block)
                    THEN <<Warn("missing_reference", "DIMENSION", "dimension_block_missing")>>
                    ELSE Refusal(Here.block)
  <2>1. frames # <<>>
    BY <1>6 DEF ReadDimension, Reading
  <2>2. CASE why = <<>>
    <3>1. Refusal(Here.block) = <<>>
      BY <2>2 DEF Warn
    <3>2. Enter(Here.block, Here, <<<<0, 0>>>>, Top.xf)
      BY <1>6, <2>2 DEF ReadDimension
    <3> QED
      BY <2>1, <3>1, <3>2, BlockOpens
  <2>3. CASE why # <<>>
    <3>1. frames' = Advanced /\ active' = active /\ at' = at
      BY <1>6, <2>3 DEF ReadDimension
    <3> QED
      BY <2>1, <3>1, Advances
  <2> QED
    BY <2>2, <2>3
<1>7. CASE ReadTable
  <2> DEFINE block == TableBlock(Here)
  <2>1. frames # <<>>
    BY <1>7 DEF ReadTable, Reading
  <2>2. CASE block = NoBlock
    <3>1. frames' = Advanced /\ active' = active /\ at' = at
      BY <1>7, <2>2 DEF ReadTable
    <3> QED
      BY <2>1, <3>1, Advances
  <2>3. CASE block # NoBlock /\ Refusal(block) # <<>>
    <3>1. frames' = Advanced /\ active' = active /\ at' = at
      BY <1>7, <2>3 DEF ReadTable
    <3> QED
      BY <2>1, <3>1, Advances
  <2>4. CASE block # NoBlock /\ Refusal(block) = <<>>
    <3>1. Enter(block, Here, <<<<0, 0>>>>, Compose(Top.xf, TableTransform(Here)))
      BY <1>7, <2>4 DEF ReadTable
    <3> QED
      BY <2>1, <2>4, <3>1, BlockOpens
  <2> QED
    BY <2>2, <2>3, <2>4
<1>8. CASE NextCell
  <2> DEFINE t == [Top EXCEPT !.cells = Tail(@),
                   !.members = Members(Top.block),
                   !.xf = Compose(Top.outer, InsertTransform(Top.entity,
                            drawing.blocks[Top.block].base, Head(Top.cells)))]
  <2>1. frames # <<>> /\ frames' = Append(Rest, t) /\ active' = active /\ at' = at
    BY <1>8 DEF NextCell
  <2>2. Way(frames, active, at)
    BY DEF WayInv
  <2>3. PICK S : frames \in Seq(S) /\ \A f \in S : Marks \subseteq DOMAIN f
    BY <2>2 DEF Way
  <2>4. Len(frames) \in 1..Len(frames)
    BY <2>1, <2>3, EmptySeq
  <2>5. Marks \subseteq DOMAIN Top
    BY <2>3, <2>4, ElementOfSeq DEF Top
  <2>6. /\ Marks \subseteq DOMAIN t /\ t.block = Top.block /\ t.path = Top.path
        /\ t.saved = Top.saved
    BY <2>5 DEF Marks
  <2> HIDE DEF t
  <2>7. Way(Append(Rest, t), active, at)
    BY <2>1, <2>2, <2>6, Replace DEF Rest, Top
  <2> QED
    BY <2>1, <2>7 DEF WayInv
<1>9. CASE LeaveBlock
  <2>1. /\ frames # <<>> /\ Len(frames) - 1 > 0
        /\ active' = Left(active, frames[Len(frames)].block)
        /\ at' = frames[Len(frames)].saved
        /\ frames' = SubSeq(frames, 1, Len(frames) - 1)
    BY <1>9 DEF LeaveBlock, Done, Depth, Top, Rest
  <2>2. Way(frames, active, at)
    BY DEF WayInv
  <2>3. Way(SubSeq(frames, 1, Len(frames) - 1), Left(active, frames[Len(frames)].block),
            frames[Len(frames)].saved)
    BY <2>1, <2>2, Pop
  <2> QED
    BY <2>1, <2>3 DEF WayInv
<1>10. CASE LeaveView
  <2>1. frames # <<>> /\ Len(frames) - 1 = 0 /\ frames' = <<>> /\ active' = active /\ at' = at
    BY <1>10 DEF LeaveView, Done, Depth
  <2>2. PICK B : active \in Seq(B)
    BY DEF WayInv, Way
  <2>3. Len(frames) = Len(active) + 1 /\ frames[1].path = <<>> /\ at = frames[Len(frames)].path
    BY <2>1 DEF WayInv, Way
  <2>4. Len(active) \in Nat
    BY <2>2, LenProperties
  <2>5. active = <<>> /\ at = <<>>
    <3>1. Len(active) = 0 /\ Len(frames) = 1
      BY <2>1, <2>3, <2>4
    <3> QED
      BY <3>1, <2>2, <2>3, EmptySeq
  <2>6. \E S : frames' \in Seq(S) /\ \A f \in S : Marks \subseteq DOMAIN f
    <3>1. <<>> \in Seq({}) /\ \A f \in {} : Marks \subseteq DOMAIN f
      BY EmptySeq
    <3> QED
      BY <3>1, <2>1
  <2>7. \E B1 : active' \in Seq(B1)
    BY <2>1, <2>2
  <2> QED
    BY Zenon, <2>1, <2>5, <2>6, <2>7 DEF WayInv, Way
<1>11. CASE Finish
  BY Zenon, <1>11 DEF Finish, WayInv
<1>12. CASE UNCHANGED emitVars
  BY <1>12 DEF emitVars, WayInv
<1> QED
  BY <1>1, <1>2, <1>3, <1>4, <1>5, <1>6, <1>7, <1>8, <1>9, <1>10, <1>11, <1>12 DEF EmitNext

LEMMA WayShown == WayInv => OpenIsTheWay
<1> SUFFICES ASSUME WayInv, frames # <<>> PROVE
      /\ active = [i \in 1..Depth |-> frames[i + 1].block]
      /\ \A i, j \in DOMAIN active : active[i] = active[j] => i = j
      /\ Len(active) <= MaxDepth
      /\ at = Top.path
  BY DEF OpenIsTheWay
<1>1. PICK B : active \in Seq(B)
  BY DEF WayInv, Way
<1>2. /\ Len(frames) = Len(active) + 1
      /\ \A i \in 1..Len(active) : active[i] = frames[i + 1].block
      /\ \A i, j \in 1..Len(active) : active[i] = active[j] => i = j
      /\ Len(active) <= MaxDepth /\ at = frames[Len(frames)].path
  BY DEF WayInv, Way
<1>3. Len(active) \in Nat /\ DOMAIN active = 1..Len(active) /\ active \in [1..Len(active) -> B]
  BY <1>1, LenProperties
<1>4. Depth = Len(active)
  BY <1>2, <1>3 DEF Depth
<1>5. active = [i \in 1..Len(active) |-> frames[i + 1].block]
  BY <1>2, <1>3
<1> QED
  BY <1>2, <1>3, <1>4, <1>5 DEF Top

\* Whatever a drawing's blocks refer to: the active names are the blocks being
\* expanded, in order and none twice, within the limit, and a warning raised
\* between two entities names the entity that brought the innermost block in.
THEOREM OpenStaysTheWay == EmitSpec => []OpenIsTheWay
<1>1. EmitSpec => []WayInv
  BY WayStarts, WayStep, PTL DEF EmitSpec, Init
<1> QED
  BY <1>1, WayShown, PTL
-----------------------------------------------------------------------------
(* The dictionaries. *)

Values(s) == {s[n] : n \in DOMAIN s}

(* Sequences of anything: what Append, Tail and the like leave in place. *)

LEMMA Sequences_ ==
  ASSUME NEW s, IsSequence(s)
  PROVE  Len(s) \in Nat /\ DOMAIN s = 1..Len(s)
<1>1. s \in Seq(Values(s))
  BY DEF IsSequence, Values
<1> QED
  BY <1>1, LenProperties

LEMMA SequenceOf ==
  ASSUME NEW S, NEW s \in Seq(S)
  PROVE  IsSequence(s)
<1>1. Len(s) \in Nat /\ DOMAIN s = 1..Len(s) /\ s \in [1..Len(s) -> S]
  BY LenProperties
<1>2. s \in [1..Len(s) -> Values(s)]
  BY <1>1 DEF Values
<1>3. s \in UNION {[1..n -> Values(s)] : n \in Nat}
  BY Zenon, <1>1, <1>2
<1> QED
  BY <1>3, SeqDef DEF IsSequence, Values

LEMMA Appended ==
  ASSUME NEW s, IsSequence(s), NEW x
  PROVE  /\ IsSequence(Append(s, x))
         /\ DOMAIN Append(s, x) = 1..(Len(s) + 1)
         /\ Len(Append(s, x)) = Len(s) + 1
         /\ \A n \in DOMAIN s : Append(s, x)[n] = s[n]
         /\ Append(s, x)[Len(s) + 1] = x
<1> DEFINE S == Values(s) \cup {x}
<1>1. s \in Seq(Values(s))
  BY DEF IsSequence, Values
<1>2. s \in Seq(S) /\ x \in S
  BY <1>1, SeqMonotonic, Values(s) \subseteq S
<1> HIDE DEF S
<1>3. Append(s, x) \in Seq(S) /\ Len(Append(s, x)) = Len(s) + 1 /\ Len(s) \in Nat /\ DOMAIN s = 1..Len(s)
  BY <1>2
<1>4. /\ \A n \in 1..Len(s) : Append(s, x)[n] = s[n]
      /\ Append(s, x)[Len(s) + 1] = x
  BY <1>2
<1>5. IsSequence(Append(s, x))
  BY Zenon, <1>3, SequenceOf
<1>6. DOMAIN Append(s, x) = 1..(Len(s) + 1)
  BY <1>3, <1>5, Sequences_
<1> QED
  BY <1>3, <1>4, <1>5, <1>6

LEMMA Replaced ==
  ASSUME NEW s, IsSequence(s), NEW n \in DOMAIN s, NEW x
  PROVE  /\ IsSequence([s EXCEPT ![n] = x])
         /\ DOMAIN [s EXCEPT ![n] = x] = DOMAIN s
         /\ [s EXCEPT ![n] = x][n] = x
         /\ \A m \in DOMAIN s : m # n => [s EXCEPT ![n] = x][m] = s[m]
<1> DEFINE S == Values(s) \cup {x}
<1>1. s \in Seq(Values(s))
  BY DEF IsSequence, Values
<1>2. s \in Seq(S) /\ x \in S
  BY <1>1, SeqMonotonic, Values(s) \subseteq S
<1> HIDE DEF S
<1>3. n \in 1..Len(s)
  BY Sequences_
<1>4. [s EXCEPT ![n] = x] \in Seq(S)
  BY <1>2, <1>3, ExceptSeq
<1> QED
  BY Zenon, <1>4, SequenceOf

LEMMA WithoutLast ==
  ASSUME NEW s, IsSequence(s), s # <<>>
  PROVE  /\ Len(s) \in DOMAIN s
         /\ IsSequence(SubSeq(s, 1, Len(s) - 1))
         /\ DOMAIN SubSeq(s, 1, Len(s) - 1) = DOMAIN s \ {Len(s)}
         /\ \A n \in DOMAIN s \ {Len(s)} : SubSeq(s, 1, Len(s) - 1)[n] = s[n]
<1>1. s \in Seq(Values(s)) /\ Len(s) \in Nat /\ DOMAIN s = 1..Len(s)
  BY Sequences_ DEF IsSequence, Values
<1>2. Len(s) > 0
  BY <1>1, EmptySeq
<1> DEFINE k == Len(s) - 1
           t == SubSeq(s, 1, k)
<1>3. k \in Nat /\ k \in Int /\ 1 \in Int /\ \A n \in 1..k : s[n] \in Values(s)
  BY <1>1, <1>2 DEF Values
<1>4. t \in Seq(Values(s)) /\ Len(t) = k /\ \A n \in 1..k : t[n] = s[n]
  <2> HIDE DEF k
  <2>1. /\ t \in Seq(Values(s))
        /\ Len(t) = IF 1 <= k THEN k - 1 + 1 ELSE 0
        /\ \A n \in 1..(k - 1 + 1) : t[n] = s[1 + n - 1]
    BY <1>3, SubSeqProperties
  <2> QED
    BY <2>1, <1>3
<1>5. IsSequence(t) /\ DOMAIN t = 1..k
  BY Zenon, <1>4, SequenceOf, Sequences_
<1>6. 1..k = (1..Len(s)) \ {Len(s)}
  BY <1>1, <1>2
<1> QED
  BY <1>1, <1>2, <1>4, <1>5, <1>6

LEMMA WithoutFirst ==
  ASSUME NEW s, IsSequence(s), s # <<>>
  PROVE  /\ 1 \in DOMAIN s /\ Head(s) = s[1]
         /\ IsSequence(Tail(s))
         /\ \A n \in DOMAIN Tail(s) : n + 1 \in DOMAIN s /\ Tail(s)[n] = s[n + 1]
         /\ \A n \in DOMAIN s : n # 1 => n - 1 \in DOMAIN Tail(s) /\ Tail(s)[n - 1] = s[n]
<1>1. s \in Seq(Values(s)) /\ Len(s) \in Nat /\ DOMAIN s = 1..Len(s)
  BY Sequences_ DEF IsSequence, Values
<1>2. Len(s) > 0
  BY <1>1, EmptySeq
<1>3. /\ Tail(s) \in Seq(Values(s)) /\ Len(Tail(s)) = Len(s) - 1
      /\ \A n \in 1..Len(Tail(s)) : Tail(s)[n] = s[n + 1]
  BY <1>1, HeadTailProperties
<1>4. IsSequence(Tail(s)) /\ DOMAIN Tail(s) = 1..(Len(s) - 1)
  BY Zenon, <1>3, SequenceOf, Sequences_
<1>5. Head(s) = s[1]
  BY <1>1, <1>2
<1> QED
  BY <1>1, <1>2, <1>3, <1>4, <1>5

-----------------------------------------------------------------------------
(* The invariant: between the dictionaries that were met, the entries that  *)
(* are still to go and the starts that are left, nothing is forgotten.      *)

IsTree ==
  /\ IsSequence(tree.dictionaries) /\ IsSequence(tree.xrecords)
  /\ tree = [dictionaries |-> tree.dictionaries, xrecords |-> tree.xrecords, owners |-> tree.owners]

Item(h, path) == [handle |-> h, path |-> path]

\* An open dictionary is one that was written down, under the path it has here.
FrameOpen(f) ==
  /\ f.handle \in seen /\ f.rest \subseteq DOMAIN Entries(f.handle)
  /\ \E d \in DOMAIN tree.dictionaries : tree.dictionaries[d] = Item(f.handle, f.path)

FramesOpen == \A i \in DOMAIN calls : FrameOpen(calls[i])

MetIsSeen == Met = seen /\ \A h \in seen : IsDictionary(h)

Awaited(stack, h, n) == \E i \in DOMAIN stack : stack[i].handle = h /\ n \in stack[i].rest

Followed(t) ==
  /\ IsDictionary(t) => t \in seen
  /\ IsXRecord(t) => \E x \in DOMAIN tree.xrecords : tree.xrecords[x].handle = t

EntriesAreFollowed ==
  \A h \in seen : \A n \in DOMAIN Entries(h) : Awaited(calls, h, n) \/ Followed(Entries(h)[n].handle)

StartsAreMet ==
  /\ \A i \in DOMAIN owned : owned[i].path # NoPath => owned[i] \in Starts
  /\ \A x \in Starts : IsDictionary(x.handle) => x.handle \in seen \/ \E i \in DOMAIN owned : owned[i] = x

AllDictionaries == {h \in DOMAIN doc.objects : IsDictionary(h)}

\* What was met is in every set of dictionaries that nothing leads out of.
NothingElse == \A S \in SUBSET AllDictionaries : ClosedUnderEntries(S) => seen \subseteq S

WalkInv ==
  /\ IsSequence(owned) /\ IsSequence(calls) /\ IsTree
  /\ FramesOpen /\ MetIsSeen /\ EntriesAreFollowed /\ StartsAreMet /\ NothingElse
  /\ PathsLeadThere

LEMMA EmptySequence == IsSequence(<<>>) /\ DOMAIN <<>> = {}
<1>1. <<>> \in Seq({}) /\ Len(<<>>) = 0
  BY EmptySeq
<1>2. IsSequence(<<>>)
  BY Zenon, <1>1, SequenceOf
<1>3. DOMAIN <<>> = 1..0
  BY <1>1, <1>2, Sequences_
<1> QED
  BY <1>2, <1>3

LEMMA InitWalkInv == WalkInit => WalkInv
<1> SUFFICES ASSUME WalkInit PROVE WalkInv
  OBVIOUS
<1> USE EmptySequence
<1>1. /\ calls = <<>> /\ seen = {}
      /\ tree = [dictionaries |-> <<>>, xrecords |-> <<>>, owners |-> [h \in {} |-> <<>>]]
  BY DEF WalkInit, Begun, NoTree
<1>2. IsSequence(doc.extensions)
  BY DocsAssumption DEF WalkInit, IsDocument, Lists
<1>3. /\ Len(doc.extensions) \in Nat
      /\ DOMAIN ExtensionDictionaries = 1..Len(doc.extensions)
  BY <1>2, Sequences_ DEF ExtensionDictionaries
<1> DEFINE All == {Root} \cup Values(ExtensionDictionaries)
<1>4. ExtensionDictionaries \in [1..Len(doc.extensions) -> All]
  BY Zenon, <1>3 DEF ExtensionDictionaries, Values
<1>5. ExtensionDictionaries \in UNION {[1..n -> All] : n \in Nat}
  BY <1>3, <1>4
<1>6. ExtensionDictionaries \in Seq(All)
  BY <1>5, SeqDef
<1>7. <<Root>> \in Seq(All) /\ Len(<<Root>>) = 1 /\ <<Root>>[1] = Root /\ Root \in All
  OBVIOUS
<1>8. owned = <<Root>> \o ExtensionDictionaries
  BY DEF WalkInit, Begun
<1> HIDE DEF All
<1>9. /\ owned \in Seq(All) /\ Len(owned) = 1 + Len(ExtensionDictionaries)
      /\ \A i \in 1..(1 + Len(ExtensionDictionaries)) :
           owned[i] = IF i <= 1 THEN Root ELSE ExtensionDictionaries[i - 1]
  BY <1>6, <1>7, <1>8, ConcatProperties
<1>10. Len(ExtensionDictionaries) = Len(doc.extensions)
  BY <1>3, <1>6, LenProperties
<1>11. IsSequence(owned) /\ DOMAIN owned = 1..(1 + Len(doc.extensions))
  BY <1>9, <1>10, SequenceOf, Sequences_
<1>12. StartsAreMet
  <2>1. ASSUME NEW i \in DOMAIN owned, owned[i].path # NoPath PROVE owned[i] \in Starts
    <3>1. owned[i] = Root \/ (i - 1 \in DOMAIN ExtensionDictionaries /\ owned[i] = ExtensionDictionaries[i - 1])
      BY <1>3, <1>9, <1>10, <1>11
    <3> QED
      BY <2>1, <3>1 DEF Starts
  <2>2. ASSUME NEW x \in Starts PROVE \E i \in DOMAIN owned : owned[i] = x
    <3>1. x = Root \/ \E n \in DOMAIN ExtensionDictionaries : x = ExtensionDictionaries[n]
      BY DEF Starts
    <3>2. CASE x = Root
      BY <3>2, <1>3, <1>9, <1>10, <1>11
    <3>3. ASSUME NEW n \in DOMAIN ExtensionDictionaries, x = ExtensionDictionaries[n]
          PROVE  \E i \in DOMAIN owned : owned[i] = x
      <4>1. n \in Nat /\ n + 1 \in 1..(1 + Len(doc.extensions)) /\ ~(n + 1 <= 1) /\ n + 1 - 1 = n
        BY <1>3
      <4>2. owned[n + 1] = x
        BY <4>1, <3>3, <1>9, <1>10
      <4> QED
        BY <4>1, <4>2, <1>11
    <3> QED
      BY <3>1, <3>2, <3>3
  <2> QED
    BY <2>1, <2>2 DEF StartsAreMet
<1>13. IsTree /\ DOMAIN tree.dictionaries = {} /\ DOMAIN tree.xrecords = {}
  BY <1>1 DEF IsTree
<1>14. FramesOpen /\ MetIsSeen /\ EntriesAreFollowed /\ NothingElse /\ PathsLeadThere
  BY <1>1, <1>13 DEF FramesOpen, MetIsSeen, Met, EntriesAreFollowed, NothingElse, PathsLeadThere
<1> QED
  BY <1>1, <1>11, <1>12, <1>13, <1>14 DEF WalkInv

-----------------------------------------------------------------------------
(* The steps. *)

\* Within a step the document is what it was.
LEMMA SameDocument ==
  ASSUME doc' = doc
  PROVE  /\ \A h : IsDictionary(h)' = IsDictionary(h) /\ IsXRecord(h)' = IsXRecord(h)
                   /\ Entries(h)' = Entries(h)
         /\ Starts' = Starts /\ AllDictionaries' = AllDictionaries
         /\ \A S : ClosedUnderEntries(S)' = ClosedUnderEntries(S)
BY DEF IsDictionary, IsXRecord, Entries, Starts, AllDictionaries, ClosedUnderEntries, Root,
       ExtensionDictionaries

\* Leads, of any sequence of dictionaries.
Led(written, x) ==
  \E d \in DOMAIN written : \E n \in DOMAIN Entries(written[d].handle) :
    /\ Entries(written[d].handle)[n].handle = x.handle
    /\ x.path = Child(written[d].path, Entries(written[d].handle)[n].key)

LEMMA PathsAfter ==
  ASSUME doc' = doc,
         \A m, n \in DOMAIN tree'.dictionaries :
           tree'.dictionaries[m].handle = tree'.dictionaries[n].handle => m = n,
         \A n \in DOMAIN tree'.dictionaries :
           tree'.dictionaries[n] \in Starts \/ Led(tree'.dictionaries, tree'.dictionaries[n]),
         \A n \in DOMAIN tree'.xrecords : Led(tree'.dictionaries, tree'.xrecords[n])
  PROVE  PathsLeadThere'
<1>1. Starts' = Starts
  BY SameDocument
<1> QED
  BY <1>1 DEF PathsLeadThere, Leads, Led, Entries

\* A dictionary is written down: it is a start, or an entry of one that was
\* written down leads to it, and stack holds what is still to go above it.
LEMMA Opening ==
  ASSUME WalkInv, doc' = doc, NEW h, NEW path, NEW stack, IsSequence(stack),
         Meets(h), WriteDown(h, path, stack),
         Item(h, path) \in Starts \/ Leads(Item(h, path)),
         \A i \in DOMAIN stack : FrameOpen(stack[i]),
         \A g \in seen : \A n \in DOMAIN Entries(g) :
           Awaited(stack, g, n) \/ Followed(Entries(g)[n].handle) \/ Entries(g)[n].handle = h,
         \A S \in SUBSET AllDictionaries : ClosedUnderEntries(S) => h \in S
  PROVE  /\ IsSequence(calls)' /\ IsTree' /\ FramesOpen' /\ MetIsSeen' /\ EntriesAreFollowed'
         /\ NothingElse' /\ PathsLeadThere'
<1> DEFINE item == Item(h, path)
           frame == [handle |-> h, path |-> path, rest |-> Resolving(h)]
           old == tree.dictionaries
           new == Append(old, item)
<1>1. /\ calls' = Append(stack, frame) /\ seen' = seen \cup {h}
      /\ tree' = [tree EXCEPT !.owners = Owns(@, h, Under("dictionary", path)), !.dictionaries = new]
  BY DEF WriteDown, Item
<1>2. IsTree /\ IsSequence(old) /\ IsSequence(tree.xrecords)
  BY DEF WalkInv, IsTree
<1>3. /\ tree'.dictionaries = new /\ tree'.xrecords = tree.xrecords
      /\ tree' = [dictionaries |-> new, xrecords |-> tree.xrecords, owners |-> tree'.owners]
  <2> HIDE DEF item
  <2>1. tree = [dictionaries |-> old, xrecords |-> tree.xrecords, owners |-> tree.owners]
    BY <1>2 DEF IsTree
  <2> QED
    BY Zenon, <1>1, <2>1
<1>4. /\ IsSequence(new) /\ DOMAIN new = 1..(Len(old) + 1)
      /\ \A n \in DOMAIN old : new[n] = old[n]
      /\ new[Len(old) + 1] = item
  <2> HIDE DEF item
  <2> QED
    BY <1>2, Appended
<1>5. Len(old) \in Nat /\ DOMAIN old = 1..Len(old)
  BY <1>2, Sequences_
<1>6. /\ IsSequence(calls') /\ DOMAIN calls' = 1..(Len(stack) + 1)
      /\ \A i \in DOMAIN stack : calls'[i] = stack[i]
      /\ calls'[Len(stack) + 1] = frame
      /\ Len(stack) \in Nat /\ DOMAIN stack = 1..Len(stack)
  <2> HIDE DEF frame
  <2> QED
    BY <1>1, Appended, Sequences_
<1>7. /\ IsDictionary(h) /\ h \notin seen
      /\ Resolving(h) \subseteq DOMAIN Entries(h)
      /\ \A n \in DOMAIN Entries(h) \ Resolving(h) : ~IsDictionary(Entries(h)[n].handle) /\ ~IsXRecord(Entries(h)[n].handle)
  BY DEF Meets, Resolving, IsDictionary, IsXRecord
<1>8. ~IsXRecord(h)
  BY <1>7 DEF IsDictionary, IsXRecord
<1> USE SameDocument
<1> HIDE DEF new, old, item, frame
<1>9. FramesOpen'
  <2> SUFFICES ASSUME NEW i \in DOMAIN calls'
               PROVE  /\ calls'[i].handle \in seen'
                      /\ calls'[i].rest \subseteq DOMAIN Entries(calls'[i].handle)
                      /\ \E d \in DOMAIN new : new[d] = Item(calls'[i].handle, calls'[i].path)
    BY <1>3 DEF FramesOpen, FrameOpen, Entries, Item
  <2>1. CASE i \in DOMAIN stack
    <3>1. FrameOpen(stack[i]) /\ calls'[i] = stack[i]
      BY <2>1, <1>6
    <3>2. PICK d \in DOMAIN old : old[d] = Item(stack[i].handle, stack[i].path)
      BY <3>1 DEF FrameOpen, old
    <3>3. d \in DOMAIN new /\ new[d] = Item(stack[i].handle, stack[i].path)
      BY <3>2, <1>4, <1>5
    <3> QED
      BY <3>1, <3>3, <1>1 DEF FrameOpen
  <2>2. CASE i = Len(stack) + 1
    <3>1. calls'[i].handle = h /\ calls'[i].path = path /\ calls'[i].rest = Resolving(h)
      BY <2>2, <1>6 DEF frame
    <3>2. Len(old) + 1 \in DOMAIN new /\ new[Len(old) + 1] = Item(h, path)
      BY <1>4, <1>5 DEF item
    <3> QED
      BY <3>1, <3>2, <1>1, <1>7
  <2> QED
    BY <2>1, <2>2, <1>6
<1>10. MetIsSeen'
  <2>1. Met = seen /\ \A g \in seen : IsDictionary(g)
    BY DEF WalkInv, MetIsSeen
  <2>2. {new[n].handle : n \in DOMAIN new} = {old[n].handle : n \in DOMAIN old} \cup {h}
    <3>1. item.handle = h
      BY DEF item, Item
    <3> QED
      BY <3>1, <1>4, <1>5
  <2>3. Met' = seen'
    <3>1. Met' = {new[n].handle : n \in DOMAIN new}
      BY <1>3 DEF Met
    <3>2. Met = {old[n].handle : n \in DOMAIN old}
      BY DEF Met, old
    <3> QED
      BY Zenon, <2>1, <2>2, <3>1, <3>2, <1>1
  <2>4. \A g \in seen' : IsDictionary(g)
    BY <2>1, <1>1, <1>7
  <2> QED
    BY <2>3, <2>4 DEF MetIsSeen, IsDictionary
<1>11. EntriesAreFollowed'
  <2> SUFFICES ASSUME NEW g \in seen \cup {h}, NEW n \in DOMAIN Entries(g)
               PROVE  Awaited(calls', g, n) \/ Followed(Entries(g)[n].handle)'
    BY <1>1 DEF EntriesAreFollowed, Awaited
  <2> DEFINE t == Entries(g)[n].handle
  <2>1. Followed(t) \/ t = h => Followed(t)'
    BY <1>1, <1>3, <1>8 DEF Followed
  <2>2. ASSUME Awaited(stack, g, n) PROVE Awaited(calls', g, n)
    BY <2>2, <1>6 DEF Awaited
  <2>3. CASE g = h
    <3>1. n \in Resolving(h) => Awaited(calls', g, n)
      BY <2>3, <1>6 DEF Awaited, frame
    <3>2. n \notin Resolving(h) => Followed(t)'
      BY <2>3, <1>7 DEF Followed
    <3> QED
      BY <3>1, <3>2
  <2>4. CASE g \in seen
    BY <2>1, <2>2, <2>4
  <2> QED
    BY <2>3, <2>4
<1>12. NothingElse'
  BY <1>1 DEF WalkInv, NothingElse
<1>13. PathsLeadThere'
  <2>1. ASSUME NEW x, Leads(x) \/ Led(old, x) PROVE Led(new, x)
    <3>1. PICK d \in DOMAIN old : \E n \in DOMAIN Entries(old[d].handle) :
             /\ Entries(old[d].handle)[n].handle = x.handle
             /\ x.path = Child(old[d].path, Entries(old[d].handle)[n].key)
      BY <2>1 DEF Leads, Led, old
    <3>2. d \in DOMAIN new /\ new[d] = old[d]
      BY <1>4, <1>5
    <3> QED
      BY <3>1, <3>2 DEF Led
  <2>2. PathsLeadThere
    BY DEF WalkInv
  <2>3. /\ \A m, n \in DOMAIN old : old[m].handle = old[n].handle => m = n
        /\ \A n \in DOMAIN old : old[n] \in Starts \/ Leads(old[n])
        /\ \A n \in DOMAIN tree.xrecords : Leads(tree.xrecords[n])
    BY <2>2 DEF PathsLeadThere, old
  <2>4. \A n \in DOMAIN old : old[n].handle # h
    BY <1>7 DEF WalkInv, MetIsSeen, Met, old
  <2>5. \A n \in DOMAIN new : n \in DOMAIN old \/ n = Len(old) + 1
    BY <1>4, <1>5
  <2>6. new[Len(old) + 1].handle = h
    BY <1>4 DEF item, Item
  <2>7. \A m, n \in DOMAIN new : new[m].handle = new[n].handle => m = n
    BY <2>3, <2>4, <2>5, <2>6, <1>4
  <2>8. ASSUME NEW n \in DOMAIN new PROVE new[n] \in Starts \/ Led(new, new[n])
    BY <2>1, <2>3, <2>5, <1>4 DEF item
  <2>9. ASSUME NEW n \in DOMAIN tree.xrecords PROVE Led(new, tree.xrecords[n])
    BY <2>1, <2>3
  <2> QED
    BY <2>7, <2>8, <2>9, <1>3, PathsAfter
<1>14. IsTree'
  BY <1>2, <1>3, <1>4 DEF IsTree
<1> QED
  BY <1>6, <1>9, <1>10, <1>11, <1>12, <1>13, <1>14

\* A step that meets no dictionary: it may write an xrecord down, and takes
\* what was to go off the stack once it was looked at.
LEMMA Settling ==
  ASSUME WalkInv, doc' = doc, seen' = seen, IsSequence(calls'), IsSequence(tree'.xrecords),
         tree' = [dictionaries |-> tree.dictionaries, xrecords |-> tree'.xrecords, owners |-> tree'.owners],
         \A i \in DOMAIN calls' : FrameOpen(calls'[i]),
         \A x \in DOMAIN tree.xrecords : x \in DOMAIN tree'.xrecords /\ tree'.xrecords[x] = tree.xrecords[x],
         \A x \in DOMAIN tree'.xrecords : Leads(tree'.xrecords[x]),
         \A g \in seen : \A n \in DOMAIN Entries(g) :
           \/ Awaited(calls', g, n) \/ Followed(Entries(g)[n].handle)
           \/ /\ IsXRecord(Entries(g)[n].handle)
              /\ \E x \in DOMAIN tree'.xrecords : tree'.xrecords[x].handle = Entries(g)[n].handle
  PROVE  /\ IsSequence(calls)' /\ IsTree' /\ FramesOpen' /\ MetIsSeen' /\ EntriesAreFollowed'
         /\ NothingElse' /\ PathsLeadThere'
<1> USE SameDocument
<1>1. tree'.dictionaries = tree.dictionaries
  OBVIOUS
<1>2. IsTree'
  BY <1>1 DEF WalkInv, IsTree
<1>3. FramesOpen'
  BY <1>1 DEF FramesOpen, FrameOpen, Entries, Item
<1>4. MetIsSeen'
  BY <1>1 DEF WalkInv, MetIsSeen, Met, IsDictionary
<1>5. EntriesAreFollowed'
  <2> SUFFICES ASSUME NEW g \in seen, NEW n \in DOMAIN Entries(g), NEW t, t = Entries(g)[n].handle
               PROVE  Awaited(calls', g, n) \/ Followed(t)'
    BY DEF EntriesAreFollowed, Awaited, Followed, IsDictionary, IsXRecord, Entries
  <2>1. Followed(t) => Followed(t)'
    BY DEF Followed
  <2>2. ASSUME IsXRecord(t), \E x \in DOMAIN tree'.xrecords : tree'.xrecords[x].handle = t
        PROVE  Followed(t)'
    <3>1. ~IsDictionary(t)
      BY <2>2 DEF IsDictionary, IsXRecord
    <3> QED
      BY <2>2, <3>1 DEF Followed
  <2> QED
    BY <2>1, <2>2
<1>6. NothingElse'
  BY DEF WalkInv, NothingElse
<1>7. PathsLeadThere'
  <2>1. PathsLeadThere
    BY DEF WalkInv
  <2>2. \A x : Leads(x) <=> Led(tree.dictionaries, x)
    BY DEF Leads, Led
  <2> QED
    BY <1>1, <2>1, <2>2, PathsAfter DEF PathsLeadThere
<1> QED
  BY <1>2, <1>3, <1>4, <1>5, <1>6, <1>7

\* The entry whose turn it is: where it leads, and the stack without it.
LEMMA NextEntry ==
  ASSUME WalkInv, calls # <<>>, NEW n \in InTurn
  PROVE  /\ IsSequence(Past(n))
         /\ \A i \in DOMAIN Past(n) : FrameOpen(Past(n)[i])
         /\ \A g, m : Awaited(calls, g, m) => Awaited(Past(n), g, m) \/ Entries(g)[m].handle = Target(n)
         /\ Leads(Item(Target(n), PathOf(n)))
         /\ \A S \in SUBSET AllDictionaries :
              ClosedUnderEntries(S) /\ IsDictionary(Target(n)) => Target(n) \in S
<1> DEFINE last == Len(calls)
           frame == [handle |-> Innermost.handle, path |-> Innermost.path, rest |-> Innermost.rest \ {n}]
<1>1. IsSequence(calls) /\ last \in DOMAIN calls /\ Innermost = calls[last] /\ n \in Innermost.rest
  BY WithoutLast DEF WalkInv, InTurn, Innermost
<1>2. Past(n) = [calls EXCEPT ![last] = frame]
  BY DEF Past
<1>3. /\ IsSequence(Past(n)) /\ DOMAIN Past(n) = DOMAIN calls /\ Past(n)[last] = frame
      /\ \A i \in DOMAIN calls : i # last => Past(n)[i] = calls[i]
  <2> DEFINE after == [calls EXCEPT ![last] = frame]
  <2> HIDE DEF frame, last
  <2>1. /\ IsSequence(after) /\ DOMAIN after = DOMAIN calls /\ after[last] = frame
        /\ \A i \in DOMAIN calls : i # last => after[i] = calls[i]
    BY <1>1, Replaced
  <2> QED
    BY <1>2, <2>1
<1>4. frame.handle = Innermost.handle /\ frame.path = Innermost.path /\ frame.rest = Innermost.rest \ {n}
  OBVIOUS
<1>5. \A i \in DOMAIN calls : FrameOpen(calls[i])
  BY DEF WalkInv, FramesOpen
<1>6. FrameOpen(Innermost)
  BY <1>1, <1>5
<1> HIDE DEF frame, last
<1>7. FrameOpen(frame)
  BY <1>4, <1>6 DEF FrameOpen
<1>8. \A i \in DOMAIN Past(n) : FrameOpen(Past(n)[i])
  BY <1>3, <1>5, <1>7
<1>9. ASSUME NEW g, NEW m, Awaited(calls, g, m)
      PROVE  Awaited(Past(n), g, m) \/ Entries(g)[m].handle = Target(n)
  <2>1. PICK i \in DOMAIN calls : calls[i].handle = g /\ m \in calls[i].rest
    BY <1>9 DEF Awaited
  <2>2. CASE i # last
    BY <2>1, <2>2, <1>3 DEF Awaited
  <2>3. CASE i = last /\ m # n
    BY <2>1, <2>3, <1>1, <1>3, <1>4 DEF Awaited
  <2>4. CASE i = last /\ m = n
    BY <2>1, <2>4, <1>1 DEF Target
  <2> QED
    BY <2>2, <2>3, <2>4
<1>10. Leads(Item(Target(n), PathOf(n)))
  <2>1. PICK d \in DOMAIN tree.dictionaries : tree.dictionaries[d] = Item(Innermost.handle, Innermost.path)
    BY <1>6 DEF FrameOpen
  <2>2. n \in DOMAIN Entries(Innermost.handle)
    BY <1>1, <1>6 DEF FrameOpen
  <2>3. tree.dictionaries[d].handle = Innermost.handle /\ tree.dictionaries[d].path = Innermost.path
    BY <2>1 DEF Item
  <2> QED
    BY Zenon, <2>2, <2>3 DEF Leads, Item, Target, PathOf
<1>11. ASSUME NEW S \in SUBSET AllDictionaries, ClosedUnderEntries(S), IsDictionary(Target(n))
       PROVE  Target(n) \in S
  <2>1. Innermost.handle \in S /\ n \in DOMAIN Entries(Innermost.handle)
    BY <1>1, <1>6, <1>11 DEF WalkInv, NothingElse, FrameOpen
  <2> QED
    BY <2>1, <1>11 DEF ClosedUnderEntries, Target
<1> QED
  BY <1>3, <1>8, <1>9, <1>10, <1>11

\* The starts that are left, after a step that took none.
LEMMA StartsStay == ASSUME StartsAreMet, doc' = doc, owned' = owned, seen \subseteq seen' PROVE StartsAreMet'
BY SameDocument DEF StartsAreMet

LEMMA ListingXRecord == WalkInv /\ ListXRecord => WalkInv'
<1> SUFFICES ASSUME WalkInv, ListXRecord PROVE WalkInv'
  OBVIOUS
<1>1. PICK n \in InTurn :
        /\ IsXRecord(Target(n))
        /\ tree' = [tree EXCEPT !.owners = Owns(@, Target(n), Under("xrecord", PathOf(n))),
                                !.xrecords = Append(@, [handle |-> Target(n), path |-> PathOf(n)])]
        /\ calls' = Past(n)
  BY Zenon DEF ListXRecord
<1>2. calls # <<>> /\ doc' = doc /\ owned' = owned /\ seen' = seen
  BY DEF ListXRecord
<1> DEFINE item == Item(Target(n), PathOf(n))
           old == tree.xrecords
           new == Append(old, item)
<1>3. IsTree /\ IsSequence(old)
  BY DEF WalkInv, IsTree
<1>4. /\ tree'.xrecords = new
      /\ tree' = [dictionaries |-> tree.dictionaries, xrecords |-> new, owners |-> tree'.owners]
  <2>1. tree' = [tree EXCEPT !.owners = Owns(@, Target(n), Under("xrecord", PathOf(n))), !.xrecords = new]
    BY <1>1 DEF Item
  <2> HIDE DEF new
  <2>2. tree = [dictionaries |-> tree.dictionaries, xrecords |-> tree.xrecords, owners |-> tree.owners]
    BY <1>3 DEF IsTree
  <2> QED
    BY Zenon, <2>1, <2>2
<1>5. item.handle = Target(n)
  BY DEF Item
<1> HIDE DEF item, old
<1>6. /\ IsSequence(new) /\ DOMAIN new = 1..(Len(old) + 1) /\ Len(old) \in Nat /\ DOMAIN old = 1..Len(old)
      /\ \A x \in DOMAIN old : new[x] = old[x]
      /\ new[Len(old) + 1] = item
  BY <1>3, Appended, Sequences_
<1> HIDE DEF new
<1>7. DOMAIN new = DOMAIN old \cup {Len(old) + 1}
  BY <1>6
<1>8. \A x \in DOMAIN new : Leads(new[x])
  <2>1. \A x \in DOMAIN old : Leads(old[x])
    BY DEF WalkInv, PathsLeadThere, old
  <2>2. Leads(item)
    BY <1>2, NextEntry DEF item
  <2> QED
    BY <2>1, <2>2, <1>6, <1>7
<1>9. ASSUME NEW g \in seen, NEW m \in DOMAIN Entries(g)
      PROVE  \/ Awaited(Past(n), g, m) \/ Followed(Entries(g)[m].handle)
             \/ /\ IsXRecord(Entries(g)[m].handle)
                /\ \E x \in DOMAIN new : new[x].handle = Entries(g)[m].handle
  <2>1. Awaited(calls, g, m) \/ Followed(Entries(g)[m].handle)
    BY DEF WalkInv, EntriesAreFollowed
  <2>2. Awaited(calls, g, m) => Awaited(Past(n), g, m) \/ Entries(g)[m].handle = Target(n)
    BY <1>2, NextEntry
  <2>3. \E x \in DOMAIN new : new[x].handle = Target(n)
    BY <1>5, <1>6, <1>7
  <2> QED
    BY <2>1, <2>2, <2>3, <1>1
<1>10. IsSequence(Past(n)) /\ \A i \in DOMAIN Past(n) : FrameOpen(Past(n)[i])
  BY <1>2, NextEntry
<1>11. DOMAIN old \subseteq DOMAIN new
  BY <1>7
<1>12. /\ IsSequence(calls)' /\ IsTree' /\ FramesOpen' /\ MetIsSeen' /\ EntriesAreFollowed'
       /\ NothingElse' /\ PathsLeadThere'
  <2>1. IsSequence(calls') /\ \A i \in DOMAIN calls' : FrameOpen(calls'[i])
    BY <1>1, <1>10
  <2>2. /\ IsSequence(tree'.xrecords)
        /\ tree' = [dictionaries |-> tree.dictionaries, xrecords |-> tree'.xrecords, owners |-> tree'.owners]
        /\ \A x \in DOMAIN tree.xrecords : x \in DOMAIN tree'.xrecords /\ tree'.xrecords[x] = tree.xrecords[x]
        /\ \A x \in DOMAIN tree'.xrecords : Leads(tree'.xrecords[x])
    BY <1>4, <1>6, <1>8, <1>11 DEF old
  <2>3. \A g \in seen : \A m \in DOMAIN Entries(g) :
          \/ Awaited(calls', g, m) \/ Followed(Entries(g)[m].handle)
          \/ /\ IsXRecord(Entries(g)[m].handle)
             /\ \E x \in DOMAIN tree'.xrecords : tree'.xrecords[x].handle = Entries(g)[m].handle
    BY <1>1, <1>4, <1>9
  <2> QED
    BY <1>2, <2>1, <2>2, <2>3, Settling
<1>13. StartsAreMet' /\ IsSequence(owned)'
  BY <1>2, StartsStay DEF WalkInv
<1> QED
  BY <1>12, <1>13 DEF WalkInv

\* A step after which only the stack is shorter.
LEMMA OnlyTheStack ==
  ASSUME WalkInv, doc' = doc, owned' = owned, seen' = seen, tree' = tree,
         IsSequence(calls'), \A i \in DOMAIN calls' : FrameOpen(calls'[i]),
         \A g \in seen : \A n \in DOMAIN Entries(g) : Awaited(calls', g, n) \/ Followed(Entries(g)[n].handle)
  PROVE  WalkInv'
<1>1. /\ IsSequence(tree'.xrecords)
      /\ tree' = [dictionaries |-> tree.dictionaries, xrecords |-> tree'.xrecords, owners |-> tree'.owners]
      /\ \A x \in DOMAIN tree.xrecords : x \in DOMAIN tree'.xrecords /\ tree'.xrecords[x] = tree.xrecords[x]
  BY DEF WalkInv, IsTree
<1>2. \A x \in DOMAIN tree'.xrecords : Leads(tree'.xrecords[x])
  BY DEF WalkInv, PathsLeadThere
<1>3. /\ IsSequence(calls)' /\ IsTree' /\ FramesOpen' /\ MetIsSeen' /\ EntriesAreFollowed'
      /\ NothingElse' /\ PathsLeadThere'
  BY <1>1, <1>2, Settling
<1>4. StartsAreMet' /\ IsSequence(owned)'
  BY StartsStay DEF WalkInv
<1> QED
  BY <1>3, <1>4 DEF WalkInv

LEMMA PassingOver == WalkInv /\ PassOver => WalkInv'
<1> SUFFICES ASSUME WalkInv, PassOver PROVE WalkInv'
  OBVIOUS
<1>1. PICK n \in InTurn : ~IsXRecord(Target(n)) /\ ~Meets(Target(n)) /\ calls' = Past(n)
  BY DEF PassOver
<1>2. calls # <<>> /\ doc' = doc /\ owned' = owned /\ seen' = seen /\ tree' = tree
  BY DEF PassOver
<1>3. Followed(Target(n))
  BY <1>1 DEF Followed, Meets
<1>4. IsSequence(calls') /\ \A i \in DOMAIN calls' : FrameOpen(calls'[i])
  BY <1>1, <1>2, NextEntry
<1>5. ASSUME NEW g \in seen, NEW m \in DOMAIN Entries(g)
      PROVE  Awaited(calls', g, m) \/ Followed(Entries(g)[m].handle)
  <2>1. Awaited(calls, g, m) \/ Followed(Entries(g)[m].handle)
    BY DEF WalkInv, EntriesAreFollowed
  <2>2. Awaited(calls, g, m) => Awaited(Past(n), g, m) \/ Entries(g)[m].handle = Target(n)
    BY <1>2, NextEntry
  <2> QED
    BY <2>1, <2>2, <1>1, <1>3
<1> QED
  BY <1>2, <1>4, <1>5, OnlyTheStack

LEMMA Returning == WalkInv /\ Return => WalkInv'
<1> SUFFICES ASSUME WalkInv, Return PROVE WalkInv'
  OBVIOUS
<1>1. /\ calls # <<>> /\ Innermost.rest = {} /\ calls' = SubSeq(calls, 1, Len(calls) - 1)
      /\ doc' = doc /\ owned' = owned /\ seen' = seen /\ tree' = tree
  BY DEF Return
<1>2. /\ IsSequence(calls') /\ DOMAIN calls' = DOMAIN calls \ {Len(calls)}
      /\ \A i \in DOMAIN calls' : calls'[i] = calls[i]
  BY <1>1, WithoutLast DEF WalkInv
<1>3. \A i \in DOMAIN calls' : FrameOpen(calls'[i])
  BY <1>2 DEF WalkInv, FramesOpen
<1>4. ASSUME NEW g, NEW m, Awaited(calls, g, m) PROVE Awaited(calls', g, m)
  <2>1. PICK i \in DOMAIN calls : calls[i].handle = g /\ m \in calls[i].rest
    BY <1>4 DEF Awaited
  <2>2. i # Len(calls)
    BY <2>1, <1>1 DEF Innermost
  <2> QED
    BY <2>1, <2>2, <1>2 DEF Awaited
<1>5. \A g \in seen : \A m \in DOMAIN Entries(g) : Awaited(calls', g, m) \/ Followed(Entries(g)[m].handle)
  BY <1>4 DEF WalkInv, EntriesAreFollowed
<1> QED
  BY <1>1, <1>2, <1>3, <1>5, OnlyTheStack

LEMMA EnteringDictionary == WalkInv /\ EnterDictionary => WalkInv'
<1> SUFFICES ASSUME WalkInv, EnterDictionary PROVE WalkInv'
  OBVIOUS
<1>1. PICK n \in InTurn : Meets(Target(n)) /\ WriteDown(Target(n), PathOf(n), Past(n))
  BY DEF EnterDictionary
<1>2. calls # <<>> /\ doc' = doc /\ owned' = owned
  BY DEF EnterDictionary
<1>3. ASSUME NEW g \in seen, NEW m \in DOMAIN Entries(g)
      PROVE  Awaited(Past(n), g, m) \/ Followed(Entries(g)[m].handle) \/ Entries(g)[m].handle = Target(n)
  <2>1. Awaited(calls, g, m) \/ Followed(Entries(g)[m].handle)
    BY DEF WalkInv, EntriesAreFollowed
  <2> QED
    BY <1>2, <2>1, NextEntry
<1>4. IsDictionary(Target(n)) /\ seen' = seen \cup {Target(n)}
  BY <1>1 DEF Meets, WriteDown
<1>5. \A S \in SUBSET AllDictionaries : ClosedUnderEntries(S) => Target(n) \in S
  BY <1>2, <1>4, NextEntry
<1>6. /\ IsSequence(Past(n)) /\ \A i \in DOMAIN Past(n) : FrameOpen(Past(n)[i])
      /\ Leads(Item(Target(n), PathOf(n)))
  BY <1>2, NextEntry
<1>7. /\ IsSequence(calls)' /\ IsTree' /\ FramesOpen' /\ MetIsSeen' /\ EntriesAreFollowed'
      /\ NothingElse' /\ PathsLeadThere'
  BY <1>1, <1>2, <1>3, <1>5, <1>6, Opening
<1>8. StartsAreMet' /\ IsSequence(owned)'
  BY <1>2, <1>4, StartsStay DEF WalkInv
<1> QED
  BY <1>7, <1>8 DEF WalkInv

LEMMA StartingWalk == WalkInv /\ StartWalk => WalkInv'
<1> SUFFICES ASSUME WalkInv, StartWalk PROVE WalkInv'
  OBVIOUS
<1> DEFINE first == Head(owned)
<1>1. calls = <<>> /\ owned # <<>> /\ owned' = Tail(owned) /\ doc' = doc
  BY DEF StartWalk
<1>2. /\ 1 \in DOMAIN owned /\ first = owned[1] /\ IsSequence(owned')
      /\ \A n \in DOMAIN owned' : n + 1 \in DOMAIN owned /\ owned'[n] = owned[n + 1]
      /\ \A n \in DOMAIN owned : n # 1 => n - 1 \in DOMAIN owned' /\ owned'[n - 1] = owned[n]
  BY <1>1, WithoutFirst DEF WalkInv
<1>3. DOMAIN calls = {}
  BY <1>1, EmptySequence
<1>4. first.path # NoPath => first \in Starts
  BY <1>2 DEF WalkInv, StartsAreMet
<1>5. \A x \in Starts : x.path # NoPath /\ x = Item(x.handle, x.path)
  <2>1. <<>> # NoPath
    <3>1. Len(<<>>) = 0 /\ Len(NoPath) = 1
      BY DEF NoPath
    <3> QED
      BY <3>1
  <2>2. ASSUME NEW p, NEW h PROVE [path |-> p, handle |-> h] = Item(h, p)
    BY DEF Item
  <2>3. Root.path = <<>> /\ Root = Item(Root.handle, Root.path)
    BY DEF Root, Item
  <2>4. ASSUME NEW n \in DOMAIN ExtensionDictionaries
        PROVE  ExtensionDictionaries[n] = Item(ExtensionDictionaries[n].handle, ExtensionDictionaries[n].path)
    <3>1. ExtensionDictionaries[n] =
            [path |-> OwnerPath(doc.extensions[n].node), handle |-> doc.extensions[n].handle]
      BY DEF ExtensionDictionaries
    <3> QED
      BY <3>1, <2>2
  <2> QED
    BY <2>1, <2>3, <2>4 DEF Starts
<1>6. \A g \in seen : \A m \in DOMAIN Entries(g) : Followed(Entries(g)[m].handle)
  BY <1>3 DEF WalkInv, EntriesAreFollowed, Awaited
<1>7. StartsAreMet /\ NothingElse
  BY DEF WalkInv
<1>8. ASSUME seen \subseteq seen', first.path # NoPath /\ IsDictionary(first.handle) => first.handle \in seen'
      PROVE  StartsAreMet'
  <2>1. \A i \in DOMAIN owned' : owned'[i].path # NoPath => owned'[i] \in Starts
    BY <1>2, <1>7 DEF StartsAreMet
  <2>2. ASSUME NEW x \in Starts, IsDictionary(x.handle), x.handle \notin seen'
        PROVE  \E i \in DOMAIN owned' : owned'[i] = x
    <3>1. PICK i \in DOMAIN owned : owned[i] = x
      BY <2>2, <1>7, <1>8 DEF StartsAreMet
    <3>2. i # 1
      BY <3>1, <2>2, <1>2, <1>5, <1>8
    <3> QED
      BY <3>1, <3>2, <1>2
  <2>3. Starts' = Starts /\ \A h : IsDictionary(h)' = IsDictionary(h)
    BY <1>1, SameDocument
  <2> QED
    BY <2>1, <2>2, <2>3 DEF StartsAreMet
<1>9. CASE first.path # NoPath /\ Meets(first.handle)
  <2> DEFINE h == first.handle
             path == first.path
  <2>1. WriteDown(h, path, <<>>)
    BY <1>9 DEF StartWalk
  <2>2. first \in Starts /\ first = Item(h, path)
    BY <1>4, <1>5, <1>9
  <2>3. IsDictionary(h) /\ seen' = seen \cup {h}
    BY <1>9, <2>1 DEF Meets, WriteDown
  <2>4. \A S \in SUBSET AllDictionaries : ClosedUnderEntries(S) => h \in S
    BY <2>2, <2>3 DEF ClosedUnderEntries
  <2>5. /\ IsSequence(calls)' /\ IsTree' /\ FramesOpen' /\ MetIsSeen' /\ EntriesAreFollowed'
        /\ NothingElse' /\ PathsLeadThere'
    <3> HIDE DEF first
    <3> QED
      BY <1>1, <1>6, <1>9, <2>1, <2>2, <2>4, EmptySequence, Opening
  <2>6. StartsAreMet'
    BY <1>8, <2>3
  <2> QED
    BY <1>2, <2>5, <2>6 DEF WalkInv
<1>10. CASE ~(first.path # NoPath /\ Meets(first.handle))
  <2>1. calls' = calls /\ seen' = seen /\ tree' = tree
    BY <1>10 DEF StartWalk
  <2>2. StartsAreMet'
    BY <1>8, <1>10, <2>1 DEF Meets
  <2>3. /\ IsSequence(tree'.xrecords)
        /\ tree' = [dictionaries |-> tree.dictionaries, xrecords |-> tree'.xrecords, owners |-> tree'.owners]
        /\ \A x \in DOMAIN tree.xrecords : x \in DOMAIN tree'.xrecords /\ tree'.xrecords[x] = tree.xrecords[x]
        /\ \A x \in DOMAIN tree'.xrecords : Leads(tree'.xrecords[x])
    BY <2>1 DEF WalkInv, IsTree, PathsLeadThere
  <2>4. IsSequence(calls') /\ DOMAIN calls' = {}
    BY <1>1, <2>1, EmptySequence
  <2>5. /\ IsSequence(calls)' /\ IsTree' /\ FramesOpen' /\ MetIsSeen' /\ EntriesAreFollowed'
        /\ NothingElse' /\ PathsLeadThere'
    BY <1>1, <1>6, <2>1, <2>3, <2>4, Settling
  <2> QED
    BY <1>2, <2>2, <2>5 DEF WalkInv
<1> QED
  BY <1>9, <1>10

LEMMA NextWalkInv == WalkInv /\ [WalkNext]_<<doc, walkVars>> => WalkInv'
<1>1. ASSUME WalkInv, UNCHANGED <<doc, walkVars>> PROVE WalkInv'
  <2>1. doc' = doc /\ owned' = owned /\ calls' = calls /\ seen' = seen /\ tree' = tree
    BY <1>1 DEF walkVars
  <2>2. IsSequence(calls') /\ \A i \in DOMAIN calls' : FrameOpen(calls'[i])
    BY <1>1, <2>1 DEF WalkInv, FramesOpen
  <2>3. \A g \in seen : \A n \in DOMAIN Entries(g) : Awaited(calls', g, n) \/ Followed(Entries(g)[n].handle)
    BY <1>1, <2>1 DEF WalkInv, EntriesAreFollowed
  <2> QED
    BY <1>1, <2>1, <2>2, <2>3, OnlyTheStack
<1> QED
  BY <1>1, StartingWalk, ListingXRecord, EnteringDictionary, PassingOver, Returning DEF WalkNext

\* Once the walk is over, what was met is the least set that can be reached.
LEMMA WalkedMissesNothing == WalkInv /\ TreeIsWalked => NothingIsMissed
<1> SUFFICES ASSUME WalkInv, TreeIsWalked PROVE NothingIsMissed
  OBVIOUS
<1>1. DOMAIN calls = {} /\ DOMAIN owned = {}
  BY EmptySequence DEF TreeIsWalked
<1>2. Met = seen /\ \A h \in seen : IsDictionary(h)
  BY DEF WalkInv, MetIsSeen
<1>3. \A h \in seen : \A n \in DOMAIN Entries(h) : Followed(Entries(h)[n].handle)
  BY <1>1 DEF WalkInv, EntriesAreFollowed, Awaited
<1>4. \A x \in Starts : IsDictionary(x.handle) => x.handle \in seen
  BY <1>1 DEF WalkInv, StartsAreMet
<1>5. ClosedUnderEntries(Met)
  BY <1>2, <1>3, <1>4 DEF ClosedUnderEntries, Followed
<1>6. ASSUME NEW S \in SUBSET Met, ClosedUnderEntries(S) PROVE S = Met
  <2>1. S \in SUBSET AllDictionaries
    BY <1>2 DEF AllDictionaries, IsDictionary
  <2> QED
    BY <1>2, <1>6, <2>1 DEF WalkInv, NothingElse
<1> QED
  BY <1>2, <1>3, <1>5, <1>6 DEF NothingIsMissed, Followed

\* Whatever dictionaries a document has and whichever entries they hold, the
\* walk of dictionary_tree() writes each one that can be reached down once,
\* under a path of keys that leads to it, and nothing else.
THEOREM WalkFindsTheReachable == WalkSpec => []TreeIsWhatIsReachable
<1>1. WalkInit => WalkInv
  BY InitWalkInv
<1>2. WalkInv /\ [WalkNext]_<<doc, walkVars>> => WalkInv'
  BY NextWalkInv
<1>3. WalkInv => TreeIsWhatIsReachable
  BY WalkedMissesNothing DEF WalkInv, TreeIsWhatIsReachable
<1> QED
  BY <1>1, <1>2, <1>3, PTL DEF WalkSpec

-----------------------------------------------------------------------------
(* Sequences, once more: one after another, and filled step by step. *)

LEMMA LeastNumber == ASSUME NEW S \in SUBSET Nat, S # {} PROVE \E n \in S : \A m \in S : n <= m
<1>1. PICK n \in S : \A m \in S : <<m, n>> \notin OpToRel(<, Nat)
  BY Zenon, NatLessThanWellFounded, WFMin
<1>2. \A m \in S : ~(m < n)
  BY Zenon, <1>1 DEF OpToRel
<1> QED
  BY <1>2

NotAfter(ranks, i) ==
  {j \in DOMAIN ranks : \/ ranks[j] < ranks[i]
                        \/ ranks[j] = ranks[i] /\ j <= i}

Place(ranks, i) == Cardinality(NotAfter(ranks, i))

\* In a stable order every place is taken.
LEMMA PlacesAreTaken ==
  ASSUME NEW n \in Nat, NEW ranks \in [1..n -> Int], NEW k \in 1..n
  PROVE  \E i \in DOMAIN ranks : Place(ranks, i) = k
<1> DEFINE place == [i \in 1..n |-> Cardinality(NotAfter(ranks, i))]
<1>1. IsFiniteSet(1..n) /\ Cardinality(1..n) = n
  BY FS_Interval
<1>2. \A i \in 1..n : NotAfter(ranks, i) \subseteq 1..n /\ i \in NotAfter(ranks, i)
  BY DEF NotAfter
<1>3. \A i \in 1..n : IsFiniteSet(NotAfter(ranks, i))
  BY <1>1, <1>2, FS_Subset
<1>4. \A i \in 1..n : place[i] \in 1..n
  <2> SUFFICES ASSUME NEW i \in 1..n PROVE Cardinality(NotAfter(ranks, i)) \in 1..n
    OBVIOUS
  <2>1. Cardinality(NotAfter(ranks, i)) <= n
    BY <1>1, <1>2, FS_Subset
  <2>2. Cardinality(NotAfter(ranks, i)) \in Nat /\ Cardinality(NotAfter(ranks, i)) # 0
    BY <1>2, <1>3, FS_CardinalityType, FS_EmptySet
  <2> QED
    BY <2>1, <2>2
<1>5. ASSUME NEW i \in 1..n, NEW j \in 1..n, ranks[i] < ranks[j] \/ (ranks[i] = ranks[j] /\ i < j)
      PROVE  place[i] # place[j]
  <2>1. NotAfter(ranks, i) \subseteq NotAfter(ranks, j)
    BY <1>5 DEF NotAfter
  <2>2. j \in NotAfter(ranks, j) /\ j \notin NotAfter(ranks, i)
    BY <1>5 DEF NotAfter
  <2>3. Cardinality(NotAfter(ranks, i)) = Cardinality(NotAfter(ranks, j)) => NotAfter(ranks, j) = NotAfter(ranks, i)
    BY <1>3, <2>1, FS_Subset
  <2> QED
    BY <2>2, <2>3
<1>6. \A i, j \in 1..n : place[i] = place[j] => i = j
  <2> SUFFICES ASSUME NEW i \in 1..n, NEW j \in 1..n, i # j PROVE place[i] # place[j]
    OBVIOUS
  <2>1. \/ ranks[i] < ranks[j] \/ (ranks[i] = ranks[j] /\ i < j)
        \/ ranks[j] < ranks[i] \/ (ranks[j] = ranks[i] /\ j < i)
    OBVIOUS
  <2> HIDE DEF place
  <2> QED
    BY <1>5, <2>1
<1>7. place = [i \in 1..n |-> place[i]]
  OBVIOUS
<1>8. \A i \in 1..n : place[i] = Cardinality(NotAfter(ranks, i))
  OBVIOUS
<1> HIDE DEF place
<1>9. place \in Injection(1..n, 1..n)
  BY Zenon, <1>4, <1>6, <1>7 DEF Injection, IsInjective
<1>10. place \in Surjection(1..n, 1..n)
  BY <1>1, <1>9, FS_Injection
<1>11. PICK i \in 1..n : place[i] = k
  BY <1>10 DEF Surjection
<1> QED
  BY <1>8, <1>11 DEF Place

LEMMA Joined ==
  ASSUME NEW s, IsSequence(s), NEW t, IsSequence(t)
  PROVE  /\ IsSequence(s \o t)
         /\ Len(s \o t) = Len(s) + Len(t)
         /\ DOMAIN (s \o t) = 1..(Len(s) + Len(t))
         /\ \A n \in DOMAIN s : (s \o t)[n] = s[n]
         /\ \A n \in DOMAIN (s \o t) :
              \/ n \in DOMAIN s /\ (s \o t)[n] = s[n]
              \/ n - Len(s) \in DOMAIN t /\ (s \o t)[n] = t[n - Len(s)]
<1> DEFINE S == Values(s) \cup Values(t)
           j == s \o t
<1>1. s \in Seq(Values(s)) /\ t \in Seq(Values(t))
  BY DEF IsSequence, Values
<1>2. s \in Seq(S) /\ t \in Seq(S)
  BY <1>1, SeqMonotonic, Values(s) \subseteq S, Values(t) \subseteq S
<1> HIDE DEF S
<1>3. /\ j \in Seq(S)
      /\ Len(j) = Len(s) + Len(t)
      /\ \A n \in 1..(Len(s) + Len(t)) : j[n] = IF n <= Len(s) THEN s[n] ELSE t[n - Len(s)]
  BY <1>2, ConcatProperties
<1>4. Len(s) \in Nat /\ Len(t) \in Nat /\ DOMAIN s = 1..Len(s) /\ DOMAIN t = 1..Len(t)
  BY Sequences_
<1>5. IsSequence(j)
  BY Zenon, <1>3, SequenceOf
<1> HIDE DEF j
<1>6. DOMAIN j = 1..(Len(s) + Len(t))
  BY <1>3, <1>5, Sequences_
<1>7. \A n \in 1..Len(s) : n \in 1..(Len(s) + Len(t)) /\ n <= Len(s)
  BY <1>4
<1>9. \A n \in 1..(Len(s) + Len(t)) : n <= Len(s) => n \in 1..Len(s)
  BY <1>4
<1>10. \A n \in 1..(Len(s) + Len(t)) : ~(n <= Len(s)) => n - Len(s) \in 1..Len(t)
  BY <1>4
<1>11. \A n \in DOMAIN s : j[n] = s[n]
  BY <1>3, <1>4, <1>7
<1>13. \A n \in DOMAIN j : \/ n \in DOMAIN s /\ j[n] = s[n]
                           \/ n - Len(s) \in DOMAIN t /\ j[n] = t[n - Len(s)]
  BY <1>3, <1>4, <1>6, <1>9, <1>10
<1> QED
  BY <1>3, <1>5, <1>6, <1>11, <1>13 DEF j

LEMMA JoinedRight ==
  ASSUME NEW s, IsSequence(s), NEW t, IsSequence(t), NEW n \in DOMAIN t, NEW m, m = Len(s) + n
  PROVE  (s \o t)[m] = t[n]
<1>1. /\ Len(s) \in Nat /\ Len(t) \in Nat /\ DOMAIN s = 1..Len(s) /\ DOMAIN t = 1..Len(t)
      /\ DOMAIN (s \o t) = 1..(Len(s) + Len(t))
  BY Sequences_, Joined
<1>2. m \in DOMAIN (s \o t) /\ m \notin DOMAIN s /\ m - Len(s) = n
  BY <1>1
<1> QED
  BY <1>2, Joined

LEMMA TableIsSequence ==
  ASSUME NEW n \in Nat, NEW f, f = [m \in 1..n |-> f[m]]
  PROVE  IsSequence(f) /\ Len(f) = n /\ DOMAIN f = 1..n
<1>1. f \in [1..n -> Values(f)]
  BY DEF Values
<1>2. f \in UNION {[1..m -> Values(f)] : m \in Nat}
  BY <1>1
<1>3. f \in Seq(Values(f))
  BY <1>2, SeqDef
<1>4. Len(f) = n
  BY <1>1, <1>3, LenProperties
<1> QED
  BY <1>3, <1>4, LenProperties DEF IsSequence, Values

LEMMA SameLength ==
  ASSUME NEW s, IsSequence(s), NEW f, f = [m \in DOMAIN s |-> f[m]]
  PROVE  IsSequence(f) /\ Len(f) = Len(s) /\ DOMAIN f = DOMAIN s
<1>1. Len(s) \in Nat /\ DOMAIN s = 1..Len(s)
  BY Sequences_
<1> QED
  BY <1>1, TableIsSequence

\* The element in a place.
Held(ranks, k) == CHOOSE i \in DOMAIN ranks : Place(ranks, i) = k

\* Each place of a list in its order is taken by one of its own.
LEMMA EachIsHeld ==
  ASSUME NEW s, IsSequence(s), NEW ranks, ranks \in [DOMAIN s -> Int]
  PROVE  DOMAIN ranks = DOMAIN s /\ \A k \in DOMAIN s : Held(ranks, k) \in DOMAIN s
<1> DEFINE n == Len(s)
<1>1. n \in Nat /\ DOMAIN s = 1..n /\ DOMAIN ranks = DOMAIN s
  BY Sequences_
<1> HIDE DEF n
<1>2. \A k \in 1..n : Held(ranks, k) \in DOMAIN ranks
  BY Zenon, <1>1, PlacesAreTaken DEF Held
<1> QED
  BY <1>1, <1>2

\* In a stable order each has one place, and each place has one.
LEMMA HeldOnce ==
  ASSUME NEW n \in Nat, NEW ranks \in [1..n -> Int]
  PROVE  /\ \A k \in 1..n : Held(ranks, k) \in 1..n
         /\ \A j, k \in 1..n : Held(ranks, j) = Held(ranks, k) => j = k
         /\ \A i \in 1..n : \E k \in 1..n : Held(ranks, k) = i
<1> DEFINE held == [k \in 1..n |-> Held(ranks, k)]
<1>1. \A k \in 1..n : Held(ranks, k) \in DOMAIN ranks /\ Place(ranks, Held(ranks, k)) = k
  BY Zenon, PlacesAreTaken DEF Held
<1>2. DOMAIN ranks = 1..n
  OBVIOUS
<1>3. held = [k \in 1..n |-> held[k]] /\ \A k \in 1..n : held[k] = Held(ranks, k)
  OBVIOUS
<1> HIDE DEF held
<1>4. held \in [1..n -> 1..n]
  <2>1. \A k \in 1..n : held[k] \in 1..n
    BY Zenon, <1>1, <1>2, <1>3
  <2> QED
    BY Zenon, <1>3, <2>1
<1>5. \A j, k \in 1..n : held[j] = held[k] => j = k
  BY Zenon, <1>1, <1>3
<1>6. held \in Injection(1..n, 1..n)
  BY Zenon, <1>4, <1>5 DEF Injection, IsInjective
<1>7. IsFiniteSet(1..n)
  BY FS_Interval
<1>8. held \in Surjection(1..n, 1..n)
  BY <1>6, <1>7, FS_Injection
<1>9. \A i \in 1..n : \E k \in 1..n : held[k] = i
  BY <1>8 DEF Surjection
<1>10. \A j, k \in 1..n : Held(ranks, j) = Held(ranks, k) => j = k
  BY Zenon, <1>3, <1>5
<1>11. \A i \in 1..n : \E k \in 1..n : Held(ranks, k) = i
  BY Zenon, <1>3, <1>9
<1> QED
  BY Zenon, <1>1, <1>2, <1>10, <1>11

\* The cardinality, spelled out, by which every instance of FiniteSets has it.
Number(S) ==
  LET CS[T \in SUBSET S] == IF T = {} THEN 0 ELSE 1 + CS[T \ {CHOOSE x : x \in T}]
  IN  CS[S]

\* Sets that are one to one have as many elements.
LEMMA AsMany ==
  ASSUME NEW n \in Nat, NEW S \in SUBSET (1..n), NEW T, NEW f \in [S -> T],
         \A x, y \in S : f[x] = f[y] => x = y,
         \A y \in T : \E x \in S : f[x] = y
  PROVE  Number(S) = Number(T)
<1>1. IsFiniteSet(S)
  <2>1. IsFiniteSet(1..n)
    BY FS_Interval
  <2> QED
    BY <2>1, FS_Subset
<1>2. f \in Bijection(S, T)
  <2>1. f \in Injection(S, T)
    BY Zenon DEF Injection, IsInjective
  <2>2. f \in Surjection(S, T)
    BY Zenon DEF Surjection
  <2> QED
    BY Zenon, <2>1, <2>2 DEF Bijection
<1>3. ExistsBijection(S, T)
  BY Zenon, <1>2 DEF ExistsBijection
<1>4. Cardinality(S) = Cardinality(T)
  BY <1>1, <1>3, FS_Bijection
<1>5. \A X : Cardinality(X) = Number(X)
  BY Zenon DEF Cardinality, Number
<1> QED
  BY <1>4, <1>5

LEMMA Throughout ==
  ASSUME NEW n \in Nat, NEW D, NEW f, f[0] \in D, \A i \in 1..n : f[i - 1] \in D => f[i] \in D
  PROVE  \A i \in 0..n : f[i] \in D
<1> DEFINE S == {i \in 0..n : f[i] \notin D}
<1> SUFFICES ASSUME S # {} PROVE FALSE
  OBVIOUS
<1>1. PICK i \in S : \A j \in S : i <= j
  <2>1. S \in SUBSET Nat
    OBVIOUS
  <2> HIDE DEF S
  <2> QED
    BY <2>1, LeastNumber
<1>2. i \in 1..n /\ i - 1 \in 0..n /\ i - 1 \notin S
  BY <1>1
<1> QED
  BY <1>1, <1>2

\* A table filled from its first entry on.
Steps(f, n, first, step) == f = [i \in 0..n |-> IF i = 0 THEN first ELSE step[<<f[i - 1], i>>]]

LEMMA Rolled ==
  ASSUME NEW n \in Nat, NEW first, NEW step
  PROVE  \E f : Steps(f, n, first, step)
<1> USE DEF Steps
<1> DEFINE To(f, m) == Steps(f, m, first, step)
           S == {m \in Nat : ~\E f : To(f, m)}
<1> SUFFICES ASSUME S # {} PROVE FALSE
  OBVIOUS
<1>1. PICK m \in S : \A j \in S : m <= j
  <2>1. S \in SUBSET Nat
    OBVIOUS
  <2> HIDE DEF S
  <2> QED
    BY <2>1, LeastNumber
<1>2. CASE m = 0
  <2> DEFINE f == [i \in 0..0 |-> first]
  <2>1. \A i \in 0..0 : i = 0
    OBVIOUS
  <2>2. To(f, 0)
    BY <2>1
  <2> QED
    BY Zenon, <1>1, <1>2, <2>2
<1>3. CASE m # 0
  <2>1. m \in Nat /\ m - 1 \in Nat /\ m - 1 \notin S
    BY <1>1, <1>3
  <2>2. PICK f : To(f, m - 1)
    BY <2>1
  <2> DEFINE g == [i \in 0..m |-> IF i <= m - 1 THEN f[i] ELSE step[<<f[m - 1], m>>]]
  <2>3. \A i \in 0..(m - 1) : g[i] = f[i]
    BY <2>1
  <2>4. ASSUME NEW i \in 0..m
        PROVE  g[i] = IF i = 0 THEN first ELSE step[<<g[i - 1], i>>]
    <3>1. CASE i = 0
      <4>1. 0 \in 0..(m - 1) /\ f[0] = first
        BY <2>1, <2>2
      <4> QED
        BY <2>3, <3>1, <4>1
    <3>2. CASE i \in 1..(m - 1)
      <4>1. i \in 0..(m - 1) /\ i - 1 \in 0..(m - 1) /\ i # 0
        BY <2>1, <3>2
      <4>2. f[i] = step[<<f[i - 1], i>>]
        BY <2>2, <4>1
      <4> QED
        BY Zenon, <2>3, <4>1, <4>2
    <3>3. CASE i = m
      <4>1. i # 0 /\ ~(i <= m - 1) /\ i - 1 = m - 1 /\ m - 1 \in 0..(m - 1)
        BY <2>1, <1>3, <3>3
      <4>2. g[m - 1] = f[m - 1]
        BY <2>3, <4>1
      <4>3. g[i] = step[<<f[m - 1], m>>]
        BY <4>1, <3>3
      <4> HIDE DEF g
      <4> QED
        BY <4>1, <4>2, <4>3, <3>3
    <3> QED
      BY <2>1, <3>1, <3>2, <3>3
  <2>5. g = [i \in 0..m |-> g[i]]
    OBVIOUS
  <2> HIDE DEF g
  <2>6. To(g, m)
    BY <2>4, <2>5
  <2> QED
    BY <1>1, <2>6
<1> QED
  BY <1>2, <1>3

LEMMA OnlyOne == ASSUME NEW x, NEW S, S = {x} PROVE Only(S) = x
BY DEF Only

-----------------------------------------------------------------------------
(* The records of the schema. *)

FieldTypes == {"uint", "bool", "real", "string", "array"}

FieldNames(kind) == {Schema[kind][n][1] : n \in DOMAIN Schema[kind]}

LEMMA KindsAre ==
  Kinds = {"document", "view", "line", "polyline", "circle", "arc", "ellipse", "spline", "polygon",
           "point", "text", "warning"}
BY DEF Kinds, Schema

LEMMA Tuple2 ==
  ASSUME NEW a, NEW b
  PROVE  IsSequence(<<a, b>>)
<1>1. <<a, b>> \in Seq({a, b})
  OBVIOUS
<1> QED
  BY Zenon, <1>1, SequenceOf

LEMMA Tuple3 ==
  ASSUME NEW a, NEW b, NEW c
  PROVE  IsSequence(<<a, b, c>>)
<1>1. <<a, b, c>> \in Seq({a, b, c})
  OBVIOUS
<1> QED
  BY Zenon, <1>1, SequenceOf

LEMMA Tuple4 ==
  ASSUME NEW a, NEW b, NEW c, NEW d
  PROVE  IsSequence(<<a, b, c, d>>)
<1>1. <<a, b, c, d>> \in Seq({a, b, c, d})
  OBVIOUS
<1> QED
  BY Zenon, <1>1, SequenceOf

LEMMA Tuple5 ==
  ASSUME NEW a, NEW b, NEW c, NEW d, NEW e
  PROVE  IsSequence(<<a, b, c, d, e>>)
<1>1. <<a, b, c, d, e>> \in Seq({a, b, c, d, e})
  OBVIOUS
<1> QED
  BY Zenon, <1>1, SequenceOf

LEMMA Tuple6 ==
  ASSUME NEW a, NEW b, NEW c, NEW d, NEW e, NEW f
  PROVE  IsSequence(<<a, b, c, d, e, f>>)
<1>1. <<a, b, c, d, e, f>> \in Seq({a, b, c, d, e, f})
  OBVIOUS
<1> QED
  BY Zenon, <1>1, SequenceOf

LEMMA Tuple7 ==
  ASSUME NEW a, NEW b, NEW c, NEW d, NEW e, NEW f, NEW g
  PROVE  IsSequence(<<a, b, c, d, e, f, g>>)
<1>1. <<a, b, c, d, e, f, g>> \in Seq({a, b, c, d, e, f, g})
  OBVIOUS
<1> QED
  BY Zenon, <1>1, SequenceOf

LEMMA Tuple8 ==
  ASSUME NEW a, NEW b, NEW c, NEW d, NEW e, NEW f, NEW g, NEW h
  PROVE  IsSequence(<<a, b, c, d, e, f, g, h>>)
<1>1. <<a, b, c, d, e, f, g, h>> \in Seq({a, b, c, d, e, f, g, h})
  OBVIOUS
<1> QED
  BY Zenon, <1>1, SequenceOf

LEMMA Tuple9 ==
  ASSUME NEW a, NEW b, NEW c, NEW d, NEW e, NEW f, NEW g, NEW h, NEW i
  PROVE  IsSequence(<<a, b, c, d, e, f, g, h, i>>)
<1>1. <<a, b, c, d, e, f, g, h, i>> \in Seq({a, b, c, d, e, f, g, h, i})
  OBVIOUS
<1> QED
  BY Zenon, <1>1, SequenceOf

\* The lists of a record.
ArraysOf(kind) ==
  CASE kind = "polyline" -> {"points", "bulges"}
    [] kind = "polygon" -> {"points"}
    [] kind = "spline" -> {"control_points", "knots", "weights", "fit_points"}
    [] OTHER -> {}

LEMMA FieldsAre ==
  ASSUME NEW kind \in Kinds
  PROVE  /\ IsSequence(Schema[kind])
         /\ \A m, n \in DOMAIN Schema[kind] : Schema[kind][m][1] = Schema[kind][n][1] => m = n
         /\ \A n \in DOMAIN Schema[kind] :
              /\ Schema[kind][n][2] \in FieldTypes
              /\ Schema[kind][n][1] \notin {"schema", "record", "extra", "i"}
              /\ Schema[kind][n][1] \in {"points", "bulges"} => Schema[kind][n][2] = "array"
              /\ Schema[kind][n][1] = "bulges" => kind = "polyline"
              /\ Schema[kind][n][2] = "array" => Schema[kind][n][1] \in ArraysOf(kind)
<1> USE DEF Schema, FieldTypes, ArraysOf, Uint, Bool, Real, Text, List, View
<1>1. CASE kind = "document"
  <2>1. Schema[kind] = <<<<"format", "string">>,
                       <<"acad_version", "string">>, <<"maintenance_version", "uint">>>>
    BY <1>1
  <2> HIDE DEF Schema
  <2> QED
    BY <2>1, Tuple3
<1>2. CASE kind = "view"
  <2>1. Schema[kind] = <<<<"index", "uint">>, <<"name", "string">>, <<"kind", "string">>>>
    BY <1>2
  <2> HIDE DEF Schema
  <2> QED
    BY <2>1, Tuple3
<1>3. CASE kind = "line"
  <2>1. Schema[kind] = <<<<"view", "uint">>, <<"a", "real">>, <<"b", "real">>>>
    BY <1>3
  <2> HIDE DEF Schema
  <2> QED
    BY <2>1, Tuple3
<1>4. CASE kind = "polyline"
  <2>1. Schema[kind] = <<<<"view", "uint">>, <<"closed", "bool">>,
                       <<"normal", "real">>, <<"points", "array">>, <<"bulges", "array">>>>
    BY <1>4
  <2> HIDE DEF Schema
  <2> QED
    BY <1>4, <2>1, Tuple5
<1>5. CASE kind = "circle"
  <2>1. Schema[kind] = <<<<"view", "uint">>, <<"center", "real">>, <<"radius", "real">>, <<"normal", "real">>>>
    BY <1>5
  <2> HIDE DEF Schema
  <2> QED
    BY <2>1, Tuple4
<1>6. CASE kind = "arc"
  <2>1. Schema[kind] = <<<<"view", "uint">>, <<"center", "real">>, <<"radius", "real">>,
                       <<"start", "real">>, <<"end", "real">>, <<"normal", "real">>>>
    BY <1>6
  <2> HIDE DEF Schema
  <2> QED
    BY <2>1, Tuple6
<1>7. CASE kind = "ellipse"
  <2>1. Schema[kind] = <<<<"view", "uint">>, <<"center", "real">>, <<"major", "real">>,
                       <<"ratio", "real">>, <<"start", "real">>, <<"end", "real">>, <<"normal", "real">>>>
    BY <1>7
  <2> HIDE DEF Schema
  <2>2. IsSequence(Schema[kind]) /\ DOMAIN Schema[kind] = 1..7
    BY <2>1, Tuple7
  <2>3. \A m, n \in 1..7 : Schema[kind][m][1] = Schema[kind][n][1] => m = n
    BY <2>1
  <2>4. \A n \in 1..7 :
          /\ Schema[kind][n][2] \in FieldTypes
          /\ Schema[kind][n][1] \notin {"schema", "record", "extra", "i", "points", "bulges"}
          /\ Schema[kind][n][2] # "array"
    BY <1>7, <2>1
  <2> QED
    BY <2>2, <2>3, <2>4
<1>8. CASE kind = "spline"
  <2>1. Schema[kind] = <<<<"view", "uint">>, <<"degree", "uint">>, <<"closed", "bool">>, <<"periodic", "bool">>,
                       <<"control_points", "array">>, <<"knots", "array">>, <<"weights", "array">>, <<"fit_points", "array">>>>
    BY <1>8
  <2> HIDE DEF Schema
  <2>2. IsSequence(Schema[kind]) /\ DOMAIN Schema[kind] = 1..8
    BY <2>1, Tuple8
  <2>3. \A m, n \in 1..8 : Schema[kind][m][1] = Schema[kind][n][1] => m = n
    BY <2>1
  <2>4. \A n \in 1..8 :
          /\ Schema[kind][n][2] \in FieldTypes
          /\ Schema[kind][n][1] \notin {"schema", "record", "extra", "i", "points", "bulges"}
    BY <2>1
  <2>5. ArraysOf(kind) = {"control_points", "knots", "weights", "fit_points"}
    BY <1>8
  <2>6. \A n \in 1..8 : n \in 1..4 \/ n \in 5..8
    OBVIOUS
  <2>7. \A n \in 1..4 : Schema[kind][n][2] # "array"
    BY <2>1
  <2>8. \A n \in 5..8 : Schema[kind][n][1] \in {"control_points", "knots", "weights", "fit_points"}
    BY <2>1
  <2> HIDE DEF ArraysOf
  <2>9. \A n \in 1..8 : Schema[kind][n][2] = "array" => Schema[kind][n][1] \in ArraysOf(kind)
    BY <2>5, <2>6, <2>7, <2>8
  <2>10. \A n \in 1..8 :
           /\ Schema[kind][n][2] \in FieldTypes
           /\ Schema[kind][n][1] \notin {"schema", "record", "extra", "i"}
           /\ Schema[kind][n][1] \in {"points", "bulges"} => Schema[kind][n][2] = "array"
           /\ Schema[kind][n][1] = "bulges" => kind = "polyline"
           /\ Schema[kind][n][2] = "array" => Schema[kind][n][1] \in ArraysOf(kind)
    <3> HIDE DEF FieldTypes
    <3> QED
      BY <2>4, <2>9
  <2> HIDE DEF FieldTypes
  <2> QED
    BY <2>2, <2>3, <2>10
<1>9. CASE kind = "polygon"
  <2>1. Schema[kind] = <<<<"view", "uint">>, <<"points", "array">>>>
    BY <1>9
  <2> HIDE DEF Schema
  <2> QED
    BY <1>9, <2>1, Tuple2
<1>10. CASE kind = "point"
  <2>1. Schema[kind] = <<<<"view", "uint">>, <<"at", "real">>>>
    BY <1>10
  <2> HIDE DEF Schema
  <2> QED
    BY <2>1, Tuple2
<1>11. CASE kind = "text"
  <2>1. Schema[kind] = <<<<"view", "uint">>, <<"at", "real">>, <<"height", "real">>, <<"rotation", "real">>,
                       <<"width_factor", "real">>, <<"halign", "string">>, <<"valign", "string">>, <<"style", "string">>, <<"text", "string">>>>
    BY <1>11
  <2> HIDE DEF Schema
  <2>2. IsSequence(Schema[kind]) /\ DOMAIN Schema[kind] = 1..9
    BY <2>1, Tuple9
  <2>3. \A m, n \in 1..9 : Schema[kind][m][1] = Schema[kind][n][1] => m = n
    BY <2>1
  <2>4. \A n \in 1..9 :
          /\ Schema[kind][n][2] \in FieldTypes
          /\ Schema[kind][n][1] \notin {"schema", "record", "extra", "i", "points", "bulges"}
          /\ Schema[kind][n][2] # "array"
    BY <2>1
  <2> QED
    BY <2>2, <2>3, <2>4
<1>12. CASE kind = "warning"
  <2>1. Schema[kind] = <<<<"category", "string">>, <<"entity_type", "string">>, <<"detail", "string">>>>
    BY <1>12
  <2> HIDE DEF Schema
  <2> QED
    BY <2>1, Tuple3
<1> QED
  BY Zenon, <1>1, <1>2, <1>3, <1>4, <1>5, <1>6, <1>7, <1>8, <1>9, <1>10, <1>11, <1>12, KindsAre

LEMMA PolylineFields == {"points", "bulges"} \subseteq FieldNames("polyline") /\ "polyline" \in Kinds
<1>1. Schema["polyline"][4][1] = "points" /\ Schema["polyline"][5][1] = "bulges"
      /\ DOMAIN Schema["polyline"] = 1..5
  BY DEF Schema, Uint, Bool, Real, Text, List, View
<1> QED
  BY <1>1, KindsAre DEF FieldNames

\* What the recorder of a drawing hands over: a kind the schema has, lists where
\* it asks for them, and as many bulges as points.
Proper(r) ==
  /\ r.record \in Kinds
  /\ \A n \in DOMAIN Schema[r.record] :
       Schema[r.record][n][2] = "array" => IsSequence(r[Schema[r.record][n][1]])
  /\ r.record = "polyline" => Len(r.points) = Len(r.bulges)

-----------------------------------------------------------------------------
(* What an entity becomes. *)

\* The warnings there are.
Said == Values(AllWarnings)

Telling(ws) == IsSequence(ws) /\ \A n \in DOMAIN ws : ws[n] \in Said

\* Records the schema has lines for, and warnings.
Sound(x) == IsSequence(x.records) /\ (\A n \in DOMAIN x.records : Proper(x.records[n])) /\ Telling(x.warned)

LEMMA ProperPlain ==
  ASSUME NEW r, r.record \in Kinds \ {"polyline", "polygon", "spline"}
  PROVE  Proper(r)
<1>1. ArraysOf(r.record) = {}
  BY DEF ArraysOf
<1> QED
  BY <1>1, FieldsAre DEF Proper

LEMMA ProperPolyline ==
  ASSUME NEW r, r.record = "polyline", IsSequence(r.points), IsSequence(r.bulges), Len(r.points) = Len(r.bulges)
  PROVE  Proper(r)
<1>1. r.record \in Kinds /\ ArraysOf(r.record) = {"points", "bulges"}
  BY KindsAre DEF ArraysOf
<1> QED
  BY <1>1, FieldsAre DEF Proper

LEMMA ProperPolygon ==
  ASSUME NEW r, r.record = "polygon", IsSequence(r.points)
  PROVE  Proper(r)
<1>1. r.record \in Kinds /\ ArraysOf(r.record) = {"points"}
  BY KindsAre DEF ArraysOf
<1> QED
  BY <1>1, FieldsAre DEF Proper

LEMMA ProperSpline ==
  ASSUME NEW r, r.record = "spline", IsSequence(r.control_points), IsSequence(r.knots),
         IsSequence(r.weights), IsSequence(r.fit_points)
  PROVE  Proper(r)
<1>1. r.record \in Kinds /\ ArraysOf(r.record) = {"control_points", "knots", "weights", "fit_points"}
  BY KindsAre DEF ArraysOf
<1> QED
  BY <1>1, FieldsAre DEF Proper

LEMMA OneElement ==
  ASSUME NEW x
  PROVE  IsSequence(<<x>>) /\ Len(<<x>>) = 1 /\ DOMAIN <<x>> = 1..1 /\ <<x>>[1] = x
<1>1. <<x>> \in Seq({x})
  OBVIOUS
<1>2. Len(<<x>>) = 1 /\ <<x>>[1] = x
  OBVIOUS
<1>3. DOMAIN <<x>> = 1..1
  OBVIOUS
<1>4. IsSequence(<<x>>)
  BY Zenon, <1>1, SequenceOf
<1> QED
  BY <1>2, <1>3, <1>4

LEMMA NothingTold == Telling(<<>>)
BY EmptySequence DEF Telling

LEMMA OneTold == ASSUME NEW w \in Said PROVE Telling(<<w>>)
BY OneElement DEF Telling

LEMMA JoinedTold ==
  ASSUME NEW s, Telling(s), NEW t, Telling(t)
  PROVE  Telling(s \o t)
<1>1. IsSequence(s) /\ IsSequence(t) /\ (\A n \in DOMAIN s : s[n] \in Said) /\ (\A n \in DOMAIN t : t[n] \in Said)
  BY DEF Telling
<1>2. /\ IsSequence(s \o t)
      /\ \A n \in DOMAIN (s \o t) : \/ n \in DOMAIN s /\ (s \o t)[n] = s[n]
                                    \/ n - Len(s) \in DOMAIN t /\ (s \o t)[n] = t[n - Len(s)]
  BY <1>1, Joined
<1> QED
  BY <1>1, <1>2 DEF Telling

\* The warnings of the entities, of the blocks and of the reader.
LEMMA EntitySays ==
  /\ Warn("invalid_entity", "Hatch", "boundary_path_without_edges") \in Said
  /\ Warn("invalid_entity", "Hatch", "no_boundary_paths") \in Said
  /\ Warn("invalid_entity", "HatchSpline", "no_control_points") \in Said
  /\ Warn("invalid_entity", "Polyline", "no_vertices") \in Said
  /\ Warn("invalid_entity", "Spline", "no_control_or_fit_points") \in Said
  /\ Warn("malformed_geometry", "Arc", "degenerate_after_transform") \in Said
  /\ Warn("malformed_geometry", "Circle", "degenerate_after_transform") \in Said
  /\ Warn("malformed_geometry", "Ellipse", "degenerate_after_transform") \in Said
  /\ Warn("malformed_geometry", "HatchArc", "degenerate_after_transform") \in Said
  /\ Warn("malformed_geometry", "HatchEllipse", "degenerate_after_transform") \in Said
  /\ Warn("malformed_geometry", "Polyline", "non_uniform_scaled_bulge") \in Said
  /\ Warn("malformed_geometry", "Text", "degenerate_after_transform") \in Said
  /\ Warn("unsupported_entity", "MLINE", "unknown_entity") \in Said
  /\ Warn("unsupported_entity", "VIEWPORT", "no_canonical_mapping") \in Said
<1>1. \A n \in 1..25 : AllWarnings[n] \in Said
  BY DEF Said, Values, AllWarnings
<1>2. AllWarnings[2] \in Said /\ AllWarnings[3] \in Said /\ AllWarnings[4] \in Said /\ AllWarnings[5] \in Said
      /\ AllWarnings[6] \in Said /\ AllWarnings[7] \in Said /\ AllWarnings[8] \in Said /\ AllWarnings[9] \in Said
      /\ AllWarnings[10] \in Said /\ AllWarnings[11] \in Said /\ AllWarnings[15] \in Said /\ AllWarnings[16] \in Said
      /\ AllWarnings[24] \in Said /\ AllWarnings[25] \in Said
  BY <1>1
<1> HIDE DEF Said
<1> QED
  BY <1>2 DEF AllWarnings, Warn

LEMMA BlockSays ==
  /\ Warn("malformed_geometry", "Insert", "array_too_large") \in Said
  /\ Warn("malformed_geometry", "Insert", "cyclic_block_reference") \in Said
  /\ Warn("malformed_geometry", "Insert", "recursion_limit") \in Said
  /\ Warn("missing_reference", "DIMENSION", "dimension_block_missing") \in Said
  /\ Warn("missing_reference", "Insert", "block_record_missing") \in Said
  /\ Warn("missing_reference", "Layout", "layout_without_block_record") \in Said
<1>1. \A n \in 1..25 : AllWarnings[n] \in Said
  BY DEF Said, Values, AllWarnings
<1>2. AllWarnings[12] \in Said /\ AllWarnings[13] \in Said /\ AllWarnings[14] \in Said /\ AllWarnings[18] \in Said
      /\ AllWarnings[19] \in Said /\ AllWarnings[20] \in Said
  BY <1>1
<1> HIDE DEF Said
<1> QED
  BY <1>2 DEF AllWarnings, Warn

LEMMA ReaderSays == ASSUME NEW n, n.font \/ n.severity \in Severities PROVE Notified(n) \in Said
<1>1. \A m \in 1..25 : AllWarnings[m] \in Said
  BY DEF Said, Values, AllWarnings
<1>2. AllWarnings[1] \in Said /\ AllWarnings[17] \in Said /\ AllWarnings[21] \in Said /\ AllWarnings[22] \in Said
      /\ AllWarnings[23] \in Said
  BY <1>1
<1> HIDE DEF Said
<1>3. /\ Warn("missing_font", NoType, "reader_font_notification") \in Said
      /\ Warn("unsupported_entity", NoType, "reader_not_implemented") \in Said
      /\ Warn("unsupported_entity", NoType, "reader_not_supported") \in Said
      /\ Warn("invalid_entity", NoType, "reader_error") \in Said
      /\ Warn("reader_notification", NoType, "reader_warning") \in Said
  BY <1>2 DEF AllWarnings, Warn
<1> QED
  BY <1>3 DEF Notified, Severities

LEMMA RankIsNumber == ASSUME NEW w \in Said PROVE WarningRank(w) \in Int
<1>1. DOMAIN AllWarnings = 1..25
  BY DEF AllWarnings
<1>2. \E i \in DOMAIN AllWarnings : AllWarnings[i] = w
  BY DEF Said, Values
<1>3. WarningRank(w) \in DOMAIN AllWarnings
  BY Zenon, <1>2 DEF WarningRank
<1> QED
  BY <1>1, <1>3

LEMMA DrawnSound == ASSUME NEW r, Proper(r) PROVE Sound(Drawn(r))
BY OneElement, NothingTold DEF Sound, Drawn

LEMMA RefusedSound ==
  ASSUME NEW category, NEW type, NEW detail, Warn(category, type, detail) \in Said
  PROVE  Sound(Refused(category, type, detail))
<1> DEFINE w == Warn(category, type, detail)
<1>1. Refused(category, type, detail) = [records |-> <<>>, warned |-> <<w>>]
  BY DEF Refused
<1>2. w \in Said
  OBVIOUS
<1> HIDE DEF w
<1> QED
  BY <1>1, <1>2, OneTold, EmptySequence DEF Sound

LEMMA NothingSound == Sound(Nothing)
BY EmptySequence, NothingTold DEF Sound, Nothing

LEMMA BothSound ==
  ASSUME NEW x, Sound(x), NEW y, Sound(y)
  PROVE  Sound(Both(x, y))
<1> DEFINE s == x.records
           t == y.records
<1>1. IsSequence(s) /\ IsSequence(t) /\ Telling(x.warned) /\ Telling(y.warned)
  BY DEF Sound
<1>2. /\ IsSequence(s \o t)
      /\ \A n \in DOMAIN (s \o t) : \/ n \in DOMAIN s /\ (s \o t)[n] = s[n]
                                    \/ n - Len(s) \in DOMAIN t /\ (s \o t)[n] = t[n - Len(s)]
  BY Zenon, <1>1, Joined
<1>3. Telling(x.warned \o y.warned)
  BY <1>1, JoinedTold
<1>4. (\A n \in DOMAIN s : Proper(s[n])) /\ (\A n \in DOMAIN t : Proper(t[n]))
  BY DEF Sound
<1>5. \A n \in DOMAIN (s \o t) : Proper((s \o t)[n])
  BY Zenon, <1>2, <1>4
<1>6. Both(x, y).records = s \o t /\ Both(x, y).warned = x.warned \o y.warned
  BY Zenon DEF Both
<1> HIDE DEF s, t
<1> QED
  BY <1>2, <1>3, <1>5, <1>6 DEF Sound

LEMMA LineSound == ASSUME NEW v, NEW a, NEW b PROVE Sound(Drawn(LineRecord(v, a, b)))
<1>1. LineRecord(v, a, b).record = "line"
  BY DEF LineRecord
<1> QED
  BY <1>1, KindsAre, ProperPlain, DrawnSound

LEMMA EllipseSound ==
  ASSUME NEW v, NEW m, NEW ratio, NEW angles PROVE Sound(Drawn(EllipseRecord(v, m, ratio, angles)))
<1>1. EllipseRecord(v, m, ratio, angles).record = "ellipse"
  BY DEF EllipseRecord
<1> QED
  BY <1>1, KindsAre, ProperPlain, DrawnSound

LEMMA ArcSound ==
  ASSUME NEW name \in {"Arc", "HatchArc"}, NEW v, NEW center, NEW radius, NEW start, NEW end, NEW map
  PROVE  Sound(ArcOf(name, v, center, radius, start, end, map))
<1> DEFINE m == RoundCurve(center, radius, map)
           angles == Sweep(start, end, m.offset)
           x == IF m.degenerate THEN Refused("malformed_geometry", name, "degenerate_after_transform")
                ELSE Drawn(IF m.circular THEN ArcRecord(v, m, angles) ELSE EllipseRecord(v, m, m.ratio, angles))
<1>1. ArcOf(name, v, center, radius, start, end, map) = Only({x})
  BY DEF ArcOf
<1> HIDE DEF m, angles
<1>2. ArcRecord(v, m, angles).record = "arc"
  BY DEF ArcRecord
<1>3. Sound(Drawn(ArcRecord(v, m, angles)))
  BY <1>2, KindsAre, ProperPlain, DrawnSound
<1>4. Sound(Drawn(EllipseRecord(v, m, m.ratio, angles)))
  BY EllipseSound
<1>5. Sound(Refused("malformed_geometry", name, "degenerate_after_transform"))
  <2>1. Warn("malformed_geometry", name, "degenerate_after_transform") \in Said
    BY EntitySays
  <2> QED
    BY <2>1, RefusedSound
<1>6. Sound(x)
  BY <1>3, <1>4, <1>5
<1> HIDE DEF x
<1> QED
  BY Zenon, <1>1, <1>6, OnlyOne

LEMMA CircleSound ==
  ASSUME NEW v, NEW e, NEW xf
  PROVE  Sound(CircleOf(v, e, xf))
<1> DEFINE m == RoundCurve(e.center, e.radius, Compose(xf, ArbitraryAxis(e.normal)))
           r == [record |-> "circle", view |-> v, center |-> m.center, radius |-> m.radius, normal |-> m.normal]
           x == IF m.degenerate THEN Refused("malformed_geometry", "Circle", "degenerate_after_transform")
                ELSE Drawn(IF m.circular THEN r ELSE EllipseRecord(v, m, m.ratio, <<0, Turn>>))
<1>1. CircleOf(v, e, xf) = Only({x})
  BY DEF CircleOf
<1> HIDE DEF m
<1>2. r.record = "circle"
  OBVIOUS
<1> HIDE DEF r
<1>3. Sound(Drawn(r))
  BY <1>2, KindsAre, ProperPlain, DrawnSound
<1>4. Sound(Drawn(EllipseRecord(v, m, m.ratio, <<0, Turn>>)))
  BY EllipseSound
<1>5. Sound(Refused("malformed_geometry", "Circle", "degenerate_after_transform"))
  BY RefusedSound, EntitySays
<1>6. Sound(x)
  BY <1>3, <1>4, <1>5
<1> HIDE DEF x
<1> QED
  BY <1>1, <1>6, OnlyOne

LEMMA EllipseOfSound ==
  ASSUME NEW v, NEW e, NEW xf
  PROVE  Sound(EllipseOf(v, e, xf))
<1> DEFINE full == e.start = e.end \/ Magnitude(e.end - e.start) >= Turn
           Angles(offset, s) == IF full THEN <<s, s + Turn>> ELSE Sweep(e.start, e.end, offset)
           From(offset) == Angles(offset, NormalizeAngle(e.start + offset))
           m == MapCurve(e.center, e.major, MinorOf(e.normal, e.major, e.ratio), xf)
           angles == From(ParameterOffset(xf, m))
           ratio == RatioUnder(xf, e.ratio, m)
           x == IF m.degenerate THEN Refused("malformed_geometry", "Ellipse", "degenerate_after_transform")
                ELSE Drawn(EllipseRecord(v, m, ratio, angles))
<1>1. EllipseOf(v, e, xf) = Only({x})
  BY DEF EllipseOf
<1> HIDE DEF m, angles, ratio
<1>2. Sound(Drawn(EllipseRecord(v, m, ratio, angles)))
  BY EllipseSound
<1>3. Sound(Refused("malformed_geometry", "Ellipse", "degenerate_after_transform"))
  BY RefusedSound, EntitySays
<1>4. Sound(x)
  BY <1>2, <1>3
<1> HIDE DEF x
<1> QED
  BY <1>1, <1>4, OnlyOne

LEMMA SplineSound ==
  ASSUME NEW v, NEW e, NEW xf, Lists(e, SplineLists)
  PROVE  Sound(SplineOf(v, e, xf))
<1> DEFINE control == [i \in DOMAIN e.control |-> Apply(xf, e.control[i])]
           fit == [i \in DOMAIN e.fit |-> Apply(xf, e.fit[i])]
           r == [record |-> "spline", view |-> v, degree |-> e.degree, closed |-> e.closed,
                 periodic |-> e.periodic, knots |-> e.knots, weights |-> e.weights,
                 control_points |-> control, fit_points |-> fit]
<1>1. IsSequence(e.control) /\ IsSequence(e.fit) /\ IsSequence(e.knots) /\ IsSequence(e.weights)
  BY DEF Lists, SplineLists
<1>2. IsSequence(control) /\ IsSequence(fit)
  BY <1>1, SameLength
<1>3. SplineOf(v, e, xf) = IF e.control = <<>> /\ e.fit = <<>>
        THEN Refused("invalid_entity", "Spline", "no_control_or_fit_points") ELSE Drawn(r)
  BY DEF SplineOf
<1> HIDE DEF control, fit
<1>4. /\ r.record = "spline" /\ IsSequence(r.control_points) /\ IsSequence(r.fit_points)
      /\ IsSequence(r.knots) /\ IsSequence(r.weights)
  BY <1>1, <1>2
<1> HIDE DEF r
<1>5. Sound(Drawn(r))
  BY <1>4, ProperSpline, DrawnSound
<1>6. Sound(Refused("invalid_entity", "Spline", "no_control_or_fit_points"))
  BY RefusedSound, EntitySays
<1> QED
  BY <1>3, <1>5, <1>6

LEMMA PolylineSound ==
  ASSUME NEW v, NEW normal, NEW local, IsSequence(local), NEW bulges, NEW closed, NEW xf
  PROVE  Sound(PolylineOf(v, normal, local, bulges, closed, xf))
<1> DEFINE map == Compose(xf, ArbitraryAxis(normal))
           n   == Sign(Cross(Vector(map, <<1, 0>>), Vector(map, <<0, 1>>)))
           world == IF n = 0 THEN 1 ELSE n
           per == [i \in DOMAIN local |-> IF i \in DOMAIN bulges THEN bulges[i] ELSE 0]
           bent == ~xf.similarity /\ \E i \in DOMAIN per : per[i] # 0
           points == [i \in DOMAIN local |-> ToOcs(world, Apply(map, local[i]))]
           r == [record |-> "polyline", view |-> v, closed |-> closed, normal |-> world,
                 points |-> points, bulges |-> per]
           said == IF bent THEN <<Warn("malformed_geometry", "Polyline", "non_uniform_scaled_bulge")>> ELSE <<>>
<1>1. PolylineOf(v, normal, local, bulges, closed, xf) =
        IF local = <<>> THEN Refused("invalid_entity", "Polyline", "no_vertices")
        ELSE [records |-> <<r>>, warned |-> said]
  BY DEF PolylineOf
<1>2. IsSequence(per) /\ IsSequence(points) /\ Len(per) = Len(local) /\ Len(points) = Len(local)
  BY SameLength
<1> HIDE DEF per, points, bent, world
<1>3. r.record = "polyline" /\ r.points = points /\ r.bulges = per
  OBVIOUS
<1> HIDE DEF r
<1>4. Proper(r)
  BY <1>2, <1>3, ProperPolyline
<1>5. Telling(said)
  <2> DEFINE w == Warn("malformed_geometry", "Polyline", "non_uniform_scaled_bulge")
  <2>1. said = <<w>> \/ said = <<>>
    OBVIOUS
  <2>2. w \in Said
    BY EntitySays
  <2> HIDE DEF w, said
  <2> QED
    BY <2>1, <2>2, OneTold, NothingTold
<1> HIDE DEF said
<1>6. Sound([records |-> <<r>>, warned |-> said])
  BY <1>4, <1>5, OneElement DEF Sound
<1>7. Sound(Refused("invalid_entity", "Polyline", "no_vertices"))
  BY RefusedSound, EntitySays
<1> QED
  BY <1>1, <1>6, <1>7

LEMMA SoundThroughout ==
  ASSUME NEW n \in Nat, NEW f, Sound(f[0]), \A i \in 1..n : Sound(f[i - 1]) => Sound(f[i])
  PROVE  \A i \in 0..n : Sound(f[i])
<1> DEFINE D == {x \in {f[i] : i \in 0..n} : Sound(x)}
<1>1. \A i \in 0..n : f[i] \in D <=> Sound(f[i])
  OBVIOUS
<1> HIDE DEF D
<1>2. 0 \in 0..n /\ \A i \in 1..n : i \in 0..n /\ i - 1 \in 0..n
  OBVIOUS
<1>3. f[0] \in D /\ \A i \in 1..n : f[i - 1] \in D => f[i] \in D
  BY <1>1, <1>2
<1>4. \A i \in 0..n : f[i] \in D
  BY <1>3, Throughout
<1> QED
  BY <1>1, <1>4

\* What comes of one thing after another.
Following(f, n, e) == f = [i \in 0..n |-> IF i = 0 THEN Nothing ELSE Both(f[i - 1], e[i])]

LEMMA FollowingIs ==
  ASSUME NEW n \in Nat, NEW e, \A i \in 1..n : Sound(e[i])
  PROVE  \E f : Following(f, n, e)
<1> DEFINE R == UNION {Values(e[i].records) : i \in 1..n}
           V == UNION {Values(e[i].warned) : i \in 1..n}
           D == [records : Seq(R), warned : Seq(V)]
           step == [p \in D \X (1..n) |-> Both(p[1], e[p[2]])]
<1>1. \A d \in D, i \in 1..n : step[<<d, i>>] = Both(d, e[i])
  OBVIOUS
<1>2. \A i \in 1..n : e[i].records \in Seq(R) /\ e[i].warned \in Seq(V)
  <2> SUFFICES ASSUME NEW i \in 1..n PROVE e[i].records \in Seq(R) /\ e[i].warned \in Seq(V)
    BY Zenon
  <2>1. e[i].records \in Seq(Values(e[i].records)) /\ e[i].warned \in Seq(Values(e[i].warned))
    BY Zenon DEF Sound, Telling, IsSequence, Values
  <2>2. Values(e[i].records) \subseteq R /\ Values(e[i].warned) \subseteq V
    OBVIOUS
  <2> HIDE DEF R, V
  <2> QED
    BY <2>1, <2>2, SeqMonotonic
<1> HIDE DEF step, R, V
<1>3. ASSUME NEW d \in D, NEW i \in 1..n
      PROVE  Both(d, e[i]) \in D
  <2>1. d.records \in Seq(R) /\ d.warned \in Seq(V)
    OBVIOUS
  <2>2. d.records \o e[i].records \in Seq(R) /\ d.warned \o e[i].warned \in Seq(V)
    BY <1>2, <2>1
  <2> QED
    BY <2>2 DEF Both
<1>4. Nothing \in D
  BY DEF Nothing
<1> HIDE DEF D
<1>5. PICK f : Steps(f, n, Nothing, step)
  BY Rolled
<1>6. f[0] = Nothing /\ \A i \in 1..n : f[i] = step[<<f[i - 1], i>>]
  BY <1>5 DEF Steps
<1>7. \A i \in 1..n : f[i - 1] \in D => f[i] \in D
  BY Zenon, <1>1, <1>3, <1>6
<1>8. \A i \in 0..n : f[i] \in D
  BY <1>4, <1>6, <1>7, Throughout
<1>9. ASSUME NEW i \in 0..n
      PROVE  f[i] = IF i = 0 THEN Nothing ELSE Both(f[i - 1], e[i])
  <2>1. CASE i = 0
    BY <1>6, <2>1
  <2>2. CASE i # 0
    <3>1. i \in 1..n /\ i - 1 \in 0..n
      BY <2>2
    <3> QED
      BY Zenon, <1>1, <1>6, <1>8, <2>2, <3>1
  <2> QED
    BY <2>1, <2>2
<1>10. f = [i \in 0..n |-> f[i]]
  BY <1>5 DEF Steps
<1>11. Following(f, n, e)
  BY Zenon, <1>9, <1>10 DEF Following
<1> QED
  BY <1>11

LEMMA FollowingSound ==
  ASSUME NEW n \in Nat, NEW e, \A i \in 1..n : Sound(e[i]), NEW f, Following(f, n, e)
  PROVE  Sound(f[n])
<1>1. f[0] = Nothing /\ \A i \in 1..n : f[i] = Both(f[i - 1], e[i])
  BY DEF Following
<1>2. Sound(f[0])
  BY <1>1, NothingSound
<1>3. \A i \in 1..n : Sound(f[i - 1]) => Sound(f[i])
  BY <1>1, BothSound
<1>4. \A i \in 0..n : Sound(f[i])
  BY <1>2, <1>3, SoundThroughout
<1> QED
  BY <1>4

LEMMA PolygonSound ==
  ASSUME NEW v, NEW corners, IsSequence(corners), NEW map
  PROVE  Sound(PolygonOf(v, corners, map))
<1> DEFINE n == Len(corners)
           W == {Apply(map, corners[i]) : i \in 1..n}
           Next_(before, w) == IF before # <<>> /\ before[Len(before)] = w THEN before ELSE Append(before, w)
           Made(f) == f = [i \in 0..n |-> IF i = 0 THEN <<>> ELSE Next_(f[i - 1], Apply(map, corners[i]))]
           kept == CHOOSE f : Made(f)
           points == kept[n]
           r == [record |-> "polygon", view |-> v, points |-> points]
           step == [p \in Seq(W) \X (1..n) |-> Next_(p[1], Apply(map, corners[p[2]]))]
<1>1. n \in Nat
  BY Sequences_
<1>2. PolygonOf(v, corners, map) = IF Len(points) >= 3 THEN Drawn(r) ELSE Nothing
  BY Zenon DEF PolygonOf
<1>3. \A d \in Seq(W), i \in 1..n : step[<<d, i>>] = Next_(d, Apply(map, corners[i]))
  OBVIOUS
<1>4. \A i \in 1..n : Apply(map, corners[i]) \in W
  OBVIOUS
<1> HIDE DEF step, W, n
<1>5. \A d \in Seq(W), w \in W : Append(d, w) \in Seq(W)
  OBVIOUS
<1>6. \A d \in Seq(W), i \in 1..n : Next_(d, Apply(map, corners[i])) \in Seq(W)
  BY <1>4, <1>5
<1> HIDE DEF Next_
<1>7. PICK f : Steps(f, n, <<>>, step)
  BY <1>1, Rolled
<1>8. f[0] = <<>> /\ f = [i \in 0..n |-> f[i]] /\ \A i \in 1..n : f[i] = step[<<f[i - 1], i>>]
  BY <1>1, <1>7 DEF Steps
<1>9. <<>> \in Seq(W)
  OBVIOUS
<1>10. \A i \in 1..n : f[i - 1] \in Seq(W) => f[i] \in Seq(W)
  BY Zenon, <1>3, <1>6, <1>8
<1>11. \A i \in 0..n : f[i] \in Seq(W)
  BY <1>1, <1>8, <1>9, <1>10, Throughout
<1>12. ASSUME NEW i \in 0..n
       PROVE  f[i] = IF i = 0 THEN <<>> ELSE Next_(f[i - 1], Apply(map, corners[i]))
  <2>1. CASE i = 0
    BY <1>8, <2>1
  <2>2. CASE i # 0
    <3>1. i \in 1..n /\ i - 1 \in 0..n
      BY <1>1, <2>2
    <3> QED
      BY Zenon, <1>3, <1>8, <1>11, <2>2, <3>1
  <2> QED
    BY <2>1, <2>2
<1>13. Made(f)
  BY Zenon, <1>8, <1>12
<1> HIDE DEF Made
<1>14. Made(kept)
  BY <1>13
<1> HIDE DEF kept
<1>15. kept[0] = <<>> /\ \A i \in 1..n : kept[i] = Next_(kept[i - 1], Apply(map, corners[i]))
  BY <1>1, <1>14 DEF Made
<1>16. \A i \in 1..n : kept[i - 1] \in Seq(W) => kept[i] \in Seq(W)
  BY <1>6, <1>15
<1>17. \A i \in 0..n : kept[i] \in Seq(W)
  BY Zenon, <1>1, <1>9, <1>15, <1>16, Throughout
<1>18. points \in Seq(W)
  BY <1>1, <1>17
<1> HIDE DEF points
<1>19. IsSequence(points)
  BY <1>18, SequenceOf
<1>20. r.record = "polygon" /\ r.points = points
  OBVIOUS
<1> HIDE DEF r
<1>21. Sound(Drawn(r))
  BY <1>19, <1>20, ProperPolygon, DrawnSound
<1> QED
  BY <1>2, <1>21, NothingSound

LEMMA TextSound ==
  ASSUME NEW v, NEW t, NEW xf
  PROVE  Sound(TextOf(v, t, xf))
<1> DEFINE Record(map, n, baseline, up, along) ==
             [record |-> "text", view |-> v, at |-> ToOcs(n, Apply(map, AnchorOf(t))),
              height |-> IF ~xf.similarity THEN t.height * Length(up)
                         ELSE t.height * Length(baseline),
              rotation |-> NormalizeAngle(Atan2(along[2], along[1])),
              width_factor |-> IF xf.similarity THEN <<t.width, 1>>
                               ELSE <<t.width * Length(baseline), Length(up)>>,
              halign |-> t.halign, valign |-> t.valign, style |-> t.style,
              text |-> WithoutReturns(t.value)]
           Of(map, n, baseline, up, along) ==
             IF n = 0 THEN Refused("malformed_geometry", "Text", "degenerate_after_transform")
             ELSE Drawn(Record(map, n, baseline, up, along))
           Placed(map, baseline, up) ==
             Only({Of(map, n, baseline, up, ToOcs(n, baseline)) : n \in {Sign(Cross(baseline, up))}})
           One(map) == {Placed(map, b, up) : b \in {Vector(map, Direction(t.rotation))},
                                            up \in {Vector(map, <<-Sin(t.rotation), Cos(t.rotation)>>)}}
           m == Compose(xf, ArbitraryAxis(t.normal))
           b == Vector(m, Direction(t.rotation))
           up == Vector(m, <<-Sin(t.rotation), Cos(t.rotation)>>)
           n == Sign(Cross(b, up))
           all == UNION {One(map) : map \in {m}}
<1>1. TextOf(v, t, xf) = Only(all)
  BY DEF TextOf
<1>2. One(m) = {Placed(m, b, up)}
  OBVIOUS
<1> HIDE DEF One, Placed
<1>3. all = One(m)
  OBVIOUS
<1> HIDE DEF all, m, b, up
<1>4. Only(all) = Placed(m, b, up)
  BY <1>2, <1>3, OnlyOne
<1> DEFINE few == {Of(m, k, b, up, ToOcs(k, b)) : k \in {Sign(Cross(b, up))}}
<1>5. Placed(m, b, up) = Only(few)
  BY DEF Placed
<1> DEFINE x == Of(m, n, b, up, ToOcs(n, b))
<1>6. few = {x}
  BY Zenon
<1>7. Only(few) = x
  BY Zenon, <1>6, OnlyOne
<1> DEFINE along == ToOcs(n, b)
           r == Record(m, n, b, up, along)
<1>8. r.record = "text"
  OBVIOUS
<1>9. x = IF n = 0 THEN Refused("malformed_geometry", "Text", "degenerate_after_transform") ELSE Drawn(r)
  OBVIOUS
<1> HIDE DEF r, x, n
<1>10. Sound(Drawn(r))
  BY <1>8, KindsAre, ProperPlain, DrawnSound
<1>11. Sound(Refused("malformed_geometry", "Text", "degenerate_after_transform"))
  BY RefusedSound, EntitySays
<1> QED
  BY <1>1, <1>4, <1>5, <1>7, <1>9, <1>10, <1>11

LEMMA EdgeSound ==
  ASSUME NEW v, NEW e, IsEdge(e), NEW map
  PROVE  Sound(EdgeOf(v, e, map))
<1>1. CASE e.edge = "line"
  <2>1. EdgeOf(v, e, map) = Drawn(LineRecord(v, Apply(map, e.a), Apply(map, e.b)))
    BY <1>1 DEF EdgeOf
  <2> QED
    BY <2>1, LineSound
<1>2. CASE e.edge = "arc"
  <2>1. EdgeOf(v, e, map) = ArcOf("HatchArc", v, e.center, e.radius, Swept(e)[1], Swept(e)[2], map)
    BY <1>2 DEF EdgeOf
  <2> QED
    BY <2>1, ArcSound
<1>3. CASE e.edge = "ellipse"
  <2> DEFINE m == MapCurve(e.center, e.major, MinorOf(1, e.major, e.ratio), map)
             angles == Sweep(Swept(e)[1], Swept(e)[2], ParameterOffset(map, m))
             ratio == RatioUnder(map, e.ratio, m)
             x == IF m.degenerate
                  THEN Refused("malformed_geometry", "HatchEllipse", "degenerate_after_transform")
                  ELSE Drawn(EllipseRecord(v, m, ratio, angles))
  <2>1. EdgeOf(v, e, map) = Only({x})
    BY <1>3 DEF EdgeOf
  <2> HIDE DEF m, angles, ratio
  <2>2. Sound(x)
    BY EllipseSound, RefusedSound, EntitySays
  <2> HIDE DEF x
  <2> QED
    BY <2>1, <2>2, OnlyOne
<1>4. CASE e.edge = "polyline"
  <2>1. EdgeOf(v, e, map) = PolylineOf(v, 1, e.points, e.bulges, e.closed, map)
    BY <1>4 DEF EdgeOf
  <2>2. IsSequence(e.points)
    BY <1>4 DEF IsEdge, Lists
  <2> QED
    BY <2>1, <2>2, PolylineSound
<1>5. CASE e.edge = "spline"
  <2>1. EdgeOf(v, e, map) = IF e.control = <<>> THEN Refused("invalid_entity", "HatchSpline", "no_control_points")
                            ELSE SplineOf(v, e, map)
    BY <1>5 DEF EdgeOf
  <2>2. Lists(e, SplineLists)
    BY <1>5 DEF IsEdge
  <2>3. Sound(Refused("invalid_entity", "HatchSpline", "no_control_points"))
    BY RefusedSound, EntitySays
  <2>4. Sound(SplineOf(v, e, map))
    BY <2>2, SplineSound
  <2> QED
    BY <2>1, <2>3, <2>4
<1> QED
  BY <1>1, <1>2, <1>3, <1>4, <1>5 DEF IsEdge

\* The edges of one path of a hatch's boundary.
EdgesOf(v, path, map) ==
  LET Upto[i \in 0..Len(path)] ==
        IF i = 0 THEN Nothing ELSE Both(Upto[i - 1], EdgeOf(v, path[i], map))
  IN  IF path = <<>> THEN Refused("invalid_entity", "Hatch", "boundary_path_without_edges")
      ELSE Upto[Len(path)]

LEMMA PathSound ==
  ASSUME NEW v, NEW path, IsSequence(path), \A n \in DOMAIN path : IsEdge(path[n]), NEW map
  PROVE  Sound(EdgesOf(v, path, map))
<1> DEFINE n == Len(path)
           Made(f) == f = [i \in 0..n |-> IF i = 0 THEN Nothing ELSE Both(f[i - 1], EdgeOf(v, path[i], map))]
           upto == CHOOSE f : Made(f)
           e == [i \in 1..n |-> EdgeOf(v, path[i], map)]
<1>0. EdgesOf(v, path, map) =
        IF path = <<>> THEN Refused("invalid_entity", "Hatch", "boundary_path_without_edges") ELSE upto[n]
  BY Zenon DEF EdgesOf
<1>1. n \in Nat /\ DOMAIN path = 1..n
  BY Sequences_
<1>2. \A i \in 1..n : e[i] = EdgeOf(v, path[i], map)
  OBVIOUS
<1> HIDE DEF e, n
<1>3. \A i \in 1..n : Sound(e[i])
  BY <1>1, <1>2, EdgeSound
<1>4. \A f : Following(f, n, e) <=> Made(f)
  <2> SUFFICES ASSUME NEW f PROVE Following(f, n, e) <=> Made(f)
    OBVIOUS
  <2>1. \A i \in 0..n : i # 0 => i \in 1..n
    BY <1>1
  <2>2. [i \in 0..n |-> IF i = 0 THEN Nothing ELSE Both(f[i - 1], e[i])]
        = [i \in 0..n |-> IF i = 0 THEN Nothing ELSE Both(f[i - 1], EdgeOf(v, path[i], map))]
    BY <1>2, <2>1
  <2> QED
    BY <2>2 DEF Following
<1>5. PICK f : Following(f, n, e)
  BY Zenon, <1>1, <1>3, FollowingIs
<1>6. Made(f)
  BY <1>4, <1>5
<1> HIDE DEF Made
<1>7. Made(upto)
  BY <1>6
<1> HIDE DEF upto
<1>8. Following(upto, n, e)
  BY <1>4, <1>7
<1>9. Sound(upto[n])
  BY Zenon, <1>1, <1>3, <1>8, FollowingSound
<1>10. Sound(IF path = <<>> THEN Refused("invalid_entity", "Hatch", "boundary_path_without_edges") ELSE upto[n])
  BY <1>9, RefusedSound, EntitySays
<1> QED
  BY <1>0, <1>10

LEMMA HatchSound ==
  ASSUME NEW v, NEW e, IsSequence(e.paths), IsBoundary(e.paths), NEW xf
  PROVE  Sound(HatchOf(v, e, xf))
<1> DEFINE map == Compose(xf, ArbitraryAxis(e.normal))
           Edges(path) == EdgesOf(v, path, map)
           n == Len(e.paths)
           Made(f) == f = [i \in 0..n |-> IF i = 0 THEN Nothing ELSE Both(f[i - 1], Edges(e.paths[i]))]
           paths == CHOOSE f : Made(f)
           each == [i \in 1..n |-> Edges(e.paths[i])]
<1>1. HatchOf(v, e, xf) = IF e.paths = <<>> THEN Refused("invalid_entity", "Hatch", "no_boundary_paths")
                          ELSE paths[n]
  BY Zenon DEF HatchOf, EdgesOf
<1>2. n \in Nat /\ DOMAIN e.paths = 1..n
  BY Sequences_
<1> HIDE DEF map, n
<1>3. \A i \in 1..n : Sound(Edges(e.paths[i]))
  <2> SUFFICES ASSUME NEW i \in 1..n PROVE Sound(Edges(e.paths[i]))
    OBVIOUS
  <2> DEFINE path == e.paths[i]
  <2>1. IsSequence(path) /\ \A k \in DOMAIN path : IsEdge(path[k])
    BY <1>2 DEF IsBoundary
  <2> HIDE DEF path
  <2>2. Sound(Edges(path))
    BY <2>1, PathSound
  <2> QED
    BY <2>2 DEF path
<1> HIDE DEF Edges
<1>4. \A i \in 1..n : each[i] = Edges(e.paths[i])
  OBVIOUS
<1> HIDE DEF each
<1>5. \A i \in 1..n : Sound(each[i])
  BY <1>3, <1>4
<1>6. \A f : Following(f, n, each) <=> Made(f)
  <2> SUFFICES ASSUME NEW f PROVE Following(f, n, each) <=> Made(f)
    OBVIOUS
  <2>1. \A i \in 0..n : i # 0 => i \in 1..n
    BY <1>2
  <2>2. [i \in 0..n |-> IF i = 0 THEN Nothing ELSE Both(f[i - 1], each[i])]
        = [i \in 0..n |-> IF i = 0 THEN Nothing ELSE Both(f[i - 1], Edges(e.paths[i]))]
    BY <1>4, <2>1
  <2> QED
    BY <2>2 DEF Following
<1>7. PICK f : Following(f, n, each)
  BY <1>2, <1>5, FollowingIs
<1>8. Made(f)
  BY <1>6, <1>7
<1> HIDE DEF Made
<1>9. Made(paths)
  BY <1>8
<1> HIDE DEF paths
<1>10. Following(paths, n, each)
  BY <1>6, <1>9
<1>11. Sound(paths[n])
  BY <1>2, <1>5, <1>10, FollowingSound
<1>12. Sound(Refused("invalid_entity", "Hatch", "no_boundary_paths"))
  BY RefusedSound, EntitySays
<1> QED
  BY <1>1, <1>11, <1>12

LEMMA LeafSound ==
  ASSUME NEW v, NEW e, IsEntity(e), e.kind \notin Expanded, NEW xf, NEW inside
  PROVE  Sound(LeafOf(v, e, xf, inside))
<1> DEFINE leaf == LeafOf(v, e, xf, inside)
<1>1. CASE e.kind \in {"SEQEND", "BLOCK", "ENDBLK"}
  <2>1. leaf = Nothing
    BY <1>1 DEF LeafOf
  <2> QED
    BY <2>1, NothingSound
<1>2. CASE e.kind = "LINE"
  <2>1. leaf = Drawn(LineRecord(v, Apply(xf, e.a), Apply(xf, e.b)))
    BY <1>2 DEF LeafOf
  <2> QED
    BY <2>1, LineSound
<1>3. CASE e.kind = "POINT"
  <2> DEFINE r == [record |-> "point", view |-> v, at |-> Apply(xf, e.a)]
  <2>1. leaf = Drawn(r)
    BY <1>3 DEF LeafOf
  <2>2. r.record = "point"
    OBVIOUS
  <2> HIDE DEF r
  <2> QED
    BY <2>1, <2>2, KindsAre, ProperPlain, DrawnSound
<1>4. CASE e.kind = "ARC"
  <2>1. leaf = ArcOf("Arc", v, e.center, e.radius, e.start, e.end, Compose(xf, ArbitraryAxis(e.normal)))
    BY <1>4 DEF LeafOf
  <2> QED
    BY <2>1, ArcSound
<1>5. CASE e.kind = "CIRCLE"
  <2>1. leaf = CircleOf(v, e, xf)
    BY <1>5 DEF LeafOf
  <2> QED
    BY <2>1, CircleSound
<1>6. CASE e.kind = "ELLIPSE"
  <2>1. leaf = EllipseOf(v, e, xf)
    BY <1>6 DEF LeafOf
  <2> QED
    BY <2>1, EllipseOfSound
<1>7. CASE e.kind \in {"SPLINE", "HELIX"}
  <2>1. leaf = SplineOf(v, e, xf)
    BY <1>7 DEF LeafOf
  <2>2. Lists(e, SplineLists)
    BY <1>7 DEF IsEntity
  <2> QED
    BY <2>1, <2>2, SplineSound
<1>8. CASE e.kind \in {"LWPOLYLINE", "POLYLINE2D"}
  <2>1. leaf = PolylineOf(v, e.normal, e.points, e.bulges, e.closed, xf)
    BY <1>8 DEF LeafOf
  <2>2. IsSequence(e.points)
    BY <1>8 DEF IsEntity, Lists
  <2> QED
    BY <2>1, <2>2, PolylineSound
<1>9. CASE e.kind \in {"POLYLINE3D", "POLYLINE"}
  <2>1. leaf = PolylineOf(v, 1, e.points, <<>>, e.closed, xf)
    BY <1>9 DEF LeafOf
  <2>2. IsSequence(e.points)
    BY <1>9 DEF IsEntity, Lists
  <2> QED
    BY <2>1, <2>2, PolylineSound
<1>10. CASE e.kind = "SOLID"
  <2>1. leaf = PolygonOf(v, SolidCorners(e.corners), Compose(xf, ArbitraryAxis(e.normal)))
    BY <1>10 DEF LeafOf
  <2>2. IsSequence(SolidCorners(e.corners))
    BY Tuple4 DEF SolidCorners
  <2> QED
    BY <2>1, <2>2, PolygonSound
<1>11. CASE e.kind = "3DFACE"
  <2>1. leaf = PolygonOf(v, e.corners, xf)
    BY <1>11 DEF LeafOf
  <2>2. IsSequence(e.corners)
    BY <1>11 DEF IsEntity, Lists
  <2> QED
    BY <2>1, <2>2, PolygonSound
<1>12. CASE e.kind = "ATTDEF"
  <2>1. leaf = IF inside THEN Nothing ELSE TextOf(v, e, xf)
    BY <1>12 DEF LeafOf
  <2> QED
    BY <2>1, NothingSound, TextSound
<1>13. CASE e.kind \in {"ATTRIB", "TEXT", "MTEXT"}
  <2>1. leaf = TextOf(v, e, xf)
    BY <1>13 DEF LeafOf
  <2> QED
    BY <2>1, TextSound
<1>14. CASE e.kind = "HATCH"
  <2>1. leaf = HatchOf(v, e, xf)
    BY <1>14 DEF LeafOf
  <2>2. IsSequence(e.paths) /\ IsBoundary(e.paths)
    BY <1>14 DEF IsEntity, Lists
  <2> QED
    BY <2>1, <2>2, HatchSound
<1>15. CASE e.kind = "MLINE"
  <2>1. leaf = Refused("unsupported_entity", "MLINE", "unknown_entity")
    BY <1>15 DEF LeafOf
  <2> QED
    BY <2>1, RefusedSound, EntitySays
<1>16. CASE e.kind = "VIEWPORT"
  <2>1. leaf = Refused("unsupported_entity", "VIEWPORT", "no_canonical_mapping")
    BY <1>16 DEF LeafOf
  <2> QED
    BY <2>1, RefusedSound, EntitySays
<1> HIDE DEF leaf
<1>17. \/ e.kind \in {"SEQEND", "BLOCK", "ENDBLK"} \/ e.kind = "LINE" \/ e.kind = "POINT" \/ e.kind = "ARC"
       \/ e.kind = "CIRCLE" \/ e.kind = "ELLIPSE" \/ e.kind \in {"SPLINE", "HELIX"}
       \/ e.kind \in {"LWPOLYLINE", "POLYLINE2D"} \/ e.kind \in {"POLYLINE3D", "POLYLINE"}
       \/ e.kind = "SOLID" \/ e.kind = "3DFACE" \/ e.kind = "ATTDEF" \/ e.kind \in {"ATTRIB", "TEXT", "MTEXT"}
       \/ e.kind = "HATCH" \/ e.kind = "MLINE" \/ e.kind = "VIEWPORT"
  BY DEF IsEntity, Expanded
<1> QED
  BY <1>1, <1>2, <1>3, <1>4, <1>5, <1>6, <1>7, <1>8, <1>9, <1>10, <1>11, <1>12, <1>13, <1>14, <1>15, <1>16, <1>17
     DEF leaf

-----------------------------------------------------------------------------
(* What the walk has in hand. *)

\* Items of the stream, each with a record the schema has lines for.
Carrying(items) == IsSequence(items) /\ \A n \in DOMAIN items : Proper(items[n].record)

LEMMA JoinedCarrying ==
  ASSUME NEW s, Carrying(s), NEW t, Carrying(t)
  PROVE  Carrying(s \o t)
<1>1. IsSequence(s) /\ IsSequence(t) /\ (\A n \in DOMAIN s : Proper(s[n].record))
      /\ (\A n \in DOMAIN t : Proper(t[n].record))
  BY DEF Carrying
<1>2. /\ IsSequence(s \o t)
      /\ \A n \in DOMAIN (s \o t) : \/ n \in DOMAIN s /\ (s \o t)[n] = s[n]
                                    \/ n - Len(s) \in DOMAIN t /\ (s \o t)[n] = t[n - Len(s)]
  BY <1>1, Joined
<1> QED
  BY <1>1, <1>2 DEF Carrying

\* A path of handles, and items and warnings under theirs.
Paths == Seq(Nat)

Addressed(items) == \A n \in DOMAIN items : items[n].path \in Paths

Warned(ws) ==
  IsSequence(ws) /\ \A n \in DOMAIN ws : ws[n].warning \in Said /\ ws[n].path \in Paths

LEMMA Farther == ASSUME NEW path \in Paths, NEW h \in Nat PROVE Append(path, h) \in Paths
BY DEF Paths

LEMMA NoPathYet == <<>> \in Paths
BY DEF Paths

LEMMA JoinedAddressed ==
  ASSUME NEW s, Carrying(s), Addressed(s), NEW t, Carrying(t), Addressed(t)
  PROVE  Addressed(s \o t)
<1>1. IsSequence(s) /\ IsSequence(t) /\ (\A n \in DOMAIN s : s[n].path \in Paths)
      /\ (\A n \in DOMAIN t : t[n].path \in Paths)
  BY DEF Carrying, Addressed
<1>2. \A n \in DOMAIN (s \o t) : \/ n \in DOMAIN s /\ (s \o t)[n] = s[n]
                                 \/ n - Len(s) \in DOMAIN t /\ (s \o t)[n] = t[n - Len(s)]
  BY <1>1, Joined
<1> QED
  BY <1>1, <1>2 DEF Addressed

LEMMA JoinedWarned ==
  ASSUME NEW s, Warned(s), NEW t, Warned(t)
  PROVE  Warned(s \o t)
<1>1. /\ IsSequence(s) /\ IsSequence(t)
      /\ \A n \in DOMAIN s : s[n].warning \in Said /\ s[n].path \in Paths
      /\ \A n \in DOMAIN t : t[n].warning \in Said /\ t[n].path \in Paths
  BY DEF Warned
<1>2. /\ IsSequence(s \o t)
      /\ \A n \in DOMAIN (s \o t) : \/ n \in DOMAIN s /\ (s \o t)[n] = s[n]
                                    \/ n - Len(s) \in DOMAIN t /\ (s \o t)[n] = t[n - Len(s)]
  BY <1>1, Joined
<1> QED
  BY <1>1, <1>2 DEF Warned

LEMMA ItemsCarry ==
  ASSUME NEW x, Sound(x), NEW path \in Paths, NEW dxf
  PROVE  Carrying(Items(x.records, path, dxf)) /\ Addressed(Items(x.records, path, dxf))
<1> DEFINE f == [i \in DOMAIN x.records |-> [record |-> x.records[i], path |-> path, dxf |-> dxf]]
<1>1. IsSequence(x.records) /\ \A n \in DOMAIN x.records : Proper(x.records[n])
  BY DEF Sound
<1>2. IsSequence(f) /\ DOMAIN f = DOMAIN x.records
  BY <1>1, SameLength
<1>3. \A n \in DOMAIN f : f[n].record = x.records[n] /\ f[n].path = path
  OBVIOUS
<1>4. Items(x.records, path, dxf) = f
  BY DEF Items
<1> HIDE DEF f
<1> QED
  BY <1>1, <1>2, <1>3, <1>4 DEF Carrying, Addressed

LEMMA RaisedIs ==
  ASSUME NEW ws, Telling(ws), NEW path \in Paths
  PROVE  Warned(Raised(ws, path))
<1> DEFINE f == [i \in DOMAIN ws |-> [warning |-> ws[i], path |-> path]]
<1>1. IsSequence(ws) /\ \A n \in DOMAIN ws : ws[n] \in Said
  BY DEF Telling
<1>2. IsSequence(f) /\ DOMAIN f = DOMAIN ws
  BY <1>1, SameLength
<1>3. \A n \in DOMAIN f : f[n].warning = ws[n] /\ f[n].path = path
  OBVIOUS
<1>4. Raised(ws, path) = f
  BY DEF Raised
<1> HIDE DEF f
<1> QED
  BY <1>1, <1>2, <1>3, <1>4 DEF Warned

\* What the attributes of an insert add.
LEMMA AttributesCarry ==
  ASSUME NEW insert, IsSequence(insert.attributes), NEW path \in Paths, NEW xf,
         \A n \in DOMAIN insert.attributes : insert.attributes[n].handle \in Nat
  PROVE  LET added == Attributes(insert, path, xf)
         IN  Carrying(added.items) /\ Addressed(added.items) /\ Telling(added.warned)
<1> DEFINE n == Len(insert.attributes)
           own(i) == TextOf(view - 1, insert.attributes[i], xf)
           added(i) == Items(own(i).records, Append(path, insert.attributes[i].handle), "ATTRIB")
           After(d, i) == IF insert.attributes[i].invisible THEN d
                          ELSE [items |-> d.items \o added(i), warned |-> d.warned \o own(i).warned]
           none == [items |-> <<>>, warned |-> <<>>]
           Made(f) == f = [i \in 0..n |-> IF i = 0 THEN none ELSE After(f[i - 1], i)]
           upto == CHOOSE f : Made(f)
           R == UNION {Values(added(i)) : i \in 1..n}
           V == UNION {Values(own(i).warned) : i \in 1..n}
           D == [items : Seq(R), warned : Seq(V)]
           step == [p \in D \X (1..n) |-> After(p[1], p[2])]
<1>1. Attributes(insert, path, xf) = upto[n]
  BY DEF Attributes
<1>2. n \in Nat /\ DOMAIN insert.attributes = 1..n
  BY Sequences_
<1>3. \A i \in 1..n : Carrying(added(i)) /\ Addressed(added(i)) /\ Telling(own(i).warned)
  <2> SUFFICES ASSUME NEW i \in 1..n PROVE Carrying(added(i)) /\ Addressed(added(i)) /\ Telling(own(i).warned)
    OBVIOUS
  <2>1. Sound(own(i))
    BY TextSound
  <2>2. Append(path, insert.attributes[i].handle) \in Paths
    BY <1>2, Farther
  <2> HIDE DEF own
  <2> QED
    BY <2>1, <2>2, ItemsCarry DEF Sound
<1> HIDE DEF added, own, n
<1>4. \A d \in D, i \in 1..n : step[<<d, i>>] = After(d, i)
  BY Zenon
<1>5. \A i \in 1..n : added(i) \in Seq(R) /\ own(i).warned \in Seq(V)
  <2> SUFFICES ASSUME NEW i \in 1..n PROVE added(i) \in Seq(R) /\ own(i).warned \in Seq(V)
    BY Zenon
  <2>1. added(i) \in Seq(Values(added(i))) /\ own(i).warned \in Seq(Values(own(i).warned))
    BY Zenon, <1>3 DEF Carrying, Telling, IsSequence, Values
  <2>2. Values(added(i)) \subseteq R /\ Values(own(i).warned) \subseteq V
    OBVIOUS
  <2> HIDE DEF R, V
  <2> QED
    BY <2>1, <2>2, SeqMonotonic
<1>6. (\A x \in R : Proper(x.record) /\ x.path \in Paths) /\ (\A w \in V : w \in Said)
  <2>1. ASSUME NEW i \in 1..n, NEW x \in Values(added(i)) PROVE Proper(x.record) /\ x.path \in Paths
    BY <1>3 DEF Carrying, Addressed, Values
  <2>2. ASSUME NEW i \in 1..n, NEW w \in Values(own(i).warned) PROVE w \in Said
    <3>1. Telling(own(i).warned)
      BY <1>3
    <3> QED
      BY <3>1, <2>2 DEF Telling, Values
  <2> QED
    BY <2>1, <2>2
<1> HIDE DEF step, R, V
<1>7. ASSUME NEW d \in D, NEW i \in 1..n
      PROVE  After(d, i) \in D
  <2>1. d.items \in Seq(R) /\ d.warned \in Seq(V)
    OBVIOUS
  <2>2. d.items \o added(i) \in Seq(R) /\ d.warned \o own(i).warned \in Seq(V)
    BY <1>5, <2>1
  <2> QED
    BY <2>2
<1>8. none \in D
  OBVIOUS
<1>9. \A d \in D : Carrying(d.items) /\ Addressed(d.items) /\ Telling(d.warned)
  <2> SUFFICES ASSUME NEW d \in D PROVE Carrying(d.items) /\ Addressed(d.items) /\ Telling(d.warned)
    OBVIOUS
  <2>1. d.items \in Seq(R) /\ d.warned \in Seq(V)
    OBVIOUS
  <2>2. IsSequence(d.items) /\ IsSequence(d.warned)
    BY <2>1, SequenceOf
  <2>3. (\A k \in DOMAIN d.items : d.items[k] \in R) /\ (\A k \in DOMAIN d.warned : d.warned[k] \in V)
    BY <2>1
  <2> QED
    BY <1>6, <2>2, <2>3 DEF Carrying, Addressed, Telling
<1> HIDE DEF D, After, none
<1>10. PICK f : Steps(f, n, none, step)
  BY <1>2, Rolled
<1>11. f[0] = none /\ f = [i \in 0..n |-> f[i]] /\ \A i \in 1..n : f[i] = step[<<f[i - 1], i>>]
  BY <1>2, <1>10 DEF Steps
<1>12. \A i \in 1..n : f[i - 1] \in D => f[i] \in D
  BY Zenon, <1>4, <1>7, <1>11
<1>13. \A i \in 0..n : f[i] \in D
  BY Zenon, <1>2, <1>8, <1>11, <1>12, Throughout
<1>14. ASSUME NEW i \in 0..n
       PROVE  f[i] = IF i = 0 THEN none ELSE After(f[i - 1], i)
  <2>1. CASE i = 0
    BY <1>11, <2>1
  <2>2. CASE i # 0
    <3>1. i \in 1..n /\ i - 1 \in 0..n
      BY <1>2, <2>2
    <3> QED
      BY Zenon, <1>4, <1>11, <1>13, <2>2, <3>1
  <2> QED
    BY <2>1, <2>2
<1>15. Made(f)
  BY Zenon, <1>11, <1>14
<1> HIDE DEF Made
<1>16. Made(upto)
  BY <1>15
<1> HIDE DEF upto
<1>17. upto[0] = none /\ \A i \in 1..n : upto[i] = After(upto[i - 1], i)
  BY <1>2, <1>16 DEF Made
<1>18. \A i \in 1..n : upto[i - 1] \in D => upto[i] \in D
  BY <1>7, <1>17
<1>19. \A i \in 0..n : upto[i] \in D
  BY <1>2, <1>8, <1>17, <1>18, Throughout
<1>20. upto[n] \in D
  BY <1>2, <1>19
<1> QED
  BY <1>1, <1>9, <1>20

LEMMA EmissionStays == ASSUME EmitNext, Finished PROVE emission' = emission
BY Zenon DEF EmitNext, Finished, BeginView, SkipInvisible, DrawLeaf, RefuseInsert, EnterInsert, ReadDimension,
       ReadTable, NextCell, LeaveBlock, LeaveView, Finish

\* The entries a sidecar is written from.
IsEntry(e) == e = [i |-> e.i, h |-> e.h, t |-> e.t, x |-> e.x, d |-> e.d]

\* The entry of the n-th record, under a path of its own.
Names(e, n, r) == e.i = n - 1 /\ e.h \in Paths /\ e.h # <<>> /\ e.t \in {"none", r.record}

\* An emission the schema has lines for.
WellFormed(e) ==
  /\ IsSequence(e.records) /\ IsSequence(e.sidecar) /\ Len(e.sidecar) = Len(e.records)
  /\ \A n \in DOMAIN e.records : Proper(e.records[n])
  /\ \A n \in DOMAIN e.sidecar : IsEntry(e.sidecar[n]) /\ Names(e.sidecar[n], n, e.records[n])

LEMMA OneCarried == ASSUME NEW x, Proper(x.record) PROVE Carrying(<<x>>)
BY OneElement DEF Carrying

LEMMA NoneCarried == Carrying(<<>>)
BY EmptySequence DEF Carrying

\* A list of rows, and what is written of each, are an emission.
LEMMA Emitted ==
  ASSUME NEW rows, Carrying(rows), NEW sidecar, sidecar = [n \in DOMAIN rows |-> sidecar[n]],
         \A n \in DOMAIN rows : IsEntry(sidecar[n]) /\ Names(sidecar[n], n, rows[n].record)
  PROVE  WellFormed([records |-> [n \in DOMAIN rows |-> rows[n].record], sidecar |-> sidecar])
<1> DEFINE records == [n \in DOMAIN rows |-> rows[n].record]
<1>1. IsSequence(rows) /\ \A n \in DOMAIN rows : Proper(rows[n].record)
  BY DEF Carrying
<1>2. IsSequence(records) /\ DOMAIN records = DOMAIN rows /\ Len(records) = Len(rows)
  BY <1>1, SameLength
<1>3. IsSequence(sidecar) /\ DOMAIN sidecar = DOMAIN rows /\ Len(sidecar) = Len(rows)
  BY <1>1, SameLength
<1>4. \A n \in DOMAIN records : Proper(records[n]) /\ records[n] = rows[n].record
  BY <1>1
<1> HIDE DEF records
<1> DEFINE e == [records |-> records, sidecar |-> sidecar]
<1>5. WellFormed(e)
  BY <1>2, <1>3, <1>4 DEF WellFormed
<1> QED
  BY <1>5 DEF records

-----------------------------------------------------------------------------
(* The walk over the drawing: what it has in hand is what the files can hold. *)

IsFrame(f) ==
  /\ {"entity", "members"} \subseteq DOMAIN f /\ f.path \in Paths /\ f.saved \in Paths
  /\ IsSequence(f.members) /\ \A n \in DOMAIN f.members : IsEntity(f.members[n])

\* Every frame but the view's own was opened by an entity.
Opened(stack) ==
  /\ IsSequence(stack)
  /\ \A i \in DOMAIN stack : IsFrame(stack[i]) /\ (i # 1 => IsEntity(stack[i].entity))

LEMMA OpenedOne ==
  ASSUME NEW t, IsFrame(t)
  PROVE  Opened(<<t>>)
BY OneElement DEF Opened

LEMMA OpenedMore ==
  ASSUME NEW stack, Opened(stack), NEW t, IsFrame(t), Len(stack) # 0 => IsEntity(t.entity)
  PROVE  Opened(Append(stack, t))
<1> DEFINE longer == Append(stack, t)
<1>1. Len(stack) \in Nat /\ DOMAIN stack = 1..Len(stack)
  BY Sequences_ DEF Opened
<1>2. /\ IsSequence(longer) /\ DOMAIN longer = 1..(Len(stack) + 1) /\ longer[Len(stack) + 1] = t
      /\ \A n \in DOMAIN stack : longer[n] = stack[n]
  BY Appended DEF Opened
<1> HIDE DEF longer
<1>3. ASSUME NEW i \in DOMAIN longer
      PROVE  IsFrame(longer[i]) /\ (i # 1 => IsEntity(longer[i].entity))
  <2>1. CASE i = Len(stack) + 1
    BY <1>1, <1>2, <2>1
  <2>2. CASE i # Len(stack) + 1
    <3>1. i \in DOMAIN stack
      BY <1>1, <1>2, <2>2
    <3> QED
      BY <1>2, <3>1 DEF Opened
  <2> QED
    BY <2>1, <2>2
<1> QED
  BY <1>2, <1>3 DEF Opened, longer

LEMMA OpenedLess ==
  ASSUME Opened(frames), frames # <<>>
  PROVE  /\ Opened(Rest) /\ Len(Rest) = Len(frames) - 1
         /\ IsFrame(Top) /\ (Depth # 0 => IsEntity(Top.entity))
<1>1. Len(frames) \in Nat /\ DOMAIN frames = 1..Len(frames) /\ IsSequence(frames)
  BY Sequences_ DEF Opened
<1>2. /\ Len(frames) \in DOMAIN frames /\ IsSequence(Rest) /\ DOMAIN Rest = DOMAIN frames \ {Len(frames)}
      /\ \A n \in DOMAIN frames \ {Len(frames)} : Rest[n] = frames[n]
  BY <1>1, WithoutLast DEF Rest
<1>3. Len(Rest) \in Nat /\ DOMAIN Rest = 1..Len(Rest)
  BY <1>2, Sequences_
<1>4. Len(Rest) = Len(frames) - 1
  <2> DEFINE m == Len(frames)
             k == Len(Rest)
  <2>1. m \in Nat /\ k \in Nat /\ m \in 1..m /\ 1..k = (1..m) \ {m}
    BY <1>1, <1>2, <1>3
  <2> HIDE DEF m, k
  <2>2. \A i \in Nat : i \in 1..k <=> (i \in 1..m /\ i # m)
    BY Zenon, <2>1
  <2>3. k \notin 1..k \/ k < m
    BY <2>1, <2>2
  <2>4. k + 1 \notin 1..m \/ k + 1 = m
    BY <2>1, <2>2
  <2>5. k = m - 1
    BY <2>1, <2>3, <2>4
  <2> QED
    BY <2>5 DEF m, k
<1>5. Opened(Rest)
  BY <1>2 DEF Opened
<1>6. IsFrame(Top) /\ (Depth # 0 => IsEntity(Top.entity))
  BY <1>1, <1>2 DEF Opened, Top, Depth
<1> QED
  BY <1>4, <1>5, <1>6

LEMMA OpenedAgain ==
  ASSUME Opened(frames), frames # <<>>, NEW t, IsFrame(t), t.entity = Top.entity
  PROVE  Opened(Append(Rest, t)) /\ Len(Append(Rest, t)) = Len(frames)
<1>1. Opened(Rest) /\ Len(Rest) = Len(frames) - 1 /\ (Depth # 0 => IsEntity(Top.entity))
  BY OpenedLess
<1>2. Len(Rest) # 0 => IsEntity(t.entity)
  BY <1>1 DEF Depth
<1>3. IsSequence(Rest) /\ IsSequence(frames)
  BY <1>1 DEF Opened
<1>4. Len(frames) \in Nat
  BY <1>3, Sequences_
<1>5. Len(Append(Rest, t)) = Len(frames)
  BY <1>1, <1>3, <1>4, Appended
<1> QED
  BY Zenon, <1>1, <1>2, <1>5, OpenedMore

LEMMA OpenedOn ==
  ASSUME Opened(frames), Reading
  PROVE  Opened(Advanced) /\ Len(Advanced) = Len(frames) /\ IsEntity(Here) /\ Top.path \in Paths
<1> DEFINE t == [Top EXCEPT !.members = Tail(Top.members)]
<1>1. frames # <<>> /\ Top.members # <<>>
  BY DEF Reading
<1>2. /\ {"entity", "members"} \subseteq DOMAIN Top /\ Top.path \in Paths /\ Top.saved \in Paths
      /\ IsSequence(Top.members)
      /\ \A n \in DOMAIN Top.members : IsEntity(Top.members[n])
  BY <1>1, OpenedLess DEF IsFrame
<1>3. /\ 1 \in DOMAIN Top.members /\ Head(Top.members) = Top.members[1] /\ IsSequence(Tail(Top.members))
      /\ \A n \in DOMAIN Tail(Top.members) :
           n + 1 \in DOMAIN Top.members /\ Tail(Top.members)[n] = Top.members[n + 1]
  BY <1>1, <1>2, WithoutFirst
<1>4. IsEntity(Here)
  BY <1>2, <1>3 DEF Here
<1>5. /\ {"entity", "members"} \subseteq DOMAIN t /\ t.members = Tail(Top.members) /\ t.entity = Top.entity
      /\ t.path = Top.path /\ t.saved = Top.saved
  BY <1>2
<1> HIDE DEF t
<1>6. IsFrame(t)
  BY <1>2, <1>3, <1>5 DEF IsFrame
<1> QED
  BY <1>1, <1>2, <1>4, <1>5, <1>6, OpenedAgain DEF Advanced, t

LEMMA MembersAre ==
  ASSUME IsDrawing(drawing), NEW block
  PROVE  IsSequence(Members(block)) /\ \A n \in DOMAIN Members(block) : IsEntity(Members(block)[n])
<1>1. CASE Known(block)
  BY <1>1 DEF Members, Known, IsDrawing, Lists
<1>2. CASE ~Known(block)
  BY <1>2, EmptySequence DEF Members
<1> QED
  BY <1>1, <1>2

LEMMA OpenedIn ==
  ASSUME Opened(frames), at \in Paths, Reading, IsDrawing(drawing), NEW block, NEW cells, NEW xf,
         Enter(block, Here, cells, xf)
  PROVE  Opened(frames') /\ at' \in Paths
<1> DEFINE t == [block |-> block, entity |-> Here, outer |-> Top.xf, xf |-> xf,
                 path |-> Append(Top.path, Here.handle), saved |-> at,
                 cells |-> Tail(cells), members |-> Members(block)]
<1>1. frames' = Append(Advanced, t)
  BY DEF Enter
<1>2. /\ {"entity", "members"} \subseteq DOMAIN t /\ t.members = Members(block) /\ t.entity = Here
      /\ t.path = Append(Top.path, Here.handle) /\ t.saved = at
  OBVIOUS
<1> HIDE DEF t
<1>3. Append(Top.path, Here.handle) \in Paths
  BY OpenedOn, Farther DEF IsEntity
<1>4. IsFrame(t)
  BY <1>2, <1>3, MembersAre DEF IsFrame
<1>5. at' = Append(Top.path, Here.handle)
  BY DEF Enter
<1> QED
  BY <1>1, <1>2, <1>3, <1>4, <1>5, OpenedOn, OpenedMore

LEMMA OpenedStep ==
  ASSUME Opened(frames), at \in Paths, IsDrawing(drawing), EmitNext
  PROVE  Opened(frames') /\ at' \in Paths
<1>1. CASE BeginView
  <2>1. CASE Views[view + 1].block = NoBlock
    BY <1>1, <2>1 DEF BeginView
  <2>2. CASE Views[view + 1].block # NoBlock
    <3> DEFINE t == [block |-> Views[view + 1].block, entity |-> NoBlock, outer |-> Identity,
                     xf |-> Identity, path |-> <<>>, saved |-> <<>>,
                     cells |-> <<>>, members |-> Members(Views[view + 1].block)]
    <3>1. frames' = <<t>>
      BY <1>1, <2>2 DEF BeginView
    <3>2. /\ {"entity", "members"} \subseteq DOMAIN t /\ t.members = Members(Views[view + 1].block)
          /\ t.path = <<>> /\ t.saved = <<>>
      OBVIOUS
    <3> HIDE DEF t
    <3>3. IsFrame(t)
      BY <3>2, MembersAre, NoPathYet DEF IsFrame
    <3>4. at' = at
      BY <1>1 DEF BeginView
    <3> QED
      BY <3>1, <3>3, <3>4, OpenedOne
  <2> QED
    BY <2>1, <2>2
<1>2. CASE SkipInvisible
  BY <1>2, OpenedOn DEF SkipInvisible
<1>3. CASE DrawLeaf
  BY <1>3, OpenedOn DEF DrawLeaf
<1>4. CASE RefuseInsert
  BY <1>4, OpenedOn DEF RefuseInsert
<1>5. CASE EnterInsert
  BY <1>5, OpenedIn DEF EnterInsert
<1>6. CASE ReadDimension
  <2> DEFINE why == IF ~Known(Here.block)
                    THEN <<Warn("missing_reference", "DIMENSION", "dimension_block_missing")>>
                    ELSE Refusal(Here.block)
  <2>1. Reading
    BY <1>6 DEF ReadDimension
  <2>2. CASE why = <<>>
    <3>1. Enter(Here.block, Here, <<<<0, 0>>>>, Top.xf)
      BY <1>6, <2>2 DEF ReadDimension
    <3> QED
      BY <2>1, <3>1, OpenedIn
  <2>3. CASE why # <<>>
    <3>1. frames' = Advanced /\ at' = at
      BY <1>6, <2>3 DEF ReadDimension
    <3> QED
      BY <2>1, <3>1, OpenedOn
  <2> QED
    BY <2>2, <2>3
<1>7. CASE ReadTable
  <2> DEFINE block == TableBlock(Here)
  <2>1. Reading
    BY <1>7 DEF ReadTable
  <2>2. CASE block # NoBlock /\ Refusal(block) = <<>>
    <3>1. Enter(block, Here, <<<<0, 0>>>>, Compose(Top.xf, TableTransform(Here)))
      BY <1>7, <2>2 DEF ReadTable
    <3> QED
      BY <2>1, <3>1, OpenedIn
  <2>3. CASE block = NoBlock
    <3>1. frames' = Advanced /\ at' = at
      BY <1>7, <2>3 DEF ReadTable
    <3> QED
      BY <2>1, <3>1, OpenedOn
  <2>4. CASE block # NoBlock /\ Refusal(block) # <<>>
    <3>1. frames' = Advanced /\ at' = at
      BY <1>7, <2>4 DEF ReadTable
    <3> QED
      BY <2>1, <3>1, OpenedOn
  <2> QED
    BY <2>2, <2>3, <2>4
<1>8. CASE NextCell
  <2> DEFINE t == [Top EXCEPT !.cells = Tail(@),
                   !.members = Members(Top.block),
                   !.xf = Compose(Top.outer, InsertTransform(Top.entity,
                            drawing.blocks[Top.block].base, Head(Top.cells)))]
  <2>1. frames # <<>> /\ frames' = Append(Rest, t) /\ at' = at
    BY <1>8 DEF NextCell
  <2>2. {"entity", "members"} \subseteq DOMAIN Top /\ Top.path \in Paths /\ Top.saved \in Paths
    BY <2>1, OpenedLess DEF IsFrame
  <2>3. /\ {"entity", "members"} \subseteq DOMAIN t /\ t.members = Members(Top.block) /\ t.entity = Top.entity
        /\ t.path = Top.path /\ t.saved = Top.saved
    BY <2>2
  <2> HIDE DEF t
  <2>4. IsFrame(t)
    BY <2>2, <2>3, MembersAre DEF IsFrame
  <2> QED
    BY <2>1, <2>3, <2>4, OpenedAgain
<1>9. CASE LeaveBlock
  BY <1>9, OpenedLess DEF LeaveBlock, Done, IsFrame
<1>10. CASE LeaveView
  BY <1>10, EmptySequence DEF LeaveView, Opened
<1>11. CASE Finish
  BY Zenon, <1>11 DEF Finish
<1> QED
  BY <1>1, <1>2, <1>3, <1>4, <1>5, <1>6, <1>7, <1>8, <1>9, <1>10, <1>11 DEF EmitNext

InHand ==
  /\ Carrying(head) /\ Addressed(head) /\ Carrying(sink) /\ Addressed(sink) /\ Warned(warnings)
  /\ at \in Paths

LEMMA HandStarts == ASSUME Started, IsDrawing(drawing) PROVE InHand /\ Opened(frames)
<1>1. Carrying(head) /\ Addressed(head)
  <2> DEFINE r == DocumentRecord
             x == Framing(r)
  <2>1. head = <<x>>
    BY DEF Started
  <2>2. r.record = "document"
    BY DEF DocumentRecord
  <2> HIDE DEF r
  <2>3. Proper(r)
    BY <2>2, KindsAre, ProperPlain
  <2>4. x.record = r /\ x.path = <<>>
    BY DEF Framing
  <2> HIDE DEF x
  <2>5. Addressed(<<x>>)
    BY <2>4, OneElement, NoPathYet DEF Addressed
  <2> QED
    BY <2>1, <2>3, <2>4, <2>5, OneCarried
<1>2. Carrying(sink) /\ Addressed(sink)
  BY NoneCarried, EmptySequence DEF Started, Addressed
<1>3. Warned(warnings)
  <2> DEFINE said == [i \in DOMAIN drawing.notifications |->
                        [warning |-> Notified(drawing.notifications[i]), path |-> <<>>]]
  <2>1. warnings = said
    BY DEF Started
  <2>2. /\ IsSequence(drawing.notifications)
        /\ \A n \in DOMAIN drawing.notifications : Notified(drawing.notifications[n]) \in Said
    BY ReaderSays DEF IsDrawing, Lists
  <2>3. IsSequence(said) /\ DOMAIN said = DOMAIN drawing.notifications
    BY <2>2, SameLength
  <2>4. \A n \in DOMAIN said : said[n].warning = Notified(drawing.notifications[n]) /\ said[n].path = <<>>
    OBVIOUS
  <2> HIDE DEF said
  <2> QED
    BY <2>1, <2>2, <2>3, <2>4, NoPathYet DEF Warned
<1>4. Opened(frames)
  BY EmptySequence DEF Started, Opened
<1>5. at \in Paths
  BY NoPathYet DEF Started
<1> QED
  BY <1>1, <1>2, <1>3, <1>4, <1>5 DEF InHand

LEMMA MoreSaid ==
  ASSUME Warned(warnings), NEW ws, Telling(ws), NEW path \in Paths
  PROVE  Warned(warnings \o Raised(ws, path))
BY RaisedIs, JoinedWarned

LEMMA OneMoreSaid ==
  ASSUME Warned(warnings), NEW w \in Said, NEW path \in Paths
  PROVE  Warned(warnings \o Raised(<<w>>, path))
BY OneTold, MoreSaid

LEMMA RefusalIs == ASSUME NEW block PROVE Telling(Refusal(block))
BY OneTold, NothingTold, BlockSays DEF Refusal

LEMMA EnteringSays ==
  ASSUME InHand, Opened(frames), EnterInsert
  PROVE  Carrying(head') /\ Addressed(head') /\ Carrying(sink') /\ Addressed(sink') /\ Warned(warnings')
<1> DEFINE ws == IF TooLarge(Here) THEN <<Warn("malformed_geometry", "Insert", "array_too_large")>> ELSE <<>>
           path == Append(Top.path, Here.handle)
<1>1. head' = head /\ sink' = sink /\ warnings' = warnings \o Raised(ws, path) /\ Reading
  BY DEF EnterInsert
<1>2. Telling(ws)
  BY OneTold, NothingTold, BlockSays
<1>3. path \in Paths
  BY <1>1, OpenedOn, Farther DEF IsEntity
<1> HIDE DEF ws, path
<1>4. Warned(warnings')
  BY <1>1, <1>2, <1>3, MoreSaid DEF InHand
<1> QED
  BY <1>1, <1>4 DEF InHand

\* An insert refused, and one that is done: its attributes.
LEMMA RefusingSays ==
  ASSUME InHand, Opened(frames), RefuseInsert
  PROVE  Carrying(head') /\ Addressed(head') /\ Carrying(sink') /\ Addressed(sink') /\ Warned(warnings')
<1> DEFINE path == Append(Top.path, Here.handle)
           own == Attributes(Here, path, Top.xf)
           refusal_ == Refusal(Here.block)
<1>1. Reading /\ Here.kind = "INSERT" /\ head' = head
  BY DEF RefuseInsert
<1>2. path \in Paths /\ Carrying(own.items) /\ Addressed(own.items) /\ Telling(own.warned)
  <2>1. IsSequence(Here.attributes) /\ \A n \in DOMAIN Here.attributes : Here.attributes[n].handle \in Nat
    BY <1>1, OpenedOn DEF IsEntity, Lists
  <2>2. path \in Paths
    BY <1>1, OpenedOn, Farther DEF IsEntity
  <2> HIDE DEF path
  <2> QED
    BY <2>1, <2>2, AttributesCarry
<1>3. CASE ~Known(Here.block)
  <2> DEFINE w == Warn("missing_reference", "Insert", "block_record_missing")
  <2>1. sink' = sink /\ warnings' = warnings \o Raised(<<w>>, path)
    BY <1>3 DEF RefuseInsert
  <2>2. w \in Said
    BY BlockSays
  <2> HIDE DEF path, w
  <2>3. Warned(warnings')
    BY <1>2, <2>1, <2>2, OneMoreSaid DEF InHand
  <2> QED
    BY <1>1, <2>1, <2>3 DEF InHand
<1>4. CASE Known(Here.block)
  <2>1. /\ sink' = sink \o own.items
        /\ warnings' = warnings \o Raised(refusal_ \o own.warned, path)
    BY <1>4 DEF RefuseInsert
  <2>2. Telling(refusal_)
    BY RefusalIs
  <2> HIDE DEF own, path, refusal_
  <2>3. Telling(refusal_ \o own.warned)
    BY <1>2, <2>2, JoinedTold
  <2>4. Warned(warnings')
    BY <1>2, <2>1, <2>3, MoreSaid DEF InHand
  <2>5. Carrying(sink') /\ Addressed(sink')
    BY <1>2, <2>1, JoinedCarrying, JoinedAddressed DEF InHand
  <2> QED
    BY <1>1, <2>4, <2>5 DEF InHand
<1> QED
  BY <1>3, <1>4

LEMMA LeavingSays ==
  ASSUME InHand, Opened(frames), LeaveBlock
  PROVE  Carrying(head') /\ Addressed(head') /\ Carrying(sink') /\ Addressed(sink') /\ Warned(warnings')
<1>1. CASE Top.entity.kind = "INSERT"
  <2> DEFINE own == Attributes(Top.entity, Top.path, Top.outer)
  <2>1. head' = head /\ sink' = sink \o own.items /\ warnings' = warnings \o Raised(own.warned, at)
    BY <1>1 DEF LeaveBlock
  <2>2. frames # <<>> /\ Depth # 0
    BY DEF LeaveBlock, Done
  <2>3. /\ IsSequence(Top.entity.attributes) /\ Top.path \in Paths
        /\ \A n \in DOMAIN Top.entity.attributes : Top.entity.attributes[n].handle \in Nat
    BY <1>1, <2>2, OpenedLess DEF IsEntity, Lists, IsFrame
  <2>4. Carrying(own.items) /\ Addressed(own.items) /\ Telling(own.warned)
    BY <2>3, AttributesCarry
  <2> HIDE DEF own
  <2>5. Carrying(sink') /\ Addressed(sink')
    BY <2>1, <2>4, JoinedCarrying, JoinedAddressed DEF InHand
  <2>6. Warned(warnings')
    BY <2>1, <2>4, MoreSaid DEF InHand
  <2> QED
    BY <2>1, <2>5, <2>6 DEF InHand
<1>2. CASE Top.entity.kind # "INSERT"
  BY <1>2 DEF LeaveBlock, InHand
<1> QED
  BY <1>1, <1>2

LEMMA DrawingSays ==
  ASSUME InHand, Opened(frames), DrawLeaf
  PROVE  Carrying(head') /\ Addressed(head') /\ Carrying(sink') /\ Addressed(sink') /\ Warned(warnings')
<1> DEFINE path == Append(Top.path, Here.handle)
           leaf == LeafOf(view - 1, Here, Top.xf, Depth > 0)
           items == Items(leaf.records, path, Here.kind)
<1>1. /\ Reading /\ Here.kind \notin Expanded /\ head' = head
      /\ sink' = sink \o items
      /\ warnings' = warnings \o Raised(leaf.warned, path)
  BY DEF DrawLeaf
<1>2. Sound(leaf)
  BY <1>1, OpenedOn, LeafSound
<1>3. path \in Paths
  BY <1>1, OpenedOn, Farther DEF IsEntity
<1> HIDE DEF leaf, path
<1>4. Carrying(items) /\ Addressed(items) /\ Telling(leaf.warned)
  BY <1>2, <1>3, ItemsCarry DEF Sound
<1> HIDE DEF items
<1>5. Carrying(sink') /\ Addressed(sink')
  BY <1>1, <1>4, JoinedCarrying, JoinedAddressed DEF InHand
<1>6. Warned(warnings')
  BY <1>1, <1>3, <1>4, MoreSaid DEF InHand
<1> QED
  BY <1>1, <1>5, <1>6 DEF InHand

LEMMA BeginningSays ==
  ASSUME InHand, BeginView
  PROVE  Carrying(head') /\ Addressed(head') /\ Carrying(sink') /\ Addressed(sink') /\ Warned(warnings')
<1> DEFINE l == Views[view + 1]
           r == [record |-> "view", index |-> view, name |-> l.name, kind |-> ViewKind(l)]
           x == Framing(r)
<1>1. head' = Append(head, x) /\ sink' = sink
  BY DEF BeginView
<1>2. r.record = "view"
  OBVIOUS
<1> HIDE DEF r
<1>3. Proper(r)
  BY <1>2, KindsAre, ProperPlain
<1>4. Proper(x.record) /\ x.path \in Paths
  BY <1>3, NoPathYet DEF Framing
<1> HIDE DEF x
<1>5. Carrying(head') /\ Addressed(head')
  <2>1. /\ IsSequence(head) /\ Len(head) \in Nat /\ DOMAIN head = 1..Len(head)
        /\ \A n \in DOMAIN head : Proper(head[n].record) /\ head[n].path \in Paths
    BY Sequences_ DEF InHand, Carrying, Addressed
  <2> DEFINE longer == Append(head, x)
  <2>2. /\ IsSequence(longer) /\ DOMAIN longer = 1..(Len(head) + 1) /\ longer[Len(head) + 1] = x
        /\ \A n \in DOMAIN head : longer[n] = head[n]
    BY <2>1, Appended
  <2> HIDE DEF longer
  <2>3. \A n \in DOMAIN longer : n \in DOMAIN head \/ n = Len(head) + 1
    BY <2>1, <2>2
  <2>4. Carrying(longer) /\ Addressed(longer)
    BY <1>4, <2>1, <2>2, <2>3 DEF Carrying, Addressed
  <2> QED
    BY <1>1, <2>4 DEF longer
<1>6. Warned(warnings')
  <2>1. CASE l.block = NoBlock
    <3> DEFINE w == Warn("missing_reference", "Layout", "layout_without_block_record")
    <3>1. warnings' = warnings \o Raised(<<w>>, at)
      BY Zenon, <2>1 DEF BeginView
    <3>2. w \in Said
      BY BlockSays
    <3> HIDE DEF w
    <3> QED
      BY <3>1, <3>2, OneMoreSaid DEF InHand
  <2>2. CASE l.block # NoBlock
    BY <2>2 DEF BeginView, InHand
  <2> QED
    BY <2>1, <2>2
<1> QED
  BY <1>1, <1>5, <1>6 DEF InHand

LEMMA DimensionSays ==
  ASSUME InHand, Opened(frames), ReadDimension
  PROVE  Carrying(head') /\ Addressed(head') /\ Carrying(sink') /\ Addressed(sink') /\ Warned(warnings')
<1> DEFINE why == IF ~Known(Here.block)
                  THEN <<Warn("missing_reference", "DIMENSION", "dimension_block_missing")>>
                  ELSE Refusal(Here.block)
           path == Append(Top.path, Here.handle)
<1>1. head' = head /\ sink' = sink /\ Reading
  BY DEF ReadDimension
<1>2. warnings' = warnings \/ warnings' = warnings \o Raised(why, path)
  BY Zenon DEF ReadDimension
<1>3. Telling(why)
  BY OneTold, BlockSays, RefusalIs
<1>4. path \in Paths
  BY <1>1, OpenedOn, Farther DEF IsEntity
<1> HIDE DEF why, path
<1>5. Warned(warnings')
  BY Zenon, <1>2, <1>3, <1>4, MoreSaid DEF InHand
<1> QED
  BY <1>1, <1>5 DEF InHand

LEMMA TableSays ==
  ASSUME InHand, Opened(frames), ReadTable
  PROVE  Carrying(head') /\ Addressed(head') /\ Carrying(sink') /\ Addressed(sink') /\ Warned(warnings')
<1> DEFINE block == TableBlock(Here)
           path == Append(Top.path, Here.handle)
<1>1. head' = head /\ sink' = sink /\ Reading
  BY DEF ReadTable
<1>2. warnings' = warnings \/ warnings' = warnings \o Raised(Refusal(block), path)
  BY DEF ReadTable
<1>3. path \in Paths
  BY <1>1, OpenedOn, Farther DEF IsEntity
<1> HIDE DEF block, path
<1>4. Warned(warnings')
  BY Zenon, <1>2, <1>3, RefusalIs, MoreSaid DEF InHand
<1> QED
  BY <1>1, <1>4 DEF InHand

LEMMA HandStep ==
  ASSUME InHand, Opened(frames), IsDrawing(drawing), EmitNext
  PROVE  InHand'
<1>1. at' \in Paths
  BY OpenedStep DEF InHand
<1>2. Carrying(head') /\ Addressed(head') /\ Carrying(sink') /\ Addressed(sink') /\ Warned(warnings')
  <2>1. CASE SkipInvisible \/ NextCell \/ LeaveView \/ Finish
    BY Zenon, <2>1 DEF SkipInvisible, NextCell, LeaveView, Finish, InHand
  <2> QED
    BY <2>1, BeginningSays, DrawingSays, RefusingSays, EnteringSays, DimensionSays, TableSays, LeavingSays
       DEF EmitNext
<1> QED
  BY <1>1, <1>2 DEF InHand

\* The end of the walk over the drawing.
LEMMA FinishedFormed ==
  ASSUME InHand, Finish
  PROVE  WellFormed(emission')
<1> DEFINE sorted == SortedBy(warnings, LAMBDA w : WarningRank(w.warning))
           last == [i \in DOMAIN sorted |->
              [record |-> [record |-> "warning", category |-> sorted[i].warning[1],
                           entity_type |-> sorted[i].warning[2], detail |-> sorted[i].warning[3]],
               path |-> sorted[i].path, dxf |-> "none"]]
           items == head \o sink \o last
           sidecar == [i \in DOMAIN items |->
              [i |-> i - 1,
               h |-> IF items[i].path = <<>> THEN <<0>> ELSE items[i].path,
               t |-> items[i].record.record, x |-> "none", d |-> items[i].dxf]]
<1>1. emission' = [records |-> [i \in DOMAIN items |-> items[i].record], sidecar |-> sidecar]
  BY Zenon DEF Finish
<1>2. /\ IsSequence(sorted)
      /\ \A n \in DOMAIN sorted : sorted[n].path \in Paths
  <2> DEFINE ranks == [i \in DOMAIN warnings |-> WarningRank(warnings[i].warning)]
             By(r) == [k \in DOMAIN r |-> warnings[Held(r, k)]]
             few == {By(r) : r \in {ranks}}
  <2>1. sorted = Only(few)
    BY DEF SortedBy, Held, Place, NotAfter
  <2>2. IsSequence(warnings) /\ \A n \in DOMAIN warnings : warnings[n].warning \in Said /\ warnings[n].path \in Paths
    BY DEF InHand, Warned
  <2>2a. ranks \in [DOMAIN warnings -> Int]
    BY <2>2, RankIsNumber
  <2> HIDE DEF ranks
  <2> DEFINE ordered == By(ranks)
  <2>2b. ordered = [k \in DOMAIN ranks |-> warnings[Held(ranks, k)]]
    OBVIOUS
  <2> HIDE DEF ordered
  <2>2c. DOMAIN ranks = DOMAIN warnings /\ \A k \in DOMAIN warnings : Held(ranks, k) \in DOMAIN warnings
    BY <2>2, <2>2a, EachIsHeld
  <2>2d. ordered = [k \in DOMAIN warnings |-> ordered[k]]
    BY <2>2b, <2>2c
  <2>2e. IsSequence(ordered) /\ DOMAIN ordered = DOMAIN warnings
    BY <2>2, <2>2d, SameLength
  <2>3. IsSequence(ordered) /\ \A n \in DOMAIN ordered : ordered[n].path \in Paths
    BY <2>2, <2>2b, <2>2c, <2>2e
  <2> USE DEF ordered
  <2> HIDE DEF By
  <2>4. few = {By(ranks)}
    OBVIOUS
  <2> HIDE DEF few
  <2> QED
    BY Zenon, <2>1, <2>3, <2>4, OnlyOne
<1> HIDE DEF sorted
<1>3. Carrying(last) /\ Addressed(last)
  <2>1. IsSequence(last) /\ DOMAIN last = DOMAIN sorted
    BY <1>2, SameLength
  <2>2. \A n \in DOMAIN sorted : last[n].record.record = "warning" /\ last[n].path = sorted[n].path
    OBVIOUS
  <2> HIDE DEF last
  <2>3. Carrying(last)
    BY <2>1, <2>2, KindsAre, ProperPlain DEF Carrying
  <2> QED
    BY <1>2, <2>1, <2>2, <2>3 DEF Addressed
<1> HIDE DEF last
<1>4. Carrying(items) /\ Addressed(items)
  <2>1. Carrying(head \o sink) /\ Addressed(head \o sink)
    BY JoinedCarrying, JoinedAddressed DEF InHand
  <2> QED
    BY <1>3, <2>1, JoinedCarrying, JoinedAddressed
<1> HIDE DEF items
<1>5. sidecar = [n \in DOMAIN items |-> sidecar[n]]
  OBVIOUS
<1>6. ASSUME NEW n \in DOMAIN items
      PROVE  IsEntry(sidecar[n]) /\ Names(sidecar[n], n, items[n].record)
  <2> DEFINE path == items[n].path
             h == IF path = <<>> THEN <<0>> ELSE path
  <2>1. path \in Paths
    BY <1>4 DEF Addressed
  <2>2. sidecar[n] = [i |-> n - 1, h |-> h, t |-> items[n].record.record, x |-> "none", d |-> items[n].dxf]
    OBVIOUS
  <2>3. <<0>> \in Paths /\ <<0>> # <<>>
    BY DEF Paths
  <2> HIDE DEF path, sidecar
  <2>4. h \in Paths /\ h # <<>>
    BY <2>1, <2>3
  <2> HIDE DEF h
  <2> QED
    BY <2>2, <2>4 DEF IsEntry, Names
<1> HIDE DEF sidecar
<1> QED
  BY <1>1, <1>4, <1>5, <1>6, Emitted

-----------------------------------------------------------------------------
(* The order of texts. *)

LEMMA RankIs ==
  ASSUME NEW n \in DOMAIN Alphabet
  PROVE  Rank(Alphabet[n]) = n /\ n \in Nat
<1>1. n \in Nat
  BY AlphabetAssumption, Sequences_
<1>2. \A m \in DOMAIN Alphabet : Alphabet[m] = Alphabet[n] => m = n
  BY AlphabetAssumption
<1> QED
  BY <1>1, <1>2 DEF Rank

LEMMA RankOf ==
  ASSUME NEW p \in Pieces
  PROVE  Rank(p) \in Nat /\ \A q \in Pieces : Rank(p) = Rank(q) => p = q
<1>1. PICK n \in DOMAIN Alphabet : p = Alphabet[n]
  BY DEF Pieces
<1>2. Rank(p) = n /\ n \in Nat
  BY <1>1, RankIs
<1>3. ASSUME NEW q \in Pieces, Rank(p) = Rank(q) PROVE p = q
  <2>1. PICK m \in DOMAIN Alphabet : q = Alphabet[m]
    BY DEF Pieces
  <2>2. Rank(q) = m
    BY <2>1, RankIs
  <2> QED
    BY <1>1, <1>2, <1>3, <2>1, <2>2
<1> QED
  BY <1>2, <1>3

LEMMA TextIs ==
  ASSUME NEW a, IsText(a)
  PROVE  Len(a) \in Nat /\ DOMAIN a = 1..Len(a) /\ \A n \in 1..Len(a) : a[n] \in Pieces
BY LenProperties DEF IsText

\* Nothing is before itself.
LEMMA BeforeIsStrict == ASSUME NEW a, IsText(a) PROVE ~Before(a, a)
<1> SUFFICES ASSUME NEW n \in 0..Len(a), n < Len(a), n = Len(a) \/ Rank(a[n + 1]) < Rank(a[n + 1])
             PROVE  FALSE
  BY DEF Before
<1>1. Len(a) \in Nat /\ \A m \in 1..Len(a) : a[m] \in Pieces
  BY TextIs
<1>2. n + 1 \in 1..Len(a)
  BY <1>1
<1>3. Rank(a[n + 1]) \in Nat
  BY <1>1, <1>2, RankOf
<1> QED
  BY <1>1, <1>3

\* Of two texts one is before the other.
LEMMA BeforeIsTotal ==
  ASSUME NEW a, NEW b, IsText(a), IsText(b), a # b
  PROVE  Before(a, b) \/ Before(b, a)
<1> DEFINE la == Len(a)
           lb == Len(b)
           D == {n \in Nat : n \in 1..la /\ n \in 1..lb /\ a[n] # b[n]}
<1>1. /\ la \in Nat /\ DOMAIN a = 1..la /\ \A n \in 1..la : a[n] \in Pieces
      /\ lb \in Nat /\ DOMAIN b = 1..lb /\ \A n \in 1..lb : b[n] \in Pieces
  BY TextIs
<1>2. a \in [1..la -> Pieces] /\ b \in [1..lb -> Pieces]
  BY LenProperties DEF IsText
<1> HIDE DEF la, lb
<1>3. CASE D = {}
  <2>1. la # lb
    <3> SUFFICES ASSUME la = lb PROVE FALSE
      OBVIOUS
    <3>1. \A n \in 1..la : a[n] = b[n]
      BY <1>1, <1>3 DEF D
    <3>2. a \in [1..la -> Pieces] /\ b \in [1..la -> Pieces]
      BY <1>2
    <3>3. a = [n \in 1..la |-> a[n]] /\ b = [n \in 1..la |-> b[n]]
      BY <3>2
    <3>4. [n \in 1..la |-> a[n]] = [n \in 1..la |-> b[n]]
      BY <3>1
    <3> QED
      BY <3>3, <3>4
  <2>2. CASE la < lb
    <3>1. la \in 0..la /\ la < lb /\ \A i \in 1..la : a[i] = b[i]
      BY <1>1, <1>3, <2>2
    <3> QED
      BY <3>1 DEF Before, la, lb
  <2>3. CASE lb < la
    <3>1. lb \in 0..lb /\ lb < la /\ \A i \in 1..lb : b[i] = a[i]
      BY <1>1, <1>3, <2>3
    <3> QED
      BY <3>1 DEF Before, la, lb
  <2> QED
    BY <1>1, <2>1, <2>2, <2>3
<1>4. CASE D # {}
  <2>1. PICK d \in D : \A m \in D : d <= m
    BY <1>4, LeastNumber
  <2>2. d \in Nat /\ d \in 1..la /\ d \in 1..lb /\ a[d] # b[d]
    BY <2>1
  <2>3. \A i \in 1..(d - 1) : a[i] = b[i]
    BY <1>1, <2>1
  <2>4. Rank(a[d]) \in Nat /\ Rank(b[d]) \in Nat /\ Rank(a[d]) # Rank(b[d])
    BY <1>1, <2>2, RankOf
  <2>5. d - 1 \in 0..la /\ d - 1 \in 0..lb /\ d - 1 < la /\ d - 1 < lb /\ d - 1 + 1 = d
    BY <1>1, <2>2
  <2>6. CASE Rank(a[d]) < Rank(b[d])
    BY <2>3, <2>5, <2>6 DEF Before, la, lb
  <2>7. CASE Rank(b[d]) < Rank(a[d])
    BY <2>3, <2>5, <2>7 DEF Before, la, lb
  <2> QED
    BY <2>4, <2>6, <2>7
<1> QED
  BY <1>3, <1>4

LEMMA BeforeIsTransitive ==
  ASSUME NEW a, NEW b, NEW c, IsText(a), IsText(b), IsText(c), Before(a, b), Before(b, c)
  PROVE  Before(a, c)
<1> DEFINE la == Len(a)
           lb == Len(b)
           lc == Len(c)
<1>1. /\ la \in Nat /\ \A n \in 1..la : a[n] \in Pieces
      /\ lb \in Nat /\ \A n \in 1..lb : b[n] \in Pieces
      /\ lc \in Nat /\ \A n \in 1..lc : c[n] \in Pieces
  BY TextIs
<1>2. PICK m \in 0..la : /\ m < lb /\ \A i \in 1..m : a[i] = b[i]
                         /\ m = la \/ Rank(a[m + 1]) < Rank(b[m + 1])
  BY DEF Before
<1>3. PICK n \in 0..lb : /\ n < lc /\ \A i \in 1..n : b[i] = c[i]
                         /\ n = lb \/ Rank(b[n + 1]) < Rank(c[n + 1])
  BY DEF Before
<1>4. \A p \in Pieces : Rank(p) \in Nat
  BY RankOf
<1> HIDE DEF la, lb, lc
<1>5. CASE m < n
  <2>1. m < lc /\ \A i \in 1..m : a[i] = c[i]
    BY <1>1, <1>2, <1>3, <1>5
  <2>2. b[m + 1] = c[m + 1]
    BY <1>1, <1>2, <1>3, <1>5
  <2> QED
    BY <1>2, <2>1, <2>2 DEF Before, la, lc
<1>6. CASE n <= m
  <2>1. n \in 0..la /\ n < lb /\ n # lb /\ \A i \in 1..n : a[i] = c[i]
    BY <1>1, <1>2, <1>3, <1>6
  <2>2. Rank(b[n + 1]) < Rank(c[n + 1])
    BY <1>3, <2>1
  <2>3. n = la \/ Rank(a[n + 1]) < Rank(c[n + 1])
    <3>1. CASE n < m
      <4>1. a[n + 1] = b[n + 1]
        BY <1>1, <1>2, <1>3, <3>1
      <4> QED
        BY <4>1, <2>2
    <3>2. CASE n = m /\ m # la
      <4>1. Rank(a[n + 1]) < Rank(b[n + 1])
        BY <1>2, <3>2
      <4>2. n + 1 \in 1..la /\ n + 1 \in 1..lb /\ n + 1 \in 1..lc
        BY <1>1, <1>2, <1>3, <3>2, <2>1
      <4>3. Rank(a[n + 1]) \in Nat /\ Rank(b[n + 1]) \in Nat /\ Rank(c[n + 1]) \in Nat
        BY <1>1, <1>4, <4>2
      <4> QED
        BY <2>2, <4>1, <4>3
    <3> QED
      BY <1>2, <1>3, <1>6, <3>1, <3>2
  <2> QED
    BY <1>3, <2>1, <2>3 DEF Before, la, lc
<1> QED
  BY <1>2, <1>3, <1>5, <1>6, <1>1

\* How many of the texts are before the i-th.
TextRanks(texts) == [i \in DOMAIN texts |-> Cardinality({j \in DOMAIN texts : Before(texts[j], texts[i])})]

AllTexts(texts) == IsSequence(texts) /\ \A n \in DOMAIN texts : IsText(texts[n])

\* The numbers have the order of the texts.
LEMMA RanksOfTexts ==
  ASSUME NEW texts, AllTexts(texts)
  PROVE  /\ TextRanks(texts) \in [DOMAIN texts -> Int]
         /\ \A i, j \in DOMAIN texts :
              /\ Before(texts[i], texts[j]) <=> TextRanks(texts)[i] < TextRanks(texts)[j]
              /\ texts[i] = texts[j] <=> TextRanks(texts)[i] = TextRanks(texts)[j]
<1> DEFINE below(i) == {j \in DOMAIN texts : Before(texts[j], texts[i])}
           ranks == TextRanks(texts)
<1>1. Len(texts) \in Nat /\ DOMAIN texts = 1..Len(texts)
  BY Sequences_ DEF AllTexts
<1>2. IsFiniteSet(DOMAIN texts)
  BY <1>1, FS_Interval
<1>3. \A i \in DOMAIN texts : IsFiniteSet(below(i))
  BY <1>2, FS_Subset
<1>4. \A i \in DOMAIN texts : ranks[i] = Cardinality(below(i)) /\ ranks[i] \in Nat
  BY <1>3, FS_CardinalityType DEF TextRanks
<1>5. ranks \in [DOMAIN texts -> Int]
  <2>1. \A i \in DOMAIN texts : Cardinality(below(i)) \in Int
    BY <1>3, FS_CardinalityType
  <2> QED
    BY <2>1 DEF TextRanks
<1> HIDE DEF ranks
<1>6. ASSUME NEW i \in DOMAIN texts, NEW j \in DOMAIN texts, Before(texts[i], texts[j])
      PROVE  ranks[i] < ranks[j]
  <2>1. below(i) \subseteq below(j)
    BY <1>6, BeforeIsTransitive DEF AllTexts
  <2>2. i \in below(j) /\ i \notin below(i)
    BY <1>6, BeforeIsStrict DEF AllTexts
  <2> HIDE DEF below
  <2>3. IsFiniteSet(below(j))
    BY <1>3
  <2>4. Cardinality(below(i)) <= Cardinality(below(j))
    BY <2>1, <2>3, FS_Subset
  <2>5. Cardinality(below(i)) # Cardinality(below(j))
    BY <2>1, <2>2, <2>3, FS_Subset
  <2> QED
    BY <1>4, <2>4, <2>5
<1>7. ASSUME NEW i \in DOMAIN texts, NEW j \in DOMAIN texts, texts[i] = texts[j]
      PROVE  ranks[i] = ranks[j]
  <2>1. below(i) = below(j)
    BY <1>7
  <2> HIDE DEF below
  <2> QED
    BY <1>4, <2>1
<1>8. \A i, j \in DOMAIN texts :
        texts[i] = texts[j] \/ Before(texts[i], texts[j]) \/ Before(texts[j], texts[i])
  BY BeforeIsTotal DEF AllTexts
<1>9. ASSUME NEW i \in DOMAIN texts, NEW j \in DOMAIN texts
      PROVE  /\ Before(texts[i], texts[j]) <=> ranks[i] < ranks[j]
             /\ texts[i] = texts[j] <=> ranks[i] = ranks[j]
  <2>1. ranks[i] \in Nat /\ ranks[j] \in Nat
    BY <1>4
  <2>2. /\ texts[i] = texts[j] => ranks[i] = ranks[j]
        /\ Before(texts[i], texts[j]) => ranks[i] < ranks[j]
        /\ Before(texts[j], texts[i]) => ranks[j] < ranks[i]
    BY <1>6, <1>7
  <2> QED
    BY <1>8, <2>1, <2>2
<1> QED
  BY <1>5, <1>9 DEF ranks

LEMMA TextPlaceIs ==
  ASSUME NEW texts, AllTexts(texts), NEW i \in DOMAIN texts
  PROVE  TextPlace(texts, i) = Place(TextRanks(texts), i)
<1>1. DOMAIN TextRanks(texts) = DOMAIN texts
  BY DEF TextRanks
<1>2. \A j \in DOMAIN texts :
        (Before(texts[j], texts[i]) \/ (texts[j] = texts[i] /\ j <= i))
          <=> (TextRanks(texts)[j] < TextRanks(texts)[i] \/ (TextRanks(texts)[j] = TextRanks(texts)[i] /\ j <= i))
  BY RanksOfTexts
<1>3. {j \in DOMAIN texts : Before(texts[j], texts[i]) \/ (texts[j] = texts[i] /\ j <= i)} = NotAfter(TextRanks(texts), i)
  BY Zenon, <1>1, <1>2 DEF NotAfter
<1> QED
  BY Zenon, <1>3 DEF TextPlace, Place

\* A list in the order of its texts is the list, each element once, and no text
\* in it is before an earlier one.
LEMMA InTextOrderIs ==
  ASSUME NEW s, IsSequence(s), NEW texts, AllTexts(texts), DOMAIN texts = DOMAIN s
  PROVE  /\ IsSequence(InTextOrder(s, texts))
         /\ DOMAIN InTextOrder(s, texts) = DOMAIN s
         /\ \A k \in DOMAIN s : CameFrom(texts, k) \in DOMAIN s /\ InTextOrder(s, texts)[k] = s[CameFrom(texts, k)]
         /\ \A j, k \in DOMAIN s : CameFrom(texts, j) = CameFrom(texts, k) => j = k
         /\ \A i \in DOMAIN s : \E k \in DOMAIN s : CameFrom(texts, k) = i
         /\ \A j, k \in DOMAIN s : j < k =>
              ~Before(texts[CameFrom(texts, k)], texts[CameFrom(texts, j)])
<1> DEFINE ranks == TextRanks(texts)
           n == Len(s)
           o == InTextOrder(s, texts)
<1>1. n \in Nat /\ DOMAIN s = 1..n
  BY Sequences_
<1>2. ranks \in [1..n -> Int] /\ DOMAIN ranks = 1..n
  BY <1>1, RanksOfTexts
<1>3. \A i \in 1..n : TextPlace(texts, i) = Place(ranks, i)
  BY <1>1, TextPlaceIs
<1> HIDE DEF ranks, n
<1>4. ASSUME NEW k \in 1..n PROVE CameFrom(texts, k) = Held(ranks, k)
  <2>1. \A i \in DOMAIN texts : TextPlace(texts, i) = k <=> Place(ranks, i) = k
    BY <1>1, <1>3
  <2>2. {i \in DOMAIN texts : TextPlace(texts, i) = k} = {i \in DOMAIN ranks : Place(ranks, i) = k}
    BY <1>1, <1>2, <2>1
  <2>3. DOMAIN texts = DOMAIN ranks
    BY <1>1, <1>2
  <2> QED
    BY Zenon, <2>1, <2>3 DEF CameFrom, Held
<1>5. /\ \A k \in 1..n : Held(ranks, k) \in 1..n
      /\ \A j, k \in 1..n : Held(ranks, j) = Held(ranks, k) => j = k
      /\ \A i \in 1..n : \E k \in 1..n : Held(ranks, k) = i
  BY Zenon, <1>1, <1>2, HeldOnce
<1>6. o = [k \in DOMAIN s |-> s[CameFrom(texts, k)]]
  BY DEF InTextOrder
<1>8. ASSUME NEW j \in 1..n, NEW k \in 1..n, j < k, Before(texts[CameFrom(texts, k)], texts[CameFrom(texts, j)])
      PROVE  FALSE
  <2> DEFINE cj == Held(ranks, j)
             ck == Held(ranks, k)
  <2>1. cj \in 1..n /\ ck \in 1..n /\ cj = CameFrom(texts, j) /\ ck = CameFrom(texts, k)
    BY <1>4, <1>5
  <2>2. Place(ranks, cj) = j /\ Place(ranks, ck) = k
    BY Zenon, <1>1, <1>2, PlacesAreTaken DEF Held
  <2> HIDE DEF cj, ck
  <2>3. ranks[ck] < ranks[cj]
    BY <1>1, <1>8, <2>1, RanksOfTexts DEF ranks
  <2>4. NotAfter(ranks, ck) \subseteq NotAfter(ranks, cj) /\ NotAfter(ranks, cj) \subseteq 1..n
    BY <1>2, <2>1, <2>3 DEF NotAfter
  <2>5. IsFiniteSet(1..n)
    BY <1>1, FS_Interval
  <2>6. IsFiniteSet(NotAfter(ranks, cj))
    BY <2>4, <2>5, FS_Subset
  <2>7. Cardinality(NotAfter(ranks, ck)) <= Cardinality(NotAfter(ranks, cj))
    BY <2>4, <2>6, FS_Subset
  <2> QED
    BY <1>8, <2>2, <2>7 DEF Place
<1> HIDE DEF o
<1>9. o = [k \in DOMAIN s |-> o[k]] /\ \A k \in DOMAIN s : o[k] = s[CameFrom(texts, k)]
  BY <1>6
<1>7. IsSequence(o) /\ DOMAIN o = DOMAIN s
  BY <1>9, SameLength
<1> QED
  BY <1>1, <1>4, <1>5, <1>7, <1>8, <1>9 DEF o

-----------------------------------------------------------------------------
(* The names a walk gives.                                                 *)

LEMMA TextsJoin ==
  ASSUME NEW a, IsText(a), NEW b, IsText(b)
  PROVE  /\ IsText(a \o b) /\ Len(a \o b) = Len(a) + Len(b)
         /\ \A n \in 1..Len(a) : (a \o b)[n] = a[n]
         /\ \A n \in 1..Len(b) : (a \o b)[Len(a) + n] = b[n]
<1>1. a \in Seq(Pieces) /\ b \in Seq(Pieces)
  BY DEF IsText
<1>2. /\ a \o b \in Seq(Pieces) /\ Len(a \o b) = Len(a) + Len(b)
      /\ \A n \in 1..(Len(a) + Len(b)) : (a \o b)[n] = IF n <= Len(a) THEN a[n] ELSE b[n - Len(a)]
  BY <1>1, ConcatProperties
<1>3. Len(a) \in Nat /\ Len(b) \in Nat
  BY <1>1, LenProperties
<1>4. \A n \in 1..Len(a) : n \in 1..(Len(a) + Len(b)) /\ n <= Len(a)
  BY <1>3
<1>5. \A n \in 1..Len(b) : Len(a) + n \in 1..(Len(a) + Len(b)) /\ ~(Len(a) + n <= Len(a)) /\ Len(a) + n - Len(a) = n
  BY <1>3
<1>6. \A n \in 1..Len(a) : (a \o b)[n] = a[n]
  BY <1>2, <1>4
<1>7. \A n \in 1..Len(b) : (a \o b)[Len(a) + n] = b[n]
  BY <1>2, <1>5
<1> QED
  BY <1>2, <1>6, <1>7 DEF IsText

LEMMA OnePiece == ASSUME NEW p \in Pieces PROVE IsText(<<p>>) /\ Len(<<p>>) = 1 /\ <<p>>[1] = p
BY DEF IsText

LEMMA PathPieces ==
  /\ "/" \in Pieces /\ "|" \in Pieces /\ "table" \in Pieces /\ "layout" \in Pieces
  /\ "dictionary" \in Pieces /\ "xrecord" \in Pieces /\ "entity" \in Pieces
  /\ TableKinds \subseteq Pieces
BY AlphabetAssumption

LEMMA ChildIsText == ASSUME NEW path, NEW key, IsText(path), IsText(key) PROVE IsText(Child(path, key))
<1>1. IsText(<<"/">>)
  BY PathPieces, OnePiece
<1>2. IsText(path \o <<"/">>)
  BY <1>1, TextsJoin
<1>3. IsText((path \o <<"/">>) \o key)
  BY <1>2, TextsJoin
<1> QED
  BY <1>3 DEF Child

\* A kind, a stroke and a path can be taken apart again.
LEMMA UnderIs ==
  ASSUME NEW kind \in Pieces, NEW path, IsText(path)
  PROVE  /\ IsText(Under(kind, path)) /\ Len(Under(kind, path)) = Len(path) + 2
         /\ Under(kind, path)[1] = kind
         /\ SubSeq(Under(kind, path), 3, Len(Under(kind, path))) = path
<1> DEFINE front == <<kind, "/">>
           u == Under(kind, path)
<1>1. IsText(front) /\ Len(front) = 2 /\ front[1] = kind
  BY PathPieces DEF IsText
<1>2. u = front \o path
  BY DEF Under
<1> HIDE DEF front, u
<1>3. /\ IsText(u) /\ Len(u) = 2 + Len(path)
      /\ \A n \in 1..2 : u[n] = front[n]
      /\ \A n \in 1..Len(path) : u[2 + n] = path[n]
  <2>1. /\ IsText(u) /\ Len(u) = Len(front) + Len(path)
        /\ \A n \in 1..Len(front) : u[n] = front[n]
        /\ \A n \in 1..Len(path) : u[Len(front) + n] = path[n]
    <3>0. IsText(front)
      BY <1>1
    <3>1. /\ IsText(front \o path) /\ Len(front \o path) = Len(front) + Len(path)
          /\ \A n \in 1..Len(front) : (front \o path)[n] = front[n]
          /\ \A n \in 1..Len(path) : (front \o path)[Len(front) + n] = path[n]
      BY <3>0, TextsJoin
    <3> QED
      BY <1>2, <3>1
  <2> QED
    BY <1>1, <2>1
<1>4. Len(path) \in Nat /\ DOMAIN path = 1..Len(path)
  BY TextIs
<1>5. u[1] = kind
  BY <1>1, <1>3
<1>6. SubSeq(u, 3, Len(u)) = path
  <2>1. Len(u) = Len(path) + 2 /\ 3 \in 1..(Len(u) + 1) /\ Len(u) - 3 + 1 = Len(path) /\ u \in Seq(Pieces)
    BY <1>3, <1>4 DEF IsText
  <2>2. /\ SubSeq(u, 3, Len(u)) = [n \in 1..Len(path) |-> u[3 + n - 1]]
    BY <2>1
  <2>3. \A n \in 1..Len(path) : u[3 + n - 1] = path[n]
    <3> SUFFICES ASSUME NEW n \in 1..Len(path) PROVE u[3 + n - 1] = path[n]
      OBVIOUS
    <3>1. 3 + n - 1 = 2 + n
      OBVIOUS
    <3> QED
      BY <3>1, <1>3
  <2>4. path \in [1..Len(path) -> Pieces]
    BY LenProperties DEF IsText
  <2>5. path = [n \in 1..Len(path) |-> path[n]]
    BY <2>4
  <2> QED
    BY <2>2, <2>3, <2>5
<1> QED
  BY <1>3, <1>4, <1>5, <1>6 DEF u

LEMMA TableIs ==
  ASSUME NEW kind \in TableKinds, NEW name, IsText(name), NEW u, u = <<"table", "/", kind, "/">> \o name
  PROVE  /\ IsText(u) /\ Len(u) = Len(name) + 4 /\ u[1] = "table" /\ u[3] = kind
         /\ SubSeq(u, 5, Len(u)) = name
<1> DEFINE front == <<"table", "/", kind, "/">>
<1>1. front \in Seq(Pieces)
  BY PathPieces
<1>2. Len(front) = 4 /\ front[1] = "table" /\ front[3] = kind
  OBVIOUS
<1>3. u = front \o name /\ IsText(front)
  BY <1>1 DEF IsText
<1> HIDE DEF front
<1>4. /\ IsText(u) /\ Len(u) = Len(front) + Len(name)
      /\ \A n \in 1..Len(front) : u[n] = front[n]
      /\ \A n \in 1..Len(name) : u[Len(front) + n] = name[n]
  <2>1. IsText(front)
    BY <1>3
  <2>2. /\ IsText(front \o name) /\ Len(front \o name) = Len(front) + Len(name)
        /\ \A n \in 1..Len(front) : (front \o name)[n] = front[n]
        /\ \A n \in 1..Len(name) : (front \o name)[Len(front) + n] = name[n]
    BY <2>1, TextsJoin
  <2> QED
    BY <1>3, <2>2
<1>5. Len(name) \in Nat /\ DOMAIN name = 1..Len(name)
  BY TextIs
<1>6. u[1] = "table" /\ u[3] = kind
  BY <1>2, <1>4
<1>7. SubSeq(u, 5, Len(u)) = name
  <2>1. Len(u) = Len(name) + 4 /\ Len(u) - 5 + 1 = Len(name)
    BY <1>2, <1>4, <1>5
  <2>2. SubSeq(u, 5, Len(u)) = [n \in 1..Len(name) |-> u[5 + n - 1]]
    BY <2>1
  <2>3. \A n \in 1..Len(name) : u[5 + n - 1] = name[n]
    <3> SUFFICES ASSUME NEW n \in 1..Len(name) PROVE u[5 + n - 1] = name[n]
      OBVIOUS
    <3>1. 5 + n - 1 = 4 + n
      OBVIOUS
    <3> QED
      BY <3>1, <1>2, <1>4
  <2>4. name \in [1..Len(name) -> Pieces]
    BY LenProperties DEF IsText
  <2>5. name = [n \in 1..Len(name) |-> name[n]]
    BY <2>4
  <2> QED
    BY <2>2, <2>3, <2>5
<1> QED
  BY <1>2, <1>4, <1>5, <1>6, <1>7

IsPath(path) == path = NoPath \/ IsText(path)

LEMMA OwnerPathIs ==
  ASSUME NEW node, IsDocument(doc), IsNode(doc, node)
  PROVE  IsPath(OwnerPath(node))
<1>1. CASE node.of = "table"
  <2>1. node.kind \in TableKinds /\ IsText(node.name)
    BY <1>1 DEF IsNode
  <2>2. CASE node.kind # "vx"
    <3>1. OwnerPath(node) = <<"table", "/", node.kind, "/">> \o node.name
      BY Zenon, <1>1, <2>2 DEF OwnerPath
    <3> QED
      BY <2>1, <3>1, TableIs DEF IsPath
  <2>3. CASE node.kind = "vx"
    <3>1. OwnerPath(node) = NoPath
      BY Zenon, <1>1, <2>3 DEF OwnerPath
    <3> QED
      BY <3>1 DEF IsPath
  <2> QED
    BY <2>2, <2>3
<1>2. CASE node.of = "layout"
  <2>1. PICK h \in LayoutsOf(doc) : doc.objects[h].name = node.name
    BY Zenon, <1>2 DEF IsNode
  <2>2. IsText(node.name)
    BY <2>1 DEF IsDocument
  <2>3. OwnerPath(node) = Under("layout", node.name)
    BY Zenon, <1>2 DEF OwnerPath
  <2> QED
    BY <2>2, <2>3, PathPieces, UnderIs DEF IsPath
<1>3. CASE node.of \notin {"table", "layout"}
  <2>1. OwnerPath(node) = NoPath
    BY Zenon, <1>3 DEF OwnerPath
  <2> QED
    BY <2>1 DEF IsPath
<1> QED
  BY <1>1, <1>2, <1>3

\* An owner is by now among what was written down, and named after it.
OwnerListed(t, h) ==
  \/ \E n \in DOMAIN t.dictionaries :
       t.dictionaries[n].handle = h /\ t.owners[h] = Under("dictionary", t.dictionaries[n].path)
  \/ \E n \in DOMAIN t.xrecords :
       t.xrecords[n].handle = h /\ t.owners[h] = Under("xrecord", t.xrecords[n].path)

TreeNamed(t) ==
  /\ \A n \in DOMAIN t.dictionaries : IsText(t.dictionaries[n].path)
  /\ \A n \in DOMAIN t.xrecords : IsText(t.xrecords[n].path)
  /\ \A h \in DOMAIN t.owners : OwnerListed(t, h)

NamesInv ==
  /\ doc \in Docs
  /\ \A n \in DOMAIN owned : IsPath(owned[n].path)
  /\ TreeNamed(tree)

LEMMA NamedAfter ==
  ASSUME IsTree, TreeNamed(tree), NEW path, IsText(path), NEW h, NEW t, NEW kind,
         t.owners = Owns(tree.owners, h, Under(kind, path)),
         \/ /\ kind = "dictionary" /\ t.dictionaries = Append(tree.dictionaries, Item(h, path))
            /\ t.xrecords = tree.xrecords
         \/ /\ kind = "xrecord" /\ t.xrecords = Append(tree.xrecords, Item(h, path))
            /\ t.dictionaries = tree.dictionaries
  PROVE  TreeNamed(t)
<1> DEFINE item == Item(h, path)
<1>1. item.handle = h /\ item.path = path
  BY DEF Item
<1> HIDE DEF item
<1>2. IsSequence(tree.dictionaries) /\ IsSequence(tree.xrecords)
  BY DEF IsTree
<1>3. /\ DOMAIN t.owners = DOMAIN tree.owners \cup {h} /\ t.owners[h] = Under(kind, path)
      /\ \A g \in DOMAIN tree.owners : g # h => t.owners[g] = tree.owners[g]
  BY DEF Owns
<1>4. ASSUME NEW s, IsSequence(s), NEW u, u = Append(s, item)
      PROVE  /\ \A n \in DOMAIN s : n \in DOMAIN u /\ u[n] = s[n]
             /\ \E n \in DOMAIN u : u[n] = item
             /\ \A n \in DOMAIN u : u[n] = item \/ (n \in DOMAIN s /\ u[n] = s[n])
  <2>0. IsSequence(s)
    BY <1>4
  <2>1. /\ Len(s) \in Nat /\ DOMAIN s = 1..Len(s) /\ DOMAIN Append(s, item) = 1..(Len(s) + 1)
        /\ \A n \in DOMAIN s : Append(s, item)[n] = s[n]
        /\ Append(s, item)[Len(s) + 1] = item
    BY <2>0, Appended, Sequences_
  <2>2. /\ DOMAIN u = 1..(Len(s) + 1) /\ u[Len(s) + 1] = item /\ \A n \in DOMAIN s : u[n] = s[n]
    BY <1>4, <2>1
  <2> QED
    BY <2>1, <2>2
<1>5. CASE kind = "dictionary" /\ t.dictionaries = Append(tree.dictionaries, item) /\ t.xrecords = tree.xrecords
  <2>1. /\ \A n \in DOMAIN tree.dictionaries : n \in DOMAIN t.dictionaries /\ t.dictionaries[n] = tree.dictionaries[n]
        /\ \E n \in DOMAIN t.dictionaries : t.dictionaries[n] = item
        /\ \A n \in DOMAIN t.dictionaries :
             t.dictionaries[n] = item \/ (n \in DOMAIN tree.dictionaries /\ t.dictionaries[n] = tree.dictionaries[n])
    BY <1>2, <1>4, <1>5
  <2> QED
    BY <1>1, <1>3, <1>5, <2>1 DEF TreeNamed, OwnerListed
<1>6. CASE kind = "xrecord" /\ t.xrecords = Append(tree.xrecords, item) /\ t.dictionaries = tree.dictionaries
  <2>1. /\ \A n \in DOMAIN tree.xrecords : n \in DOMAIN t.xrecords /\ t.xrecords[n] = tree.xrecords[n]
        /\ \E n \in DOMAIN t.xrecords : t.xrecords[n] = item
        /\ \A n \in DOMAIN t.xrecords :
             t.xrecords[n] = item \/ (n \in DOMAIN tree.xrecords /\ t.xrecords[n] = tree.xrecords[n])
    BY <1>2, <1>4, <1>6
  <2> QED
    BY <1>1, <1>3, <1>6, <2>1 DEF TreeNamed, OwnerListed
<1> QED
  BY <1>5, <1>6 DEF item

LEMMA NamesStart == WalkInit => NamesInv
<1> SUFFICES ASSUME WalkInit PROVE NamesInv
  OBVIOUS
<1>1. doc \in Docs /\ IsDocument(doc)
  BY DocsAssumption DEF WalkInit
<1>2. owned = <<Root>> \o ExtensionDictionaries /\ tree = NoTree
  BY DEF WalkInit, Begun
<1>3. IsSequence(doc.extensions)
  BY <1>1 DEF IsDocument, Lists
<1>4. /\ IsSequence(ExtensionDictionaries) /\ DOMAIN ExtensionDictionaries = DOMAIN doc.extensions
      /\ \A n \in DOMAIN doc.extensions : ExtensionDictionaries[n].path = OwnerPath(doc.extensions[n].node)
  <2>1. /\ ExtensionDictionaries = [n \in DOMAIN doc.extensions |-> ExtensionDictionaries[n]]
        /\ \A n \in DOMAIN doc.extensions : ExtensionDictionaries[n].path = OwnerPath(doc.extensions[n].node)
    BY DEF ExtensionDictionaries
  <2> QED
    BY <1>3, <2>1, SameLength
<1>5. \A n \in DOMAIN doc.extensions : IsPath(OwnerPath(doc.extensions[n].node))
  BY <1>1, OwnerPathIs DEF IsDocument
<1>6. IsPath(Root.path)
  <2>1. IsText(<<>>)
    BY DEF IsText
  <2> QED
    BY <2>1 DEF Root, IsPath
<1> DEFINE one == <<Root>>
<1>7. IsSequence(one) /\ \A n \in DOMAIN one : one[n] = Root
  <2>1. one \in Seq({Root})
    OBVIOUS
  <2>2. \A n \in DOMAIN one : one[n] = Root
    OBVIOUS
  <2> HIDE DEF one
  <2> QED
    BY <2>1, <2>2, SequenceOf
<1> HIDE DEF one
<1>8. \A n \in DOMAIN (one \o ExtensionDictionaries) :
        \/ n \in DOMAIN one /\ (one \o ExtensionDictionaries)[n] = one[n]
        \/ /\ n - Len(one) \in DOMAIN ExtensionDictionaries
           /\ (one \o ExtensionDictionaries)[n] = ExtensionDictionaries[n - Len(one)]
  BY <1>4, <1>7, Joined
<1>9. owned = one \o ExtensionDictionaries
  BY <1>2 DEF one
<1>10. ASSUME NEW n \in DOMAIN owned PROVE IsPath(owned[n].path)
  <2>1. CASE n \in DOMAIN one /\ owned[n] = one[n]
    BY <1>6, <1>7, <2>1
  <2>2. CASE n - Len(one) \in DOMAIN ExtensionDictionaries /\ owned[n] = ExtensionDictionaries[n - Len(one)]
    BY <1>4, <1>5, <2>2
  <2> QED
    BY <1>8, <1>9, <2>1, <2>2
<1>11. TreeNamed(tree)
  BY <1>2, EmptySequence DEF TreeNamed, NoTree
<1> QED
  BY <1>1, <1>10, <1>11 DEF NamesInv

\* Where the walk goes next it knows what to call it.
LEMMA NextIsNamed ==
  ASSUME WalkInv, NamesInv, calls # <<>>, NEW n \in InTurn
  PROVE  IsText(PathOf(n))
<1>1. Len(calls) \in DOMAIN calls /\ n \in Innermost.rest /\ Innermost = calls[Len(calls)]
  BY WithoutLast DEF WalkInv, InTurn, Innermost
<1>2. FrameOpen(Innermost)
  BY <1>1 DEF WalkInv, FramesOpen
<1>3. PICK d \in DOMAIN tree.dictionaries : tree.dictionaries[d] = Item(Innermost.handle, Innermost.path)
  BY <1>2 DEF FrameOpen
<1>4. IsText(Innermost.path)
  <2>1. tree.dictionaries[d].path = Innermost.path
    BY <1>3 DEF Item
  <2> QED
    BY <2>1 DEF NamesInv, TreeNamed
<1>5. IsDictionary(Innermost.handle) /\ n \in DOMAIN Entries(Innermost.handle)
  BY <1>1, <1>2 DEF FrameOpen, WalkInv, MetIsSeen
<1>6. IsDocument(doc)
  BY DocsAssumption DEF NamesInv
<1>7. IsText(Entries(Innermost.handle)[n].key)
  BY <1>5, <1>6 DEF IsDocument, IsDictionary, Entries
<1> QED
  BY <1>4, <1>7, ChildIsText DEF PathOf

LEMMA NamesStep == WalkInv /\ NamesInv /\ [WalkNext]_<<doc, walkVars>> => NamesInv'
<1> SUFFICES ASSUME WalkInv, NamesInv, [WalkNext]_<<doc, walkVars>> PROVE NamesInv'
  OBVIOUS
<1>0. IsTree /\ tree = [dictionaries |-> tree.dictionaries, xrecords |-> tree.xrecords, owners |-> tree.owners]
  BY DEF WalkInv, IsTree
<1>1. ASSUME NEW h, NEW path, IsText(path), NEW stack, WriteDown(h, path, stack)
      PROVE  TreeNamed(tree')
  <2>1. tree' = [tree EXCEPT !.owners = Owns(@, h, Under("dictionary", path)),
                             !.dictionaries = Append(@, Item(h, path))]
    BY <1>1 DEF WriteDown, Item
  <2>2. /\ tree'.owners = Owns(tree.owners, h, Under("dictionary", path))
        /\ tree'.dictionaries = Append(tree.dictionaries, Item(h, path))
        /\ tree'.xrecords = tree.xrecords
    BY Zenon, <1>0, <2>1
  <2> QED
    BY <1>0, <1>1, <2>2, NamedAfter DEF NamesInv
<1>2. CASE StartWalk
  <2>1. calls = <<>> /\ owned # <<>> /\ owned' = Tail(owned) /\ doc' = doc
    BY <1>2 DEF StartWalk
  <2>2. /\ 1 \in DOMAIN owned /\ Head(owned) = owned[1]
        /\ \A n \in DOMAIN Tail(owned) : n + 1 \in DOMAIN owned /\ Tail(owned)[n] = owned[n + 1]
    BY <2>1, WithoutFirst DEF WalkInv
  <2>3. \A n \in DOMAIN owned' : IsPath(owned'[n].path)
    BY <2>1, <2>2 DEF NamesInv
  <2>4. TreeNamed(tree')
    <3>1. CASE Head(owned).path # NoPath /\ Meets(Head(owned).handle)
      <4>1. IsText(Head(owned).path)
        BY <2>2, <3>1 DEF NamesInv, IsPath
      <4>2. WriteDown(Head(owned).handle, Head(owned).path, <<>>)
        BY <1>2, <3>1 DEF StartWalk
      <4> QED
        BY <4>1, <4>2, <1>1
    <3>2. CASE ~(Head(owned).path # NoPath /\ Meets(Head(owned).handle))
      <4>1. tree' = tree
        BY <1>2, <3>2 DEF StartWalk
      <4> QED
        BY <4>1 DEF NamesInv
    <3> QED
      BY <3>1, <3>2
  <2> QED
    BY <2>1, <2>3, <2>4 DEF NamesInv
<1>3. CASE ListXRecord
  <2>1. PICK n \in InTurn :
          tree' = [tree EXCEPT !.owners = Owns(@, Target(n), Under("xrecord", PathOf(n))),
                               !.xrecords = Append(@, [handle |-> Target(n), path |-> PathOf(n)])]
    BY Zenon, <1>3 DEF ListXRecord
  <2>2. calls # <<>> /\ doc' = doc /\ owned' = owned
    BY <1>3 DEF ListXRecord
  <2>3. /\ tree'.owners = Owns(tree.owners, Target(n), Under("xrecord", PathOf(n)))
        /\ tree'.xrecords = Append(tree.xrecords, Item(Target(n), PathOf(n)))
        /\ tree'.dictionaries = tree.dictionaries
    BY Zenon, <1>0, <2>1 DEF Item
  <2>4. IsText(PathOf(n))
    BY <2>2, NextIsNamed
  <2>5. TreeNamed(tree')
    BY <1>0, <2>3, <2>4, NamedAfter DEF NamesInv
  <2> QED
    BY <2>2, <2>5 DEF NamesInv
<1>4. CASE EnterDictionary
  <2>1. PICK n \in InTurn : WriteDown(Target(n), PathOf(n), Past(n))
    BY <1>4 DEF EnterDictionary
  <2>2. calls # <<>> /\ doc' = doc /\ owned' = owned
    BY <1>4 DEF EnterDictionary
  <2>3. TreeNamed(tree')
    BY <1>1, <2>1, <2>2, NextIsNamed
  <2> QED
    BY <2>2, <2>3 DEF NamesInv
<1>5. CASE PassOver \/ Return \/ UNCHANGED <<doc, walkVars>>
  <2>1. doc' = doc /\ owned' = owned /\ tree' = tree
    BY <1>5 DEF PassOver, Return, walkVars
  <2> QED
    BY <2>1 DEF NamesInv
<1> QED
  BY <1>2, <1>3, <1>4, <1>5 DEF WalkNext

-----------------------------------------------------------------------------
(* Sets as lists, and lists of lists. *)

LEMMA TextPlaceNumber ==
  \A texts, i :
    TextPlace(texts, i) = Number({j \in DOMAIN texts : Before(texts[j], texts[i]) \/ (texts[j] = texts[i] /\ j <= i)})
<1>1. \A S : Cardinality(S) = Number(S)
  BY Zenon DEF Cardinality, Number
<1> QED
  BY Zenon, <1>1 DEF TextPlace

\* The elements of a finite set in some order, none twice, are all of it.
Listing(S) == CHOOSE f \in [1..Number(S) -> S] : \A x, y \in DOMAIN f : f[x] = f[y] => x = y

LEMMA ListingIs ==
  ASSUME NEW S, IsFiniteSet(S)
  PROVE  /\ IsSequence(Listing(S))
         /\ \A n \in DOMAIN Listing(S) : Listing(S)[n] \in S
         /\ \A x \in S : \E n \in DOMAIN Listing(S) : Listing(S)[n] = x
<1> DEFINE m == Number(S)
           Once(f) == \A x, y \in DOMAIN f : f[x] = f[y] => x = y
           list == CHOOSE f \in [1..m -> S] : Once(f)
<1>1. m = Cardinality(S)
  BY Zenon DEF Cardinality, Number
<1>2. m \in Nat
  BY <1>1, FS_CardinalityType
<1>3. IsFiniteSet(1..m) /\ Cardinality(1..m) = m
  BY <1>2, FS_Interval
<1> HIDE DEF m
<1>4. \E f \in [1..m -> S] : Once(f)
  <2>1. ExistsBijection(1..m, S)
    BY <1>1, FS_CardinalityType
  <2>2. PICK f : f \in Bijection(1..m, S)
    BY Zenon, <2>1 DEF ExistsBijection
  <2>3. f \in [1..m -> S] /\ Once(f)
    BY Zenon, <2>2 DEF Bijection, Injection, IsInjective
  <2> QED
    BY <2>3
<1>5. list \in [1..m -> S] /\ Once(list)
  <2> HIDE DEF Once
  <2> QED
    BY Zenon, <1>4
<1>6. Listing(S) = list
  BY Zenon DEF Listing, m
<1> HIDE DEF list
<1>7. list \in Injection(1..m, S)
  BY Zenon, <1>5 DEF Injection, IsInjective
<1>8. list \in Surjection(1..m, S)
  BY <1>1, <1>3, <1>7, FS_Injection
<1>9. \A x \in S : \E n \in 1..m : list[n] = x
  BY Zenon, <1>8 DEF Surjection
<1>10. list = [n \in 1..m |-> list[n]] /\ DOMAIN list = 1..m /\ \A n \in 1..m : list[n] \in S
  BY <1>5
<1>11. IsSequence(list)
  BY <1>2, <1>10, TableIsSequence
<1> QED
  BY <1>6, <1>9, <1>10, <1>11

LEMMA LayoutsListed ==
  ASSUME IsDocument(doc)
  PROVE  /\ IsSequence(Listing(LayoutsOf(doc)))
         /\ \A n \in DOMAIN Listing(LayoutsOf(doc)) : Listing(LayoutsOf(doc))[n] \in LayoutsOf(doc)
         /\ \A x \in LayoutsOf(doc) : \E n \in DOMAIN Listing(LayoutsOf(doc)) : Listing(LayoutsOf(doc))[n] = x
<1> DEFINE S == LayoutsOf(doc)
<1>1. S \subseteq DOMAIN doc.objects
  BY DEF LayoutsOf
<1>2. IsFiniteSet(S)
  BY <1>1, FS_Subset DEF IsDocument
<1> HIDE DEF S
<1>3. /\ IsSequence(Listing(S)) /\ \A n \in DOMAIN Listing(S) : Listing(S)[n] \in S
      /\ \A x \in S : \E n \in DOMAIN Listing(S) : Listing(S)[n] = x
  BY <1>2, ListingIs
<1> QED
  BY <1>3 DEF S

-----------------------------------------------------------------------------
(* What keeps the paths apart. *)

Bar == "|"

NoBar(text) == \A n \in DOMAIN text : text[n] # Bar

NoStroke(text) == \A n \in DOMAIN text : text[n] # "/"

LEMMA PlainIs == \A text : PlainName(text) <=> text # <<>> /\ NoStroke(text) /\ NoBar(text)
BY Zenon DEF PlainName, NoStroke, NoBar, Bar

LEMMA PlainPieces ==
  /\ Bar # "/" /\ Bar \in Pieces
  /\ \A kind \in TableKinds \cup {"table", "layout", "entity", "dictionary", "xrecord"} : kind # Bar /\ kind # "/"
<1>1. Bar # "/"
  BY Zenon DEF Bar
<1>2. Bar \in Pieces
  BY Zenon, PathPieces DEF Bar
<1>3. \A kind \in TableKinds : kind # Bar /\ kind # "/"
  BY Zenon DEF Bar, TableKinds
<1>4. \A kind \in {"table", "layout", "entity", "dictionary", "xrecord"} : kind # Bar /\ kind # "/"
  BY Zenon DEF Bar
<1> QED
  BY <1>1, <1>2, <1>3, <1>4

LEMMA EqualTexts ==
  ASSUME NEW a, IsText(a), NEW b, IsText(b), Len(a) = Len(b), \A n \in 1..Len(a) : a[n] = b[n]
  PROVE  a = b
<1>1. a \in [1..Len(a) -> Pieces] /\ b \in [1..Len(b) -> Pieces]
  BY LenProperties DEF IsText
<1> QED
  BY <1>1

LEMMA OnePlain == ASSUME NEW p \in Pieces, p # "/", p # Bar PROVE IsText(<<p>>) /\ PlainName(<<p>>)
<1> DEFINE s == <<p>>
<1>1. IsText(s) /\ Len(s) = 1 /\ s[1] = p
  BY OnePiece
<1> HIDE DEF s
<1>2. DOMAIN s = {1} /\ s # <<>>
  BY <1>1, TextIs
<1>3. NoStroke(s) /\ NoBar(s)
  BY <1>1, <1>2 DEF NoStroke, NoBar
<1> QED
  BY <1>1, <1>2, <1>3, PlainIs DEF s

\* A path and a key: the key itself, or the path, a stroke and the key.
IsChild(c, path, key) ==
  /\ IsText(c) /\ Len(c) = Len(path) + 1 + Len(key)
  /\ \A n \in 1..Len(path) : c[n] = path[n]
  /\ c[Len(path) + 1] = "/"
  /\ \A n \in 1..Len(key) : c[Len(path) + 1 + n] = key[n]

LEMMA ChildIs ==
  ASSUME NEW path, IsText(path), NEW key, IsText(key), path # <<>>
  PROVE  IsChild(Child(path, key), path, key)
<1> DEFINE stroke == <<"/">>
           front == path \o stroke
           whole == front \o key
<1>1. Child(path, key) = whole
  BY DEF Child
<1>2. IsText(stroke) /\ Len(stroke) = 1 /\ stroke[1] = "/"
  BY PathPieces, OnePiece
<1> HIDE DEF stroke
<1>3. /\ IsText(front) /\ Len(front) = Len(path) + 1
      /\ \A n \in 1..Len(path) : front[n] = path[n]
      /\ front[Len(path) + 1] = "/"
  <2>1. IsText(stroke)
    BY <1>2
  <2>2. /\ IsText(path \o stroke) /\ Len(path \o stroke) = Len(path) + Len(stroke)
        /\ \A n \in 1..Len(path) : (path \o stroke)[n] = path[n]
        /\ \A n \in 1..Len(stroke) : (path \o stroke)[Len(path) + n] = stroke[n]
    BY <2>1, TextsJoin
  <2>3. 1 \in 1..Len(stroke)
    BY <1>2
  <2>4. (path \o stroke)[Len(path) + 1] = "/"
    BY <1>2, <2>2, <2>3
  <2> QED
    BY <1>2, <2>2, <2>4
<1> HIDE DEF front
<1>4. /\ IsText(whole) /\ Len(whole) = Len(front) + Len(key)
      /\ \A n \in 1..Len(front) : whole[n] = front[n]
      /\ \A n \in 1..Len(key) : whole[Len(front) + n] = key[n]
  <2>1. IsText(front)
    BY <1>3
  <2> QED
    BY <2>1, TextsJoin
<1> HIDE DEF whole
<1>5. Len(path) \in Nat /\ Len(key) \in Nat
  BY TextIs
<1>6. \A n \in 1..Len(path) : n \in 1..Len(front)
  BY <1>3, <1>5
<1>7. Len(path) + 1 \in 1..Len(front)
  BY <1>3, <1>5
<1> QED
  BY <1>1, <1>3, <1>4, <1>6, <1>7 DEF IsChild

\* The last stroke is the one before the key.
LEMMA ChildApart ==
  ASSUME NEW p, IsText(p), NEW q, IsText(q), NEW k, IsText(k), PlainName(k), NEW l, IsText(l), PlainName(l),
         Child(p, k) = Child(q, l)
  PROVE  p = q /\ k = l
<1>0. /\ Len(p) \in Nat /\ Len(q) \in Nat /\ Len(k) \in Nat /\ Len(l) \in Nat
      /\ DOMAIN k = 1..Len(k) /\ DOMAIN l = 1..Len(l)
  BY TextIs
<1>1. NoStroke(k) /\ NoStroke(l)
  BY PlainIs
<1>2. ASSUME NEW a, IsText(a), NEW b, IsText(b), b # <<>>, Child(<<>>, a) = Child(b, l) PROVE ~NoStroke(a)
  <2>1. Child(<<>>, a) = a
    BY DEF Child
  <2>2. IsText(b)
    BY <1>2
  <2>3. IsChild(a, b, l)
    BY <1>2, <2>1, ChildIs
  <2>4. Len(b) + 1 \in DOMAIN a /\ a[Len(b) + 1] = "/"
    BY <1>0, <2>2, <2>3, TextIs DEF IsChild
  <2> QED
    BY <2>4 DEF NoStroke
<1>3. ASSUME NEW a, IsText(a), NEW b, IsText(b), b # <<>>, Child(<<>>, a) = Child(b, k) PROVE ~NoStroke(a)
  <2>1. Child(<<>>, a) = a
    BY DEF Child
  <2>2. IsText(b)
    BY <1>3
  <2>3. IsChild(a, b, k)
    BY <1>3, <2>1, ChildIs
  <2>4. Len(b) + 1 \in DOMAIN a /\ a[Len(b) + 1] = "/"
    BY <1>0, <2>2, <2>3, TextIs DEF IsChild
  <2> QED
    BY <2>4 DEF NoStroke
<1>4. CASE p = <<>>
  <2>1. q = <<>>
    BY <1>1, <1>2, <1>4
  <2> QED
    BY <1>4, <2>1 DEF Child
<1>5. CASE q = <<>>
  <2>1. p = <<>>
    BY <1>1, <1>3, <1>5
  <2> QED
    BY <1>5, <2>1 DEF Child
<1>6. CASE p # <<>> /\ q # <<>>
  <2> DEFINE c == Child(p, k)
  <2>0. p # <<>> /\ q # <<>> /\ c = Child(q, l)
    BY <1>6
  <2>1a. IsChild(c, p, k)
    BY <2>0, ChildIs
  <2>2a. IsChild(Child(q, l), q, l)
    BY <2>0, ChildIs
  <2> HIDE DEF c
  <2>1. /\ Len(c) = Len(p) + 1 + Len(k)
        /\ \A n \in 1..Len(p) : c[n] = p[n]
        /\ c[Len(p) + 1] = "/"
        /\ \A n \in 1..Len(k) : c[Len(p) + 1 + n] = k[n]
    BY <2>1a DEF IsChild
  <2>2. /\ Len(c) = Len(q) + 1 + Len(l)
        /\ \A n \in 1..Len(q) : c[n] = q[n]
        /\ c[Len(q) + 1] = "/"
        /\ \A n \in 1..Len(l) : c[Len(q) + 1 + n] = l[n]
    BY <2>0, <2>2a DEF IsChild
  <2>3. ~(Len(p) < Len(q))
    <3> SUFFICES ASSUME Len(p) < Len(q) PROVE FALSE
      OBVIOUS
    <3>1. PICK n \in 1..Len(k) : Len(p) + 1 + n = Len(q) + 1
      <4>1. Len(q) - Len(p) \in 1..Len(k) /\ Len(p) + 1 + (Len(q) - Len(p)) = Len(q) + 1
        BY <1>0, <2>1, <2>2
      <4> QED
        BY <4>1
    <3>2. c[Len(p) + 1 + n] = k[n] /\ c[Len(q) + 1] = "/" /\ n \in DOMAIN k
      BY <1>0, <2>1, <2>2
    <3>3. k[n] = "/"
      BY <3>1, <3>2
    <3> QED
      BY <1>1, <3>2, <3>3 DEF NoStroke
  <2>4. ~(Len(q) < Len(p))
    <3> SUFFICES ASSUME Len(q) < Len(p) PROVE FALSE
      OBVIOUS
    <3>1. PICK n \in 1..Len(l) : Len(q) + 1 + n = Len(p) + 1
      <4>1. Len(p) - Len(q) \in 1..Len(l) /\ Len(q) + 1 + (Len(p) - Len(q)) = Len(p) + 1
        BY <1>0, <2>1, <2>2
      <4> QED
        BY <4>1
    <3>2. c[Len(q) + 1 + n] = l[n] /\ c[Len(p) + 1] = "/" /\ n \in DOMAIN l
      BY <1>0, <2>1, <2>2
    <3>3. l[n] = "/"
      BY <3>1, <3>2
    <3> QED
      BY <1>1, <3>2, <3>3 DEF NoStroke
  <2>5. Len(p) = Len(q) /\ Len(k) = Len(l)
    <3>1. Len(p) = Len(q)
      BY <1>0, <2>3, <2>4
    <3>2. Len(p) + 1 + Len(k) = Len(p) + 1 + Len(l)
      BY <2>1, <2>2, <3>1
    <3>3. \A a, b, d \in Nat : a + 1 + b = a + 1 + d => b = d
      OBVIOUS
    <3> QED
      BY Zenon, <1>0, <3>1, <3>2, <3>3
  <2>6. p = q
    BY <2>1, <2>2, <2>5, EqualTexts
  <2>7. \A n \in 1..Len(k) : k[n] = l[n]
    BY <2>1, <2>2, <2>5
  <2>8. k = l
    BY <2>5, <2>7, EqualTexts
  <2> QED
    BY <2>6, <2>8
<1> QED
  BY <1>4, <1>5, <1>6

LEMMA ChildOfNone == ASSUME NEW key PROVE Child(<<>>, key) = key
BY DEF Child

\* What the paths of owners start with, which no dictionary is named.
Reserved(path) == path \in {<<"layout">>, <<"table">>} \/ \E kind \in TableKinds : path = <<"table", "/", kind>>

LayoutPath(path, name) == IsText(name) /\ PlainName(name) /\ path = Under("layout", name)

TablePath(path, kind, name) ==
  IsText(name) /\ PlainName(name) /\ kind \in TableKinds /\ path = <<"table", "/", kind, "/">> \o name

OwnersPath(path) == \E name : LayoutPath(path, name) \/ \E kind : TablePath(path, kind, name)

LEMMA PutAfter ==
  ASSUME NEW s, IsText(s), NEW p \in Pieces, NEW t, IsText(t), Len(t) = Len(s) + 1,
         \A n \in 1..Len(s) : t[n] = s[n], t[Len(s) + 1] = p
  PROVE  s \o <<p>> = t
<1> DEFINE one == <<p>>
           j == s \o one
<1>1. IsText(one) /\ Len(one) = 1 /\ one[1] = p
  BY OnePiece
<1> HIDE DEF one
<1>2. IsText(one)
  BY <1>1
<1>3. /\ IsText(j) /\ Len(j) = Len(s) + Len(one)
      /\ \A n \in 1..Len(s) : j[n] = s[n]
      /\ \A n \in 1..Len(one) : j[Len(s) + n] = one[n]
  BY <1>2, TextsJoin
<1>4. 1 \in 1..Len(one)
  BY <1>1
<1>5. j[Len(s) + 1] = p
  BY <1>1, <1>3, <1>4
<1> HIDE DEF j
<1>6. Len(j) = Len(t) /\ Len(s) \in Nat
  BY <1>1, <1>3, TextIs
<1>7. ASSUME NEW n \in 1..Len(j) PROVE j[n] = t[n]
  <2>1. n \in 1..Len(s) \/ n = Len(s) + 1
    BY <1>6
  <2> QED
    BY <1>3, <1>5, <2>1
<1>8. j = t
  BY <1>3, <1>6, <1>7, EqualTexts
<1> QED
  BY <1>8 DEF j, one

LEMMA ReservedIs ==
  /\ IsText(<<"layout">>) /\ PlainName(<<"layout">>) /\ <<"layout">> # <<>>
  /\ IsText(<<"table">>) /\ PlainName(<<"table">>) /\ <<"table">> # <<>>
  /\ \A kind \in TableKinds :
       /\ IsText(<<kind>>) /\ PlainName(<<kind>>) /\ IsText(<<"table", "/", kind>>)
       /\ <<"table", "/", kind>> # <<>> /\ <<"table", "/", kind>> = Child(<<"table">>, <<kind>>)
<1>1. IsText(<<"layout">>) /\ PlainName(<<"layout">>)
  BY PathPieces, PlainPieces, OnePlain
<1>2. IsText(<<"table">>) /\ PlainName(<<"table">>)
  BY PathPieces, PlainPieces, OnePlain
<1>3. ASSUME NEW kind \in TableKinds
      PROVE  IsText(<<kind>>) /\ PlainName(<<kind>>)
  <2>1. kind \in Pieces /\ kind # "/" /\ kind # Bar
    BY PathPieces, PlainPieces
  <2> QED
    BY <2>1, OnePlain
<1>4. ASSUME NEW kind \in TableKinds
      PROVE  IsText(<<"table", "/", kind>>) /\ <<"table", "/", kind>> # <<>>
             /\ <<"table", "/", kind>> = Child(<<"table">>, <<kind>>)
  <2>1. kind \in Pieces
    BY PathPieces
  <2>2. IsText(<<"table", "/", kind>>) /\ <<"table", "/", kind>> # <<>>
    BY <2>1, PathPieces DEF IsText
  <2>3. Child(<<"table">>, <<kind>>) = <<"table">> \o <<"/">> \o <<kind>>
    BY DEF Child
  <2> DEFINE first == <<"table">>
             second == <<"table", "/">>
             third == <<"table", "/", kind>>
  <2>5. /\ IsText(first) /\ Len(first) = 1 /\ first[1] = "table"
        /\ IsText(second) /\ Len(second) = 2 /\ second[1] = "table" /\ second[2] = "/"
        /\ IsText(third) /\ Len(third) = 3 /\ third[1] = "table" /\ third[2] = "/" /\ third[3] = kind
    BY <2>1, PathPieces DEF IsText
  <2> HIDE DEF first, second, third
  <2>6. first \o <<"/">> = second
    <3>1. \A n \in 1..Len(first) : second[n] = first[n]
      BY <2>5
    <3>2. Len(second) = Len(first) + 1 /\ second[Len(first) + 1] = "/" /\ "/" \in Pieces
      BY <2>5, PathPieces
    <3> QED
      BY <2>5, <3>1, <3>2, PutAfter
  <2>7. second \o <<kind>> = third
    <3>1. \A n \in 1..Len(second) : third[n] = second[n]
      BY <2>5
    <3>2. Len(third) = Len(second) + 1 /\ third[Len(second) + 1] = kind
      BY <2>5
    <3> QED
      BY <2>1, <2>5, <3>1, <3>2, PutAfter
  <2>4. <<"table">> \o <<"/">> \o <<kind>> = <<"table", "/", kind>>
    BY Zenon, <2>6, <2>7 DEF first, second, third
  <2> QED
    BY <2>2, <2>3, <2>4
<1> QED
  BY <1>1, <1>2, <1>3, <1>4

\* A path that goes on from a reserved one is an owner's, and no other is.
LEMMA OwnersPathIs ==
  ASSUME NEW path, OwnersPath(path)
  PROVE  /\ IsText(path) /\ path # <<>>
         /\ \E front, name : /\ IsText(front) /\ Reserved(front) /\ front \notin {<<>>, <<"table">>}
                             /\ IsText(name) /\ PlainName(name) /\ path = Child(front, name)
<1>1. PICK name : LayoutPath(path, name) \/ \E kind : TablePath(path, kind, name)
  BY DEF OwnersPath
<1>2. CASE LayoutPath(path, name)
  <2>1. Child(<<"layout">>, name) = <<"layout">> \o <<"/">> \o name
    BY DEF Child
  <2>2. Under("layout", name) = <<"layout", "/">> \o name
    BY DEF Under
  <2>3. <<"layout">> \o <<"/">> = <<"layout", "/">>
    <3> DEFINE first == <<"layout">>
               second == <<"layout", "/">>
    <3>1. /\ IsText(first) /\ Len(first) = 1 /\ first[1] = "layout"
          /\ IsText(second) /\ Len(second) = 2 /\ second[1] = "layout" /\ second[2] = "/"
      BY PathPieces DEF IsText
    <3> HIDE DEF first, second
    <3>2. \A n \in 1..Len(first) : second[n] = first[n]
      BY <3>1
    <3>3. Len(second) = Len(first) + 1 /\ second[Len(first) + 1] = "/" /\ "/" \in Pieces
      BY <3>1, PathPieces
    <3>4. first \o <<"/">> = second
      BY <3>1, <3>2, <3>3, PutAfter
    <3> QED
      BY Zenon, <3>4 DEF first, second
  <2>4. path = Child(<<"layout">>, name)
    BY Zenon, <1>2, <2>1, <2>2, <2>3 DEF LayoutPath
  <2>5. IsText(path) /\ Len(path) = Len(name) + 2
    BY <1>2, PathPieces, UnderIs DEF LayoutPath
  <2>6. path # <<>>
    BY <1>2, <2>5, TextIs DEF LayoutPath
  <2>7. <<"layout">> # <<"table">>
    BY PathPieces, OnePiece
  <2> QED
    BY <1>2, <2>4, <2>5, <2>6, <2>7, ReservedIs DEF LayoutPath, Reserved
<1>3. CASE \E kind : TablePath(path, kind, name)
  <2>0. PICK kind : TablePath(path, kind, name)
    BY <1>3
  <2> DEFINE front == <<"table", "/", kind>>
  <2>1. IsText(front) /\ front # <<>> /\ Reserved(front)
    BY <2>0, ReservedIs DEF TablePath, Reserved
  <2>2. front \o <<"/">> = <<"table", "/", kind, "/">>
    <3> DEFINE fourth == <<"table", "/", kind, "/">>
    <3>1. kind \in Pieces
      BY <2>0, PathPieces DEF TablePath
    <3>2. /\ IsText(front) /\ Len(front) = 3 /\ front[1] = "table" /\ front[2] = "/" /\ front[3] = kind
          /\ IsText(fourth) /\ Len(fourth) = 4 /\ fourth[1] = "table" /\ fourth[2] = "/" /\ fourth[3] = kind
          /\ fourth[4] = "/"
      BY <3>1, PathPieces DEF IsText
    <3> HIDE DEF front, fourth
    <3>3. \A n \in 1..Len(front) : fourth[n] = front[n]
      BY <3>2
    <3>4. Len(fourth) = Len(front) + 1 /\ fourth[Len(front) + 1] = "/"
      BY <3>2
    <3>5. front \o <<"/">> = fourth
      BY <3>2, <3>3, <3>4, PathPieces, PutAfter
    <3> QED
      BY Zenon, <3>5 DEF front, fourth
  <2>3. path = front \o <<"/">> \o name
    BY Zenon, <2>0, <2>2 DEF TablePath
  <2>7. front # <<"table">>
    OBVIOUS
  <2> HIDE DEF front
  <2>4. path = Child(front, name)
    BY <2>1, <2>3 DEF Child
  <2>5. IsText(path) /\ Len(path) = Len(name) + 4
    BY <2>0, TableIs DEF TablePath
  <2>6. path # <<>>
    BY <2>0, <2>5, TextIs DEF TablePath
  <2> QED
    BY <2>0, <2>1, <2>4, <2>5, <2>6, <2>7 DEF TablePath
<1> QED
  BY <1>1, <1>2, <1>3

\* No key leads to an owner's path.
LEMMA OwnerNotChild ==
  ASSUME NEW p, IsText(p), ~Reserved(p), NEW k, IsText(k), PlainName(k)
  PROVE  ~OwnersPath(Child(p, k)) /\ Child(p, k) # <<>>
<1>1. ~OwnersPath(Child(p, k))
  <2> SUFFICES ASSUME OwnersPath(Child(p, k)) PROVE FALSE
    OBVIOUS
  <2>1. PICK front, name :
          /\ IsText(front) /\ Reserved(front) /\ front # <<>>
          /\ IsText(name) /\ PlainName(name) /\ Child(p, k) = Child(front, name)
    BY OwnersPathIs
  <2>2. p = front
    BY <2>1, ChildApart
  <2> QED
    BY <2>1, <2>2
<1>2. Child(p, k) # <<>>
  <2>1. CASE p = <<>>
    BY <2>1, ChildOfNone, PlainIs
  <2>2. CASE p # <<>>
    <3>1. IsChild(Child(p, k), p, k)
      BY <2>2, ChildIs
    <3>2. Len(Child(p, k)) # 0
      BY <3>1, TextIs DEF IsChild
    <3> QED
      BY <3>2
  <2> QED
    BY <2>1, <2>2
<1> QED
  BY <1>1, <1>2

\* A key leads to no reserved path, but from the root.
LEMMA ChildNotReserved ==
  ASSUME NEW p, IsText(p), ~Reserved(p), NEW k, IsText(k), PlainName(k), p = <<>> => k \notin {<<"table">>, <<"layout">>}
  PROVE  ~Reserved(Child(p, k))
<1> SUFFICES ASSUME Reserved(Child(p, k)) PROVE FALSE
  OBVIOUS
<1>1. ASSUME NEW w, IsText(w), PlainName(w), Child(p, k) = w PROVE p = <<>> /\ k = w
  <2>1. IsText(<<>>) /\ Child(<<>>, w) = w
    BY ChildOfNone DEF IsText
  <2>2. Child(p, k) = Child(<<>>, w)
    BY <1>1, <2>1
  <2>3. IsText(w) /\ PlainName(w)
    BY <1>1
  <2> QED
    BY <2>1, <2>2, <2>3, ChildApart
<1>2. CASE Child(p, k) \in {<<"layout">>, <<"table">>}
  BY <1>1, <1>2, ReservedIs
<1>3. CASE \E kind \in TableKinds : Child(p, k) = <<"table", "/", kind>>
  <2>1. PICK kind \in TableKinds : Child(p, k) = Child(<<"table">>, <<kind>>)
    BY <1>3, ReservedIs
  <2>2. p = <<"table">>
    BY Zenon, <2>1, ReservedIs, ChildApart
  <2> QED
    BY <2>2 DEF Reserved
<1> QED
  BY <1>2, <1>3 DEF Reserved

\* No path holds a bar.
LEMMA ChildNoBar ==
  ASSUME NEW p, IsText(p), NoBar(p), NEW k, IsText(k), PlainName(k)
  PROVE  NoBar(Child(p, k))
<1>1. CASE p = <<>>
  BY <1>1, ChildOfNone, PlainIs
<1>2. CASE p # <<>>
  <2> DEFINE c == Child(p, k)
  <2>0. IsChild(c, p, k)
    BY <1>2, ChildIs
  <2> HIDE DEF c
  <2>1. /\ IsText(c) /\ Len(c) = Len(p) + 1 + Len(k) /\ c[Len(p) + 1] = "/"
        /\ \A n \in 1..Len(p) : c[n] = p[n]
        /\ \A n \in 1..Len(k) : c[Len(p) + 1 + n] = k[n]
    BY <2>0 DEF IsChild
  <2>2. Len(p) \in Nat /\ Len(k) \in Nat /\ DOMAIN c = 1..Len(c) /\ DOMAIN p = 1..Len(p) /\ DOMAIN k = 1..Len(k)
    BY <2>1, TextIs
  <2>3. \A n \in DOMAIN k : k[n] # Bar
    BY PlainIs DEF NoBar
  <2>4. ASSUME NEW n \in DOMAIN c PROVE c[n] # Bar
    <3>1. CASE n \in 1..Len(p)
      BY <2>1, <2>2, <3>1 DEF NoBar
    <3>2. CASE n = Len(p) + 1
      BY <2>1, <3>2, PlainPieces
    <3>3. CASE n \notin 1..Len(p) /\ n # Len(p) + 1
      <4>0. \A a, b \in Nat : \A j \in 1..(a + 1 + b) :
              j \notin 1..a /\ j # a + 1 => j - (a + 1) \in 1..b /\ a + 1 + (j - (a + 1)) = j
        OBVIOUS
      <4>1. n - (Len(p) + 1) \in 1..Len(k) /\ Len(p) + 1 + (n - (Len(p) + 1)) = n
        BY Zenon, <2>1, <2>2, <3>3, <4>0
      <4>2. PICK m \in 1..Len(k) : Len(p) + 1 + m = n
        BY <4>1
      <4>3. c[n] = k[m]
        BY <2>1, <4>2
      <4> QED
        BY <2>2, <2>3, <4>3
    <3> QED
      BY <3>1, <3>2, <3>3
  <2> QED
    BY <2>4 DEF NoBar, c
<1> QED
  BY <1>1, <1>2

\* A key leads elsewhere.
LEMMA ChildIsElsewhere ==
  ASSUME NEW p, IsText(p), NEW k, IsText(k), PlainName(k)
  PROVE  Child(p, k) # p
<1>1. CASE p = <<>>
  BY <1>1, ChildOfNone, PlainIs
<1>2. CASE p # <<>>
  <2>1. IsChild(Child(p, k), p, k)
    BY <1>2, ChildIs
  <2>2. Len(Child(p, k)) = Len(p) + 1 + Len(k)
    BY <2>1 DEF IsChild
  <2>3. Len(p) \in Nat /\ Len(k) \in Nat
    BY TextIs
  <2>4. Len(Child(p, k)) # Len(p)
    BY <2>2, <2>3
  <2> QED
    BY <2>4
<1> QED
  BY <1>1, <1>2

\* The path of an owner is a text, with no bar, and not reserved.
LEMMA OwnersPathKept ==
  ASSUME NEW path, OwnersPath(path)
  PROVE  IsText(path) /\ path # <<>> /\ NoBar(path) /\ ~Reserved(path)
<1>1. PICK front, name :
        /\ IsText(front) /\ Reserved(front) /\ front \notin {<<>>, <<"table">>}
        /\ IsText(name) /\ PlainName(name) /\ path = Child(front, name)
  BY OwnersPathIs
<1>2. IsText(path) /\ path # <<>>
  BY OwnersPathIs
<1>3. NoBar(front)
  <2>1. ASSUME NEW p \in Pieces, p # "/", p # Bar PROVE NoBar(<<p>>)
    BY <2>1, OnePlain, PlainIs
  <2>2. CASE front \in {<<"layout">>, <<"table">>}
    <3>1. NoBar(<<"layout">>) /\ NoBar(<<"table">>)
      BY <2>1, PathPieces, PlainPieces
    <3> QED
      BY <2>2, <3>1
  <2>3. CASE \E kind \in TableKinds : front = <<"table", "/", kind>>
    <3>1. PICK kind \in TableKinds : front = <<"table", "/", kind>>
      BY <2>3
    <3>2. kind # Bar /\ "table" # Bar /\ "/" # Bar
      BY PlainPieces
    <3>3. \A n \in DOMAIN front : front[n] \in {"table", "/", kind}
      BY <3>1
    <3> QED
      BY <3>2, <3>3 DEF NoBar
  <2> QED
    BY <1>1, <2>2, <2>3 DEF Reserved
<1>4. NoBar(path)
  BY <1>1, <1>3, ChildNoBar
<1>5. ~Reserved(path)
  <2> SUFFICES ASSUME Reserved(path) PROVE FALSE
    OBVIOUS
  <2>1. ASSUME NEW w, IsText(w), PlainName(w), path = w PROVE FALSE
    <3>1. IsText(<<>>) /\ Child(<<>>, w) = Child(front, name)
      BY <1>1, <2>1, ChildOfNone DEF IsText
    <3>2. IsText(w) /\ PlainName(w)
      BY <2>1
    <3>3. <<>> = front
      BY <1>1, <3>1, <3>2, ChildApart
    <3> QED
      BY <1>1, <3>3
  <2>2. CASE path \in {<<"layout">>, <<"table">>}
    BY <2>1, <2>2, ReservedIs
  <2>3. CASE \E kind \in TableKinds : path = <<"table", "/", kind>>
    <3>1. PICK kind \in TableKinds : path = Child(<<"table">>, <<kind>>)
      BY <2>3, ReservedIs
    <3>2. IsText(<<"table">>) /\ IsText(<<kind>>) /\ PlainName(<<kind>>)
      BY ReservedIs
    <3>3. front = <<"table">> /\ name = <<kind>>
      BY <1>1, <3>1, <3>2, ChildApart
    <3> QED
      BY <1>1, <3>3
  <2> QED
    BY <2>2, <2>3 DEF Reserved
<1> QED
  BY <1>2, <1>4, <1>5

\* Two owners of one path are one owner.
LEMMA OwnersApart ==
  ASSUME IsDocument(doc), NEW x, IsNode(doc, x), PlainOwner(x), NEW y, IsNode(doc, y), PlainOwner(y),
         OwnerPath(x) = OwnerPath(y), OwnerPath(x) # NoPath
  PROVE  x = y /\ OwnersPath(OwnerPath(x))
<1>1. ASSUME NEW node, IsNode(doc, node), PlainOwner(node), OwnerPath(node) # NoPath
      PROVE  \/ node = [of |-> "layout", name |-> node.name] /\ LayoutPath(OwnerPath(node), node.name)
             \/ /\ node = [of |-> "table", kind |-> node.kind, name |-> node.name]
                /\ TablePath(OwnerPath(node), node.kind, node.name)
  <2>1. CASE node.of = "table"
    <3>1. node.kind # "vx"
      BY Zenon, <1>1, <2>1 DEF OwnerPath
    <3>2. OwnerPath(node) = <<"table", "/", node.kind, "/">> \o node.name
      BY Zenon, <2>1, <3>1 DEF OwnerPath
    <3>3. /\ node = [of |-> "table", kind |-> node.kind, name |-> node.name]
          /\ node.kind \in TableKinds /\ IsText(node.name)
      BY Zenon, <1>1, <2>1 DEF IsNode
    <3>4. PlainName(node.name)
      BY <1>1, <2>1 DEF PlainOwner
    <3> QED
      BY <3>2, <3>3, <3>4 DEF TablePath
  <2>2. CASE node.of = "layout"
    <3>1. OwnerPath(node) = Under("layout", node.name)
      BY Zenon, <2>2 DEF OwnerPath
    <3>2. node = [of |-> "layout", name |-> node.name] /\ \E h \in LayoutsOf(doc) : doc.objects[h].name = node.name
      BY Zenon, <1>1, <2>2 DEF IsNode
    <3>3. IsText(node.name)
      BY <3>2 DEF IsDocument
    <3>4. PlainName(node.name)
      BY <1>1, <2>2 DEF PlainOwner
    <3> QED
      BY <3>1, <3>2, <3>3, <3>4 DEF LayoutPath
  <2>3. CASE node.of \notin {"table", "layout"}
    BY Zenon, <1>1, <2>3 DEF OwnerPath
  <2> QED
    BY <2>1, <2>2, <2>3
<1> DEFINE path == OwnerPath(x)
<1>2. ASSUME NEW a, LayoutPath(path, a)
      PROVE  path[1] = "layout" /\ SubSeq(path, 3, Len(path)) = a
  <2>1. IsText(a) /\ path = Under("layout", a) /\ "layout" \in Pieces
    BY <1>2, PathPieces DEF LayoutPath
  <2> QED
    BY Zenon, <2>1, UnderIs
<1>3. ASSUME NEW kind, NEW a, TablePath(path, kind, a)
      PROVE  path[1] = "table" /\ path[3] = kind /\ SubSeq(path, 5, Len(path)) = a
  <2>1. IsText(a) /\ path = <<"table", "/", kind, "/">> \o a /\ kind \in TableKinds
    BY <1>3 DEF TablePath
  <2> QED
    BY <2>1, TableIs
<1>4. path = OwnerPath(y) /\ path # NoPath
  OBVIOUS
<1>5. \/ x = [of |-> "layout", name |-> x.name] /\ LayoutPath(path, x.name)
      \/ x = [of |-> "table", kind |-> x.kind, name |-> x.name] /\ TablePath(path, x.kind, x.name)
  BY <1>1
<1>6. \/ y = [of |-> "layout", name |-> y.name] /\ LayoutPath(path, y.name)
      \/ y = [of |-> "table", kind |-> y.kind, name |-> y.name] /\ TablePath(path, y.kind, y.name)
  BY <1>1, <1>4
<1> HIDE DEF path
<1>7. CASE x = [of |-> "layout", name |-> x.name] /\ LayoutPath(path, x.name)
  <2>1. y = [of |-> "layout", name |-> y.name] /\ LayoutPath(path, y.name)
    BY <1>2, <1>3, <1>6, <1>7
  <2>2. y.name = x.name
    <3>1. LayoutPath(path, x.name) /\ LayoutPath(path, y.name)
      BY <1>7, <2>1
    <3>2. SubSeq(path, 3, Len(path)) = x.name
      BY Zenon, <1>2, <3>1
    <3>3. SubSeq(path, 3, Len(path)) = y.name
      BY Zenon, <1>2, <3>1
    <3> QED
      BY Zenon, <3>2, <3>3
  <2> QED
    BY <1>7, <2>1, <2>2 DEF OwnersPath, path
<1>8. CASE x = [of |-> "table", kind |-> x.kind, name |-> x.name] /\ TablePath(path, x.kind, x.name)
  <2>1. y = [of |-> "table", kind |-> y.kind, name |-> y.name] /\ TablePath(path, y.kind, y.name)
    BY <1>2, <1>3, <1>6, <1>8
  <2>2. y.name = x.name /\ y.kind = x.kind
    <3>1. TablePath(path, x.kind, x.name) /\ TablePath(path, y.kind, y.name)
      BY <1>8, <2>1
    <3>2. path[3] = x.kind /\ SubSeq(path, 5, Len(path)) = x.name
      BY Zenon, <1>3, <3>1
    <3>3. path[3] = y.kind /\ SubSeq(path, 5, Len(path)) = y.name
      BY Zenon, <1>3, <3>1
    <3> QED
      BY Zenon, <3>2, <3>3
  <2> QED
    BY <1>8, <2>1, <2>2 DEF OwnersPath, path
<1> QED
  BY <1>5, <1>7, <1>8

-----------------------------------------------------------------------------
(* Where no key is twice in a dictionary and no owner has two, no path is   *)
(* written down twice.                                                      *)

Tidy == PlainKeys /\ PlainStarts

Unused(items, path) == \A n \in DOMAIN items : items[n].path # path

OncePathed(items) == \A m, n \in DOMAIN items : items[m].path = items[n].path => m = n

PathKept(item) ==
  /\ IsText(item.path) /\ NoBar(item.path) /\ ~Reserved(item.path)
  /\ item.path = <<>> => item.handle = doc.root

StartKept(x) == x = Root \/ OwnersPath(x.path)

\* The path an entry that is still to go would have.
PathTo(frame, n) == Child(frame.path, Entries(frame.handle)[n].key)

Fresh(t, path) == Unused(t.dictionaries, path) /\ Unused(t.xrecords, path)

TreeApart(t) ==
  /\ OncePathed(t.dictionaries) /\ OncePathed(t.xrecords)
  /\ \A n \in DOMAIN t.dictionaries : PathKept(t.dictionaries[n])
  /\ \A n \in DOMAIN t.xrecords : NoBar(t.xrecords[n].path)

StackApart(stack, t) ==
  /\ \A i, j \in DOMAIN stack : stack[i].handle = stack[j].handle => i = j
  /\ \A i \in DOMAIN stack : \A n \in stack[i].rest : Fresh(t, PathTo(stack[i], n))

StartsApart(starts, t) ==
  /\ \A i \in DOMAIN starts : starts[i].path # NoPath => StartKept(starts[i]) /\ Unused(t.dictionaries, starts[i].path)
  /\ \A i, j \in DOMAIN starts : starts[i].path # NoPath /\ starts[i].path = starts[j].path => i = j

ApartInv == TreeApart(tree) /\ StackApart(calls, tree) /\ StartsApart(owned, tree)

LEMMA OneMoreIs ==
  ASSUME NEW s, IsSequence(s), NEW x
  PROVE  /\ \A n \in DOMAIN s : n \in DOMAIN Append(s, x) /\ Append(s, x)[n] = s[n]
         /\ \A n \in DOMAIN Append(s, x) : (n \in DOMAIN s /\ Append(s, x)[n] = s[n]) \/ (n = Len(s) + 1 /\ Append(s, x)[n] = x)
         /\ Len(s) + 1 \in DOMAIN Append(s, x) /\ Append(s, x)[Len(s) + 1] = x
<1>1. /\ DOMAIN Append(s, x) = 1..(Len(s) + 1) /\ \A n \in DOMAIN s : Append(s, x)[n] = s[n]
      /\ Append(s, x)[Len(s) + 1] = x /\ Len(s) \in Nat /\ DOMAIN s = 1..Len(s)
  BY Appended, Sequences_
<1> QED
  BY <1>1

\* One more path, that was not there.
LEMMA OneMorePath ==
  ASSUME NEW s, IsSequence(s), OncePathed(s), NEW x, Unused(s, x.path)
  PROVE  /\ OncePathed(Append(s, x))
         /\ \A path : Unused(s, path) /\ path # x.path => Unused(Append(s, x), path)
<1>1. \A n \in DOMAIN Append(s, x) : (n \in DOMAIN s /\ Append(s, x)[n] = s[n]) \/ (n = Len(s) + 1 /\ Append(s, x)[n] = x)
  BY OneMoreIs
<1> QED
  BY <1>1 DEF OncePathed, Unused

\* What stands on the stack.
LEMMA FrameKept ==
  ASSUME WalkInv, NamesInv, ApartInv, Tidy, NEW i \in DOMAIN calls, NEW n \in calls[i].rest, NEW key,
         key = Entries(calls[i].handle)[n].key
  PROVE  /\ PathKept(calls[i]) /\ IsText(key) /\ PlainName(key)
         /\ calls[i].path = <<>> => key \notin {<<"table">>, <<"layout">>}
         /\ n \in DOMAIN Entries(calls[i].handle) /\ IsDictionary(calls[i].handle)
<1>1. FrameOpen(calls[i])
  BY DEF WalkInv, FramesOpen
<1>2. PICK d \in DOMAIN tree.dictionaries : tree.dictionaries[d] = Item(calls[i].handle, calls[i].path)
  BY <1>1 DEF FrameOpen
<1>3. tree.dictionaries[d].path = calls[i].path /\ tree.dictionaries[d].handle = calls[i].handle
  BY <1>2 DEF Item
<1>4. PathKept(calls[i])
  BY <1>3 DEF ApartInv, TreeApart, PathKept
<1>5. IsDictionary(calls[i].handle) /\ n \in DOMAIN Entries(calls[i].handle)
  BY <1>1 DEF FrameOpen, WalkInv, MetIsSeen
<1>6. IsDocument(doc)
  BY DocsAssumption DEF NamesInv
<1>7. IsText(key)
  BY <1>5, <1>6 DEF IsDocument, IsDictionary, Entries
<1>8. PlainName(key)
  BY <1>5 DEF Tidy, PlainKeys, Apart, IsDictionary
<1>9. calls[i].path = <<>> => key \notin {<<"table">>, <<"layout">>}
  BY <1>4, <1>5 DEF PathKept, Tidy, PlainKeys
<1> QED
  BY <1>4, <1>5, <1>7, <1>8, <1>9

\* Two entries that are still to go have two paths.
LEMMA WaysApart ==
  ASSUME WalkInv, NamesInv, ApartInv, Tidy,
         NEW i \in DOMAIN calls, NEW m \in calls[i].rest, NEW j \in DOMAIN calls, NEW n \in calls[j].rest,
         PathTo(calls[i], m) = PathTo(calls[j], n)
  PROVE  i = j /\ m = n
<1> DEFINE k == Entries(calls[i].handle)[m].key
           l == Entries(calls[j].handle)[n].key
<1>1. /\ PathKept(calls[i]) /\ IsText(k) /\ PlainName(k)
      /\ m \in DOMAIN Entries(calls[i].handle) /\ IsDictionary(calls[i].handle)
  BY FrameKept
<1>2. /\ PathKept(calls[j]) /\ IsText(l) /\ PlainName(l)
      /\ n \in DOMAIN Entries(calls[j].handle) /\ IsDictionary(calls[j].handle)
  BY FrameKept
<1>3. Child(calls[i].path, k) = Child(calls[j].path, l)
  BY DEF PathTo
<1> HIDE DEF k, l
<1>4. calls[i].path = calls[j].path /\ k = l
  <2>1. IsText(calls[i].path) /\ IsText(calls[j].path)
    BY <1>1, <1>2 DEF PathKept
  <2> QED
    BY <1>1, <1>2, <1>3, <2>1, ChildApart
<1>5. i = j
  <2>1. FrameOpen(calls[i]) /\ FrameOpen(calls[j])
    BY DEF WalkInv, FramesOpen
  <2>2. PICK d \in DOMAIN tree.dictionaries : tree.dictionaries[d] = Item(calls[i].handle, calls[i].path)
    BY <2>1 DEF FrameOpen
  <2>3. PICK e \in DOMAIN tree.dictionaries : tree.dictionaries[e] = Item(calls[j].handle, calls[j].path)
    BY <2>1 DEF FrameOpen
  <2>4. d = e
    BY <1>4, <2>2, <2>3 DEF Item, ApartInv, TreeApart, OncePathed
  <2>5. calls[i].handle = calls[j].handle
    BY <2>2, <2>3, <2>4 DEF Item
  <2> QED
    BY <2>5 DEF ApartInv, StackApart
<1>6. m = n
  <2>1. Apart([q \in DOMAIN Entries(calls[i].handle) |-> Entries(calls[i].handle)[q].key])
    BY <1>1 DEF Tidy, PlainKeys, IsDictionary
  <2> QED
    BY <1>1, <1>2, <1>4, <1>5, <2>1 DEF Apart, k, l
<1> QED
  BY <1>5, <1>6

\* A start's path is kept.
LEMMA StartIsKept == ASSUME NEW x, StartKept(x) PROVE PathKept(x)
<1>1. CASE x = Root
  <2>1. x.path = <<>> /\ x.handle = doc.root
    BY <1>1 DEF Root
  <2>2. IsText(<<>>) /\ NoBar(<<>>)
    BY EmptySequence DEF IsText, NoBar
  <2>3. ~Reserved(<<>>)
    BY ReservedIs DEF Reserved
  <2> QED
    BY <2>1, <2>2, <2>3 DEF PathKept
<1>2. CASE OwnersPath(x.path)
  BY <1>2, OwnersPathKept DEF PathKept
<1> QED
  BY <1>1, <1>2 DEF StartKept

\* Where a dictionary starts is one of the two.
LEMMA StartsAreKept ==
  ASSUME doc \in Docs, Tidy, NEW x \in Starts
  PROVE  StartKept(x)
<1>1. CASE x = Root
  BY <1>1 DEF StartKept
<1>2. CASE x # Root
  <2>1. PICK n \in DOMAIN ExtensionDictionaries : x = ExtensionDictionaries[n] /\ x.path # NoPath
    BY <1>2 DEF Starts
  <2>2. n \in DOMAIN doc.extensions /\ x.path = OwnerPath(doc.extensions[n].node)
    BY <2>1 DEF ExtensionDictionaries
  <2>3. IsDocument(doc)
    BY DocsAssumption
  <2>4. IsNode(doc, doc.extensions[n].node)
    BY <2>2, <2>3 DEF IsDocument
  <2>5. PlainOwner(doc.extensions[n].node)
    BY <2>2 DEF Tidy, PlainStarts
  <2>6. OwnersPath(x.path)
    BY <2>1, <2>2, <2>3, <2>4, <2>5, OwnersApart
  <2> QED
    BY <2>6 DEF StartKept
<1> QED
  BY <1>1, <1>2

\* Nothing is found yet under a path that no dictionary has.
LEMMA NothingUnder ==
  ASSUME WalkInv, NamesInv, ApartInv, Tidy, NEW item, PathKept(item), Unused(tree.dictionaries, item.path),
         NEW k, IsText(k), PlainName(k)
  PROVE  Fresh(tree, Child(item.path, k))
<1>0. IsText(item.path) /\ ~Reserved(item.path)
  BY DEF PathKept
<1>1. ASSUME NEW x, Leads(x), x.path = Child(item.path, k) PROVE FALSE
  <2>1. PICK d \in DOMAIN tree.dictionaries : \E n \in DOMAIN Entries(tree.dictionaries[d].handle) :
          x.path = Child(tree.dictionaries[d].path, Entries(tree.dictionaries[d].handle)[n].key)
    BY <1>1 DEF Leads
  <2>2. PICK n \in DOMAIN Entries(tree.dictionaries[d].handle) :
          x.path = Child(tree.dictionaries[d].path, Entries(tree.dictionaries[d].handle)[n].key)
    BY <2>1
  <2> DEFINE h == tree.dictionaries[d].handle
             l == Entries(h)[n].key
  <2>3. IsDictionary(h)
    BY DEF WalkInv, MetIsSeen, Met
  <2>4. IsText(l)
    BY <2>2, <2>3, DocsAssumption DEF NamesInv, IsDocument, IsDictionary, Entries
  <2>5. PlainName(l)
    BY <2>2, <2>3 DEF Tidy, PlainKeys, Apart, IsDictionary
  <2>6. IsText(tree.dictionaries[d].path)
    BY DEF ApartInv, TreeApart, PathKept
  <2>7. Child(item.path, k) = Child(tree.dictionaries[d].path, l)
    BY <1>1, <2>2
  <2> HIDE DEF l, h
  <2>8. item.path = tree.dictionaries[d].path
    BY <1>0, <2>4, <2>5, <2>6, <2>7, ChildApart
  <2> QED
    BY <2>8 DEF Unused
<1>2. Unused(tree.xrecords, Child(item.path, k))
  BY <1>1 DEF Unused, WalkInv, PathsLeadThere
<1>3. ASSUME NEW n \in DOMAIN tree.dictionaries PROVE tree.dictionaries[n].path # Child(item.path, k)
  <2>1. CASE Leads(tree.dictionaries[n])
    BY <1>1, <2>1
  <2>2. CASE tree.dictionaries[n] \in Starts
    <3>1. StartKept(tree.dictionaries[n])
      BY <2>2, StartsAreKept DEF NamesInv
    <3>2. tree.dictionaries[n].path = <<>> \/ OwnersPath(tree.dictionaries[n].path)
      BY <3>1 DEF StartKept, Root
    <3>3. ~OwnersPath(Child(item.path, k)) /\ Child(item.path, k) # <<>>
      BY <1>0, OwnerNotChild
    <3> QED
      BY <3>2, <3>3
  <2> QED
    BY <2>1, <2>2 DEF WalkInv, PathsLeadThere
<1> QED
  BY <1>2, <1>3 DEF Fresh, Unused

LEMMA SameApart ==
  ASSUME doc' = doc, TreeApart(tree'), StackApart(calls', tree'), StartsApart(owned', tree')
  PROVE  ApartInv'
<1>1. (TreeApart(tree))'
  BY DEF TreeApart, PathKept, OncePathed
<1>2. (StackApart(calls, tree))'
  BY DEF StackApart, PathTo, Fresh, Unused, Entries
<1>3. (StartsApart(owned, tree))'
  BY DEF StartsApart, StartKept, Unused, Root
<1> QED
  BY <1>1, <1>2, <1>3 DEF ApartInv

\* A dictionary is written down under a path that is new.
LEMMA OpeningApart ==
  ASSUME WalkInv, NamesInv, ApartInv, Tidy, NEW h, NEW path, NEW stack, IsSequence(stack),
         Meets(h), WriteDown(h, path, stack), PathKept(Item(h, path)), Unused(tree.dictionaries, path),
         \A i \in DOMAIN stack : FrameOpen(stack[i]), StackApart(stack, tree),
         \A i \in DOMAIN stack : \A n \in stack[i].rest : PathTo(stack[i], n) # path
  PROVE  /\ TreeApart(tree') /\ StackApart(calls', tree')
         /\ \A p : Unused(tree.dictionaries, p) /\ p # path => Unused(tree'.dictionaries, p)
<1> DEFINE item == Item(h, path)
           frame == [handle |-> h, path |-> path, rest |-> Resolving(h)]
           old == tree.dictionaries
           new == Append(old, item)
<1>1. calls' = Append(stack, frame)
  BY DEF WriteDown
<1>2. IsSequence(old) /\ tree'.dictionaries = new /\ tree'.xrecords = tree.xrecords
  <2>1. IsTree
    BY DEF WalkInv
  <2>2. tree' = [tree EXCEPT !.owners = Owns(@, h, Under("dictionary", path)), !.dictionaries = new]
    BY DEF WriteDown, Item
  <2> HIDE DEF item
  <2>3. tree = [dictionaries |-> old, xrecords |-> tree.xrecords, owners |-> tree.owners]
    BY <2>1 DEF IsTree
  <2>4. tree'.dictionaries = new /\ tree'.xrecords = tree.xrecords
    BY Zenon, <2>2, <2>3
  <2> QED
    BY <2>1, <2>4 DEF IsTree
<1>3. item.handle = h /\ item.path = path
  BY DEF Item
<1>4. frame.handle = h /\ frame.path = path /\ frame.rest = Resolving(h)
  OBVIOUS
<1>5. PathKept(item)
  OBVIOUS
<1> HIDE DEF item, frame
<1>6. OncePathed(old) /\ Unused(old, item.path)
  BY <1>3 DEF ApartInv, TreeApart
<1>7. OncePathed(new) /\ \A p : Unused(old, p) /\ p # path => Unused(new, p)
  BY <1>2, <1>3, <1>6, OneMorePath
<1>8. \A n \in DOMAIN new : (n \in DOMAIN old /\ new[n] = old[n]) \/ new[n] = item
  BY <1>2, OneMoreIs
<1>9. TreeApart(tree')
  <2>1. \A n \in DOMAIN new : PathKept(new[n])
    BY <1>5, <1>8 DEF ApartInv, TreeApart
  <2> HIDE DEF new
  <2> QED
    BY <1>2, <1>7, <2>1 DEF ApartInv, TreeApart
<1> HIDE DEF new, old
<1>10. \A p : Fresh(tree, p) /\ p # path => Fresh(tree', p)
  BY <1>2, <1>7 DEF Fresh, old
<1>11. /\ \A i \in DOMAIN stack : i \in DOMAIN calls' /\ calls'[i] = stack[i]
       /\ \A i \in DOMAIN calls' : (i \in DOMAIN stack /\ calls'[i] = stack[i]) \/ (i = Len(stack) + 1 /\ calls'[i] = frame)
  BY <1>1, OneMoreIs
<1>12. \A i \in DOMAIN stack : stack[i].handle # h
  BY DEF FrameOpen, Meets
<1>13. \A i, j \in DOMAIN calls' : calls'[i].handle = calls'[j].handle => i = j
  <2> SUFFICES ASSUME NEW i \in DOMAIN calls', NEW j \in DOMAIN calls', calls'[i].handle = calls'[j].handle
               PROVE  i = j
    OBVIOUS
  <2>1. (i \in DOMAIN stack /\ calls'[i] = stack[i]) \/ (i = Len(stack) + 1 /\ calls'[i] = frame)
    BY <1>11
  <2>2. (j \in DOMAIN stack /\ calls'[j] = stack[j]) \/ (j = Len(stack) + 1 /\ calls'[j] = frame)
    BY <1>11
  <2> QED
    BY <1>4, <1>12, <2>1, <2>2 DEF StackApart
<1>14. ASSUME NEW i \in DOMAIN calls', NEW n \in calls'[i].rest PROVE Fresh(tree', PathTo(calls'[i], n))
  <2>1. CASE i \in DOMAIN stack /\ calls'[i] = stack[i]
    <3>1. Fresh(tree, PathTo(stack[i], n)) /\ PathTo(stack[i], n) # path
      BY <1>14, <2>1 DEF StackApart
    <3> QED
      BY <1>10, <2>1, <3>1
  <2>2. CASE calls'[i] = frame
    <3> DEFINE k == Entries(h)[n].key
    <3>1. n \in DOMAIN Entries(h) /\ IsDictionary(h)
      BY <1>4, <1>14, <2>2 DEF Resolving, Meets
    <3>2. IsText(k)
      BY <3>1, DocsAssumption DEF NamesInv, IsDocument, IsDictionary, Entries
    <3>3. PlainName(k)
      BY <3>1 DEF Tidy, PlainKeys, Apart, IsDictionary
    <3>4. PathTo(frame, n) = Child(path, k)
      BY <1>4 DEF PathTo
    <3> HIDE DEF k
    <3>5. IsText(path)
      BY <1>3, <1>5 DEF PathKept
    <3>6. Fresh(tree, Child(item.path, k))
      BY <1>3, <1>5, <1>6, <3>2, <3>3, NothingUnder DEF old
    <3>7. Child(path, k) # path
      BY <3>2, <3>3, <3>5, ChildIsElsewhere
    <3> QED
      BY <1>3, <1>10, <2>2, <3>4, <3>6, <3>7
  <2> QED
    BY <1>11, <2>1, <2>2
<1> QED
  BY <1>2, <1>7, <1>9, <1>13, <1>14 DEF StackApart, old

\* The stack once an entry has been taken off, and the path that led there.
LEMMA PastApart ==
  ASSUME WalkInv, NamesInv, ApartInv, Tidy, calls # <<>>, NEW n \in InTurn
  PROVE  /\ IsSequence(Past(n)) /\ \A i \in DOMAIN Past(n) : FrameOpen(Past(n)[i])
         /\ StackApart(Past(n), tree)
         /\ \A i \in DOMAIN Past(n) : \A m \in Past(n)[i].rest : PathTo(Past(n)[i], m) # PathOf(n)
         /\ Fresh(tree, PathOf(n)) /\ NoBar(PathOf(n)) /\ PathKept(Item(Target(n), PathOf(n)))
         /\ ~OwnersPath(PathOf(n)) /\ PathOf(n) # <<>>
<1> DEFINE last == Len(calls)
           frame == [handle |-> Innermost.handle, path |-> Innermost.path, rest |-> Innermost.rest \ {n}]
           k == Entries(calls[last].handle)[n].key
<1>1. IsSequence(calls) /\ last \in DOMAIN calls /\ Innermost = calls[last] /\ n \in Innermost.rest
  BY WithoutLast DEF WalkInv, InTurn, Innermost
<1>2. Past(n) = [calls EXCEPT ![last] = frame]
  BY DEF Past
<1>4. frame.handle = Innermost.handle /\ frame.path = Innermost.path /\ frame.rest = Innermost.rest \ {n}
  OBVIOUS
<1>3. /\ IsSequence(Past(n)) /\ DOMAIN Past(n) = DOMAIN calls /\ Past(n)[last] = frame
      /\ \A i \in DOMAIN calls : i # last => Past(n)[i] = calls[i]
  <2> DEFINE after == [calls EXCEPT ![last] = frame]
  <2> HIDE DEF frame, last
  <2>1. /\ IsSequence(after) /\ DOMAIN after = DOMAIN calls /\ after[last] = frame
        /\ \A i \in DOMAIN calls : i # last => after[i] = calls[i]
    BY <1>1, Replaced
  <2> QED
    BY <1>2, <2>1
<1>5. n \in calls[last].rest /\ PathOf(n) = PathTo(calls[last], n) /\ PathOf(n) = Child(calls[last].path, k)
  BY <1>1 DEF PathOf, PathTo
<1> HIDE DEF frame, last
<1>6. /\ PathKept(calls[last]) /\ IsText(k) /\ PlainName(k)
      /\ calls[last].path = <<>> => k \notin {<<"table">>, <<"layout">>}
  BY <1>1, <1>5, FrameKept
<1> HIDE DEF k
<1>7. IsText(calls[last].path) /\ NoBar(calls[last].path) /\ ~Reserved(calls[last].path)
  BY <1>6 DEF PathKept
<1>8. NoBar(PathOf(n))
  BY <1>5, <1>6, <1>7, ChildNoBar
<1>9. ~OwnersPath(PathOf(n)) /\ PathOf(n) # <<>>
  BY <1>5, <1>6, <1>7, OwnerNotChild
<1>10. ~Reserved(PathOf(n))
  BY <1>5, <1>6, <1>7, ChildNotReserved
<1>11. PathKept(Item(Target(n), PathOf(n)))
  <2>1. IsText(PathOf(n))
    BY <1>5, <1>6, <1>7, ChildIsText
  <2>2. Item(Target(n), PathOf(n)).path = PathOf(n)
    BY DEF Item
  <2> QED
    BY <1>8, <1>9, <1>10, <2>1, <2>2 DEF PathKept
<1>12. Fresh(tree, PathOf(n))
  BY <1>1, <1>5 DEF ApartInv, StackApart
<1>13. \A i \in DOMAIN calls : \A m : PathTo(Past(n)[i], m) = PathTo(calls[i], m)
  BY <1>1, <1>3, <1>4 DEF PathTo
<1>14. \A i \in DOMAIN calls : /\ Past(n)[i].rest \subseteq calls[i].rest /\ Past(n)[i].handle = calls[i].handle
                               /\ i = last => n \notin Past(n)[i].rest
  BY <1>1, <1>3, <1>4
<1>15. StackApart(Past(n), tree)
  BY <1>3, <1>13, <1>14 DEF ApartInv, StackApart
<1>16. ASSUME NEW i \in DOMAIN Past(n), NEW m \in Past(n)[i].rest, PathTo(Past(n)[i], m) = PathOf(n) PROVE FALSE
  <2>1. i \in DOMAIN calls /\ m \in calls[i].rest /\ PathTo(calls[i], m) = PathTo(calls[last], n)
    BY <1>3, <1>5, <1>13, <1>14, <1>16
  <2>2. i = last /\ m = n
    BY <1>1, <1>5, <2>1, WaysApart
  <2> QED
    BY <1>14, <1>16, <2>1, <2>2
<1>17. \A i \in DOMAIN Past(n) : FrameOpen(Past(n)[i])
  BY NextEntry
<1> QED
  BY <1>3, <1>8, <1>9, <1>11, <1>12, <1>15, <1>16, <1>17

LEMMA ApartStart == WalkInit /\ Tidy => ApartInv
<1> SUFFICES ASSUME WalkInit, Tidy PROVE ApartInv
  OBVIOUS
<1>1. doc \in Docs /\ IsDocument(doc)
  BY DocsAssumption DEF WalkInit
<1>2. owned = <<Root>> \o ExtensionDictionaries /\ tree = NoTree /\ calls = <<>>
  BY DEF WalkInit, Begun
<1>3. IsSequence(doc.extensions)
  BY <1>1 DEF IsDocument, Lists
<1>4. /\ IsSequence(ExtensionDictionaries) /\ DOMAIN ExtensionDictionaries = DOMAIN doc.extensions
      /\ \A n \in DOMAIN doc.extensions : ExtensionDictionaries[n].path = OwnerPath(doc.extensions[n].node)
  <2>1. /\ ExtensionDictionaries = [n \in DOMAIN doc.extensions |-> ExtensionDictionaries[n]]
        /\ \A n \in DOMAIN doc.extensions : ExtensionDictionaries[n].path = OwnerPath(doc.extensions[n].node)
    BY DEF ExtensionDictionaries
  <2> QED
    BY <1>3, <2>1, SameLength
<1>5. \A n \in DOMAIN doc.extensions : IsNode(doc, doc.extensions[n].node) /\ PlainOwner(doc.extensions[n].node)
  BY <1>1 DEF IsDocument, Tidy, PlainStarts
<1>6. ASSUME NEW m \in DOMAIN doc.extensions, NEW n \in DOMAIN doc.extensions,
             OwnerPath(doc.extensions[m].node) # NoPath, OwnerPath(doc.extensions[m].node) = OwnerPath(doc.extensions[n].node)
      PROVE  m = n /\ OwnersPath(OwnerPath(doc.extensions[m].node))
  <2>1. doc.extensions[m].node = doc.extensions[n].node /\ OwnersPath(OwnerPath(doc.extensions[m].node))
    BY <1>1, <1>5, <1>6, OwnersApart
  <2>2. doc.extensions[n].node.of # "entity"
    BY Zenon, <1>6 DEF OwnerPath
  <2> QED
    BY <2>1, <2>2 DEF Tidy, PlainStarts
<1> DEFINE one == <<Root>>
<1>7. IsSequence(one) /\ Len(one) = 1 /\ DOMAIN one = {1} /\ one[1] = Root
  <2>1. one \in Seq({Root}) /\ Len(one) = 1 /\ DOMAIN one = {1} /\ one[1] = Root
    OBVIOUS
  <2> HIDE DEF one
  <2> QED
    BY <2>1, SequenceOf
<1> HIDE DEF one
<1>8. owned = one \o ExtensionDictionaries
  BY <1>2 DEF one
<1>9. \A n \in DOMAIN owned :
        \/ n = 1 /\ owned[n] = Root
        \/ /\ n - 1 \in DOMAIN doc.extensions /\ owned[n] = ExtensionDictionaries[n - 1]
           /\ owned[n].path = OwnerPath(doc.extensions[n - 1].node)
  <2>1. \A n \in DOMAIN (one \o ExtensionDictionaries) :
          \/ n \in DOMAIN one /\ (one \o ExtensionDictionaries)[n] = one[n]
          \/ /\ n - Len(one) \in DOMAIN ExtensionDictionaries
             /\ (one \o ExtensionDictionaries)[n] = ExtensionDictionaries[n - Len(one)]
    BY <1>4, <1>7, Joined
  <2> QED
    BY <1>4, <1>7, <1>8, <2>1
<1>10. ASSUME NEW n \in DOMAIN owned, owned[n].path # NoPath PROVE StartKept(owned[n])
  <2>1. CASE owned[n] = Root
    BY <2>1 DEF StartKept
  <2>2. CASE n - 1 \in DOMAIN doc.extensions /\ owned[n].path = OwnerPath(doc.extensions[n - 1].node)
    <3>1. OwnersPath(owned[n].path)
      BY <1>6, <1>10, <2>2
    <3> QED
      BY <3>1 DEF StartKept
  <2> QED
    BY <1>9, <2>1, <2>2
<1>11. ASSUME NEW m \in DOMAIN owned, NEW n \in DOMAIN owned, owned[m].path # NoPath, owned[m].path = owned[n].path
       PROVE  m = n
  <2>0. Root.path = <<>>
    BY DEF Root
  <2>1. m \in Nat /\ n \in Nat
    <3>1. IsSequence(owned)
      BY <1>4, <1>7, <1>8, Joined
    <3> QED
      BY <3>1, Sequences_
  <2>2. ASSUME NEW i \in DOMAIN doc.extensions, OwnerPath(doc.extensions[i].node) # NoPath
        PROVE  OwnerPath(doc.extensions[i].node) # <<>>
    BY <2>2, <1>6, OwnersPathKept
  <2>3. CASE m = 1 /\ owned[m] = Root
    BY <1>9, <1>11, <2>0, <2>2, <2>3
  <2>4. CASE n = 1 /\ owned[n] = Root
    BY <1>9, <1>11, <2>0, <2>2, <2>4
  <2>5. CASE /\ m - 1 \in DOMAIN doc.extensions /\ owned[m].path = OwnerPath(doc.extensions[m - 1].node)
             /\ n - 1 \in DOMAIN doc.extensions /\ owned[n].path = OwnerPath(doc.extensions[n - 1].node)
    <3>1. m - 1 = n - 1
      BY <1>6, <1>11, <2>5
    <3>2. \A a, b \in Nat : a - 1 = b - 1 => a = b
      OBVIOUS
    <3> QED
      BY <2>1, <3>1, <3>2
  <2> QED
    BY <1>9, <2>3, <2>4, <2>5
<1>12. DOMAIN tree.dictionaries = {} /\ DOMAIN tree.xrecords = {} /\ DOMAIN calls = {}
  BY <1>2, EmptySequence DEF NoTree
<1>13. TreeApart(tree) /\ StackApart(calls, tree)
  BY <1>12 DEF TreeApart, StackApart, OncePathed
<1>14. StartsApart(owned, tree)
  BY <1>10, <1>11, <1>12 DEF StartsApart, Unused
<1> QED
  BY <1>13, <1>14 DEF ApartInv

LEMMA ApartStep == WalkInv /\ NamesInv /\ ApartInv /\ Tidy /\ [WalkNext]_<<doc, walkVars>> => ApartInv'
<1> SUFFICES ASSUME WalkInv, NamesInv, ApartInv, Tidy, [WalkNext]_<<doc, walkVars>> PROVE ApartInv'
  OBVIOUS
<1>0. TreeApart(tree) /\ StackApart(calls, tree) /\ StartsApart(owned, tree) /\ IsTree
  BY DEF ApartInv, WalkInv
<1>1. ASSUME NEW starts, StartsApart(starts, tree), NEW path,
             \A p : Unused(tree.dictionaries, p) /\ p # path => Unused(tree'.dictionaries, p),
             \A i \in DOMAIN starts : starts[i].path # NoPath => starts[i].path # path
      PROVE  StartsApart(starts, tree')
  BY <1>1 DEF StartsApart
<1>2. CASE StartWalk
  <2>1. calls = <<>> /\ owned # <<>> /\ owned' = Tail(owned) /\ doc' = doc
    BY <1>2 DEF StartWalk
  <2>2. /\ 1 \in DOMAIN owned /\ Head(owned) = owned[1] /\ IsSequence(owned)
        /\ \A n \in DOMAIN Tail(owned) : n + 1 \in DOMAIN owned /\ Tail(owned)[n] = owned[n + 1]
    BY <2>1, WithoutFirst DEF WalkInv
  <2>3. \A n \in DOMAIN Tail(owned) : n \in Nat /\ n + 1 # 1
    <3>1. IsSequence(Tail(owned))
      BY <2>1, <2>2, WithoutFirst
    <3> QED
      BY <3>1, Sequences_
  <2>4. StartsApart(Tail(owned), tree)
    <3>1. \A m, n \in DOMAIN Tail(owned) : m + 1 = n + 1 => m = n
      BY <2>3
    <3>2. ASSUME NEW m \in DOMAIN Tail(owned), NEW n \in DOMAIN Tail(owned), Tail(owned)[m].path # NoPath,
                 Tail(owned)[m].path = Tail(owned)[n].path
          PROVE  m = n
      <4>1. m + 1 = n + 1
        BY <1>0, <2>2, <3>2 DEF StartsApart
      <4> QED
        BY <3>1, <4>1
    <3>3. \A n \in DOMAIN Tail(owned) : Tail(owned)[n].path # NoPath =>
            StartKept(Tail(owned)[n]) /\ Unused(tree.dictionaries, Tail(owned)[n].path)
      BY <1>0, <2>2 DEF StartsApart
    <3> QED
      BY <3>2, <3>3 DEF StartsApart
  <2>5. CASE Head(owned).path # NoPath /\ Meets(Head(owned).handle)
    <3> DEFINE h == Head(owned).handle
               path == Head(owned).path
               none == <<>>
    <3>1. WriteDown(h, path, none) /\ Meets(h)
      BY <1>2, <2>5 DEF StartWalk
    <3>2. StartKept(owned[1]) /\ Unused(tree.dictionaries, path)
      BY <1>0, <2>2, <2>5 DEF StartsApart
    <3>3. PathKept(Item(h, path))
      <4>1. PathKept(owned[1])
        BY <3>2, StartIsKept
      <4> QED
        BY <2>2, <4>1 DEF PathKept, Item
    <3>4. IsSequence(none) /\ DOMAIN none = {}
      BY EmptySequence
    <3>5. \A i \in DOMAIN Tail(owned) : Tail(owned)[i].path # NoPath => Tail(owned)[i].path # path
      BY <1>0, <2>2, <2>3 DEF StartsApart
    <3> HIDE DEF h, path, none
    <3>6. StackApart(none, tree) /\ \A i \in DOMAIN none : FrameOpen(none[i])
      BY <3>4 DEF StackApart
    <3>8. \A i \in DOMAIN none : \A n \in none[i].rest : PathTo(none[i], n) # path
      BY <3>4
    <3>7. /\ TreeApart(tree') /\ StackApart(calls', tree')
          /\ \A p : Unused(tree.dictionaries, p) /\ p # path => Unused(tree'.dictionaries, p)
      BY <3>1, <3>2, <3>3, <3>4, <3>6, <3>8, OpeningApart
    <3>9. StartsApart(Tail(owned), tree')
      BY <1>1, <2>4, <3>5, <3>7
    <3> QED
      BY <2>1, <3>7, <3>9, SameApart
  <2>6. CASE ~(Head(owned).path # NoPath /\ Meets(Head(owned).handle))
    <3>1. calls' = calls /\ tree' = tree
      BY <1>2, <2>6 DEF StartWalk
    <3> QED
      BY <1>0, <2>1, <2>4, <3>1, SameApart
  <2> QED
    BY <2>5, <2>6
<1>3. CASE ListXRecord
  <2>1. PICK n \in InTurn :
          /\ tree' = [tree EXCEPT !.owners = Owns(@, Target(n), Under("xrecord", PathOf(n))),
                                  !.xrecords = Append(@, [handle |-> Target(n), path |-> PathOf(n)])]
          /\ calls' = Past(n)
    BY Zenon, <1>3 DEF ListXRecord
  <2>2. calls # <<>> /\ doc' = doc /\ owned' = owned
    BY <1>3 DEF ListXRecord
  <2>3. /\ StackApart(Past(n), tree) /\ Fresh(tree, PathOf(n)) /\ NoBar(PathOf(n))
        /\ \A i \in DOMAIN Past(n) : \A m \in Past(n)[i].rest : PathTo(Past(n)[i], m) # PathOf(n)
    BY <2>2, PastApart
  <2> DEFINE item == Item(Target(n), PathOf(n))
             old == tree.xrecords
             new == Append(old, item)
  <2>4. tree'.xrecords = new /\ tree'.dictionaries = tree.dictionaries /\ IsSequence(old)
    <3>1. tree' = [tree EXCEPT !.owners = Owns(@, Target(n), Under("xrecord", PathOf(n))), !.xrecords = new]
      BY <2>1 DEF Item
    <3> HIDE DEF new
    <3>2. tree = [dictionaries |-> tree.dictionaries, xrecords |-> tree.xrecords, owners |-> tree.owners]
      BY <1>0 DEF IsTree
    <3>3. tree'.xrecords = new /\ tree'.dictionaries = tree.dictionaries
      BY Zenon, <3>1, <3>2
    <3> QED
      BY <1>0, <3>3 DEF IsTree
  <2>5. item.path = PathOf(n)
    BY DEF Item
  <2> HIDE DEF item
  <2>6. OncePathed(old) /\ Unused(old, item.path)
    BY <1>0, <2>3, <2>5 DEF TreeApart, Fresh
  <2>7. OncePathed(new) /\ \A p : Unused(old, p) /\ p # PathOf(n) => Unused(new, p)
    BY <2>4, <2>5, <2>6, OneMorePath
  <2>8. \A x \in DOMAIN new : (x \in DOMAIN old /\ new[x] = old[x]) \/ new[x] = item
    BY <2>4, OneMoreIs
  <2>9. \A x \in DOMAIN new : NoBar(new[x].path)
    BY <1>0, <2>3, <2>5, <2>8 DEF TreeApart
  <2> HIDE DEF new, old
  <2>10. TreeApart(tree')
    BY <1>0, <2>4, <2>7, <2>9 DEF TreeApart
  <2>11. \A p : Fresh(tree, p) /\ p # PathOf(n) => Fresh(tree', p)
    BY <2>4, <2>7 DEF Fresh, old
  <2>12. StackApart(calls', tree')
    BY <2>1, <2>3, <2>11 DEF StackApart
  <2>13. StartsApart(owned', tree')
    BY <1>0, <2>2, <2>4 DEF StartsApart
  <2> QED
    BY <2>2, <2>10, <2>12, <2>13, SameApart
<1>4. CASE EnterDictionary
  <2>1. PICK n \in InTurn : Meets(Target(n)) /\ WriteDown(Target(n), PathOf(n), Past(n))
    BY <1>4 DEF EnterDictionary
  <2>2. calls # <<>> /\ doc' = doc /\ owned' = owned
    BY <1>4 DEF EnterDictionary
  <2>3. /\ IsSequence(Past(n)) /\ \A i \in DOMAIN Past(n) : FrameOpen(Past(n)[i])
        /\ StackApart(Past(n), tree)
        /\ \A i \in DOMAIN Past(n) : \A m \in Past(n)[i].rest : PathTo(Past(n)[i], m) # PathOf(n)
        /\ Fresh(tree, PathOf(n)) /\ NoBar(PathOf(n)) /\ PathKept(Item(Target(n), PathOf(n)))
        /\ ~OwnersPath(PathOf(n)) /\ PathOf(n) # <<>>
    BY <2>2, PastApart
  <2>4. Unused(tree.dictionaries, PathOf(n))
    BY <2>3 DEF Fresh
  <2>5. /\ TreeApart(tree') /\ StackApart(calls', tree')
        /\ \A p : Unused(tree.dictionaries, p) /\ p # PathOf(n) => Unused(tree'.dictionaries, p)
    BY <2>1, <2>3, <2>4, OpeningApart
  <2>6. \A i \in DOMAIN owned : owned[i].path # NoPath => owned[i].path # PathOf(n)
    BY <1>0, <2>3 DEF StartsApart, StartKept, Root
  <2>7. StartsApart(owned, tree')
    BY <1>0, <1>1, <2>5, <2>6
  <2> QED
    BY <2>2, <2>5, <2>7, SameApart
<1>5. CASE PassOver
  <2>1. PICK n \in InTurn : calls' = Past(n)
    BY <1>5 DEF PassOver
  <2>2. calls # <<>> /\ doc' = doc /\ owned' = owned /\ tree' = tree
    BY <1>5 DEF PassOver
  <2>3. StackApart(calls', tree)
    BY <2>1, <2>2, PastApart
  <2> QED
    BY <1>0, <2>2, <2>3, SameApart
<1>6. CASE Return
  <2>1. calls # <<>> /\ calls' = SubSeq(calls, 1, Len(calls) - 1) /\ doc' = doc /\ owned' = owned /\ tree' = tree
    BY <1>6 DEF Return
  <2>2. \A i \in DOMAIN calls' : i \in DOMAIN calls /\ calls'[i] = calls[i]
    BY <2>1, WithoutLast DEF WalkInv
  <2>3. StackApart(calls', tree)
    BY <1>0, <2>2 DEF StackApart
  <2> QED
    BY <1>0, <2>1, <2>3, SameApart
<1>7. CASE UNCHANGED <<doc, walkVars>>
  <2>1. doc' = doc /\ owned' = owned /\ tree' = tree /\ calls' = calls
    BY <1>7 DEF walkVars
  <2> QED
    BY <1>0, <2>1, SameApart
<1> QED
  BY <1>2, <1>3, <1>4, <1>5, <1>6, <1>7 DEF WalkNext

LEMMA TidyStays == ASSUME doc' = doc PROVE Tidy' <=> Tidy
<1>1. \A h : (IsDictionary(h))' <=> IsDictionary(h)
  BY DEF IsDictionary
<1>2. \A h : (Entries(h))' = Entries(h)
  BY DEF Entries
<1>3. PlainKeys' <=> PlainKeys
  BY <1>1, <1>2 DEF PlainKeys
<1>4. PlainStarts' <=> PlainStarts
  BY DEF PlainStarts
<1> QED
  BY <1>3, <1>4 DEF Tidy

LEMMA WalkKeepsDoc == [WalkNext]_<<doc, walkVars>> => doc' = doc
BY DEF WalkNext, StartWalk, ListXRecord, EnterDictionary, PassOver, Return

\* Where no key comes twice in a dictionary, none has a separator in it and no
\* owner has two extension dictionaries, dictionary_tree() writes no two records
\* of one path, although an XRECORD may hang off any number of dictionaries.
THEOREM NoPathTwice == WalkSpec => [](Tidy => OncePathed(tree.dictionaries) /\ OncePathed(tree.xrecords))
<1> DEFINE Inv == WalkInv /\ NamesInv /\ (Tidy => ApartInv)
<1>1. WalkInit => Inv
  BY InitWalkInv, NamesStart, ApartStart
<1>2. Inv /\ [WalkNext]_<<doc, walkVars>> => Inv'
  <2> SUFFICES ASSUME Inv, [WalkNext]_<<doc, walkVars>> PROVE Inv'
    OBVIOUS
  <2>1. doc' = doc
    BY WalkKeepsDoc
  <2>2. Tidy' <=> Tidy
    BY <2>1, TidyStays
  <2>3. WalkInv' /\ NamesInv'
    BY NextWalkInv, NamesStep
  <2>4. Tidy => ApartInv'
    BY ApartStep
  <2> QED
    BY <2>2, <2>3, <2>4
<1>3. Inv => (Tidy => OncePathed(tree.dictionaries) /\ OncePathed(tree.xrecords))
  BY DEF ApartInv, TreeApart
<1> QED
  BY <1>1, <1>2, <1>3, PTL DEF WalkSpec

-----------------------------------------------------------------------------
(* Whoever owns extended data is told by the text it is named by. *)

Barred(owner, appid) == owner \o <<Bar>> \o appid

IsBarred(text, owner, appid) ==
  /\ IsText(text) /\ Len(text) = Len(owner) + 1 + Len(appid)
  /\ \A n \in 1..Len(owner) : text[n] = owner[n]
  /\ text[Len(owner) + 1] = Bar
  /\ \A n \in 1..Len(appid) : text[Len(owner) + 1 + n] = appid[n]

LEMMA BarredIs ==
  ASSUME NEW owner, IsText(owner), NEW appid, IsText(appid)
  PROVE  IsBarred(Barred(owner, appid), owner, appid)
<1> DEFINE front == owner \o <<Bar>>
<1>1. IsText(<<Bar>>) /\ Len(<<Bar>>) = 1 /\ <<Bar>>[1] = Bar
  BY PlainPieces DEF IsText
<1>2. IsText(front) /\ Len(front) = Len(owner) + 1
  BY <1>1, TextsJoin
<1>3. \A n \in 1..Len(owner) : front[n] = owner[n]
  BY <1>1, TextsJoin
<1>4. front[Len(owner) + 1] = Bar
  <2>1. 1 \in 1..Len(<<Bar>>)
    BY <1>1
  <2>2. front[Len(owner) + 1] = <<Bar>>[1]
    BY <1>1, <2>1, TextsJoin
  <2> QED
    BY <1>1, <2>2
<1>5. Barred(owner, appid) = front \o appid
  BY Zenon DEF Barred
<1> HIDE DEF front
<1>6. /\ IsText(front \o appid) /\ Len(front \o appid) = Len(front) + Len(appid)
      /\ \A n \in 1..Len(front) : (front \o appid)[n] = front[n]
      /\ \A n \in 1..Len(appid) : (front \o appid)[Len(front) + n] = appid[n]
  <2>1. IsText(front)
    BY <1>2
  <2> QED
    BY <2>1, TextsJoin
<1>7. Len(owner) \in Nat
  BY TextIs
<1>8. Len(owner) + 1 \in 1..Len(front) /\ \A n \in 1..Len(owner) : n \in 1..Len(front)
  BY <1>2, <1>7
<1> QED
  BY <1>2, <1>3, <1>4, <1>5, <1>6, <1>8 DEF IsBarred

\* The first bar of a text is where an owner without one ends.
LEMMA BarApart ==
  ASSUME NEW p, IsText(p), NoBar(p), NEW q, IsText(q), NoBar(q), NEW k, IsText(k), NEW l, IsText(l),
         Barred(p, k) = Barred(q, l)
  PROVE  p = q /\ k = l
<1> DEFINE c == Barred(p, k)
<1>0. /\ Len(p) \in Nat /\ Len(q) \in Nat /\ Len(k) \in Nat /\ Len(l) \in Nat
      /\ DOMAIN p = 1..Len(p) /\ DOMAIN q = 1..Len(q)
  BY TextIs
<1>1. IsBarred(c, p, k)
  BY BarredIs
<1>2. c = Barred(q, l)
  OBVIOUS
<1> HIDE DEF c
<1>3. IsBarred(c, q, l)
  BY <1>2, BarredIs
<1>4. ~(Len(p) < Len(q))
  <2> SUFFICES ASSUME Len(p) < Len(q) PROVE FALSE
    OBVIOUS
  <2>1. Len(p) + 1 \in DOMAIN q
    BY <1>0
  <2>2. q[Len(p) + 1] = Bar
    BY <1>0, <1>1, <1>3, <2>1 DEF IsBarred
  <2> QED
    BY <2>1, <2>2 DEF NoBar
<1>5. ~(Len(q) < Len(p))
  <2> SUFFICES ASSUME Len(q) < Len(p) PROVE FALSE
    OBVIOUS
  <2>1. Len(q) + 1 \in DOMAIN p
    BY <1>0
  <2>2. p[Len(q) + 1] = Bar
    BY <1>0, <1>1, <1>3, <2>1 DEF IsBarred
  <2> QED
    BY <2>1, <2>2 DEF NoBar
<1>6. Len(p) = Len(q) /\ Len(k) = Len(l)
  <2>1. Len(p) = Len(q)
    <3>1. \A a, b \in Nat : ~(a < b) /\ ~(b < a) => a = b
      OBVIOUS
    <3> QED
      BY Zenon, <1>0, <1>4, <1>5, <3>1
  <2>2. Len(p) + 1 + Len(k) = Len(p) + 1 + Len(l)
    BY <1>1, <1>3, <2>1 DEF IsBarred
  <2>3. \A a, b, d \in Nat : a + 1 + b = a + 1 + d => b = d
    OBVIOUS
  <2> QED
    BY Zenon, <1>0, <2>1, <2>2, <2>3
<1>7. p = q
  BY <1>1, <1>3, <1>6, EqualTexts DEF IsBarred
<1>8. \A n \in 1..Len(k) : k[n] = l[n]
  BY <1>1, <1>3, <1>6 DEF IsBarred
<1>9. k = l
  BY <1>6, <1>8, EqualTexts
<1> QED
  BY <1>7, <1>9

\* Who owns a node's extended data: an object does by where the walk met it.
OwnedBy(node) ==
  IF node.of # "object" THEN OwnerPath(node)
  ELSE IF node.handle \in DOMAIN tree.owners THEN tree.owners[node.handle] ELSE NoPath

LEMMA UnderApart ==
  ASSUME NEW k \in Pieces, NEW p, IsText(p), NEW l \in Pieces, NEW q, IsText(q), Under(k, p) = Under(l, q)
  PROVE  k = l /\ p = q
<1>1. Under(k, p)[1] = k /\ SubSeq(Under(k, p), 3, Len(Under(k, p))) = p
  BY UnderIs
<1>2. Under(l, q)[1] = l /\ SubSeq(Under(l, q), 3, Len(Under(l, q))) = q
  BY UnderIs
<1> QED
  BY <1>1, <1>2

LEMMA UnderNoBar ==
  ASSUME NEW k \in Pieces, k # Bar, NEW p, IsText(p), NoBar(p)
  PROVE  IsText(Under(k, p)) /\ NoBar(Under(k, p)) /\ Under(k, p)[1] = k
<1> DEFINE front == <<k, "/">>
<1>1. IsText(front) /\ Len(front) = 2 /\ front[1] = k /\ front[2] = "/"
  BY PathPieces DEF IsText
<1>2. Under(k, p) = front \o p
  BY DEF Under
<1> HIDE DEF front
<1>3. /\ IsText(front \o p) /\ Len(front \o p) = 2 + Len(p)
      /\ \A n \in 1..2 : (front \o p)[n] = front[n]
      /\ \A n \in 1..Len(p) : (front \o p)[2 + n] = p[n]
  <2>1. IsText(front)
    BY <1>1
  <2>2. /\ IsText(front \o p) /\ Len(front \o p) = Len(front) + Len(p)
        /\ \A n \in 1..Len(front) : (front \o p)[n] = front[n]
        /\ \A n \in 1..Len(p) : (front \o p)[Len(front) + n] = p[n]
    BY <2>1, TextsJoin
  <2> QED
    BY <1>1, <2>2
<1> DEFINE t == front \o p
<1>4. /\ IsText(t) /\ Len(t) = 2 + Len(p) /\ t[1] = k /\ t[2] = "/"
      /\ \A n \in 1..Len(p) : t[2 + n] = p[n]
  BY <1>1, <1>3
<1>5. t = Under(k, p)
  BY <1>2
<1> HIDE DEF t
<1>6. Len(p) \in Nat /\ DOMAIN p = 1..Len(p) /\ DOMAIN t = 1..(2 + Len(p))
  BY <1>4, TextIs
<1>7. ASSUME NEW n \in DOMAIN t PROVE t[n] # Bar
  <2>1. CASE n = 1
    BY <1>4, <2>1
  <2>2. CASE n = 2
    BY <1>4, <2>2, PlainPieces
  <2>3. CASE n > 2
    <3>1. PICK m \in 1..Len(p) : n = 2 + m
      <4>1. n - 2 \in 1..Len(p) /\ n = 2 + (n - 2)
        BY <1>6, <2>3
      <4> QED
        BY <4>1
    <3>2. t[n] = p[m]
      BY <1>4, <3>1
    <3> QED
      BY <1>6, <3>2 DEF NoBar
  <2> QED
    BY <1>6, <2>1, <2>2, <2>3
<1> QED
  BY <1>4, <1>5, <1>7 DEF NoBar

\* What the walk knows of an object that owns something.
OwnerFound(text, h, kind, path) ==
  /\ kind \in {"dictionary", "xrecord"} /\ IsText(path) /\ NoBar(path) /\ text = Under(kind, path)
  /\ \/ kind = "dictionary" /\ \E n \in DOMAIN tree.dictionaries :
                                 tree.dictionaries[n].handle = h /\ tree.dictionaries[n].path = path
     \/ kind = "xrecord" /\ \E n \in DOMAIN tree.xrecords : tree.xrecords[n].handle = h /\ tree.xrecords[n].path = path

LEMMA ObjectOwner ==
  ASSUME TreeNamed(tree), TreeApart(tree), NEW node, node.of = "object", OwnedBy(node) # NoPath
  PROVE  \E kind, path : OwnerFound(OwnedBy(node), node.handle, kind, path)
<1> DEFINE h == node.handle
<1>1. h \in DOMAIN tree.owners /\ OwnedBy(node) = tree.owners[h]
  BY Zenon DEF OwnedBy
<1>2. OwnerListed(tree, h)
  BY <1>1 DEF TreeNamed
<1>3. CASE \E n \in DOMAIN tree.dictionaries :
             tree.dictionaries[n].handle = h /\ tree.owners[h] = Under("dictionary", tree.dictionaries[n].path)
  <2>1. PICK n \in DOMAIN tree.dictionaries :
          tree.dictionaries[n].handle = h /\ tree.owners[h] = Under("dictionary", tree.dictionaries[n].path)
    BY <1>3
  <2>2. IsText(tree.dictionaries[n].path) /\ NoBar(tree.dictionaries[n].path)
    BY DEF TreeApart, PathKept
  <2>3. OwnerFound(OwnedBy(node), h, "dictionary", tree.dictionaries[n].path)
    BY <1>1, <2>1, <2>2 DEF OwnerFound
  <2> QED
    BY <2>3
<1>4. CASE \E n \in DOMAIN tree.xrecords :
             tree.xrecords[n].handle = h /\ tree.owners[h] = Under("xrecord", tree.xrecords[n].path)
  <2>1. PICK n \in DOMAIN tree.xrecords :
          tree.xrecords[n].handle = h /\ tree.owners[h] = Under("xrecord", tree.xrecords[n].path)
    BY <1>4
  <2>2. IsText(tree.xrecords[n].path) /\ NoBar(tree.xrecords[n].path)
    BY DEF TreeApart, TreeNamed
  <2>3. OwnerFound(OwnedBy(node), h, "xrecord", tree.xrecords[n].path)
    BY <1>1, <2>1, <2>2 DEF OwnerFound
  <2> QED
    BY <2>3
<1> QED
  BY <1>2, <1>3, <1>4 DEF OwnerListed

LEMMA FoundApart ==
  ASSUME TreeApart(tree), NEW text, NEW g, NEW h, NEW k, NEW p, OwnerFound(text, g, k, p), NEW l, NEW q,
         OwnerFound(text, h, l, q)
  PROVE  g = h
<1>1. k = l /\ p = q
  <2>1. k \in Pieces /\ l \in Pieces
    BY PathPieces DEF OwnerFound
  <2>2. IsText(p) /\ IsText(q) /\ Under(k, p) = Under(l, q)
    BY DEF OwnerFound
  <2> QED
    BY <2>1, <2>2, UnderApart
<1> QED
  BY <1>1 DEF OwnerFound, TreeApart, OncePathed

LEMMA PlaceOwner ==
  ASSUME IsDocument(doc), NEW node, IsNode(doc, node), PlainOwner(node), node.of # "object", OwnedBy(node) # NoPath
  PROVE  /\ OwnedBy(node) = OwnerPath(node)
         /\ IsText(OwnedBy(node)) /\ NoBar(OwnedBy(node)) /\ OwnedBy(node)[1] \in {"table", "layout"}
<1> DEFINE path == OwnerPath(node)
<1>1. OwnedBy(node) = path
  BY Zenon DEF OwnedBy
<1>2. path # NoPath
  BY <1>1
<1>3. OwnersPath(path)
  BY <1>2, OwnersApart
<1> HIDE DEF path
<1>4. IsText(path) /\ NoBar(path)
  BY <1>3, OwnersPathKept
<1>5. PICK name : LayoutPath(path, name) \/ \E kind : TablePath(path, kind, name)
  BY <1>3 DEF OwnersPath
<1>6. path[1] \in {"table", "layout"}
  <2>1. CASE LayoutPath(path, name)
    <3>1. IsText(name) /\ path = Under("layout", name) /\ "layout" \in Pieces
      BY <2>1, PathPieces DEF LayoutPath
    <3>2. path[1] = "layout"
      BY Zenon, <3>1, UnderIs
    <3> QED
      BY <3>2
  <2>2. CASE \E kind : TablePath(path, kind, name)
    <3>1. PICK kind : TablePath(path, kind, name)
      BY <2>2
    <3>2. IsText(name) /\ path = <<"table", "/", kind, "/">> \o name /\ kind \in TableKinds
      BY <3>1 DEF TablePath
    <3>3. path[1] = "table"
      BY <3>2, TableIs
    <3> QED
      BY <3>3
  <2> QED
    BY <1>5, <2>1, <2>2
<1> QED
  BY <1>1, <1>4, <1>6 DEF path

LEMMA OwnerKept ==
  ASSUME IsDocument(doc), TreeNamed(tree), TreeApart(tree), NEW node, IsNode(doc, node), PlainOwner(node),
         OwnedBy(node) # NoPath
  PROVE  /\ IsText(OwnedBy(node)) /\ NoBar(OwnedBy(node))
         /\ OwnedBy(node)[1] \in IF node.of = "object" THEN {"dictionary", "xrecord"} ELSE {"table", "layout"}
<1> DEFINE text == OwnedBy(node)
<1>1. CASE node.of = "object"
  <2>1. PICK kind, path : OwnerFound(text, node.handle, kind, path)
    BY <1>1, ObjectOwner
  <2>2. kind \in Pieces /\ kind # Bar /\ IsText(path) /\ NoBar(path) /\ text = Under(kind, path)
    BY <2>1, PathPieces, PlainPieces DEF OwnerFound
  <2>3. kind \in {"dictionary", "xrecord"}
    BY <2>1 DEF OwnerFound
  <2> HIDE DEF text
  <2>4. IsText(text) /\ NoBar(text) /\ text[1] = kind
    BY <2>2, UnderNoBar
  <2> QED
    BY <1>1, <2>3, <2>4 DEF text
<1>2. CASE node.of # "object"
  BY <1>2, PlaceOwner
<1> QED
  BY <1>1, <1>2

\* No two owners are named alike.
LEMMA OwnedByOne ==
  ASSUME IsDocument(doc), TreeNamed(tree), TreeApart(tree), NEW x, IsNode(doc, x), PlainOwner(x),
         NEW y, IsNode(doc, y), PlainOwner(y), OwnedBy(x) = OwnedBy(y), OwnedBy(x) # NoPath
  PROVE  x = y
<1>1. x.of = "object" <=> y.of = "object"
  <2>1. OwnedBy(x)[1] \in IF x.of = "object" THEN {"dictionary", "xrecord"} ELSE {"table", "layout"}
    BY OwnerKept
  <2>2. OwnedBy(y)[1] \in IF y.of = "object" THEN {"dictionary", "xrecord"} ELSE {"table", "layout"}
    BY OwnerKept
  <2> QED
    BY <2>1, <2>2
<1>2. CASE x.of = "object"
  <2>1. PICK k, p : OwnerFound(OwnedBy(x), x.handle, k, p)
    BY <1>2, ObjectOwner
  <2>2. PICK l, q : OwnerFound(OwnedBy(y), y.handle, l, q)
    BY <1>1, <1>2, ObjectOwner
  <2>3. x.handle = y.handle
    BY <2>1, <2>2, FoundApart
  <2>4. x = [of |-> "object", handle |-> x.handle] /\ y = [of |-> "object", handle |-> y.handle]
    BY Zenon, <1>1, <1>2 DEF IsNode
  <2> QED
    BY <2>3, <2>4
<1>3. CASE x.of # "object"
  <2>1. OwnerPath(x) = OwnerPath(y) /\ OwnerPath(x) # NoPath
    BY <1>1, <1>3, PlaceOwner
  <2> QED
    BY <2>1, OwnersApart
<1> QED
  BY <1>2, <1>3
=============================================================================
