-------------------------- MODULE Reconcile_proofs --------------------------
(***************************************************************************)
(* What the rows of a class table do to the findings, for any findings a   *)
(* comparison can give and any table: nothing is lost, nothing that is not *)
(* listed is excused, and the words of both judgements are earned.         *)
(***************************************************************************)
EXTENDS Reconcile, FiniteSetTheorems, SequenceTheorems, TLAPS

Disps == {"Open", "Known", "KnownMoved", "KnownVanished", "DualOracle"}

(* One finding and its disposition. *)

LEMMA WithFacts ==
  ASSUME NEW f \in Finding, NEW d \in Disps
  PROVE  /\ With(f, d) \in Finding /\ With(f, d).disp = d
         /\ With(f, d).what = f.what /\ With(f, d).ia = f.ia /\ With(f, d).ib = f.ib
         /\ With(f, d).kind = f.kind /\ With(f, d).field = f.field /\ With(f, d).val = f.val
         /\ With(With(f, d), "Open") = With(f, "Open")
         /\ f.disp = d => With(f, d) = f
BY DEF Finding, With, Disps

LEMMA SameButDisp ==
  ASSUME NEW f \in Finding, NEW g \in Finding, With(f, "Open") = With(g, "Open"), f.disp = g.disp
  PROVE  f = g
<1>1. With(With(f, "Open"), f.disp) = f /\ With(With(g, "Open"), g.disp) = g
  BY DEF Finding, With
<1> QED
  BY <1>1

(* The rows that were looked at. *)

Rowed ==
  /\ table \in Seq(Row) /\ todo \in Seq(Row) /\ Len(todo) <= Len(table)
  /\ \A n \in 1 .. Len(todo) : todo[n] = table[Len(table) - Len(todo) + n]
  /\ \A n \in 1 .. Len(table) : \A m \in 1 .. n : table[m].stage <= table[n].stage

LEMMA RowTaken ==
  ASSUME Rowed, todo # <<>>, todo' = Tail(todo), table' = table
  PROVE  /\ Rowed' /\ Head(todo) \in Row
         /\ RowsSeen' = RowsSeen \cup {Head(todo)}
         /\ \A row \in RowsSeen : row.stage <= Head(todo).stage
<1> DEFINE k == Len(todo)
           last == Len(table)
           seen == last - k
<1>1. /\ k \in Nat /\ last \in Nat /\ k <= last /\ k > 0
      /\ Head(todo) = todo[1] /\ Head(todo) \in Row
      /\ Tail(todo) \in Seq(Row) /\ Len(Tail(todo)) = k - 1
      /\ \A n \in 1 .. (k - 1) : Tail(todo)[n] = todo[n + 1]
  BY EmptySeq, LenProperties, HeadTailProperties DEF Rowed
<1>2. todo[1] = table[seen + 1]
  BY <1>1 DEF Rowed
<1>3. \A n \in 1 .. k : todo[n] = table[seen + n]
  BY DEF Rowed
<1>4. Rowed'
  <2>1. ASSUME NEW n \in 1 .. (k - 1) PROVE Tail(todo)[n] = table[last - (k - 1) + n]
    <3>1. n + 1 \in 1 .. k /\ last - (k - 1) + n = seen + (n + 1) /\ Tail(todo)[n] = todo[n + 1]
      BY <1>1
    <3> QED
      BY <3>1, <1>3
  <2> QED
    BY <1>1, <2>1 DEF Rowed
<1>5. RowsSeen = {table[n] : n \in 1 .. seen}
  BY DEF RowsSeen
<1>6. RowsSeen' = {table[n] : n \in 1 .. (seen + 1)}
  <2>1. last - (k - 1) = seen + 1
    BY <1>1
  <2> QED
    BY <1>1, <2>1 DEF RowsSeen
<1>7. 1 .. (seen + 1) = (1 .. seen) \cup {seen + 1}
  BY <1>1
<1>8. RowsSeen' = RowsSeen \cup {Head(todo)}
  <2> HIDE DEF seen
  <2> QED
    BY <1>1, <1>2, <1>5, <1>6, <1>7
<1>9. ASSUME NEW n \in 1 .. seen PROVE table[n].stage <= Head(todo).stage
  <2>1. seen + 1 \in 1 .. last /\ n \in 1 .. (seen + 1)
    BY <1>1
  <2> QED
    BY <2>1, <1>1, <1>2 DEF Rowed
<1> QED
  BY <1>1, <1>4, <1>5, <1>8, <1>9

LEMMA Stages ==
  ASSUME NEW row \in Row
  PROVE  /\ row.stage \in 1 .. 4
         /\ row.stage = 1 => row \in KnownRow
         /\ row.stage = 2 => row \in MissingRow
         /\ row.stage = 3 => row \in RecordsRow
         /\ row.stage = 4 => row \in DualRow
BY DEF Row, KnownRow, MissingRow, RecordsRow, DualRow

(* What a row takes is changed in place, and what it does not find is added. *)

Vanished(f) == f.what = "StaleKnownRow" /\ f.disp = "KnownVanished"

Kept ==
  /\ findings \subseteq Finding /\ IsFiniteSet(findings)
  /\ met \subseteq Finding /\ IsFiniteSet(met)
  /\ \A f \in findings : f.what = "StaleKnownRow" => Vanished(f)
  /\ DifferencesAreKept

LEMMA SettlingKeeps ==
  ASSUME Kept, met' = met, NEW hit \in SUBSET findings, \A f \in hit : f.what # "StaleKnownRow",
         NEW d \in [hit -> Disps],
         NEW gone \in SUBSET Finding, IsFiniteSet(gone), \A f \in gone : Vanished(f),
         findings' = (findings \ hit) \cup {With(f, d[f]) : f \in hit} \cup gone
  PROVE  Kept'
<1> DEFINE settled == {With(f, d[f]) : f \in hit}
           old == {g \in findings : g.what # "StaleKnownRow"}
           new == {g \in findings' : g.what # "StaleKnownRow"}
<1>1. findings \subseteq Finding /\ IsFiniteSet(findings)
  BY DEF Kept
<1>2. \A f \in hit : f \in Finding /\ d[f] \in Disps
  BY <1>1
<1>3. \A f \in hit : /\ With(f, d[f]) \in Finding /\ With(f, d[f]).what = f.what
                     /\ With(With(f, d[f]), "Open") = With(f, "Open")
  BY <1>2, WithFacts
<1>4. settled \subseteq Finding
  BY <1>3
<1>5. IsFiniteSet(settled)
  <2> DEFINE m == [f \in hit |-> With(f, d[f])]
  <2>1. m \in Surjection(hit, settled)
    BY DEF Surjection
  <2>2. IsFiniteSet(hit)
    BY <1>1, FS_Subset
  <2> HIDE DEF m, settled
  <2> QED
    BY <2>1, <2>2, FS_Surjection
<1>6. IsFiniteSet(findings') /\ findings' \subseteq Finding
  <2> HIDE DEF settled
  <2>1. findings' = (findings \ hit) \cup settled \cup gone
    BY DEF settled
  <2>2. IsFiniteSet(findings \ hit)
    BY <1>1, FS_Subset
  <2>3. IsFiniteSet((findings \ hit) \cup settled)
    BY <2>2, <1>5, FS_Union
  <2>4. IsFiniteSet((findings \ hit) \cup settled \cup gone)
    BY <2>3, FS_Union
  <2> QED
    BY <2>1, <2>4, <1>1, <1>4
<1>7. \A f \in findings' : f.what = "StaleKnownRow" => Vanished(f)
  BY <1>3 DEF Kept
<1>8. DifferencesAreKept'
  <2>1. met = {With(g, "Open") : g \in old}
    BY DEF Kept, DifferencesAreKept
  <2>2. ASSUME NEW g \in old PROVE \E h \in new : With(h, "Open") = With(g, "Open")
    <3>1. CASE g \in hit
      <4>1. With(g, d[g]) \in new
        BY <1>3, <3>1
      <4> QED
        BY <4>1, <1>3, <3>1
    <3>2. CASE g \notin hit
      BY <3>2
    <3> QED
      BY <3>1, <3>2
  <2>3. ASSUME NEW h \in new PROVE \E g \in old : With(h, "Open") = With(g, "Open")
    <3>1. h \in findings \ hit \/ \E f \in hit : h = With(f, d[f])
      BY DEF Vanished
    <3>2. CASE h \in findings \ hit
      BY <3>2
    <3>3. ASSUME NEW f \in hit, h = With(f, d[f]) PROVE \E g \in old : With(h, "Open") = With(g, "Open")
      <4>1. f \in old /\ With(h, "Open") = With(f, "Open")
        BY <3>3, <1>3
      <4> QED
        BY <4>1
    <3> QED
      BY <3>1, <3>2, <3>3
  <2>4. met = {With(h, "Open") : h \in new}
    <3> HIDE DEF old, new
    <3> QED
      BY <2>1, <2>2, <2>3
  <2>5. \A f, g \in findings : With(f, "Open") = With(g, "Open") => f = g
    BY DEF Kept, DifferencesAreKept
  <2>6. ASSUME NEW f \in findings', NEW g \in findings', With(f, "Open") = With(g, "Open")
        PROVE  f = g
    <3>1. f \in Finding /\ g \in Finding /\ f.what = g.what
      <4>1. f \in Finding /\ g \in Finding
        BY <1>6
      <4>2. "Open" \in Disps
        BY DEF Disps
      <4>3. With(f, "Open").what = f.what /\ With(g, "Open").what = g.what
        BY <4>1, <4>2, WithFacts
      <4> QED
        BY <4>1, <4>3, <2>6
    <3>2. CASE f.what = "StaleKnownRow"
      <4>1. f.disp = g.disp
        BY <3>1, <3>2, <1>7 DEF Vanished
      <4> QED
        BY <4>1, <3>1, <2>6, SameButDisp
    <3>3. CASE f.what # "StaleKnownRow"
      <4>1. PICK f0 \in findings : /\ With(f0, "Open") = With(f, "Open")
                                   /\ (f0 \in hit /\ f = With(f0, d[f0])) \/ (f0 \notin hit /\ f = f0)
        BY <3>3, <1>3 DEF Vanished
      <4>2. PICK g0 \in findings : /\ With(g0, "Open") = With(g, "Open")
                                   /\ (g0 \in hit /\ g = With(g0, d[g0])) \/ (g0 \notin hit /\ g = g0)
        BY <3>1, <3>3, <1>3 DEF Vanished
      <4>3. f0 = g0
        BY <4>1, <4>2, <2>5, <2>6
      <4> QED
        BY <4>1, <4>2, <4>3
    <3> QED
      BY <3>2, <3>3
  <2> QED
    BY <2>4, <2>6 DEF DifferencesAreKept
<1> QED
  BY <1>6, <1>7, <1>8 DEF Kept

(* The invariant: what a row has taken is accounted for by a row. *)

CountSeen(f) == \E row \in RowsSeen : row.stage = 3 /\ f.what = row.side /\ f.kind = row.kind

\* What a count is of.
Counted(f) == {m \in met : m.what = f.what /\ m.kind = f.kind /\ ~ListsMissing(m)}

IsStray(f) == f.what \in {"OnlyInA", "OnlyInB"}

\* A stray is open for as long as no row that was looked at takes it.
Strays == \A f \in findings : IsStray(f) => (f.disp = "Open" <=> ~ListsMissing(f) /\ ~CountSeen(f))

Excused ==
  \A f \in findings :
    /\ f.disp = "Known" => ListsKnown(f) \/ ListsMissing(f) \/ ListsCount(f)
    /\ f.disp = "DualOracle" => ListsDual(f)

Marked == (\E row \in RowsSeen : row.stage # 4) => findings # {}

Reconciled == Rowed /\ Kept /\ Strays /\ Excused /\ Marked

\* Rows of one stage leave alone what the rows of another list.
LEMMA OtherStages ==
  ASSUME Reconciled, NEW row, RowsSeen' = RowsSeen \cup {row}, met' = met,
         \A r \in RowsSeen : r.stage <= row.stage, row.stage \in 1 .. 4
  PROVE  /\ \A f : ListsKnown(f) => ListsKnown(f)'
         /\ \A f : ListsMissing(f) => ListsMissing(f)'
         /\ \A f : ListsDual(f) => ListsDual(f)'
         /\ \A f : CountSeen(f) => CountSeen(f)'
         /\ row.stage # 2 => \A f : ListsMissing(f)' => ListsMissing(f)
         /\ row.stage # 3 => \A f : CountSeen(f)' => CountSeen(f)
         /\ \A f : ListsCount(f) => ListsCount(f)'
<1>1. \A f : ListsKnown(f) => ListsKnown(f)'
  BY DEF ListsKnown
<1>2. \A f : ListsMissing(f) => ListsMissing(f)'
  BY DEF ListsMissing
<1>3. \A f : ListsDual(f) => ListsDual(f)'
  BY DEF ListsDual
<1>4. \A f : CountSeen(f) => CountSeen(f)'
  BY DEF CountSeen
<1>5. row.stage # 2 => \A f : ListsMissing(f)' => ListsMissing(f)
  BY DEF ListsMissing
<1>6. row.stage # 3 => \A f : CountSeen(f)' => CountSeen(f)
  BY DEF CountSeen
<1>7. ASSUME NEW f, ListsCount(f) PROVE ListsCount(f)'
  <2>1. PICK r \in RowsSeen : /\ r.stage = 3 /\ f.what = r.side /\ f.kind = r.kind
                             /\ r.count = Cardinality(Counted(f))
    BY <1>7 DEF ListsCount, Counted
  <2>2. row.stage # 2
    <3>1. 3 <= row.stage
      BY <2>1
    <3> QED
      BY <3>1
  <2>3. Counted(f)' = Counted(f)
    <3>1. \A m : ListsMissing(m)' <=> ListsMissing(m)
      BY <2>2, <1>2, <1>5
    <3> QED
      BY <3>1 DEF Counted
  <2> QED
    BY <2>1, <2>3 DEF ListsCount, Counted
<1> QED
  BY <1>1, <1>2, <1>3, <1>4, <1>5, <1>6, <1>7

\* A step that takes some findings, each to a disposition its row stands for.
LEMMA RowApplied ==
  ASSUME Reconciled, todo # <<>>, todo' = Tail(todo), table' = table, met' = met,
         NEW row, row = Head(todo),
         NEW hit \in SUBSET findings, \A f \in hit : f.what # "StaleKnownRow",
         NEW d \in [hit -> Disps],
         NEW gone \in SUBSET Finding, IsFiniteSet(gone), \A f \in gone : Vanished(f),
         findings' = (findings \ hit) \cup {With(f, d[f]) : f \in hit} \cup gone,
         row.stage # 4 => hit # {} \/ gone # {},
         \A f \in findings : f \in hit /\ IsStray(f) => d[f] # "Open" /\ (ListsMissing(f)' \/ CountSeen(f)'),
         \A f \in findings : f \notin hit /\ f.disp = "Open" /\ IsStray(f) =>
           ~ListsMissing(f)' /\ ~CountSeen(f)',
         \A f \in hit : d[f] = "Known" => ListsKnown(f)' \/ ListsMissing(f)' \/ ListsCount(f)',
         \A f \in hit : d[f] = "DualOracle" => ListsDual(f)'
  PROVE  Reconciled'
<1>1. /\ Rowed' /\ row \in Row /\ RowsSeen' = RowsSeen \cup {row}
      /\ \A r \in RowsSeen : r.stage <= row.stage
  BY RowTaken DEF Reconciled
<1>2. Kept'
  BY SettlingKeeps DEF Reconciled
<1>3. row.stage \in 1 .. 4
  BY <1>1, Stages
<1>4. findings \subseteq Finding
  BY DEF Reconciled, Kept
<1>5. ASSUME NEW g \in findings'
      PROVE  \/ g \in findings \ hit
             \/ Vanished(g)
             \/ \E f \in hit : /\ g.disp = d[f] /\ g.what = f.what /\ g.ia = f.ia
                               /\ g.kind = f.kind /\ g.field = f.field /\ g.val = f.val
  <2>1. \A f \in hit : f \in Finding /\ d[f] \in Disps
    BY <1>4
  <2>2. CASE g \in gone
    BY <2>2
  <2>3. ASSUME NEW f \in hit, g = With(f, d[f])
        PROVE  /\ g.disp = d[f] /\ g.what = f.what /\ g.ia = f.ia
               /\ g.kind = f.kind /\ g.field = f.field /\ g.val = f.val
    BY <2>1, <2>3, WithFacts
  <2> QED
    BY <2>2, <2>3
<1>6. ASSUME NEW f, NEW g, g.what = f.what, g.ia = f.ia, g.kind = f.kind, g.field = f.field, g.val = f.val
      PROVE  /\ ListsKnown(f)' <=> ListsKnown(g)'
             /\ ListsMissing(f)' <=> ListsMissing(g)'
             /\ ListsDual(f)' <=> ListsDual(g)'
             /\ CountSeen(f)' <=> CountSeen(g)'
             /\ ListsCount(f)' <=> ListsCount(g)'
  <2>1. Counted(f)' = Counted(g)'
    BY <1>6 DEF Counted
  <2> QED
    BY <1>6, <2>1 DEF ListsKnown, OnKnown, ListsMissing, ListsDual, CountSeen, ListsCount, Counted
<1>7. /\ \A f : ListsKnown(f) => ListsKnown(f)'
      /\ \A f : ListsMissing(f) => ListsMissing(f)'
      /\ \A f : ListsDual(f) => ListsDual(f)'
      /\ \A f : CountSeen(f) => CountSeen(f)'
      /\ \A f : ListsCount(f) => ListsCount(f)'
  BY <1>1, <1>3, OtherStages
<1>8. Strays'
  <2> SUFFICES ASSUME NEW g \in findings', IsStray(g)
               PROVE  g.disp = "Open" <=> ~ListsMissing(g)' /\ ~CountSeen(g)'
    BY DEF Strays, IsStray
  <2>1. CASE g \in findings \ hit
    BY <2>1, <1>7 DEF Reconciled, Strays
  <2>2. ~Vanished(g)
    BY DEF Vanished, IsStray
  <2>3. ASSUME NEW f \in hit, g.disp = d[f], g.what = f.what, g.ia = f.ia, g.kind = f.kind,
               g.field = f.field, g.val = f.val
        PROVE  g.disp = "Open" <=> ~ListsMissing(g)' /\ ~CountSeen(g)'
    <3>1. IsStray(f)
      BY <2>3 DEF IsStray
    <3> QED
      BY <2>3, <3>1, <1>6
  <2> QED
    BY <2>1, <2>2, <2>3, <1>5
<1>9. Excused'
  <2> SUFFICES ASSUME NEW g \in findings'
               PROVE  /\ g.disp = "Known" => ListsKnown(g)' \/ ListsMissing(g)' \/ ListsCount(g)'
                      /\ g.disp = "DualOracle" => ListsDual(g)'
    BY DEF Excused
  <2>1. CASE g \in findings \ hit
    BY <2>1, <1>7 DEF Reconciled, Excused
  <2>2. CASE Vanished(g)
    BY <2>2 DEF Vanished
  <2>3. ASSUME NEW f \in hit, g.disp = d[f], g.what = f.what, g.ia = f.ia, g.kind = f.kind,
               g.field = f.field, g.val = f.val
        PROVE  /\ g.disp = "Known" => ListsKnown(g)' \/ ListsMissing(g)' \/ ListsCount(g)'
               /\ g.disp = "DualOracle" => ListsDual(g)'
    BY <2>3, <1>6
  <2> QED
    BY <2>1, <2>2, <2>3, <1>5
<1>10. Marked'
  <2>1. hit # {} \/ gone # {} => findings' # {}
    <3>1. \A f \in hit : With(f, d[f]) \in findings'
      OBVIOUS
    <3>2. \A f \in gone : f \in findings'
      OBVIOUS
    <3> QED
      BY <3>1, <3>2
  <2>2. findings # {} => findings' # {}
    BY <2>1
  <2> QED
    BY <2>1, <2>2, <1>1 DEF Reconciled, Marked
<1> QED
  BY <1>1, <1>2, <1>8, <1>9, <1>10 DEF Reconciled

-----------------------------------------------------------------------------
(* A row that was looked at still holds or shows, whatever comes after it. *)

KnownHeld(r) ==
  \/ \E f \in findings : OnKnown(r, f) /\ f.val = r.val /\ f.disp = "Known"
  \/ /\ \/ \A f \in findings : ~OnKnown(r, f)
        \/ \E f \in findings : OnKnown(r, f) /\ f.val # r.val
     /\ \E f \in findings : /\ f.kind = r.kind /\ f.field = r.field
                            /\ Vanished(f) \/ (OnKnown(r, f) /\ f.disp = "KnownMoved")

MissingHeld(r) ==
  \A x \in r.at : \E f \in findings :
    /\ f.ia = x
    /\ Vanished(f) \/ (f.what = "OnlyInA" /\ f.kind = r.kind /\ f.disp = "Known")

CountHeld(r) ==
  \/ \E f \in findings : /\ f.kind = r.kind
                         /\ Vanished(f) \/ (f.what = r.side /\ f.disp = "KnownMoved")
  \/ r.count = Cardinality({f \in Knowns : f.what = r.side /\ f.kind = r.kind /\ ~ListsMissing(f)})

Held ==
  \A r \in RowsSeen :
    /\ r.stage = 1 /\ ListedOnce(r) => KnownHeld(r)
    /\ r.stage = 2 => MissingHeld(r)
    /\ r.stage = 3 => CountHeld(r)

\* A table that lists a field of a record once has no second row about it.
LEMMA NoSecondRow ==
  ASSUME Rowed, todo # <<>>, NEW r \in RowsSeen, r.stage = 1, ListedOnce(r), Head(todo).stage = 1
  PROVE  ~(/\ r.kind = Head(todo).kind /\ r.field = Head(todo).field
           /\ Names(r) \cap Names(Head(todo)) # {})
<1> SUFFICES ASSUME r.kind = Head(todo).kind, r.field = Head(todo).field,
                    Names(r) \cap Names(Head(todo)) # {}
             PROVE  FALSE
  OBVIOUS
<1> DEFINE last == Len(table)
           seen == last - Len(todo)
           same == {n \in 1 .. last : table[n].stage = 1 /\ table[n].kind = r.kind
                                      /\ table[n].field = r.field
                                      /\ Names(table[n]) \cap Names(r) # {}}
<1>1. /\ Len(todo) \in Nat /\ last \in Nat /\ Len(todo) <= last /\ Len(todo) > 0
      /\ Head(todo) = todo[1]
  BY EmptySeq, LenProperties, HeadTailProperties DEF Rowed
<1>2. Head(todo) = table[seen + 1]
  BY <1>1 DEF Rowed
<1>3. PICK n \in 1 .. seen : r = table[n]
  BY DEF RowsSeen
<1>4. n \in same
  BY <1>1, <1>3
<1>5. seen + 1 \in same /\ n # seen + 1
  BY <1>1, <1>2, <1>3
<1>6. \A m, k \in same : m = k
  BY DEF ListedOnce
<1> QED
  BY <1>4, <1>5, <1>6

LEMMA HeldApplied ==
  ASSUME Reconciled, Held, todo # <<>>, todo' = Tail(todo), table' = table, met' = met,
         NEW row, row = Head(todo),
         NEW hit \in SUBSET findings, \A f \in hit : f.what # "StaleKnownRow",
         NEW d \in [hit -> Disps],
         NEW gone \in SUBSET Finding, IsFiniteSet(gone), \A f \in gone : Vanished(f),
         findings' = (findings \ hit) \cup {With(f, d[f]) : f \in hit} \cup gone,
         \A f \in hit : f.disp = "Open" \/ (row.stage = 1 /\ OnKnown(row, f)),
         row.stage = 1 => KnownHeld(row)',
         row.stage = 2 => MissingHeld(row)',
         row.stage = 3 => CountHeld(row)'
  PROVE  Held'
<1>1. /\ row \in Row /\ RowsSeen' = RowsSeen \cup {row}
      /\ \A r \in RowsSeen : r.stage <= row.stage
  BY RowTaken DEF Reconciled
<1>2. row.stage \in 1 .. 4
  BY <1>1, Stages
<1>3. findings \subseteq Finding
  BY DEF Reconciled, Kept
<1>4. \A r : ListedOnce(r)' <=> ListedOnce(r)
  BY DEF ListedOnce
<1>5. ASSUME NEW g \in findings'
      PROVE  \/ g \in findings \ hit
             \/ Vanished(g)
             \/ \E f \in hit : /\ g.disp = d[f] /\ g.what = f.what /\ g.ia = f.ia
                               /\ g.kind = f.kind /\ g.field = f.field /\ g.val = f.val
  <2>1. \A f \in hit : f \in Finding /\ d[f] \in Disps
    BY <1>3
  <2>2. CASE g \in gone
    BY <2>2
  <2>3. ASSUME NEW f \in hit, g = With(f, d[f])
        PROVE  /\ g.disp = d[f] /\ g.what = f.what /\ g.ia = f.ia
               /\ g.kind = f.kind /\ g.field = f.field /\ g.val = f.val
    BY <2>1, <2>3, WithFacts
  <2> QED
    BY <2>2, <2>3
<1>6. \A f \in findings : f \notin hit => f \in findings'
  OBVIOUS
<1>7. ASSUME NEW r \in RowsSeen, r.stage = 1, ListedOnce(r) PROVE KnownHeld(r)'
  <2>1. KnownHeld(r)
    BY <1>7 DEF Held
  <2>2. \A f \in hit : OnKnown(r, f) => f.disp = "Open"
    BY <1>7, NoSecondRow DEF Reconciled, OnKnown
  <2>3. CASE \E f \in findings : OnKnown(r, f) /\ f.val = r.val /\ f.disp = "Known"
    BY <2>2, <2>3, <1>6 DEF KnownHeld
  <2>4. ASSUME \/ \A g \in findings : ~OnKnown(r, g)
               \/ \E g \in findings : OnKnown(r, g) /\ g.val # r.val,
               NEW f \in findings, f.kind = r.kind, f.field = r.field,
               Vanished(f) \/ (OnKnown(r, f) /\ f.disp = "KnownMoved")
        PROVE  KnownHeld(r)'
    <3>1. f \in findings'
      BY <2>2, <2>4, <1>6 DEF Vanished
    <3>2. CASE \A g \in findings : ~OnKnown(r, g)
      <4>1. ASSUME NEW g \in findings', OnKnown(r, g) PROVE FALSE
        <5>1. ~Vanished(g)
          BY <4>1 DEF OnKnown, Vanished
        <5> QED
          BY <5>1, <4>1, <3>2, <1>5 DEF OnKnown
      <4> QED
        BY <3>1, <4>1, <2>4 DEF KnownHeld
    <3>3. ASSUME NEW g \in findings, OnKnown(r, g), g.val # r.val PROVE KnownHeld(r)'
      <4>1. \E h \in findings' : OnKnown(r, h) /\ h.val # r.val
        <5>1. CASE g \notin hit
          BY <5>1, <3>3, <1>6
        <5>2. CASE g \in hit
          <6>1. With(g, d[g]) \in findings' /\ g \in Finding /\ d[g] \in Disps
            BY <5>2, <1>3
          <6>2. OnKnown(r, With(g, d[g])) /\ With(g, d[g]).val # r.val
            BY <6>1, <3>3, WithFacts DEF OnKnown
          <6> QED
            BY <6>1, <6>2
        <5> QED
          BY <5>1, <5>2
      <4> QED
        BY <3>1, <4>1, <2>4 DEF KnownHeld
    <3> QED
      BY <3>2, <3>3, <2>4
  <2> QED
    BY <2>1, <2>3, <2>4 DEF KnownHeld
<1>8. ASSUME NEW r \in RowsSeen, r.stage = 2 PROVE MissingHeld(r)'
  <2>1. \A f \in hit : ~Vanished(f) /\ (f.what = "OnlyInA" => f.disp = "Open")
    BY DEF Vanished, OnKnown
  <2> SUFFICES ASSUME NEW x \in r.at
               PROVE  \E f \in findings' :
                        /\ f.ia = x
                        /\ Vanished(f) \/ (f.what = "OnlyInA" /\ f.kind = r.kind /\ f.disp = "Known")
    BY DEF MissingHeld
  <2>2. PICK f \in findings :
          /\ f.ia = x
          /\ Vanished(f) \/ (f.what = "OnlyInA" /\ f.kind = r.kind /\ f.disp = "Known")
    BY <1>8 DEF Held, MissingHeld
  <2> QED
    BY <2>1, <2>2, <1>6
<1>9. ASSUME NEW r \in RowsSeen, r.stage = 3 PROVE CountHeld(r)'
  <2> DEFINE its == {f \in Knowns : f.what = r.side /\ f.kind = r.kind /\ ~ListsMissing(f)}
  <2>1. r.side \in {"OnlyInA", "OnlyInB"}
    <3>1. r \in Row
      <4>1. \A n \in 1 .. Len(table) : table[n] \in Row
        BY ElementOfSeq DEF Reconciled, Rowed
      <4>2. Len(table) \in Nat /\ Len(todo) \in Nat
        BY LenProperties DEF Reconciled, Rowed
      <4> QED
        BY <4>1, <4>2 DEF RowsSeen
    <3> QED
      BY <3>1, <1>9, Stages DEF RecordsRow
  <2>2. \A f \in hit : ~(f.what = r.side /\ f.kind = r.kind)
    <3> SUFFICES ASSUME NEW f \in hit, f.what = r.side, f.kind = r.kind PROVE FALSE
      OBVIOUS
    <3>1. f.disp = "Open" /\ IsStray(f)
      BY <2>1 DEF OnKnown, IsStray
    <3>2. CountSeen(f)
      BY <1>9 DEF CountSeen
    <3> QED
      BY <3>1, <3>2 DEF Reconciled, Strays
  <2>3. \A f : ListsMissing(f)' <=> ListsMissing(f)
    <3>1. row.stage # 2
      <4>1. 3 <= row.stage
        BY <1>1, <1>9
      <4> QED
        BY <4>1
    <3> QED
      BY <3>1, <1>1, <1>2, OtherStages
  <2>4. its' = its
    <3>1. ASSUME NEW f \in its PROVE f \in its'
      BY <3>1, <2>2, <2>3, <1>6 DEF Knowns
    <3>2. ASSUME NEW f \in its' PROVE f \in its
      <4>1. f \in findings' /\ f.disp = "Known" /\ f.what = r.side /\ f.kind = r.kind /\ ~ListsMissing(f)
        BY <2>3 DEF Knowns
      <4>2. ~Vanished(f)
        BY <4>1 DEF Vanished
      <4>3. f \in findings \ hit
        BY <4>1, <4>2, <2>2, <1>5
      <4> QED
        BY <4>1, <4>3 DEF Knowns
    <3> QED
      BY <3>1, <3>2
  <2>5. CASE r.count = Cardinality(its)
    <3>1. r.count = Cardinality(its')
      BY <2>4, <2>5
    <3> QED
      BY <3>1 DEF CountHeld
  <2>6. ASSUME NEW f \in findings, f.kind = r.kind,
               Vanished(f) \/ (f.what = r.side /\ f.disp = "KnownMoved")
        PROVE  CountHeld(r)'
    <3>1. f \in findings'
      BY <2>2, <2>6, <1>6 DEF Vanished
    <3> QED
      BY <3>1, <2>6 DEF CountHeld
  <2> QED
    BY <2>5, <2>6, <1>9 DEF Held, CountHeld
<1> QED
  BY <1>1, <1>4, <1>7, <1>8, <1>9 DEF Held

-----------------------------------------------------------------------------
(* The rows, one kind after the other. *)

LEMMA StaleFacts ==
  ASSUME NEW ia \in Index \cup {None}, NEW kind \in Kind, NEW field \in Field \cup {None},
         NEW val \in Value \cup {None}
  PROVE  /\ Stale(ia, kind, field, val) \in Finding /\ Vanished(Stale(ia, kind, field, val))
         /\ Stale(ia, kind, field, val).ia = ia /\ Stale(ia, kind, field, val).kind = kind
         /\ Stale(ia, kind, field, val).field = field /\ Stale(ia, kind, field, val).val = val
BY DEF Stale, Finding, Vanished

LEMMA KnownRowKeeps ==
  ASSUME Reconciled, Held, ReconcileKnown, NEW row, row = Head(todo)
  PROVE  Reconciled' /\ Held'
<1> DEFINE all == {f \in findings : OnKnown(row, f)}
           stale == Stale(IF row.by = "index" THEN row.key ELSE None, row.kind, row.field, row.val)
<1>1. /\ todo # <<>> /\ row.stage = 1 /\ todo' = Tail(todo) /\ table' = table /\ met' = met
      /\ \E hit \in SUBSET all :
           /\ hit = {} <=> all = {}
           /\ findings' = (findings \ hit)
                            \cup (IF hit = {} THEN {stale} ELSE {With(f, KnownDisp(row, f)) : f \in hit})
           /\ \A f, g \in hit : f = g
  <2>1. /\ todo # <<>> /\ row.stage = 1 /\ todo' = Tail(todo) /\ table' = table /\ met' = met
        /\ \/ all = {} /\ findings' = (findings \ {}) \cup {stale}
           \/ \E f \in all : findings' = (findings \ {f}) \cup {With(f, KnownDisp(row, f))}
    BY DEF ReconcileKnown, Settle
  <2> HIDE DEF all, stale
  <2>2. CASE all = {} /\ findings' = (findings \ {}) \cup {stale}
    BY <2>1, <2>2
  <2>3. ASSUME NEW f \in all, findings' = (findings \ {f}) \cup {With(f, KnownDisp(row, f))}
        PROVE  \E hit \in SUBSET all :
                 /\ hit = {} <=> all = {}
                 /\ findings' = (findings \ hit)
                      \cup (IF hit = {} THEN {stale} ELSE {With(g, KnownDisp(row, g)) : g \in hit})
                 /\ \A g, h \in hit : g = h
    <3>1. {With(g, KnownDisp(row, g)) : g \in {f}} = {With(f, KnownDisp(row, f))}
      OBVIOUS
    <3>2. {f} \in SUBSET all /\ {f} # {} /\ all # {} /\ \A g, h \in {f} : g = h
      OBVIOUS
    <3> QED
      BY <3>1, <3>2, <2>3
  <2> QED
    BY <2>1, <2>2, <2>3
<1>19. PICK hit \in SUBSET all :
         /\ hit = {} <=> all = {}
         /\ findings' = (findings \ hit)
                          \cup (IF hit = {} THEN {stale} ELSE {With(f, KnownDisp(row, f)) : f \in hit})
         /\ \A f, g \in hit : f = g
  BY <1>1
<1>20. \A f \in hit : f \in findings /\ OnKnown(row, f)
  BY <1>19
<1> DEFINE d == [f \in hit |-> KnownDisp(row, f)]
           gone == IF hit = {} THEN {stale} ELSE {}
<1>2. findings' = (findings \ hit) \cup {With(f, d[f]) : f \in hit} \cup gone
  BY <1>19
<1>3. /\ row \in KnownRow /\ RowsSeen' = RowsSeen \cup {row}
      /\ \A r \in RowsSeen : r.stage <= row.stage
  BY <1>1, RowTaken, Stages DEF Reconciled
<1>4. d \in [hit -> Disps]
  BY DEF KnownDisp, Disps
<1>5. \A f \in hit : f.what = "FieldMismatch"
  BY <1>20 DEF OnKnown
<1>6. gone \in SUBSET Finding /\ IsFiniteSet(gone) /\ \A f \in gone : Vanished(f)
  <2>1. /\ (row.by = "index" => row.key \in Index) /\ row.kind \in Kind /\ row.field \in Field /\ row.val \in Value
    BY <1>3 DEF KnownRow
  <2>2. stale \in Finding /\ Vanished(stale)
    BY <2>1, StaleFacts
  <2> HIDE DEF stale
  <2> QED
    BY <2>2, FS_Singleton, FS_EmptySet
<1>7. hit # {} \/ gone # {}
  OBVIOUS
<1>8. ASSUME NEW f \in findings, f.disp = "Open", IsStray(f) PROVE ~ListsMissing(f)' /\ ~CountSeen(f)'
  <2>1. ~ListsMissing(f) /\ ~CountSeen(f)
    BY <1>8 DEF Reconciled, Strays
  <2> QED
    BY <2>1, <1>1, <1>3, OtherStages
<1>9. ASSUME NEW f \in hit, d[f] = "Known" PROVE ListsKnown(f)'
  <2>1. f.val = row.val
    BY <1>9 DEF KnownDisp
  <2> QED
    BY <2>1, <1>3, <1>20 DEF ListsKnown
<1>10. \A f \in hit : d[f] # "DualOracle"
  BY DEF KnownDisp
<1>13. KnownHeld(row)'
  <2>1. CASE hit = {}
    <3>1. /\ (row.by = "index" => row.key \in Index) /\ row.kind \in Kind /\ row.field \in Field /\ row.val \in Value
      BY <1>3 DEF KnownRow
    <3>2. Vanished(stale) /\ stale.kind = row.kind /\ stale.field = row.field
      <4>1. (IF row.by = "index" THEN row.key ELSE None) \in Index \cup {None}
        BY <3>1
      <4>2. ASSUME NEW ia \in Index \cup {None}
            PROVE  /\ Vanished(Stale(ia, row.kind, row.field, row.val))
                   /\ Stale(ia, row.kind, row.field, row.val).kind = row.kind
                   /\ Stale(ia, row.kind, row.field, row.val).field = row.field
        BY DEF Stale, Vanished
      <4> QED
        BY <4>1, <4>2
    <3>3. \A f \in findings' : f \in findings \/ f = stale
      BY <1>19, <2>1
    <3>4. stale \in findings'
      BY <1>19, <2>1
    <3> HIDE DEF stale
    <3>5. \A f \in findings' : ~OnKnown(row, f)
      BY <3>2, <3>3, <2>1, <1>19 DEF OnKnown, Vanished
    <3> QED
      BY <3>2, <3>4, <3>5 DEF KnownHeld
  <2>2. CASE hit # {}
    <3>1. \A g \in hit : With(g, KnownDisp(row, g)) \in findings'
      BY <1>19, <2>2
    <3>2. ASSUME NEW g \in hit
          PROVE  /\ With(g, KnownDisp(row, g)).disp = KnownDisp(row, g)
                 /\ OnKnown(row, With(g, KnownDisp(row, g)))
                 /\ With(g, KnownDisp(row, g)).kind = row.kind
                 /\ With(g, KnownDisp(row, g)).field = row.field
                 /\ With(g, KnownDisp(row, g)).val = g.val
      <4>1. g \in Finding /\ KnownDisp(row, g) \in Disps /\ OnKnown(row, g)
        BY <1>20 DEF Reconciled, Kept, KnownDisp, Disps
      <4> QED
        BY <4>1, WithFacts DEF OnKnown
    <3>3. PICK g \in hit : TRUE
      BY <2>2
    <3>4. CASE g.val = row.val
      <4>1. KnownDisp(row, g) = "Known"
        BY <3>4 DEF KnownDisp
      <4> QED
        BY <3>4, <4>1, <3>1, <3>2, <3>3 DEF KnownHeld
    <3>5. CASE g.val # row.val
      <4>1. KnownDisp(row, g) = "KnownMoved"
        BY <3>5 DEF KnownDisp
      <4> QED
        BY <3>5, <4>1, <3>1, <3>2, <3>3 DEF KnownHeld
    <3> QED
      BY <3>4, <3>5
  <2> QED
    BY <2>1, <2>2
<1>14. \A f \in hit : OnKnown(row, f)
  BY <1>20
<1> HIDE DEF d, gone
<1>11. \A f \in hit : f.what # "StaleKnownRow" /\ ~IsStray(f)
  BY <1>5 DEF IsStray
<1>12. hit \in SUBSET findings
  BY <1>20
<1>15. Reconciled'
  <2>1. todo # <<>> /\ todo' = Tail(todo) /\ table' = table /\ met' = met
    BY <1>1
  <2> HIDE DEF all, stale
  <2> QED
    BY <2>1, <1>2, <1>4, <1>6, <1>7, <1>8, <1>9, <1>10, <1>11, <1>12, RowApplied
<1>16. Held'
  <2>1. todo # <<>> /\ row.stage = 1 /\ todo' = Tail(todo) /\ table' = table /\ met' = met
    BY <1>1
  <2> QED
    BY <2>1, <1>2, <1>4, <1>6, <1>11, <1>12, <1>13, <1>14, HeldApplied
<1> QED
  BY <1>15, <1>16

LEMMA MissingRowKeeps ==
  ASSUME Reconciled, Held, ReconcileMissing, NEW row, row = Head(todo)
  PROVE  Reconciled' /\ Held'
<1> DEFINE hit == {f \in findings : OnMissing(row, f)}
           d == [f \in hit |-> "Known"]
           gone == MissingGone(row, hit)
<1>1. /\ todo # <<>> /\ row.stage = 2 /\ todo' = Tail(todo) /\ table' = table /\ met' = met
      /\ findings' = (findings \ hit) \cup ({With(f, "Known") : f \in hit} \cup gone)
  BY DEF ReconcileMissing, Settle
<1>2. findings' = (findings \ hit) \cup {With(f, d[f]) : f \in hit} \cup gone
  BY <1>1
<1>3. /\ row \in MissingRow /\ RowsSeen' = RowsSeen \cup {row}
      /\ \A r \in RowsSeen : r.stage <= row.stage
  BY <1>1, RowTaken, Stages DEF Reconciled
<1>4. row.at \in SUBSET Index /\ row.at # {} /\ row.kind \in Kind
  BY <1>3 DEF MissingRow
<1>5. d \in [hit -> Disps]
  BY DEF Disps
<1>6. gone \in SUBSET Finding /\ IsFiniteSet(gone) /\ \A f \in gone : Vanished(f)
  <2> DEFINE left == row.at \ {f.ia : f \in hit}
             m == [x \in left |-> Stale(x, row.kind, None, None)]
  <2>1. \A x \in left : Stale(x, row.kind, None, None) \in Finding /\ Vanished(Stale(x, row.kind, None, None))
    BY <1>4, StaleFacts
  <2>2. gone = {Stale(x, row.kind, None, None) : x \in left}
    BY DEF MissingGone
  <2>3. IsFiniteSet(left)
    BY <1>4, FS_Subset, ReconcileAssumption
  <2>4. m \in Surjection(left, gone)
    BY <2>2 DEF Surjection
  <2> HIDE DEF left, m, gone
  <2>5. IsFiniteSet(gone)
    BY <2>3, <2>4, FS_Surjection
  <2> QED
    BY <2>1, <2>2, <2>5
<1>7. hit # {} \/ gone # {}
  <2>1. hit = {} => gone = {Stale(x, row.kind, None, None) : x \in row.at}
    BY DEF MissingGone
  <2> QED
    BY <2>1, <1>4
<1>8. ASSUME NEW f \in hit PROVE ListsMissing(f)'
  BY <1>1, <1>3 DEF ListsMissing, OnMissing
<1>9. ASSUME NEW f \in findings, f \notin hit, f.disp = "Open", IsStray(f)
      PROVE  ~ListsMissing(f)' /\ ~CountSeen(f)'
  <2>1. ~ListsMissing(f) /\ ~CountSeen(f)
    BY <1>9 DEF Reconciled, Strays
  <2>2. ~(f.what = "OnlyInA" /\ f.kind = row.kind /\ f.ia \in row.at)
    BY <1>9 DEF OnMissing
  <2>3. ~ListsMissing(f)'
    BY <2>1, <2>2, <1>3 DEF ListsMissing
  <2> QED
    BY <2>1, <2>3, <1>1, <1>3, OtherStages
<1>10. \A f \in hit : f.what # "StaleKnownRow" /\ d[f] = "Known"
  BY DEF OnMissing
<1>12. MissingHeld(row)'
  <2> SUFFICES ASSUME NEW x \in row.at
               PROVE  \E f \in findings' :
                        /\ f.ia = x
                        /\ Vanished(f) \/ (f.what = "OnlyInA" /\ f.kind = row.kind /\ f.disp = "Known")
    BY DEF MissingHeld
  <2>1. CASE \E f \in hit : f.ia = x
    <3>1. PICK f \in hit : f.ia = x
      BY <2>1
    <3>2. f \in Finding /\ "Known" \in Disps /\ OnMissing(row, f)
      BY DEF Reconciled, Kept, Disps
    <3>3. /\ With(f, "Known").ia = x /\ With(f, "Known").what = "OnlyInA"
          /\ With(f, "Known").kind = row.kind /\ With(f, "Known").disp = "Known"
      BY <3>1, <3>2, WithFacts DEF OnMissing
    <3>4. With(f, "Known") \in findings'
      BY <1>1
    <3> QED
      BY <3>3, <3>4
  <2>2. CASE ~\E f \in hit : f.ia = x
    <3>1. Stale(x, row.kind, None, None) \in gone
      BY <2>2 DEF MissingGone
    <3>2. /\ Vanished(Stale(x, row.kind, None, None)) /\ Stale(x, row.kind, None, None).ia = x
      BY <1>4, StaleFacts
    <3> QED
      BY <3>1, <3>2, <1>1
  <2> QED
    BY <2>1, <2>2
<1>13. \A f \in hit : f.disp = "Open"
  BY DEF OnMissing
<1> HIDE DEF hit, d, gone
<1>11. hit \in SUBSET findings
  BY DEF hit
<1>14. Reconciled'
  BY <1>1, <1>2, <1>5, <1>6, <1>7, <1>8, <1>9, <1>10, <1>11, RowApplied
<1>15. Held'
  BY <1>1, <1>2, <1>5, <1>6, <1>10, <1>11, <1>12, <1>13, HeldApplied
<1> QED
  BY <1>14, <1>15

LEMMA RecordsRowKeeps ==
  ASSUME Reconciled, Held, ReconcileRecords, NEW row, row = Head(todo)
  PROVE  Reconciled' /\ Held'
<1> DEFINE hit == {f \in findings : OnRecords(row, f)}
           d == [f \in hit |-> RecordsDisp(row, hit)]
           stale == Stale(None, row.kind, None, None)
           gone == IF hit = {} THEN {stale} ELSE {}
<1>1. /\ todo # <<>> /\ row.stage = 3 /\ todo' = Tail(todo) /\ table' = table /\ met' = met
      /\ findings' = (findings \ hit) \cup (IF hit = {} THEN {stale} ELSE {With(f, RecordsDisp(row, hit)) : f \in hit})
  BY DEF ReconcileRecords, Settle
<1>2. findings' = (findings \ hit) \cup {With(f, d[f]) : f \in hit} \cup gone
  BY <1>1
<1>3. /\ row \in RecordsRow /\ RowsSeen' = RowsSeen \cup {row}
      /\ \A r \in RowsSeen : r.stage <= row.stage
  BY <1>1, RowTaken, Stages DEF Reconciled
<1>4. row.kind \in Kind /\ row.side \in {"OnlyInA", "OnlyInB"}
  BY <1>3 DEF RecordsRow
<1>5. d \in [hit -> Disps] /\ \A f \in hit : d[f] \in {"Known", "KnownMoved"}
  BY DEF RecordsDisp, Disps
<1>6. gone \in SUBSET Finding /\ IsFiniteSet(gone) /\ \A f \in gone : Vanished(f)
  <2>1. stale \in Finding /\ Vanished(stale)
    BY <1>4, StaleFacts
  <2> HIDE DEF stale
  <2> QED
    BY <2>1, FS_Singleton, FS_EmptySet
<1>7. hit # {} \/ gone # {}
  OBVIOUS
<1>8. \A f : ListsMissing(f)' <=> ListsMissing(f)
  BY <1>1, <1>3, OtherStages
<1>9. ASSUME NEW f \in hit PROVE CountSeen(f)'
  BY <1>1, <1>3 DEF CountSeen, OnRecords
<1>10. ASSUME NEW f \in findings, f \notin hit, f.disp = "Open", IsStray(f)
       PROVE  ~ListsMissing(f)' /\ ~CountSeen(f)'
  <2>1. ~ListsMissing(f) /\ ~CountSeen(f)
    BY <1>10 DEF Reconciled, Strays
  <2>2. ~(f.what = row.side /\ f.kind = row.kind)
    BY <1>10 DEF OnRecords
  <2>3. ~CountSeen(f)'
    BY <2>1, <2>2, <1>3 DEF CountSeen
  <2> QED
    BY <2>1, <2>3, <1>8
<1>11. ASSUME NEW f \in hit, d[f] = "Known" PROVE ListsCount(f)'
  <2>1. row.count = Cardinality(hit)
    BY <1>11 DEF RecordsDisp
  <2>2. f \in findings /\ f.what = row.side /\ f.kind = row.kind /\ f.disp = "Open"
    BY DEF OnRecords
  <2>3. ~CountSeen(f)
    BY <2>2, <1>4 DEF Reconciled, Strays, IsStray
  <2>4. /\ met = {With(g, "Open") : g \in {x \in findings : x.what # "StaleKnownRow"}}
        /\ findings \subseteq Finding
    BY DEF Reconciled, Kept, DifferencesAreKept
  <2>5. "Open" \in Disps
    BY DEF Disps
  <2>6. ASSUME NEW g \in hit PROVE g \in Counted(f)
    <3>1. /\ g \in findings /\ g.what = row.side /\ g.kind = row.kind /\ g.disp = "Open"
          /\ g.what # "StaleKnownRow"
      BY <1>4 DEF OnRecords
    <3>2. With(g, "Open") = g
      BY <3>1, <2>4, <2>5, WithFacts
    <3>3. g \in met
      BY <3>1, <3>2, <2>4
    <3>4. ~ListsMissing(g)
      BY <3>1, <1>4 DEF Reconciled, Strays, IsStray
    <3> QED
      BY <3>1, <3>3, <3>4, <2>2 DEF Counted
  <2>7. ASSUME NEW m \in Counted(f) PROVE m \in hit
    <3>1. m \in met /\ m.what = row.side /\ m.kind = row.kind /\ ~ListsMissing(m)
      BY <2>2 DEF Counted
    <3>2. PICK g \in findings : m = With(g, "Open")
      BY <3>1, <2>4
    <3>3. m.what = g.what /\ m.kind = g.kind /\ m.ia = g.ia
      BY <3>2, <2>4, <2>5, WithFacts
    <3>4. ~ListsMissing(g) /\ ~CountSeen(g)
      BY <3>1, <3>3, <2>2, <2>3 DEF ListsMissing, CountSeen
    <3>5. g.disp = "Open"
      BY <3>1, <3>3, <3>4, <1>4 DEF Reconciled, Strays, IsStray
    <3>6. m = g
      BY <3>2, <3>5, <2>4, <2>5, WithFacts
    <3> QED
      BY <3>1, <3>3, <3>5, <3>6 DEF OnRecords
  <2>8. Counted(f) = hit
    BY <2>6, <2>7
  <2>9. Counted(f)' = Counted(f)
    BY <1>1, <1>8 DEF Counted
  <2> HIDE DEF hit
  <2> QED
    BY <2>1, <2>2, <2>8, <2>9, <1>1, <1>3 DEF ListsCount, Counted
<1>12. \A f \in hit : f.what # "StaleKnownRow"
  BY <1>4 DEF OnRecords
<1>14. CountHeld(row)'
  <2>1. CASE hit = {}
    <3>1. stale \in findings'
      BY <1>1, <2>1
    <3>2. Vanished(stale) /\ stale.kind = row.kind
      BY <1>4, StaleFacts
    <3> HIDE DEF stale
    <3> QED
      BY <3>1, <3>2 DEF CountHeld
  <2>2. ASSUME NEW f \in hit PROVE CountHeld(row)'
    <3>1. ASSUME NEW g \in hit
          PROVE  /\ With(g, RecordsDisp(row, hit)) \in findings'
                 /\ With(g, RecordsDisp(row, hit)).disp = RecordsDisp(row, hit)
                 /\ With(g, RecordsDisp(row, hit)).what = row.side
                 /\ With(g, RecordsDisp(row, hit)).kind = row.kind
      <4>1. g \in Finding /\ RecordsDisp(row, hit) \in Disps /\ OnRecords(row, g)
        BY DEF Reconciled, Kept, RecordsDisp, Disps
      <4> QED
        BY <4>1, <1>1, WithFacts DEF OnRecords
    <3>2. CASE Cardinality(hit) # row.count
      <4>1. RecordsDisp(row, hit) = "KnownMoved"
        BY <3>2 DEF RecordsDisp
      <4> HIDE DEF hit
      <4> QED
        BY <3>1, <4>1, <2>2 DEF CountHeld
    <3>3. CASE Cardinality(hit) = row.count
      <4> DEFINE its == {g \in findings' : g.disp = "Known" /\ g.what = row.side /\ g.kind = row.kind
                                            /\ ~ListsMissing(g)'}
                 m == [g \in hit |-> With(g, "Known")]
      <4>1. RecordsDisp(row, hit) = "Known"
        BY <3>3 DEF RecordsDisp
      <4>2. ASSUME NEW g \in hit
            PROVE  /\ g \in Finding /\ OnRecords(row, g) /\ ~ListsMissing(g)
                   /\ With(g, "Known").ia = g.ia
                   /\ With(With(g, "Known"), "Open") = g
        <5>1. g \in Finding /\ OnRecords(row, g) /\ "Known" \in Disps /\ "Open" \in Disps
          BY DEF Reconciled, Kept, Disps
        <5>2. ~ListsMissing(g)
          BY <5>1, <1>4 DEF Reconciled, Strays, IsStray, OnRecords
        <5> QED
          BY <5>1, <5>2, WithFacts DEF OnRecords
      <4>3. ASSUME NEW g \in hit PROVE With(g, "Known") \in its
        <5>1. ~ListsMissing(With(g, "Known"))
          BY <3>1, <4>1, <4>2 DEF ListsMissing, OnRecords
        <5> QED
          BY <5>1, <3>1, <4>1, <1>8
      <4>4. ASSUME NEW k \in its PROVE \E g \in hit : With(g, "Known") = k
        <5> SUFFICES ASSUME ~\E g \in hit : With(g, "Known") = k PROVE FALSE
          OBVIOUS
        <5>1. k \in findings /\ k.disp = "Known" /\ k.what = row.side /\ k.kind = row.kind
          BY <1>1, <2>2, <4>1
        <5>2. ~ListsMissing(k)
          BY <1>8
        <5>3. CountSeen(k)
          BY <5>1, <5>2, <1>4 DEF Reconciled, Strays, IsStray
        <5>4. CountSeen(f)
          <6>1. f.what = k.what /\ f.kind = k.kind
            BY <5>1, <4>2 DEF OnRecords
          <6> QED
            BY <5>3, <6>1 DEF CountSeen
        <5> QED
          BY <5>4, <4>2, <1>4 DEF Reconciled, Strays, IsStray, OnRecords
      <4>5. IsFiniteSet(hit)
        BY FS_Subset DEF Reconciled, Kept
      <4>6. \A g, h \in hit : With(g, "Known") = With(h, "Known") => g = h
        BY <4>2
      <4> HIDE DEF hit, its
      <4>7. m \in [hit -> its]
        BY <4>3
      <4>8. \A g, h \in hit : m[g] = m[h] => g = h
        BY <4>6
      <4>9. \A k \in its : \E g \in hit : m[g] = k
        BY <4>4
      <4> HIDE DEF m
      <4>10. ExistsBijection(hit, its)
        BY <4>7, <4>8, <4>9 DEF ExistsBijection, Bijection, Injection, Surjection, IsInjective
      <4>11. Cardinality(its) = row.count
        BY <4>5, <4>10, <3>3, FS_Bijection
      <4>12. its = {g \in Knowns' : g.what = row.side /\ g.kind = row.kind /\ ~ListsMissing(g)'}
        BY DEF its, Knowns
      <4> QED
        BY <4>11, <4>12 DEF CountHeld
    <3> QED
      BY <3>2, <3>3
  <2> QED
    BY <2>1, <2>2
<1>15. \A f \in hit : f.disp = "Open"
  BY DEF OnRecords
<1> HIDE DEF hit, d, gone
<1>13. hit \in SUBSET findings
  BY DEF hit
<1>16. Reconciled'
  BY <1>1, <1>2, <1>5, <1>6, <1>7, <1>9, <1>10, <1>11, <1>12, <1>13, RowApplied
<1>17. Held'
  <2>1. todo # <<>> /\ row.stage = 3 /\ todo' = Tail(todo) /\ table' = table /\ met' = met
    BY <1>1
  <2> QED
    BY <2>1, <1>2, <1>5, <1>6, <1>12, <1>13, <1>14, <1>15, HeldApplied
<1> QED
  BY <1>16, <1>17

LEMMA DualRowKeeps ==
  ASSUME Reconciled, Held, ReconcileDual, NEW row, row = Head(todo)
  PROVE  Reconciled' /\ Held'
<1> DEFINE hit == {f \in findings : OnDual(row, f)}
           d == [f \in hit |-> "DualOracle"]
<1>1. /\ todo # <<>> /\ row.stage = 4 /\ todo' = Tail(todo) /\ table' = table /\ met' = met
      /\ findings' = (findings \ hit) \cup {With(f, "DualOracle") : f \in hit}
  BY DEF ReconcileDual, Settle
<1>2. findings' = (findings \ hit) \cup {With(f, d[f]) : f \in hit} \cup {}
  BY <1>1
<1>3. /\ row \in DualRow /\ RowsSeen' = RowsSeen \cup {row}
      /\ \A r \in RowsSeen : r.stage <= row.stage
  BY <1>1, RowTaken, Stages DEF Reconciled
<1>4. d \in [hit -> Disps]
  BY DEF Disps
<1>5. ASSUME NEW f \in findings, f.disp = "Open", IsStray(f) PROVE ~ListsMissing(f)' /\ ~CountSeen(f)'
  <2>1. ~ListsMissing(f) /\ ~CountSeen(f)
    BY <1>5 DEF Reconciled, Strays
  <2> QED
    BY <2>1, <1>1, <1>3, OtherStages
<1>6. ASSUME NEW f \in hit PROVE ListsDual(f)'
  BY <1>1, <1>3 DEF ListsDual, OnDual
<1>7. \A f \in hit : f.what # "StaleKnownRow" /\ ~IsStray(f) /\ d[f] = "DualOracle"
  BY DEF OnDual, IsStray
<1>8. \A f \in hit : f.disp = "Open"
  BY DEF OnDual
<1> HIDE DEF hit, d
<1>9. hit \in SUBSET findings /\ IsFiniteSet({})
  BY FS_EmptySet DEF hit
<1>10. Reconciled'
  BY <1>1, <1>2, <1>4, <1>5, <1>6, <1>7, <1>9, RowApplied
<1>11. Held'
  BY <1>1, <1>2, <1>4, <1>7, <1>8, <1>9, HeldApplied
<1> QED
  BY <1>10, <1>11

-----------------------------------------------------------------------------
(* A row that was looked at is about a difference, or left its stale finding. *)

Answered(row) ==
  /\ row.stage = 1 =>
       \/ \E d \in met : OnKnown(row, d)
       \/ Stale(IF row.by = "index" THEN row.key ELSE None, row.kind, row.field, row.val) \in findings
  /\ row.stage = 2 => \A x \in row.at :
       \/ \E d \in met : d.what = "OnlyInA" /\ d.kind = row.kind /\ d.ia = x
       \/ Stale(x, row.kind, None, None) \in findings
  /\ row.stage = 3 =>
       \/ \E d \in met : d.what = row.side /\ d.kind = row.kind
       \/ Stale(None, row.kind, None, None) \in findings

Tried == \A row \in RowsSeen : Answered(row)

\* What a finding is about is about the difference it was.
LEMMA AsItWasMet ==
  ASSUME Kept, NEW f \in findings, f.what # "StaleKnownRow"
  PROVE  \E d \in met : /\ d.what = f.what /\ d.ia = f.ia /\ d.kind = f.kind
                       /\ d.field = f.field /\ d.val = f.val
<1>1. With(f, "Open") \in met
  BY DEF Kept, DifferencesAreKept
<1>2. f \in Finding /\ "Open" \in Disps
  BY DEF Kept, Disps
<1> QED
  BY <1>1, <1>2, WithFacts

LEMMA RowsAreTried ==
  ASSUME Reconciled, Tried,
         ReconcileKnown \/ ReconcileMissing \/ ReconcileRecords \/ ReconcileDual
  PROVE  Tried'
<1>6. PICK row : row = Head(todo)
  OBVIOUS
<1>1. todo # <<>> /\ todo' = Tail(todo) /\ table' = table /\ met' = met
  BY DEF ReconcileKnown, ReconcileMissing, ReconcileRecords, ReconcileDual, Settle
<1>2. RowsSeen' = RowsSeen \cup {row} /\ row \in Row /\ Kept
  BY <1>1, <1>6, RowTaken DEF Reconciled
<1>3. \A f \in findings : f.what = "StaleKnownRow" => f \in findings'
  <2>1. ASSUME ReconcileKnown PROVE \A f \in findings : f.what = "StaleKnownRow" => f \in findings'
    BY <2>1 DEF ReconcileKnown, Settle, OnKnown
  <2>2. ASSUME ReconcileMissing PROVE \A f \in findings : f.what = "StaleKnownRow" => f \in findings'
    BY <2>2 DEF ReconcileMissing, Settle, OnMissing
  <2>3. ASSUME ReconcileRecords PROVE \A f \in findings : f.what = "StaleKnownRow" => f \in findings'
    <3>1. row.side # "StaleKnownRow"
      BY <2>3, <1>2, <1>6, Stages DEF ReconcileRecords, RecordsRow
    <3> QED
      BY <2>3, <3>1, <1>6 DEF ReconcileRecords, Settle, OnRecords
  <2>4. ASSUME ReconcileDual PROVE \A f \in findings : f.what = "StaleKnownRow" => f \in findings'
    BY <2>4 DEF ReconcileDual, Settle, OnDual
  <2> QED
    BY <2>1, <2>2, <2>3, <2>4
<1>7. /\ ReconcileKnown => row.stage = 1
      /\ ReconcileMissing => row.stage = 2
      /\ ReconcileRecords => row.stage = 3
      /\ ReconcileDual => row.stage = 4
  BY <1>6 DEF ReconcileKnown, ReconcileMissing, ReconcileRecords, ReconcileDual
<1>4. ASSUME NEW r \in RowsSeen PROVE Answered(r)'
  <2>1. Answered(r)
    BY DEF Tried
  <2>2. \A ia, kind, field, val : Stale(ia, kind, field, val) \in findings
                                  => Stale(ia, kind, field, val) \in findings'
    BY <1>3 DEF Stale
  <2> QED
    BY <2>1, <2>2, <1>1 DEF Answered
<1>5. Answered(row)'
  <2>1. ASSUME row.stage = 1
        PROVE  \/ \E d \in met : OnKnown(row, d)
               \/ Stale(IF row.by = "index" THEN row.key ELSE None, row.kind, row.field, row.val)
                    \in findings'
    <3>1. ReconcileKnown
      BY <2>1, <1>7
    <3>2. ASSUME NEW f \in findings, OnKnown(row, f) PROVE \E d \in met : OnKnown(row, d)
      <4>1. PICK d \in met : /\ d.what = f.what /\ d.ia = f.ia /\ d.kind = f.kind
                             /\ d.field = f.field /\ d.val = f.val
        BY <1>2, <3>2, AsItWasMet DEF OnKnown
      <4> QED
        BY <4>1, <3>2 DEF OnKnown
    <3> QED
      BY <3>1, <3>2, <1>6 DEF ReconcileKnown, Settle
  <2>2. ASSUME row.stage = 2, NEW x \in row.at
        PROVE  \/ \E d \in met : d.what = "OnlyInA" /\ d.kind = row.kind /\ d.ia = x
               \/ Stale(x, row.kind, None, None) \in findings'
    <3> DEFINE hit == {f \in findings : OnMissing(row, f)}
    <3>1. ReconcileMissing
      BY <2>2, <1>7
    <3>2. ASSUME NEW f \in hit, f.ia = x
          PROVE  \E d \in met : d.what = "OnlyInA" /\ d.kind = row.kind /\ d.ia = x
      <4>1. f.what = "OnlyInA" /\ f.kind = row.kind
        BY DEF OnMissing
      <4> QED
        BY <1>2, <3>2, <4>1, AsItWasMet
    <3>3. CASE \A f \in hit : f.ia # x
      <4>1. Stale(x, row.kind, None, None) \in MissingGone(row, hit)
        BY <3>3, <2>2 DEF MissingGone
      <4>2. MissingGone(row, hit) \subseteq findings'
        BY <3>1, <1>6 DEF ReconcileMissing, Settle
      <4> QED
        BY <4>1, <4>2
    <3> QED
      BY <3>2, <3>3
  <2>3. ASSUME row.stage = 3
        PROVE  \/ \E d \in met : d.what = row.side /\ d.kind = row.kind
               \/ Stale(None, row.kind, None, None) \in findings'
    <3>1. ReconcileRecords
      BY <2>3, <1>7
    <3>2. row.side # "StaleKnownRow"
      BY <2>3, <1>2, Stages DEF RecordsRow
    <3>3. ASSUME NEW f \in findings, OnRecords(row, f)
          PROVE  \E d \in met : d.what = row.side /\ d.kind = row.kind
      <4>1. f.what = row.side /\ f.kind = row.kind
        BY <3>3 DEF OnRecords
      <4> QED
        BY <1>2, <3>2, <4>1, AsItWasMet
    <3> QED
      BY <3>1, <3>3, <1>6 DEF ReconcileRecords, Settle
  <2> QED
    BY <2>1, <2>2, <2>3, <1>1 DEF Answered
<1> QED
  BY <1>2, <1>4, <1>5 DEF Tried

-----------------------------------------------------------------------------
(* The two judgements: each is made of findings that no row will touch again. *)

Told ==
  /\ verdict # None => verdict = Judgement
  /\ own # None =>
       /\ verdict # None
       /\ own = IF Reds = {} THEN verdict
                ELSE OwnJudgement({f \in Reds : Explained(f)}, Reds \ {f \in Reds : Explained(f)})
       /\ listed \subseteq Explanations
  /\ verdict # None => todo = <<>>

IInv == Reconciled /\ Held /\ Tried /\ Told

LEMMA InitIInv == Init => IInv
<1> SUFFICES ASSUME Init PROVE IInv
  OBVIOUS
<1>1. /\ met \in Outcomes /\ findings = met /\ table \in Tables /\ todo = table
      /\ verdict = None /\ own = None
  BY DEF Init
<1>2. /\ IsFiniteSet(met) /\ met \subseteq Finding
      /\ \A f \in met : f.disp = "Open" /\ f.what # "StaleKnownRow"
  BY <1>1, ReconcileAssumption
<1>3. Rowed /\ RowsSeen = {}
  <2>1. table \in Seq(Row) /\ \A n \in 1 .. Len(table) : \A m \in 1 .. n : table[m].stage <= table[n].stage
    BY <1>1, ReconcileAssumption
  <2>2. Len(table) \in Nat
    BY <2>1, LenProperties
  <2>3. Len(table) - Len(todo) = 0
    BY <1>1, <2>2
  <2>4. \A n \in 1 .. Len(todo) : todo[n] = table[Len(table) - Len(todo) + n]
    BY <1>1, <2>2, <2>3
  <2> QED
    BY <1>1, <2>1, <2>2, <2>3, <2>4 DEF Rowed, RowsSeen
<1>4. DifferencesAreKept
  <2>1. \A f \in met : With(f, "Open") = f
    BY <1>2, WithFacts DEF Disps
  <2>2. {g \in findings : g.what # "StaleKnownRow"} = met
    BY <1>1, <1>2
  <2> QED
    BY <1>1, <2>1, <2>2 DEF DifferencesAreKept
<1>5. Kept
  BY <1>1, <1>2, <1>4 DEF Kept
<1>6. Strays /\ Excused /\ Marked
  BY <1>1, <1>2, <1>3 DEF Strays, Excused, Marked, ListsMissing, CountSeen
<1> QED
  BY <1>1, <1>3, <1>5, <1>6 DEF IInv, Reconciled, Held, Tried, Told

LEMMA NextIInv == IInv /\ [Next]_vars => IInv'
<1> SUFFICES ASSUME IInv, [Next]_vars PROVE IInv'
  OBVIOUS
<1>1. ASSUME findings' = findings, met' = met, table' = table, todo' = todo
      PROVE  Reconciled' /\ Held' /\ Tried'
  <2>1. Rowed' /\ RowsSeen' = RowsSeen
    BY <1>1 DEF IInv, Reconciled, Rowed, RowsSeen
  <2>2. Kept'
    BY <1>1 DEF IInv, Reconciled, Kept, DifferencesAreKept
  <2>3. \A f : /\ (ListsKnown(f)' <=> ListsKnown(f)) /\ (ListsMissing(f)' <=> ListsMissing(f))
               /\ (ListsDual(f)' <=> ListsDual(f)) /\ (CountSeen(f)' <=> CountSeen(f))
    BY <2>1 DEF ListsKnown, ListsMissing, ListsDual, CountSeen
  <2>4. \A f : ListsCount(f)' <=> ListsCount(f)
    <3>1. \A f : Counted(f)' = Counted(f)
      BY <1>1, <2>3 DEF Counted
    <3> QED
      BY <2>1, <3>1 DEF ListsCount, Counted
  <2>5. Strays' /\ Excused' /\ Marked'
    BY <1>1, <2>1, <2>3, <2>4 DEF IInv, Reconciled, Strays, Excused, Marked
  <2>6. \A r : /\ (KnownHeld(r)' <=> KnownHeld(r)) /\ (MissingHeld(r)' <=> MissingHeld(r))
               /\ (ListedOnce(r)' <=> ListedOnce(r))
    BY <1>1 DEF KnownHeld, MissingHeld, ListedOnce
  <2>7. \A r : CountHeld(r)' <=> CountHeld(r)
    <3>1. Knowns' = Knowns
      BY <1>1 DEF Knowns
    <3>2. \A r : {f \in Knowns : f.what = r.side /\ f.kind = r.kind /\ ~ListsMissing(f)}'
                = {f \in Knowns : f.what = r.side /\ f.kind = r.kind /\ ~ListsMissing(f)}
      BY <3>1, <2>3
    <3> QED
      BY <1>1, <3>2 DEF CountHeld
  <2>8. Held'
    BY <2>1, <2>6, <2>7 DEF IInv, Held
  <2>9. Tried'
    <3>1. \A r : Answered(r)' <=> Answered(r)
      BY <1>1 DEF Answered
    <3> QED
      BY <2>1, <3>1 DEF IInv, Tried
  <2> QED
    BY <2>1, <2>2, <2>5, <2>8, <2>9 DEF Reconciled
<1>2. ASSUME ReconcileKnown \/ ReconcileMissing \/ ReconcileRecords \/ ReconcileDual PROVE IInv'
  <2>1. Reconciled' /\ Held' /\ Tried'
    <3>1. PICK row : row = Head(todo)
      OBVIOUS
    <3>2. Reconciled' /\ Held'
      BY <1>2, <3>1, KnownRowKeeps, MissingRowKeeps, RecordsRowKeeps, DualRowKeeps DEF IInv
    <3> QED
      BY <1>2, <3>2, RowsAreTried DEF IInv
  <2>2. todo # <<>> /\ verdict' = verdict /\ own' = own
    BY <1>2 DEF ReconcileKnown, ReconcileMissing, ReconcileRecords, ReconcileDual, Settle
  <2>3. verdict = None /\ own = None
    BY <2>2 DEF IInv, Told
  <2> QED
    BY <2>1, <2>2, <2>3 DEF IInv, Told
<1>3. findings' = findings /\ met' = met => Judgement' = Judgement /\ Reds' = Reds
  <2> SUFFICES ASSUME findings' = findings, met' = met PROVE Judgement' = Judgement /\ Reds' = Reds
    OBVIOUS
  <2>1. Reds' = Reds /\ Knowns' = Knowns
    BY DEF Reds, Knowns
  <2>2. SizeA' = SizeA /\ SizeB' = SizeB
    BY DEF SizeA, SizeB
  <2>3. Larger' = Larger
    BY <2>2 DEF Larger
  <2> QED
    BY <2>1, <2>2, <2>3 DEF Judgement
<1>4. ASSUME Judge PROVE IInv'
  <2>1. /\ todo = <<>> /\ verdict = None /\ verdict' = Judgement /\ own' = own
        /\ met' = met /\ findings' = findings /\ table' = table /\ todo' = todo
    BY <1>4 DEF Judge
  <2>2. own = None
    BY <2>1 DEF IInv, Told
  <2> QED
    BY <1>1, <1>3, <2>1, <2>2 DEF IInv, Told
<1>5. ASSUME JudgeSelf PROVE IInv'
  <2>1. /\ verdict # None /\ own = None /\ verdict' = verdict
        /\ met' = met /\ findings' = findings /\ table' = table /\ todo' = todo
        /\ own' = IF Reds = {} THEN verdict
                  ELSE OwnJudgement({f \in Reds : Explained(f)'}, Reds \ {f \in Reds : Explained(f)'})
    BY <1>5 DEF JudgeSelf
  <2>2. Reds' = Reds /\ Judgement' = Judgement
    BY <1>3, <2>1
  <2>3. {f \in Reds : Explained(f)}' = {f \in Reds : Explained(f)'}
    BY <2>2
  <2>4. OwnJudgement({f \in Reds : Explained(f)}, Reds \ {f \in Reds : Explained(f)})'
          = OwnJudgement({f \in Reds : Explained(f)'}, Reds \ {f \in Reds : Explained(f)'})
    <3>1. Knowns' = Knowns
      BY <2>1 DEF Knowns
    <3> QED
      BY <2>2, <2>3, <3>1 DEF OwnJudgement
  <2>6. listed' \subseteq Explanations /\ Explanations' = Explanations
    BY <1>5, <2>2 DEF JudgeSelf, Explanations
  <2>5. Told'
    BY <2>1, <2>2, <2>4, <2>6 DEF IInv, Told
  <2> QED
    BY <1>1, <2>1, <2>5 DEF IInv
<1>6. ASSUME UNCHANGED vars PROVE IInv'
  <2>1. /\ met' = met /\ findings' = findings /\ table' = table /\ todo' = todo
        /\ verdict' = verdict /\ own' = own /\ listed' = listed
    BY <1>6 DEF vars
  <2>2. Reds' = Reds /\ Judgement' = Judgement /\ Knowns' = Knowns
    BY <1>3, <2>1 DEF Knowns
  <2>3. \A f : Explained(f)' <=> Explained(f)
    BY <2>1 DEF Explained
  <2>5. Explanations' = Explanations
    BY <2>2 DEF Explanations
  <2>4. Told'
    BY <2>1, <2>2, <2>3, <2>5 DEF IInv, Told, OwnJudgement
  <2> QED
    BY <1>1, <2>1, <2>4 DEF IInv
<1> QED
  BY <1>2, <1>4, <1>5, <1>6 DEF Next

-----------------------------------------------------------------------------
(* What the invariant says of the judgements. *)

LEMMA OpenIsMet ==
  ASSUME Kept
  PROVE  /\ \A f \in findings : f \in Finding
         /\ \A f \in findings : f.what # "StaleKnownRow" => With(f, "Open") \in met
         /\ \A m \in met : \E f \in findings : f.what # "StaleKnownRow" /\ m = With(f, "Open")
BY DEF Kept, DifferencesAreKept

LEMMA JudgementWords ==
  /\ Judgement.word \in {"DIFF", "COUNT"} <=> Reds # {}
  /\ Judgement.word = "MATCH" =>
       Reds = {} /\ Knowns = {} /\ ~\E f \in findings : f.disp = "DualOracle"
  /\ Judgement.word = "KNOWN" => Reds = {} /\ Knowns # {} /\ Judgement.n = RecordsOf(Knowns)
  /\ Judgement.word = "DUAL_ORACLE" =>
       Reds = {} /\ Knowns = {} /\ \E f \in findings : f.disp = "DualOracle"
<1> DEFINE crowded == SizeA # SizeB /\ 2 * Cardinality(Unpaired(Reds)) > Larger
<1>1. CASE Reds # {}
  <2>1. Judgement = IF crowded THEN Says("COUNT", 0) ELSE Says("DIFF", RecordsOf(Reds))
    BY <1>1 DEF Judgement
  <2> HIDE DEF crowded
  <2> QED
    BY <2>1, <1>1 DEF Says
<1>2. CASE Reds = {} /\ Knowns # {}
  <2>1. Judgement = Says("KNOWN", RecordsOf(Knowns))
    BY <1>2 DEF Judgement
  <2> QED
    BY <2>1, <1>2 DEF Says
<1>3. CASE Reds = {} /\ Knowns = {} /\ \E f \in findings : f.disp = "DualOracle"
  <2>1. Judgement = Says("DUAL_ORACLE", 0)
    BY <1>3 DEF Judgement
  <2> QED
    BY <2>1, <1>3 DEF Says
<1>4. CASE Reds = {} /\ Knowns = {} /\ ~\E f \in findings : f.disp = "DualOracle"
  <2>1. Judgement = Says("MATCH", 0)
    BY <1>4 DEF Judgement
  <2> QED
    BY <2>1, <1>4 DEF Says
<1> QED
  BY <1>1, <1>2, <1>3, <1>4

LEMMA Dispositions ==
  ASSUME Kept, NEW f \in findings
  PROVE  \/ f \in Reds \/ f \in Knowns \/ f.disp = "DualOracle"
BY DEF Kept, Finding, Reds, Red, Knowns

LEMMA WordsEarned == IInv => WordsAreEarned
<1> SUFFICES ASSUME IInv, verdict # None
             PROVE  /\ verdict.word = "MATCH" => met = {} /\ \A row \in Rows : row.stage = 4
                    /\ verdict.word \in {"KNOWN", "DUAL_ORACLE"} =>
                         /\ \A f \in findings : f.disp \in {"Known", "DualOracle"}
                         /\ met # {}
                    /\ verdict.word \in {"DIFF", "COUNT"} => Reds # {}
  BY DEF WordsAreEarned
<1>1. verdict = Judgement /\ todo = <<>> /\ Kept /\ Rowed /\ Marked
  BY DEF IInv, Told, Reconciled
<1>2. Rows = RowsSeen
  <2>1. Len(table) \in Nat /\ Len(todo) = 0
    BY <1>1, LenProperties, EmptySeq DEF Rowed
  <2>2. Len(table) - Len(todo) = Len(table)
    BY <2>1
  <2> QED
    BY <2>2 DEF Rows, RowsSeen
<1>3. ASSUME verdict.word = "MATCH" PROVE met = {} /\ \A row \in Rows : row.stage = 4
  <2>1. Reds = {} /\ Knowns = {} /\ ~\E f \in findings : f.disp = "DualOracle"
    BY <1>1, <1>3, JudgementWords
  <2>2. findings = {}
    BY <2>1, <1>1, Dispositions
  <2>3. met = {}
    BY <2>2, <1>1, OpenIsMet
  <2> QED
    BY <2>2, <2>3, <1>1, <1>2 DEF Marked
<1>4. ASSUME verdict.word \in {"KNOWN", "DUAL_ORACLE"}
      PROVE  /\ \A f \in findings : f.disp \in {"Known", "DualOracle"}
             /\ met # {}
  <2>1. Reds = {} /\ (Knowns # {} \/ \E f \in findings : f.disp = "DualOracle")
    BY <1>1, <1>4, JudgementWords
  <2>2. \A f \in findings : f.disp \in {"Known", "DualOracle"}
    BY <2>1, <1>1, Dispositions DEF Knowns
  <2>3. PICK f \in findings : TRUE
    BY <2>1 DEF Knowns
  <2>4. f.what # "StaleKnownRow"
    BY <2>2, <1>1 DEF Kept, Vanished
  <2> QED
    BY <2>2, <2>4, <1>1, OpenIsMet
<1>5. verdict.word \in {"DIFF", "COUNT"} => Reds # {}
  BY <1>1, JudgementWords
<1> QED
  BY <1>3, <1>4, <1>5

\* A stale row is explained by its exception only, which has an index and a value.
LEMMA StaleIsExplainedByItsSpot ==
  ASSUME listed \subseteq Explanations, NEW ia, NEW kind, NEW field, NEW val,
         Explained(Stale(ia, kind, field, val))
  PROVE  /\ ia # None /\ val # None
         /\ [by |-> "list", spot |-> <<ia, kind, field, val>>] \in listed
<1>1. /\ Stale(ia, kind, field, val).what = "StaleKnownRow"
      /\ Spot(Stale(ia, kind, field, val)) = <<ia, kind, field, val>>
  BY DEF Stale, Spot
<1>2. PICK e \in listed : e.spot = <<ia, kind, field, val>> /\ e.by \in {"list", "StaleKnownRow"}
  BY <1>1 DEF Explained
<1>3. \/ \E g \in Reds : g.ia # None /\ g.val # None /\ e = [by |-> "list", spot |-> Spot(g)]
      \/ \E g \in Reds : g.what \in {"FieldMismatch", "OnlyInA"} /\ e = [by |-> g.what, spot |-> Spot(g)]
  BY <1>2 DEF Explanations
<1>4. PICK g \in Reds : g.ia # None /\ g.val # None /\ e = [by |-> "list", spot |-> Spot(g)]
  BY <1>2, <1>3
<1>5. Spot(g) = <<ia, kind, field, val>>
  BY <1>2, <1>4
<1>6. ia = g.ia /\ val = g.val
  BY <1>5 DEF Spot
<1> QED
  BY <1>2, <1>4, <1>5, <1>6

LEMMA UnlistedShows == IInv => UnlistedIsNotHidden
<1> SUFFICES ASSUME IInv, own # None, own.word \in {"KNOWN", "MATCH", "DUAL_ORACLE"}
             PROVE  /\ \A d \in met : \/ ListsKnown(d) \/ ListsMissing(d) \/ ListsCount(d)
                                     \/ ListsDual(d) \/ Explained(d)
                    /\ \A row \in Rows : Met(row)
  BY DEF UnlistedIsNotHidden
<1> DEFINE explained == {g \in Reds : Explained(g)}
<1>1. Kept /\ Rowed /\ Excused /\ Tried /\ todo = <<>> /\ listed \subseteq Explanations
  BY DEF IInv, Reconciled, Told
<1>2. \A f \in Reds : Explained(f)
  <2> SUFFICES ASSUME Reds # {} PROVE Reds \ explained = {}
    OBVIOUS
  <2>1. own = OwnJudgement(explained, Reds \ explained)
    BY DEF IInv, Told
  <2> HIDE DEF explained
  <2> QED
    BY <2>1 DEF OwnJudgement, Says
<1>3. ASSUME NEW d \in met
      PROVE  ListsKnown(d) \/ ListsMissing(d) \/ ListsCount(d) \/ ListsDual(d) \/ Explained(d)
  <2>1. PICK f \in findings : f.what # "StaleKnownRow" /\ d = With(f, "Open")
    BY <1>1 DEF Kept, DifferencesAreKept
  <2>2. /\ f \in Finding /\ d.what = f.what /\ d.ia = f.ia /\ d.kind = f.kind
        /\ d.field = f.field /\ d.val = f.val
    <3>1. f \in Finding /\ "Open" \in Disps
      BY <1>1 DEF Kept, Disps
    <3> QED
      BY <3>1, <2>1, WithFacts
  <2>3. CASE f \in Reds
    <3>1. Explained(f)
      BY <1>2, <2>3
    <3> QED
      BY <3>1, <2>2 DEF Explained, Spot
  <2>4. CASE f \notin Reds
    <3>1. f.disp = "Known" \/ f.disp = "DualOracle"
      BY <2>2, <2>4 DEF Finding, Reds, Red
    <3>2. ListsKnown(f) \/ ListsMissing(f) \/ ListsCount(f) \/ ListsDual(f)
      BY <3>1, <1>1 DEF Excused
    <3>3. ListsKnown(f) => ListsKnown(d)
      BY <2>2 DEF ListsKnown, OnKnown
    <3>4. ListsMissing(f) => ListsMissing(d)
      BY <2>2 DEF ListsMissing
    <3>5. ListsCount(f) => ListsCount(d)
      BY <2>2 DEF ListsCount
    <3>6. ListsDual(f) => ListsDual(d)
      BY <2>2 DEF ListsDual
    <3> QED
      BY <3>2, <3>3, <3>4, <3>5, <3>6
  <2> QED
    BY <2>3, <2>4
<1>4. ASSUME NEW row \in Rows PROVE Met(row)
  <2>1. row \in RowsSeen
    <3>1. Len(table) \in Nat /\ Len(todo) = 0
      BY <1>1, LenProperties, EmptySeq DEF Rowed
    <3>2. Len(table) - Len(todo) = Len(table)
      BY <3>1
    <3> QED
      BY <3>2 DEF Rows, RowsSeen
  <2>2. Answered(row) /\ row \in Row
    <3>1. \A n \in 1 .. Len(table) : table[n] \in Row
      BY <1>1, ElementOfSeq DEF Rowed
    <3> QED
      BY <3>1, <2>1, <1>1 DEF Tried, Rows
  <2>3. \A ia, kind, field, val : Stale(ia, kind, field, val) \in findings =>
          /\ ia # None /\ val # None
          /\ [by |-> "list", spot |-> <<ia, kind, field, val>>] \in listed
    <3> SUFFICES ASSUME NEW ia, NEW kind, NEW field, NEW val, Stale(ia, kind, field, val) \in findings
                 PROVE  /\ ia # None /\ val # None
                        /\ [by |-> "list", spot |-> <<ia, kind, field, val>>] \in listed
      OBVIOUS
    <3>1. Stale(ia, kind, field, val) \in Reds
      BY DEF Reds, Red, Stale
    <3>2. Explained(Stale(ia, kind, field, val))
      BY <3>1, <1>2
    <3> QED
      BY <3>2, <1>1, StaleIsExplainedByItsSpot
  <2>4. row.stage \in 1 .. 4
    BY <2>2, Stages
  <2>5. CASE row.stage = 1
    <3>1. CASE row.by = "index"
      BY <3>1, <2>2, <2>3, <2>5 DEF Answered, Met
    <3>2. CASE row.by # "index"
      BY <3>2, <2>2, <2>3, <2>5 DEF Answered, Met
    <3> QED
      BY <3>1, <3>2
  <2>6. CASE row.stage = 2
    BY <2>2, <2>3, <2>6 DEF Answered, Met
  <2>7. CASE row.stage = 3
    BY <2>2, <2>3, <2>7 DEF Answered, Met
  <2>8. CASE row.stage = 4
    BY <2>8 DEF Met
  <2> QED
    BY <2>4, <2>5, <2>6, <2>7, <2>8
<1> QED
  BY <1>3, <1>4

LEMMA RecordsGrow ==
  ASSUME NEW S, NEW T, IsFiniteSet(T), S \subseteq T
  PROVE  RecordsOf(T) >= RecordsOf(S)
<1> DEFINE rs == {<<f.ia, f.ib>> : f \in S}
           rt == {<<f.ia, f.ib>> : f \in T}
           m == [f \in T |-> <<f.ia, f.ib>>]
<1>1. m \in Surjection(T, rt)
  BY DEF Surjection
<1>2. rs \subseteq rt
  OBVIOUS
<1> HIDE DEF m, rs, rt
<1>3. IsFiniteSet(rt)
  BY <1>1, FS_Surjection
<1>4. Cardinality(rs) <= Cardinality(rt)
  BY <1>2, <1>3, FS_Subset
<1>5. Cardinality(rs) \in Nat /\ Cardinality(rt) \in Nat
  BY <1>2, <1>3, FS_Subset, FS_CardinalityType
<1> QED
  BY <1>4, <1>5 DEF RecordsOf, rs, rt

LEMMA RecordsCounted == IInv => KnownCountsEveryRecord
<1> SUFFICES ASSUME IInv PROVE Counts(verdict) /\ Counts(own)
  BY DEF KnownCountsEveryRecord
<1> DEFINE scored == {f \in findings : f.what # "StaleKnownRow" /\ f.disp # "DualOracle"}
           explained == {f \in Reds : Explained(f)}
<1>1. Kept /\ IsFiniteSet(findings)
  BY DEF IInv, Reconciled, Kept
<1>2. scored \subseteq Reds \cup Knowns
  BY <1>1, Dispositions
<1>3. IsFiniteSet(Reds) /\ IsFiniteSet(Knowns)
  BY <1>1, FS_Subset DEF Reds, Knowns
<1>4. Counts(verdict)
  <2> SUFFICES ASSUME verdict # None, verdict.word = "KNOWN" PROVE verdict.n >= RecordsOf(scored)
    BY DEF Counts
  <2>1. Reds = {} /\ verdict.n = RecordsOf(Knowns)
    BY JudgementWords DEF IInv, Told
  <2> HIDE DEF scored
  <2> QED
    BY <2>1, <1>2, <1>3, RecordsGrow
<1>5. Counts(own)
  <2> SUFFICES ASSUME own # None, own.word = "KNOWN" PROVE own.n >= RecordsOf(scored)
    BY DEF Counts
  <2>1. CASE Reds = {}
    <3>1. own = verdict /\ verdict # None
      BY <2>1 DEF IInv, Told
    <3> QED
      BY <3>1, <1>4 DEF Counts
  <2>2. CASE Reds # {}
    <3>1. own = OwnJudgement(explained, Reds \ explained)
      BY <2>2 DEF IInv, Told
    <3>2. explained \subseteq Reds
      OBVIOUS
    <3> HIDE DEF explained, scored
    <3>3. Reds \ explained = {} /\ own.n = RecordsOf(explained \cup Knowns)
      BY <3>1 DEF OwnJudgement, Says
    <3>4. scored \subseteq explained \cup Knowns
      BY <3>3, <1>2
    <3>5. IsFiniteSet(explained \cup Knowns)
      BY <3>2, <1>3, FS_Subset, FS_Union
    <3> QED
      BY <3>3, <3>4, <3>5, RecordsGrow
  <2> QED
    BY <2>1, <2>2
<1> QED
  BY <1>4, <1>5

LEMMA RecordsType ==
  ASSUME NEW S, IsFiniteSet(S)
  PROVE  RecordsOf(S) \in Nat
<1> DEFINE rs == {<<f.ia, f.ib>> : f \in S}
           m == [f \in S |-> <<f.ia, f.ib>>]
<1>1. m \in Surjection(S, rs)
  BY DEF Surjection
<1> HIDE DEF m, rs
<1>2. Cardinality(rs) \in Nat
  BY <1>1, FS_Surjection, FS_CardinalityType
<1> QED
  BY <1>2 DEF RecordsOf, rs

LEMMA Typed == IInv => TypeOK
<1> SUFFICES ASSUME IInv PROVE TypeOK
  OBVIOUS
<1>1. Kept /\ Rowed
  BY DEF IInv, Reconciled
<1>2. \A S : S \subseteq findings => RecordsOf(S) \in Nat
  BY <1>1, FS_Subset, RecordsType DEF Kept
<1>3. Judgement \in Verdict
  <2>1. /\ RecordsOf(Reds) \in Nat /\ RecordsOf(Knowns) \in Nat
    BY <1>2 DEF Reds, Knowns
  <2> DEFINE crowded == SizeA # SizeB /\ 2 * Cardinality(Unpaired(Reds)) > Larger
  <2>2. \/ Judgement = Says("COUNT", 0) \/ Judgement = Says("DIFF", RecordsOf(Reds))
        \/ Judgement = Says("KNOWN", RecordsOf(Knowns)) \/ Judgement = Says("DUAL_ORACLE", 0)
        \/ Judgement = Says("MATCH", 0)
    <3>1. Judgement = IF Reds # {} THEN IF crowded THEN Says("COUNT", 0) ELSE Says("DIFF", RecordsOf(Reds))
                      ELSE IF Knowns # {} THEN Says("KNOWN", RecordsOf(Knowns))
                      ELSE IF \E f \in findings : f.disp = "DualOracle" THEN Says("DUAL_ORACLE", 0)
                      ELSE Says("MATCH", 0)
      BY DEF Judgement
    <3> HIDE DEF crowded
    <3> QED
      BY <3>1
  <2> QED
    BY <2>1, <2>2 DEF Says, Verdict
<1>4. \A S : S \subseteq findings => OwnJudgement(S, Reds \ S) \in Verdict
  <2> SUFFICES ASSUME NEW S, S \subseteq findings PROVE OwnJudgement(S, Reds \ S) \in Verdict
    OBVIOUS
  <2>1. RecordsOf(Reds \ S) \in Nat /\ RecordsOf(S \cup Knowns) \in Nat
    BY <1>2 DEF Reds, Knowns
  <2> QED
    BY <2>1 DEF OwnJudgement, Says, Verdict
<1>5. verdict \in Verdict \cup {None}
  BY <1>3 DEF IInv, Told
<1>6. own \in Verdict \cup {None}
  <2> DEFINE explained == {f \in Reds : Explained(f)}
  <2>1. explained \subseteq findings
    BY DEF Reds
  <2>2. own # None => own = IF Reds = {} THEN verdict ELSE OwnJudgement(explained, Reds \ explained)
    BY DEF IInv, Told
  <2> HIDE DEF explained
  <2> QED
    BY <2>1, <2>2, <1>4, <1>5
<1>7. \A n \in 1 .. Len(table) : table[n] \in Row
  BY <1>1, ElementOfSeq DEF Rowed
<1> QED
  BY <1>1, <1>5, <1>6, <1>7 DEF TypeOK, Kept, Rowed

LEMMA OnlyListed == IInv => OnlyListedIsExcused
<1> SUFFICES ASSUME IInv, NEW f \in findings
             PROVE  /\ f.disp = "Known" => ListsKnown(f) \/ ListsMissing(f) \/ ListsCount(f)
                    /\ f.disp = "DualOracle" => ListsDual(f)
  BY DEF OnlyListedIsExcused
<1>1. Kept /\ Rowed /\ Excused
  BY DEF IInv, Reconciled
<1> QED
  BY <1>1 DEF Excused

LEMMA RowsHold == IInv => ListedRowsHold
<1> SUFFICES ASSUME IInv, Settled, NEW row \in Rows
             PROVE  /\ row.stage = 1 /\ ListedOnce(row) => KnownHolds(row)
                    /\ row.stage = 2 => MissingHolds(row)
                    /\ row.stage = 3 => CountHolds(row)
  BY DEF ListedRowsHold
<1>1. row \in RowsSeen
  <2>1. Len(table) \in Nat /\ Len(todo) = 0
    BY LenProperties, EmptySeq DEF Settled, IInv, Reconciled, Rowed
  <2>2. Len(table) - Len(todo) = Len(table)
    BY <2>1
  <2> QED
    BY <2>2 DEF Rows, RowsSeen
<1>2. ASSUME row.stage = 1, ListedOnce(row) PROVE KnownHolds(row)
  <2>1. KnownHeld(row)
    BY <1>1, <1>2 DEF IInv, Held
  <2> QED
    BY <2>1 DEF KnownHeld, KnownHolds, Reds, Red, Vanished
<1>3. ASSUME row.stage = 2 PROVE MissingHolds(row)
  <2>1. MissingHeld(row)
    BY <1>1, <1>3 DEF IInv, Held
  <2> QED
    BY <2>1 DEF MissingHeld, MissingHolds, Reds, Red, Vanished
<1>4. ASSUME row.stage = 3 PROVE CountHolds(row)
  <2>1. CountHeld(row)
    BY <1>1, <1>4 DEF IInv, Held
  <2> QED
    BY <2>1 DEF CountHeld, CountHolds, Reds, Red, Vanished
<1> QED
  BY <1>2, <1>3, <1>4

-----------------------------------------------------------------------------
\* What reconcile() and the two judgements keep has the types of the code.
THEOREM TypeCorrect == Spec => []TypeOK
BY Typed, InitIInv, NextIInv, PTL DEF Spec

\* reconcile() loses no difference and invents none, for any findings and any table.
THEOREM NothingIsLost == Spec => []DifferencesAreKept
<1>1. IInv => DifferencesAreKept
  BY DEF IInv, Reconciled, Kept
<1> QED
  BY <1>1, InitIInv, NextIInv, PTL DEF Spec

\* Whatever is no longer red was taken by a row that is about it.
THEOREM OnlyRowsExcuse == Spec => []OnlyListedIsExcused
BY OnlyListed, InitIInv, NextIInv, PTL DEF Spec

\* Every row of the table still holds when all were looked at, or shows in red.
THEOREM RowsHoldOrShow == Spec => []ListedRowsHold
BY RowsHold, InitIInv, NextIInv, PTL DEF Spec

\* judge() says a word better than DIFF only when the findings bear it out.
THEOREM JudgeEarnsItsWords == Spec => []WordsAreEarned
BY WordsEarned, InitIInv, NextIInv, PTL DEF Spec

\* Under a word of judge_self() better than DIFF each difference compare() found is
\* one a row lists or the caller explains, and each row that expects a difference
\* found one, or is an exception of the caller's too: a stale row is not hidden by
\* what explains other findings.
THEOREM JudgeSelfHidesNothing == Spec => []UnlistedIsNotHidden
BY UnlistedShows, InitIInv, NextIInv, PTL DEF Spec

\* A KNOWN of either judgement counts every record that differs.
THEOREM KnownIsTheWholeCount == Spec => []KnownCountsEveryRecord
BY RecordsCounted, InitIInv, NextIInv, PTL DEF Spec
=============================================================================
