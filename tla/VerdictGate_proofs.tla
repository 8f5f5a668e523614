------------------------- MODULE VerdictGate_proofs -------------------------
(***************************************************************************)
(* What the verdict table keeps for any set of cells, engine versions and  *)
(* verdict words, and any number of changes that land.                     *)
(***************************************************************************)
EXTENDS VerdictGate, TLAPS

\* A row somebody can be looking at: MATCH carries no reason, and a reason, where
\* there is one, is about the verdict beside it.
Sound(row) ==
  IF row.verdict = "MATCH" THEN row = Explained("MATCH") ELSE row.reason \in {"", row.verdict}

\* The working table is sound, the tip's is explained: a row is explained when it
\* is sound and Table::refusals has nothing to say of it.
TreeIsSound == \A c \in Cell : tree.rows[c] # NoRow => Sound(tree.rows[c])

IInv == TypeOK /\ TreeIsSound /\ TipIsExplained /\ TipIsWhatTheRunSaid

LEMMA ExplainedRow == ASSUME NEW word \in Word PROVE
  /\ Explained(word) \in Row /\ Explained(word) # NoRow /\ Explained(word).verdict = word
  /\ Sound(Explained(word))
<1>1. Explained(word) \in Row
  BY GateAssumption DEF Explained, Row
<1> QED
  BY <1>1, GateAssumption DEF Explained, Sound

\* A sound row that refusals() lets pass is the row a person writes for its verdict.
LEMMA PassesRefusals ==
  ASSUME NEW row \in Row, Sound(row), row.verdict # "MATCH" => row.reason # "" /\ row.issue
  PROVE  row = Explained(row.verdict)
<1>1. CASE row.verdict = "MATCH"
  BY <1>1 DEF Sound
<1>2. CASE row.verdict # "MATCH"
  <2>1. row.reason = row.verdict /\ row.issue = TRUE
    BY <1>2 DEF Sound, Row
  <2> QED
    BY <1>2, <2>1 DEF Row, Explained
<1> QED
  BY <1>1, <1>2

\* A table that moved() finds nothing in is what the engines say of the manifest.
LEMMA NothingMoved ==
  ASSUME NEW rows, NEW v, NEW cells, Moved(rows, v, cells) = {}, NEW c \in Cell
  PROVE  Verdicts(rows)[c] = IF c \in cells THEN says[v][c] ELSE NoRow
  BY DEF Moved, Verdicts

LEMMA InitIInv == Init => IInv
<1> SUFFICES ASSUME Init PROVE IInv
  OBVIOUS
<1>1. PICK v \in Version, cells \in SUBSET Cell :
        tree = [rows |-> [c \in Cell |-> IF c \in cells THEN Explained(says[v][c]) ELSE NoRow],
                cells |-> cells, pin |-> v]
  BY DEF Init
<1>2. \A c \in Cell : says[v][c] \in Word
  BY DEF Init
<1>3. tree \in Tree /\ tree.pin = v /\ tree.cells = cells
  BY <1>1, <1>2, ExplainedRow DEF Tree, Rows
<1>4. TypeOK
  <2>1. lands \in 0 .. MaxLands
    <3>1. lands = 0 /\ MaxLands \in Nat
      BY GateAssumption DEF Init
    <3> QED
      BY <3>1
  <2>2. landedBy \in [way : {"start", "gate", "ci"}, of : Version]
    BY <1>3 DEF Init
  <2> QED
    BY <1>3, <2>1, <2>2 DEF Init, TypeOK
<1>5. \A c \in Cell : tree.rows[c] = IF c \in cells THEN Explained(says[v][c]) ELSE NoRow
  BY <1>1
<1>6. TreeIsSound /\ TipIsExplained
  BY <1>2, <1>5, ExplainedRow DEF Init, TreeIsSound, TipIsExplained
<1>7. TipIsWhatTheRunSaid
  BY <1>2, <1>3, <1>5, ExplainedRow DEF Init, TipIsWhatTheRunSaid, Verdicts
<1> QED
  BY <1>4, <1>6, <1>7 DEF IInv

\* An edit of the checkout that leaves every row sound.
LEMMA EditStep ==
  ASSUME IInv, Stay, disk' \in Version, tree' \in Tree, TreeIsSound'
  PROVE  IInv'
<1>1. TypeOK'
  BY DEF IInv, TypeOK, Stay
<1>2. TipIsExplained' /\ TipIsWhatTheRunSaid'
  BY DEF IInv, TipIsExplained, TipIsWhatTheRunSaid, Verdicts, Stay
<1> QED
  BY <1>1, <1>2 DEF IInv

LEMMA RegenStep == ASSUME IInv, Regen PROVE IInv'
<1>1. PICK old \in {tree.rows, remote.rows} :
        tree' = [tree EXCEPT !.rows = [c \in Cell |-> RegenRow(c, old)]]
  BY DEF Regen
<1>2. /\ tree \in Tree /\ remote \in Tree /\ disk \in Version /\ disk' = disk
      /\ \A c \in Cell : says[disk][c] \in Word
  BY DEF IInv, TypeOK, Regen
<1>3. ASSUME NEW c \in Cell, old[c] # NoRow PROVE old[c] \in Row /\ Sound(old[c])
  <2>1. old[c] \in Row
    BY <1>2, <1>3 DEF Tree, Rows
  <2>2. CASE old = tree.rows
    BY <1>3, <2>1, <2>2 DEF IInv, TreeIsSound
  <2>3. CASE old = remote.rows
    <3>1. old[c] = Explained(old[c].verdict) /\ old[c].verdict \in Word
      BY <1>3, <2>1, <2>3 DEF IInv, TipIsExplained, Row
    <3> QED
      BY <2>1, <3>1, ExplainedRow
  <2> QED
    BY <2>2, <2>3
<1>4. ASSUME NEW c \in Cell
      PROVE  /\ RegenRow(c, old) \in Row \cup {NoRow}
             /\ RegenRow(c, old) # NoRow => Sound(RegenRow(c, old))
  <2> DEFINE word == says[disk][c]
             blank == [verdict |-> word, reason |-> IF word = "OPEN_FAILED" THEN word ELSE "", issue |-> FALSE]
  <2>1. word # "MATCH" => blank \in Row /\ Sound(blank)
    BY <1>2, GateAssumption DEF Row, Sound
  <2>2. RegenRow(c, old) \in {NoRow, Explained("MATCH"), old[c], blank}
    BY DEF RegenRow
  <2>3. CASE c \notin tree.cells
    BY <2>3 DEF RegenRow
  <2>4. CASE c \in tree.cells /\ word = "MATCH"
    BY <2>4, ExplainedRow, GateAssumption DEF RegenRow
  <2>5. CASE c \in tree.cells /\ word # "MATCH" /\ old[c] # NoRow /\ old[c].verdict = word
    BY <1>3, <2>5 DEF RegenRow
  <2>6. CASE c \in tree.cells /\ word # "MATCH" /\ ~(old[c] # NoRow /\ old[c].verdict = word)
    BY <2>1, <2>6 DEF RegenRow
  <2> QED
    BY <2>3, <2>4, <2>5, <2>6
<1>5. tree' \in Tree /\ \A c \in Cell : tree'.rows[c] = RegenRow(c, old)
  BY <1>1, <1>2, <1>4 DEF Tree, Rows
<1>6. TreeIsSound'
  BY <1>4, <1>5 DEF TreeIsSound, Sound
<1> QED
  BY <1>2, <1>5, <1>6, EditStep DEF Regen

\* One row of the working table is replaced by a sound one, or dropped.
LEMMA RowStep ==
  ASSUME IInv, NEW c \in Cell, NEW row \in Row \cup {NoRow}, row # NoRow => Sound(row),
         tree' = [tree EXCEPT !.rows[c] = row], UNCHANGED disk, Stay
  PROVE  IInv'
<1>1. tree \in Tree /\ tree.rows \in Rows /\ disk' \in Version
  BY DEF IInv, TypeOK, Tree
<1>2. tree' \in Tree /\ \A d \in Cell : tree'.rows[d] = IF d = c THEN row ELSE tree.rows[d]
  BY <1>1 DEF Tree, Rows
<1>3. TreeIsSound'
  BY <1>2 DEF IInv, TreeIsSound, Sound
<1> QED
  BY <1>1, <1>2, <1>3, EditStep

LEMMA PersonStep ==
  ASSUME IInv, NEW c \in Cell, Explain(c) \/ Record(c) \/ ChangeManifest(c)
  PROVE  IInv'
<1>1. CASE Explain(c)
  <2>1. tree.rows[c] \in Row
    BY <1>1 DEF Explain, IInv, TypeOK, Tree, Rows
  <2>2. tree.rows[c].verdict \in Word
    BY <2>1 DEF Row
  <2>3. tree' = [tree EXCEPT !.rows[c] = Explained(tree.rows[c].verdict)]
    BY <1>1 DEF Explain
  <2> QED
    BY <1>1, <2>2, <2>3, ExplainedRow, RowStep DEF Explain
<1>2. CASE Record(c)
  <2>1. PICK row \in {Explained(w) : w \in Word} \cup {NoRow} :
          tree' = [tree EXCEPT !.rows[c] = row]
    BY <1>2 DEF Record
  <2> QED
    BY <1>2, <2>1, ExplainedRow, RowStep DEF Record
<1>3. CASE ChangeManifest(c)
  <2>1. tree' \in Tree /\ tree'.rows = tree.rows /\ disk' \in Version
    BY <1>3 DEF ChangeManifest, IInv, TypeOK, Tree
  <2>2. TreeIsSound'
    BY <2>1 DEF IInv, TreeIsSound
  <2> QED
    BY <1>3, <2>1, <2>2, EditStep DEF ChangeManifest
<1> QED
  BY <1>1, <1>2, <1>3

\* However a change lands, the committed table was held to the run of some
\* engines and had nothing refused.
LEMMA LandStep ==
  ASSUME IInv, NEW v \in Version, NEW way \in {"gate", "ci"}, ChildTestGreen(v), Lands(way, v)
  PROVE  IInv'
<1>1. /\ tree \in Tree /\ remote' = tree /\ landedBy' = [way |-> way, of |-> v]
      /\ UNCHANGED <<says, disk, tree>>
  BY DEF IInv, TypeOK, Lands
<1>2. TypeOK'
  <2>1. lands' \in 0 .. MaxLands
    <3>1. lands \in 0 .. MaxLands /\ lands < MaxLands /\ lands' = lands + 1 /\ MaxLands \in Nat
      BY GateAssumption DEF IInv, TypeOK, Lands
    <3> QED
      BY <3>1
  <2> QED
    BY <1>1, <2>1 DEF IInv, TypeOK
<1>3. TreeIsSound'
  BY <1>1 DEF IInv, TreeIsSound
<1>4. TipIsExplained'
  <2> SUFFICES ASSUME NEW c \in Cell, tree.rows[c] # NoRow
               PROVE  tree.rows[c] = Explained(tree.rows[c].verdict)
    BY <1>1 DEF TipIsExplained
  <2>1. tree.rows[c] \in Row /\ Sound(tree.rows[c])
    BY <1>1 DEF IInv, TreeIsSound, Tree, Rows
  <2>2. tree.rows[c].verdict # "MATCH" => tree.rows[c].reason # "" /\ tree.rows[c].issue
    BY DEF ChildTestGreen, Agrees, Refusals
  <2> QED
    BY <2>1, <2>2, PassesRefusals
<1>5. TipIsWhatTheRunSaid'
  <2> SUFFICES ASSUME NEW c \in Cell
               PROVE  Verdicts(tree.rows)[c] = IF c \in tree.cells THEN says[v][c] ELSE NoRow
    BY <1>1 DEF TipIsWhatTheRunSaid, Verdicts
  <2> QED
    BY NothingMoved DEF ChildTestGreen, Agrees
<1> QED
  BY <1>2, <1>3, <1>4, <1>5 DEF IInv

LEMMA StepIInv == IInv /\ [Next]_vars => IInv'
<1> SUFFICES ASSUME IInv, [Next]_vars PROVE IInv'
  OBVIOUS
<1>1. CASE Regen
  BY <1>1, RegenStep
<1>2. CASE Checkout
  <2>1. tree' \in Tree /\ disk' \in Version /\ TreeIsSound' /\ Stay
    BY <1>2 DEF Checkout, IInv, TypeOK, TreeIsSound
  <2> QED
    BY <2>1, EditStep
<1>3. CASE Pin
  <2>1. tree' \in Tree /\ tree'.rows = tree.rows /\ disk' \in Version /\ Stay
    BY <1>3 DEF Pin, IInv, TypeOK, Tree
  <2>2. TreeIsSound'
    BY <2>1 DEF IInv, TreeIsSound
  <2> QED
    BY <2>1, <2>2, EditStep
<1>4. CASE GatePush
  <2>1. disk \in Version
    BY DEF IInv, TypeOK
  <2> QED
    BY <1>4, <2>1, LandStep DEF GatePush
<1>5. CASE LandByCI
  <2>1. tree.pin \in Version
    BY DEF IInv, TypeOK, Tree
  <2> QED
    BY <1>5, <2>1, LandStep DEF LandByCI
<1>6. ASSUME NEW c \in Cell, Explain(c) \/ Record(c) \/ ChangeManifest(c) PROVE IInv'
  BY <1>6, PersonStep
<1>7. CASE UNCHANGED vars
  BY <1>7 DEF vars, IInv, TypeOK, TreeIsSound, TipIsExplained, TipIsWhatTheRunSaid, Verdicts
<1> QED
  BY <1>1, <1>2, <1>3, <1>4, <1>5, <1>6, <1>7 DEF Next

LEMMA Invariant == Spec => []IInv
  BY InitIInv, StepIInv, PTL DEF Spec

\* The checkout and the tip are tables of typed rows, whatever lands.
THEOREM GateTypes == Spec => []TypeOK
<1>1. IInv => TypeOK
  BY DEF IInv
<1> QED
  BY <1>1, Invariant, PTL

\* However a table reached the remote, each row that is not MATCH has an issue and
\* a reason that was written for that verdict.
THEOREM TipStaysExplained == Spec => []TipIsExplained
<1>1. IInv => TipIsExplained
  BY DEF IInv
<1> QED
  BY <1>1, Invariant, PTL

\* However a table reached the remote, it is what the engines of the run that let
\* it through said of its manifest.
THEOREM TipIsEarned == Spec => []TipIsWhatTheRunSaid
<1>1. IInv => TipIsWhatTheRunSaid
  BY DEF IInv
<1> QED
  BY <1>1, Invariant, PTL

\* No push through the gate moves a verdict of the remote's table, whatever was
\* regenerated, edited or re-recorded before it.
THEOREM GateMovesNothing == Spec => NothingMovesThroughTheGate
<1>1. ASSUME [Next]_vars, lands' # lands, landedBy'.way = "gate"
      PROVE  Verdicts(remote'.rows) = Verdicts(remote.rows)
  <2>1. CASE GatePush
    <3>1. /\ Moved(remote.rows, disk, tree.cells) = {} /\ Moved(tree.rows, disk, tree.cells) = {}
          /\ remote' = tree
      BY <2>1 DEF GatePush, ChildTestGreen, Agrees, Lands
    <3>2. \A c \in Cell : Verdicts(tree.rows)[c] = Verdicts(remote.rows)[c]
      BY <3>1, NothingMoved
    <3> QED
      BY <3>1, <3>2 DEF Verdicts
  <2>2. CASE LandByCI
    BY <1>1, <2>2 DEF LandByCI, Lands
  <2>3. CASE ~GatePush /\ ~LandByCI
    BY <1>1, <2>3 DEF Next, Regen, Checkout, Pin, Explain, Record, ChangeManifest, Stay, vars
  <2> QED
    BY <2>1, <2>2, <2>3
<1>2. [Next]_vars => [lands' # lands /\ landedBy'.way = "gate" => Verdicts(remote'.rows) = Verdicts(remote.rows)]_vars
  BY <1>1
<1> QED
  BY <1>2, PTL DEF Spec, NothingMovesThroughTheGate
=============================================================================
