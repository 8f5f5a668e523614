----------------------------- MODULE VerdictGate -----------------------------
(***************************************************************************)
(* parity/VERDICTS.toml and the ways a change of it reaches the remote:    *)
(* the verdicts a run computes (tests/parity.rs), what makes a table       *)
(* uncommittable (src/verdict.rs, refusals and moved), PARITY_REGEN, the   *)
(* push gate that holds a run to the committed table and to the remote's   *)
(* (tools/run-tests.sh), and CI, which holds it to the committed one.      *)
(*                                                                         *)
(* A cell is a (fixture, pair); a table gives each cell a row or none.  A  *)
(* reason stands for the verdict it was written for, "" for none.          *)
(***************************************************************************)
EXTENDS Naturals

CONSTANTS
  Cell,
  ControlCell,   \* cells of the pair oracle/acadrust, which the gate's control uses
  Version,       \* versions of the reader engines
  Word,          \* verdicts, "MATCH" and "OPEN_FAILED" among them
  NoRow,
  MaxLands       \* bound: changes that reach the remote

VARIABLES
  says,     \* the verdict each engine version earns on each cell
  disk,     \* the engine version checked out beside the suite
  tree,     \* the suite's checkout: table rows, cells of the manifest, pinned version
  remote,   \* the same of the remote's tip
  landedBy, \* history: how the tip got there, and the version its run used
  lands

vars == <<says, disk, tree, remote, landedBy, lands>>

Row == [verdict : Word, reason : Word \cup {""}, issue : BOOLEAN]
Rows == [Cell -> Row \cup {NoRow}]
Tree == [rows : Rows, cells : SUBSET Cell, pin : Version]

ASSUME GateAssumption ==
  /\ ControlCell \subseteq Cell
  /\ {"MATCH", "OPEN_FAILED"} \subseteq Word /\ "" \notin Word
  /\ NoRow \notin Row
  /\ MaxLands \in Nat

TypeOK ==
  /\ says \in [Version -> [Cell -> Word]]
  /\ disk \in Version
  /\ tree \in Tree /\ remote \in Tree
  /\ landedBy \in [way : {"start", "gate", "ci"}, of : Version]
  /\ lands \in 0 .. MaxLands

\* The row a person writes for a verdict: a reason and an issue where it needs
\* them (Verdict::needs_reason).
Explained(word) ==
  IF word = "MATCH" THEN [verdict |-> word, reason |-> "", issue |-> FALSE]
  ELSE [verdict |-> word, reason |-> word, issue |-> TRUE]

\* A tip whose table is what its pinned engines say, every row explained.
Init ==
  /\ says \in [Version -> [Cell -> Word]]
  /\ disk \in Version
  /\ \E v \in Version, cells \in SUBSET Cell :
       tree = [rows |-> [c \in Cell |-> IF c \in cells THEN Explained(says[v][c]) ELSE NoRow],
               cells |-> cells, pin |-> v]
  /\ remote = tree
  /\ landedBy = [way |-> "start", of |-> tree.pin]
  /\ lands = 0

-----------------------------------------------------------------------------
\* Mutant: a cell the run produced and no row names is not reported.
MovedIgnoresNew(rows, v, cells) ==
  {c \in Cell : rows[c] # NoRow /\ (c \in cells => rows[c].verdict # says[v][c])}

\* Table::moved: rows missing on either side, and rows whose word differs.
Moved(rows, v, cells) ==
  {c \in Cell : IF c \in cells THEN rows[c] = NoRow \/ rows[c].verdict # says[v][c]
                ELSE rows[c] # NoRow}

\* Table::refusals
Refusals(rows) ==
  {c \in Cell : /\ rows[c] # NoRow
                /\ rows[c].verdict # "MATCH"
                /\ rows[c].reason = "" \/ ~rows[c].issue}

\* the_run_agrees_with_the_committed_verdicts, of engines v, held to a table.
Agrees(rows, v, cells) == Moved(rows, v, cells) = {} /\ Refusals(rows) = {}

\* a_base_with_one_row_moved_is_red_and_names_that_row: it needs a MATCH row of
\* its pair to move in a copy, and its second child holds the run to the
\* committed table, whatever base the outer run was given.
ChildTestGreen(v) ==
  /\ \E c \in ControlCell : tree.rows[c] # NoRow /\ tree.rows[c].verdict = "MATCH"
  /\ Agrees(tree.rows, v, tree.cells)

\* Mutant: keeps the reason and the issue of every row whose key is found.
RegenRowKeepsReason(c, old) ==
  LET word == says[disk][c] IN
  IF c \notin tree.cells THEN NoRow
  ELSE IF word = "MATCH" THEN Explained(word)
  ELSE IF old[c] # NoRow THEN [old[c] EXCEPT !.verdict = word]
  ELSE [verdict |-> word, reason |-> IF word = "OPEN_FAILED" THEN word ELSE "", issue |-> FALSE]

\* One row of PARITY_REGEN: reason and issue are kept where the word did not
\* move; a new OPEN_FAILED says why, from stderr; the rest is left blank.
RegenRow(c, old) ==
  LET word == says[disk][c] IN
  IF c \notin tree.cells THEN NoRow
  ELSE IF word = "MATCH" THEN Explained(word)
  ELSE IF old[c] # NoRow /\ old[c].verdict = word THEN old[c]
  ELSE [verdict |-> word, reason |-> IF word = "OPEN_FAILED" THEN word ELSE "", issue |-> FALSE]

Stay == UNCHANGED <<says, remote, landedBy, lands>>

\* PARITY_REGEN=1: the kept rows are the committed ones, or those of the file
\* PARITY_VERDICTS_BASE names.
Regen ==
  /\ \E old \in {tree.rows, remote.rows} :
       tree' = [tree EXCEPT !.rows = [c \in Cell |-> RegenRow(c, old)]]
  /\ UNCHANGED disk /\ Stay

\* A person fills in the reason and the issue of a row.
Explain(c) ==
  /\ tree.rows[c] # NoRow /\ tree.rows[c].verdict # "MATCH"
  /\ tree' = [tree EXCEPT !.rows[c] = Explained(@.verdict)]
  /\ UNCHANGED disk /\ Stay

\* A person records a verdict by hand, with its reason, or drops the row.
Record(c) ==
  /\ \E row \in {Explained(w) : w \in Word} \cup {NoRow} :
       tree' = [tree EXCEPT !.rows[c] = row]
  /\ UNCHANGED disk /\ Stay

\* A fixture enters or leaves the manifest.
ChangeManifest(c) ==
  /\ tree' = [tree EXCEPT !.cells = IF c \in @ THEN @ \ {c} ELSE @ \cup {c}]
  /\ UNCHANGED disk /\ Stay

\* Another engine version is checked out; or the suite pins the one that is.
Checkout == disk' \in Version /\ UNCHANGED tree /\ Stay
Pin == tree' = [tree EXCEPT !.pin = disk] /\ UNCHANGED disk /\ Stay

Lands(way, v) ==
  /\ tree # remote
  /\ lands < MaxLands /\ lands' = lands + 1
  /\ remote' = tree
  /\ landedBy' = [way |-> way, of |-> v]
  /\ UNCHANGED <<says, disk, tree>>

\* Mutant: the gate holds the run to the committed table and nothing else.
GatePushCommittedOnly ==
  /\ ChildTestGreen(disk)
  /\ Lands("gate", disk)

\* A push through the gate: with PARITY_VERDICTS_BASE set the run is held to
\* the remote's table, on the engines that are on disk.
GatePush ==
  /\ Agrees(remote.rows, disk, tree.cells)
  /\ ChildTestGreen(disk)
  /\ Lands("gate", disk)

\* A change lands by way of CI: no base, and the engines the suite pins.
LandByCI ==
  /\ ChildTestGreen(tree.pin)
  /\ Lands("ci", tree.pin)

Next ==
  \/ Regen \/ Checkout \/ Pin \/ GatePush \/ LandByCI
  \/ \E c \in Cell : Explain(c) \/ Record(c) \/ ChangeManifest(c)

Spec == Init /\ [][Next]_vars

-----------------------------------------------------------------------------
Verdicts(rows) == [c \in Cell |-> IF rows[c] = NoRow THEN NoRow ELSE rows[c].verdict]

\* Lines 20-24 of tests/parity.rs: a change that moves a verdict and re-records
\* it is red at push time.  No push through the gate changes, adds or drops a
\* verdict of the remote's table, whatever was regenerated or edited before it.
NothingMovesThroughTheGate ==
  [][lands' # lands /\ landedBy'.way = "gate" => Verdicts(remote'.rows) = Verdicts(remote.rows)]_vars

\* src/verdict.rs, HEADER: "a row that is not MATCH has a reason and an issue",
\* and the reason is about the verdict it stands beside, not about the one the
\* row had before the engines moved.
TipIsExplained ==
  \A c \in Cell : remote.rows[c] # NoRow => remote.rows[c] = Explained(remote.rows[c].verdict)

\* The table at the tip is what the engines said in the run that let it land:
\* one row per cell of its manifest, no row beside, no word of another version.
TipIsWhatTheRunSaid ==
  \A c \in Cell :
    Verdicts(remote.rows)[c] = IF c \in remote.cells THEN says[landedBy.of][c] ELSE NoRow
=============================================================================
