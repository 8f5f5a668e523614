------------------------------ MODULE Reconcile ------------------------------
(***************************************************************************)
(* What the class table makes of a comparison's findings: reconcile() of   *)
(* src/compare.rs, one action per row of the table, and the verdict that   *)
(* judge() of src/verdict.rs and judge_self() of src/parity_run.rs give.   *)
(*                                                                         *)
(* The A side is the oracle's, whose indices the rows name.  Aligned       *)
(* records have one index; a value stands for the two values that differ.  *)
(* Findings are a set: nothing here tells two equal ones apart.            *)
(***************************************************************************)
EXTENDS Integers, FiniteSets, Sequences

CONSTANTS
  Index,      \* indices of A's records
  Handle,     \* handle paths
  Paths,      \* the paths the sidecars give an aligned record, of either side
  Kind,       \* record types (line, text, ...)
  Field,      \* fields of a record
  Value,      \* ways two values of a field can differ
  None,       \* no index, no field, no value, no verdict
  Extra,      \* bound: records only in B
  Outcomes,   \* the sets of findings compare() may arrive with
  Tables,     \* the row sequences a fixture may have in a pair's table
  MaxListed   \* bound: explanations the caller of judge_self() has

VARIABLES
  met,        \* findings as the alignment left them
  findings,   \* findings with the disposition the rows gave them
  table,      \* the rows of this fixture
  todo,       \* rows not looked at yet
  verdict,    \* what judge() says
  listed,     \* what the caller of judge_self() explains
  own         \* what judge_self() says

vars == <<met, findings, table, todo, verdict, listed, own>>

Finding == [what : {"FieldMismatch", "OnlyInA", "OnlyInB", "Order", "StaleKnownRow"},
            ia : Index \cup {None}, ib : Index \cup (1 .. Extra) \cup {None},
            kind : Kind, field : Field \cup {None}, val : Value \cup {None},
            disp : {"Open", "Known", "KnownMoved", "KnownVanished", "DualOracle"}]

\* One field of one record, found by the oracle's index or by a handle path.
KnownRow ==
  [stage : {1}, by : {"index"}, key : Index, kind : Kind, field : Field, val : Value]
    \cup [stage : {1}, by : {"handles"}, key : Handle, kind : Kind, field : Field, val : Value]
\* Records of A that B lacks, by index.
MissingRow == [stage : {2}, kind : Kind, at : (SUBSET Index) \ {{}}]
\* A number of records of one kind one side lacks; zero is refused at load.
RecordsRow == [stage : {3}, kind : Kind, side : {"OnlyInA", "OnlyInB"}, count : Nat \ {0}]
\* A field nobody can settle.
DualRow == [stage : {4}, kind : Kind, field : Field]

Row == KnownRow \cup MissingRow \cup RecordsRow \cup DualRow

ASSUME ReconcileAssumption ==
  /\ None \notin Index /\ None \notin Value /\ None \notin Field
  /\ Paths \in [Index -> SUBSET Handle]
  /\ Index \subseteq Nat \ {0} /\ IsFiniteSet(Index) /\ Extra \in Nat /\ MaxListed \in Nat
  /\ \A out \in Outcomes :
       /\ IsFiniteSet(out) /\ out \subseteq Finding
       /\ \A f \in out : f.disp = "Open" /\ f.what # "StaleKnownRow"
  /\ \A t \in Tables :
       /\ t \in Seq(Row)
       /\ \A n \in 1 .. Len(t) : \A m \in 1 .. n : t[m].stage <= t[n].stage

-----------------------------------------------------------------------------
Red(f) == f.disp \in {"Open", "KnownVanished", "KnownMoved"}
With(f, d) == [f EXCEPT !.disp = d]

\* A row that found nothing is a finding of its own.
Stale(ia, kind, field, val) ==
  [what |-> "StaleKnownRow", ia |-> ia, ib |-> None, kind |-> kind,
   field |-> field, val |-> val, disp |-> "KnownVanished"]

\* The records a row names: an entity of several records gives them one path.
Names(row) ==
  IF row.by = "index" THEN {row.key} ELSE {x \in Index : row.key \in Paths[x]}

\* The findings each row is about.
OnKnown(row, f) ==
  f.what = "FieldMismatch" /\ f.ia \in Names(row) /\ f.kind = row.kind /\ f.field = row.field
OnMissing(row, f) ==
  f.what = "OnlyInA" /\ f.disp = "Open" /\ f.kind = row.kind /\ f.ia \in row.at
OnRecords(row, f) == f.what = row.side /\ f.disp = "Open" /\ f.kind = row.kind
\* Mutant: a dual-oracle row takes its kind whatever the field.
OnDualAnyField(row, f) ==
  f.what = "FieldMismatch" /\ f.disp = "Open" /\ f.kind = row.kind
OnDual(row, f) ==
  f.what = "FieldMismatch" /\ f.disp = "Open" /\ f.kind = row.kind /\ f.field = row.field

KnownDisp(row, f) == IF f.val = row.val THEN "Known" ELSE "KnownMoved"

RecordsDisp(row, hit) == IF Cardinality(hit) = row.count THEN "Known" ELSE "KnownMoved"

\* Mutant: one record of a missing row is enough.
MissingOne(row, hit) ==
  IF hit = {} THEN {Stale(x, row.kind, None, None) : x \in row.at} ELSE {}
\* The indices of a missing row whose record is there after all.
MissingGone(row, hit) ==
  {Stale(x, row.kind, None, None) : x \in row.at \ {f.ia : f \in hit}}

\* Mutant: the finding a row takes is copied, not changed in place.
SettleAppends(hit, settled) ==
  /\ findings' = findings \cup settled
  /\ todo' = Tail(todo)
  /\ UNCHANGED <<met, table, verdict, listed, own>>

\* The rows are looked at one after the other, the kinds of rows in this order.
Settle(hit, settled) ==
  /\ findings' = (findings \ hit) \cup settled
  /\ todo' = Tail(todo)
  /\ UNCHANGED <<met, table, verdict, listed, own>>

Init ==
  /\ met \in Outcomes /\ findings = met
  /\ table \in Tables /\ todo = table
  /\ verdict = None /\ own = None /\ listed = {}

\* A known row takes the first finding it is about, another may stay open; which
\* one is first, a set does not say.
ReconcileKnown ==
  /\ todo # <<>> /\ Head(todo).stage = 1
  /\ LET row == Head(todo)
         hit == {f \in findings : OnKnown(row, f)}
     IN \/ /\ hit = {}
           /\ Settle({}, {Stale(IF row.by = "index" THEN row.key ELSE None,
                                row.kind, row.field, row.val)})
        \/ \E f \in hit : Settle({f}, {With(f, KnownDisp(row, f))})

ReconcileMissing ==
  /\ todo # <<>> /\ Head(todo).stage = 2
  /\ LET row == Head(todo)
         hit == {f \in findings : OnMissing(row, f)}
     IN Settle(hit, {With(f, "Known") : f \in hit} \cup MissingGone(row, hit))

ReconcileRecords ==
  /\ todo # <<>> /\ Head(todo).stage = 3
  /\ LET row == Head(todo)
         hit == {f \in findings : OnRecords(row, f)}
     IN Settle(hit, IF hit = {} THEN {Stale(None, row.kind, None, None)}
                    ELSE {With(f, RecordsDisp(row, hit)) : f \in hit})

ReconcileDual ==
  /\ todo # <<>> /\ Head(todo).stage = 4
  /\ LET row == Head(todo)
         hit == {f \in findings : OnDual(row, f)}
     IN Settle(hit, {With(f, "DualOracle") : f \in hit})

-----------------------------------------------------------------------------
\* records_of(): a record with three bad fields is one.
RecordsOf(fs) == Cardinality({<<f.ia, f.ib>> : f \in fs})

Reds == {f \in findings : Red(f)}
Knowns == {f \in findings : f.disp = "Known"}
Unpaired(fs) == {f \in fs : f.what \in {"OnlyInA", "OnlyInB"}}

\* Records of the two sides: what is in neither list of strays is in both streams.
SizeA == Cardinality(Index)
SizeB == SizeA - Cardinality({f \in met : f.what = "OnlyInA"})
               + Cardinality({f \in met : f.what = "OnlyInB"})
Larger == IF SizeA > SizeB THEN SizeA ELSE SizeB

Says(word, n) == [word |-> word, n |-> n]

\* Mutant: a moved or vanished row is not a reason for a difference.
JudgementOfTheOpen ==
  IF \E f \in findings : f.disp = "Open"
  THEN Says("DIFF", RecordsOf({f \in findings : f.disp = "Open"}))
  ELSE IF Knowns # {} THEN Says("KNOWN", RecordsOf(Knowns))
  ELSE IF \E f \in findings : f.disp = "DualOracle" THEN Says("DUAL_ORACLE", 0)
  ELSE Says("MATCH", 0)

\* judge(): the counts when most of what is left could not be paired.
Judgement ==
  IF Reds # {}
  THEN IF SizeA # SizeB /\ 2 * Cardinality(Unpaired(Reds)) > Larger
       THEN Says("COUNT", 0) ELSE Says("DIFF", RecordsOf(Reds))
  ELSE IF Knowns # {} THEN Says("KNOWN", RecordsOf(Knowns))
  ELSE IF \E f \in findings : f.disp = "DualOracle" THEN Says("DUAL_ORACLE", 0)
  ELSE Says("MATCH", 0)

Judge ==
  /\ todo = <<>> /\ verdict = None
  /\ verdict' = Judgement
  /\ UNCHANGED <<met, findings, table, todo, listed, own>>

\* What a caller can explain: a row of the exception list, whatever the finding
\* is, or what its reader already made of the source, for two kinds of finding.
\* Only those that speak of a red finding are worth choosing.
Spot(f) == <<f.ia, f.kind, f.field, f.val>>
Explanations ==
  {[by |-> "list", spot |-> Spot(f)] : f \in {g \in Reds : g.ia # None /\ g.val # None}}
    \cup {[by |-> f.what, spot |-> Spot(f)] :
            f \in {g \in Reds : g.what \in {"FieldMismatch", "OnlyInA"}}}

Explained(f) == \E e \in listed : e.spot = Spot(f) /\ e.by \in {"list", f.what}

\* Mutant: explanations that explain something explain the rest.
OwnJudgementOfAny(explained, rest) ==
  IF explained = {} THEN Says("DIFF", RecordsOf(rest))
  ELSE Says("KNOWN", RecordsOf(explained \cup Knowns))

\* Mutant: only what the caller explained is counted.
OwnJudgementListedOnly(explained, rest) ==
  IF rest # {} THEN Says("DIFF", RecordsOf(rest)) ELSE Says("KNOWN", RecordsOf(explained))

\* judge_self(): only the unexplained count as a difference; without any, the
\* explained and what the table lists are what is known.
OwnJudgement(explained, rest) ==
  IF rest # {} THEN Says("DIFF", RecordsOf(rest))
  ELSE Says("KNOWN", RecordsOf(explained \cup Knowns))

JudgeSelf ==
  /\ verdict # None /\ own = None
  /\ \E given \in {X \in SUBSET Explanations : Cardinality(X) <= MaxListed} :
       /\ listed' = given
       /\ own' = IF Reds = {} THEN verdict
                 ELSE LET explained == {f \in Reds : Explained(f)'}
                      IN OwnJudgement(explained, Reds \ explained)
  /\ UNCHANGED <<met, findings, table, todo, verdict>>

Next ==
  \/ ReconcileKnown \/ ReconcileMissing \/ ReconcileRecords \/ ReconcileDual
  \/ Judge \/ JudgeSelf

Spec == Init /\ [][Next]_vars

-----------------------------------------------------------------------------
Verdict == [word : {"MATCH", "DIFF", "COUNT", "KNOWN", "DUAL_ORACLE"}, n : Nat]
RowsSeen == {table[n] : n \in 1 .. Len(table) - Len(todo)}
Rows == {table[n] : n \in 1 .. Len(table)}
Settled == todo = <<>>

TypeOK ==
  /\ met \subseteq Finding /\ findings \subseteq Finding
  /\ \A n \in 1 .. Len(table) : table[n] \in Row
  /\ Len(todo) <= Len(table)
  /\ verdict \in Verdict \cup {None} /\ own \in Verdict \cup {None}

\* The rows lose no difference and invent none: what the alignment found is
\* there once, with one disposition, and everything else is about a stale row.
DifferencesAreKept ==
  /\ met = {With(f, "Open") : f \in {g \in findings : g.what # "StaleKnownRow"}}
  /\ \A f, g \in findings : With(f, "Open") = With(g, "Open") => f = g

\* A difference leaves the red list only for a row looked at before that is
\* about it: a listed value, a listed index, a count that is exact, a dual field.
ListsKnown(f) ==
  \E row \in RowsSeen \cap KnownRow : OnKnown(row, f) /\ f.val = row.val
ListsMissing(f) == \E row \in RowsSeen :
  row.stage = 2 /\ f.what = "OnlyInA" /\ f.kind = row.kind /\ f.ia \in row.at
ListsCount(f) == \E row \in RowsSeen :
  /\ row.stage = 3 /\ f.what = row.side /\ f.kind = row.kind
  /\ row.count = Cardinality({g \in met : g.what = f.what /\ g.kind = f.kind
                                            /\ ~ListsMissing(g)})
ListsDual(f) == \E row \in RowsSeen : row.stage = 4 /\ f.kind = row.kind /\ f.field = row.field
OnlyListedIsExcused ==
  \A f \in findings :
    /\ f.disp = "Known" => ListsKnown(f) \/ ListsMissing(f) \/ ListsCount(f)
    /\ f.disp = "DualOracle" => ListsDual(f)

\* "A known row that still holds exactly is not red; one that no longer diverges,
\* or diverges differently, is red", for a row no other row shares a record with;
\* "every listed index must still be missing, as that kind, or the row is red";
\* "the count has to be exact: one more is a new difference, one fewer a row that
\* has gone stale".  Whatever rows come after it, a row of the table either still
\* holds or shows.
ListedOnce(row) ==
  \A m, n \in {n \in 1 .. Len(table) :
               /\ table[n].stage = 1 /\ table[n].kind = row.kind /\ table[n].field = row.field
               /\ Names(table[n]) \cap Names(row) # {}} : m = n
KnownHolds(row) ==
  LET hit == {f \in findings : OnKnown(row, f)}
      kept == {f \in hit : f.val = row.val /\ f.disp = "Known"}
  IN /\ hit # {} /\ (\A f \in hit : f.val = row.val) => kept # {}
     /\ kept # {} \/ \E f \in Reds : f.kind = row.kind /\ f.field = row.field
MissingHolds(row) ==
  \A x \in row.at :
    \/ \E f \in findings : f.what = "OnlyInA" /\ f.ia = x /\ f.kind = row.kind /\ f.disp = "Known"
    \/ \E f \in Reds : f.ia = x
CountHolds(row) ==
  \/ row.count = Cardinality({f \in Knowns : f.what = row.side /\ f.kind = row.kind /\ ~ListsMissing(f)})
  \/ \E f \in Reds : f.kind = row.kind
ListedRowsHold ==
  Settled => \A row \in Rows :
    /\ row.stage = 1 /\ ListedOnce(row) => KnownHolds(row)
    /\ row.stage = 2 => MissingHolds(row)
    /\ row.stage = 3 => CountHolds(row)

\* A word better than DIFF says what it says: MATCH that there was no difference
\* and no row that expects one, KNOWN that each difference is listed.
WordsAreEarned ==
  verdict # None =>
    /\ verdict.word = "MATCH" => met = {} /\ \A row \in Rows : row.stage = 4
    /\ verdict.word \in {"KNOWN", "DUAL_ORACLE"} =>
         /\ \A f \in findings : f.disp \in {"Known", "DualOracle"}
         /\ met # {}
    /\ verdict.word \in {"DIFF", "COUNT"} => Reds # {}

\* judge_self(): "an unlisted difference is not hidden by listed ones beside it".
\* Under a word better than DIFF every difference the alignment found is one a row
\* lists, or one the caller explains.  And a row that stops holding is "the
\* comparator's stale-row finding, which is red": under such a word every row that
\* expects a difference found one it is about, save a field listed by index that
\* the caller's exception list has under the same values.
Met(row) ==
  \/ row.stage = 1 /\ \E d \in met : OnKnown(row, d)
  \/ /\ row.stage = 1 /\ row.by = "index"
     /\ [by |-> "list", spot |-> <<row.key, row.kind, row.field, row.val>>] \in listed
  \/ row.stage = 2 /\ \A x \in row.at :
       \E d \in met : d.what = "OnlyInA" /\ d.kind = row.kind /\ d.ia = x
  \/ row.stage = 3 /\ \E d \in met : d.what = row.side /\ d.kind = row.kind
  \/ row.stage = 4
UnlistedIsNotHidden ==
  own # None /\ own.word \in {"KNOWN", "MATCH", "DUAL_ORACLE"} =>
    /\ \A d \in met :
         ListsKnown(d) \/ ListsMissing(d) \/ ListsCount(d) \/ ListsDual(d) \/ Explained(d)
    /\ \A row \in Rows : Met(row)

\* "A cell with both kinds must not count only the ones the caller explained": a
\* KNOWN counts every record that differs and is scored, however it is excused.
Counts(v) ==
  v # None /\ v.word = "KNOWN" =>
    v.n >= RecordsOf({f \in findings : f.what # "StaleKnownRow" /\ f.disp # "DualOracle"})
KnownCountsEveryRecord == Counts(verdict) /\ Counts(own)
=============================================================================
