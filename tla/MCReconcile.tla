----------------------------- MODULE MCReconcile ------------------------------
(* Reconcile for TLC: two records of A, up to Extra of B alone, up to MaxRows  *)
(* rows (at most three).                                                       *)
EXTENDS Reconcile, TLC

CONSTANT MaxRows

KindOf(x) == "text"

\* Both records are of one entity: they have its handle path.
MCPaths == [x \in Index |-> Handle]

Mismatch(x, fld, v) ==
  [what |-> "FieldMismatch", ia |-> x, ib |-> x, kind |-> KindOf(x), field |-> fld,
   val |-> v, disp |-> "Open"]
Stray(side, x, kd) ==
  [what |-> side, ia |-> IF side = "OnlyInA" THEN x ELSE None,
   ib |-> IF side = "OnlyInB" THEN x ELSE None,
   kind |-> kd, field |-> None, val |-> None, disp |-> "Open"]

\* One record of A: fields that differ, or in another place, or not in B.
OfRecord(x) ==
  {{Mismatch(x, fld, g[fld]) : fld \in DOMAIN g} : g \in UNION {[S -> Value] : S \in SUBSET Field}}
    \cup {{Stray("OnlyInA", x, KindOf(x))},
          {[Stray("OnlyInA", x, KindOf(x)) EXCEPT !.what = "Order", !.ib = x]}}
OfB == {{Stray("OnlyInB", x, kd[x]) : x \in 1 .. n} :
          n \in 0 .. Extra, kd \in [1 .. Extra -> Kind]}
MCOutcomes ==
  {UNION {g[x] : x \in Index} \cup rest :
     g \in {h \in [Index -> UNION {OfRecord(x) : x \in Index}] : \A x \in Index : h[x] \in OfRecord(x)},
     rest \in OfB}

\* The rows of the two records, and the sequences of at most MaxRows of them in
\* the order their kinds are looked at.
MCRows ==
  {r \in KnownRow : r.kind = "text"} \cup MissingRow \cup DualRow
    \cup [stage : {3}, kind : Kind, side : {"OnlyInA", "OnlyInB"}, count : 1 .. 2]
InOrder(t) == \A m, n \in DOMAIN t : m < n => t[m].stage <= t[n].stage
MCTables ==
  {<<>>} \cup {<<r>> : r \in MCRows}
    \cup (IF MaxRows < 2 THEN {} ELSE {t \in MCRows \X MCRows : InOrder(t)})
    \cup (IF MaxRows < 3 THEN {} ELSE {t \in MCRows \X MCRows \X MCRows : InOrder(t)})
=============================================================================
