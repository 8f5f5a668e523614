---------------------------- MODULE MCRegenerate -----------------------------
(* Regenerate for TLC: two fixtures with their SVG and one DXF input. *)
EXTENDS Regenerate, TLC

CONSTANTS Base, Redraws, Moves

Named(x, k) == [of |-> x, kind |-> k]
MCArtefacts ==
  <<Named("f1", "jsonl"), Named("f1", "svg"), Named("f2", "jsonl"), Named("f2", "svg"),
    Named("d", "jsonl")>>
Names == {MCArtefacts[n] : n \in 1 .. Len(MCArtefacts)}
Instead(moved) == [x \in Names |-> IF x \in moved THEN "b" ELSE "a"]

\* One version draws f1 differently from the first, one reads f1 and d differently.
MCReads ==
  (Base :> Instead({})) @@ (Redraws :> Instead({Named("f1", "svg")}))
    @@ (Moves :> Instead({Named("f1", "jsonl"), Named("d", "jsonl")}))
MCStrange == Instead(Names)
=============================================================================
