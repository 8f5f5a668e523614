------------------------------ MODULE BothWays -------------------------------
(***************************************************************************)
(* The comparator run twice on one pair of streams, the second time with   *)
(* the sides swapped: src/fuzz_harness.rs, comparator().  Both runs are    *)
(* Align's; between them what the first one answered is kept.              *)
(***************************************************************************)
EXTENDS Align

VARIABLE answers   \* ab.is_match(), once compare("fuzz", &a, &b, ..) has returned

bothVars == <<vars, answers>>

BothInit == Init /\ answers = <<>>

\* One of the two calls of compare() at work.
Comparing == Next /\ UNCHANGED answers

\* compare("fuzz", &b, &a, ..) begins: nothing of the first call is left but its
\* answer.
SwapSides ==
  /\ Done /\ answers = <<>>
  /\ answers' = <<IsMatch>>
  /\ a' = b /\ b' = a
  /\ lo' = 0 /\ ea' = Len(b) /\ eb' = Len(a)
  /\ i' = 0 /\ j' = 0 /\ k' = 1
  /\ pairs' = {} /\ moved' = {}
  /\ pc' = "front"

BothNext == Comparing \/ SwapSides

BothSpec == BothInit /\ [][BothNext]_bothVars

\* "compare(a, b) and compare(b, a) disagree on equal-or-not" is what the fuzz
\* target asserts never happens.
MatchBothWays == Done => \A n \in DOMAIN answers : answers[n] = IsMatch

\* It never happens to two streams unless they agree under a tolerance of more
\* than a step: then the key parts records that agree, and which of two equally
\* long alignments is found depends on the side.
MatchIsSymmetric == (Same => Close) => MatchBothWays
=============================================================================
