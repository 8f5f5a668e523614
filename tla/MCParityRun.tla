----------------------------- MODULE MCParityRun -----------------------------
(* ParityRun for TLC. *)
EXTENDS ParityRun, TLC

CONSTANT Newer   \* the archive that opens every fixture, and is linked first

\* acadrust opens every fixture; what the other archive opens is left open.
LeanInit == Init /\ archive = Newer /\ \A r \in {"acadrust", Newer} : opens[r] = Fixture

\* What goes wrong, or runs beside the pool: one such thing at a time.
Troubles == fileErrors + kills + IF at[Controller] = "idle" THEN 0 ELSE 1

LeanNext == Next /\ Troubles' <= 1
LeanSpec == LeanInit /\ [][LeanNext]_vars /\ WF_vars(Main) /\ \A t \in Thread : WF_vars(Step(t))
=============================================================================
