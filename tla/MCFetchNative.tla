--------------------------- MODULE MCFetchNative ---------------------------
(* FetchNative for TLC. *)
EXTENDS FetchNative, TLC

CONSTANT MaxTroubles   \* bound: what goes wrong in all

\* Whoever comes after another finds an archive in the cache.
Joins == \A p \in Proc : pc[p] = "away" /\ pc'[p] # "away" => Alone(p) \/ file["archive"] # Absent

BoundedNext == Next /\ Joins /\ kills' + rots' + faults' <= MaxTroubles
BoundedSpec == Init /\ [][BoundedNext]_vars /\ \A p \in Proc : WF_vars(Step(p)) /\ WF_vars(Again(p))
=============================================================================
