----------------------------- MODULE RunPromise -----------------------------
(***************************************************************************)
(* What a parity run promises, with the worker threads, the child          *)
(* processes and the files between them left out (tests/parity.rs,         *)
(* compute): every fixture is answered once, by the engines of this run;   *)
(* verdicts are published for all fixtures together or for none.           *)
(***************************************************************************)
CONSTANTS Fixture, Archive, Nothing

VARIABLES
  archive,    \* the native archive emit-acadsharp is linked with in this run
  opens,      \* the fixtures each reader opens
  answer,     \* per fixture: what the two engines said, or Nothing
  verdicts    \* what the run published, or Nothing

Engine == {"acadsharp", "acadrust"}
ReaderOf(a, e) == IF e = "acadsharp" THEN a ELSE "acadrust"

\* An engine that opens the fixture says its own build; "failed" is OPEN_FAILED,
\* which a file error may also cause; "error" ends the run without verdicts.
Honest(f, said) ==
  \A e \in Engine :
    \/ said[e] \in {"failed", "error"}
    \/ said[e] = ReaderOf(archive, e) /\ f \in opens[ReaderOf(archive, e)]

Both == [Engine -> Archive \cup {"acadrust", "failed", "error"}]

Init ==
  /\ archive \in Archive
  /\ opens \in [Archive \cup {"acadrust"} -> SUBSET Fixture]
  /\ answer = [f \in Fixture |-> Nothing]
  /\ verdicts = Nothing

Begin ==
  /\ archive' \in Archive
  /\ answer' = [f \in Fixture |-> Nothing]
  /\ verdicts' = Nothing
  /\ UNCHANGED opens

Answer(f) ==
  /\ answer[f] = Nothing
  /\ \E said \in Both : Honest(f, said) /\ answer' = [answer EXCEPT ![f] = said]
  /\ UNCHANGED <<archive, opens, verdicts>>

Publish ==
  /\ verdicts = Nothing
  /\ \A f \in Fixture : answer[f] # Nothing /\ \A e \in Engine : answer[f][e] # "error"
  /\ verdicts' = answer
  /\ UNCHANGED <<archive, opens, answer>>

Next == Begin \/ Publish \/ \E f \in Fixture : Answer(f)

Spec == Init /\ [][Next]_<<archive, opens, answer, verdicts>>
=============================================================================
