------------------------------ MODULE ParityRun ------------------------------
(***************************************************************************)
(* One `cargo test` of tests/parity.rs, and several after each other over  *)
(* the same output directory: the worker pool that runs both emitters on   *)
(* every fixture, the three files each emitter writes, the parent that     *)
(* reads them back, the sequential judging, and the digest table made from *)
(* what the directory holds.  The control test of the same binary runs in  *)
(* another thread and emits one fixture into the same directory.           *)
(***************************************************************************)
EXTENDS Naturals, FiniteSets

CONSTANTS
  Count,        \* number of fixtures in the manifest
  Worker,       \* threads of the pool
  Controller,   \* the thread of the control test
  Controlled,   \* the fixture the control test emits, or Nothing
  Archive,      \* native archives a build may be linked with
  Nothing,
  MaxRuns, MaxFileErrors, MaxKills     \* bounds

VARIABLES
  archive, opens,
  next,       \* the shared counter
  at,         \* per thread: where its loop, or its child, stands
  fx, en,     \* per thread: fixture and engine of the running child
  name,       \* per thread: the file its child writes, 1 .. 3
  half,       \* per thread: that file is truncated and not yet written
  said,       \* per thread: what each engine's run came to
  disk,       \* the output directory
  results,    \* the mutex-guarded map
  phase, verdicts,
  digests,    \* the rows of the digest table, with the archive it names
  runs, fileErrors, kills

threads == <<at, fx, en, name, half, said>>
bounded == <<runs, fileErrors, kills>>
vars == <<archive, opens, next, threads, disk, results, phase, verdicts, digests, bounded>>

Fixture == 0 .. Count - 1
Engine == {"acadsharp", "acadrust"}
Thread == Worker \cup {Controller}
Reader == Archive \cup {"acadrust"}
ReaderOf(e) == IF e = "acadsharp" THEN archive ELSE "acadrust"

\* <id>.<engine>.jsonl, .src.jsonl and .run.json, in the order they are written
Stream == 1
Sidecar == 2
RunInfo == 3
Content == Reader \cup {"torn", Nothing}

ASSUME RunAssumption ==
  /\ Count \in Nat \ {0}
  /\ Worker # {} /\ Controller \notin Worker
  /\ Archive # {}
  /\ Archive \cap {"acadrust", "failed", "error", "torn"} = {}
  /\ Nothing \notin Archive \cup {"acadrust", "failed", "error", "torn"}
  /\ Nothing \notin [Engine -> Archive \cup {"acadrust", "failed", "error"}]
  /\ Controlled \in Fixture \cup {Nothing} /\ Nothing \notin Fixture
  /\ MaxRuns \in Nat /\ MaxFileErrors \in Nat /\ MaxKills \in Nat

Outcome == Reader \cup {"failed", "error"}
Both == [Engine -> Outcome]
Unsaid == [e \in Engine |-> "failed"]

TypeOK ==
  /\ archive \in Archive /\ opens \in [Reader -> SUBSET Fixture]
  /\ next \in Nat
  /\ at \in [Thread -> {"idle", "claim", "decode", "write", "read", "side", "insert", "stop"}]
  /\ fx \in [Thread -> Fixture] /\ en \in [Thread -> Engine]
  /\ name \in [Thread -> Stream .. RunInfo] /\ half \in [Thread -> BOOLEAN]
  /\ said \in [Thread -> Both]
  /\ disk \in [Engine -> [Fixture -> [Stream .. RunInfo -> Content]]]
  /\ results \in [Fixture -> Both \cup {Nothing}]
  /\ phase \in {"idle", "emitting", "judging", "digesting", "ended", "failed"}
  /\ verdicts = Nothing \/ verdicts \in [Fixture -> Both]
  /\ digests = Nothing \/ digests \in [rows : [Fixture -> Reader \cup {Nothing}], label : Reader]
  /\ runs \in 0 .. MaxRuns /\ fileErrors \in 0 .. MaxFileErrors /\ kills \in 0 .. MaxKills

\* Threads that have run no child yet.
Fresh == [fx |-> 0, en |-> "acadsharp", name |-> Stream, half |-> FALSE, said |-> Unsaid]

Init ==
  /\ archive \in Archive /\ opens \in [Reader -> SUBSET Fixture]
  /\ next = 0
  /\ at = [t \in Thread |-> "idle"]
  /\ fx = [t \in Thread |-> Fresh.fx] /\ en = [t \in Thread |-> Fresh.en]
  /\ name = [t \in Thread |-> Fresh.name] /\ half = [t \in Thread |-> Fresh.half]
  /\ said = [t \in Thread |-> Fresh.said]
  /\ disk = [e \in Engine |-> [f \in Fixture |-> [n \in Stream .. RunInfo |-> Nothing]]]
  /\ results = [f \in Fixture |-> Nothing]
  /\ phase = "idle" /\ verdicts = Nothing /\ digests = Nothing
  /\ runs = 0 /\ fileErrors = 0 /\ kills = 0

-----------------------------------------------------------------------------
\* A run starts, of a build linked with some archive; the directory is as the
\* runs before it left it.
Begin ==
  /\ phase \in {"idle", "ended", "failed"} /\ at[Controller] \in {"idle", "stop"}
  /\ runs < MaxRuns /\ runs' = runs + 1
  /\ archive' \in Archive
  /\ next' = 0 /\ phase' = "emitting"
  /\ at' = [t \in Thread |-> IF t \in Worker THEN "claim" ELSE "idle"]
  /\ results' = [f \in Fixture |-> Nothing]
  /\ verdicts' = Nothing /\ digests' = Nothing
  /\ fx' = [t \in Thread |-> Fresh.fx] /\ en' = [t \in Thread |-> Fresh.en]
  /\ name' = [t \in Thread |-> Fresh.name] /\ half' = [t \in Thread |-> Fresh.half]
  /\ said' = [t \in Thread |-> Fresh.said]
  /\ UNCHANGED <<opens, disk, fileErrors, kills>>

\* Mutant: the counter is read and not advanced by the read.
ClaimWithoutAdd(t) ==
  /\ t \in Worker /\ at[t] = "claim" /\ phase = "emitting"
  /\ next < Count
  /\ fx' = [fx EXCEPT ![t] = next]
  /\ en' = [en EXCEPT ![t] = "acadsharp"]
  /\ at' = [at EXCEPT ![t] = "decode"]
  /\ UNCHANGED <<archive, opens, next, name, half, said, disk, results, phase, verdicts, digests, bounded>>

\* next.fetch_add(1), and all.get(i)
Claim(t) ==
  /\ t \in Worker /\ at[t] = "claim" /\ phase = "emitting"
  /\ next' = next + 1
  /\ IF next < Count
     THEN /\ fx' = [fx EXCEPT ![t] = next]
          /\ en' = [en EXCEPT ![t] = "acadsharp"]
          /\ at' = [at EXCEPT ![t] = "decode"]
     ELSE /\ at' = [at EXCEPT ![t] = "stop"]
          /\ UNCHANGED <<fx, en>>
  /\ UNCHANGED <<archive, opens, name, half, said, disk, results, phase, verdicts, digests, bounded>>

\* one_radius_times_1_001_...: the test harness starts it beside the run.
ControlTest ==
  /\ at[Controller] = "idle" /\ phase = "emitting" /\ Controlled # Nothing
  /\ at' = [at EXCEPT ![Controller] = "decode"]
  /\ fx' = [fx EXCEPT ![Controller] = Controlled]
  /\ en' = [en EXCEPT ![Controller] = "acadrust"]
  /\ UNCHANGED <<archive, opens, next, name, half, said, disk, results, phase, verdicts, digests, bounded>>

\* The child of t is answered for: the second engine is next, or the insert.
Answered(t, outcome) ==
  /\ said' = [said EXCEPT ![t][en[t]] = outcome]
  /\ IF t \in Worker /\ en[t] = "acadsharp"
     THEN /\ en' = [en EXCEPT ![t] = "acadrust"]
          /\ at' = [at EXCEPT ![t] = "decode"]
     ELSE /\ at' = [at EXCEPT ![t] = IF t \in Worker THEN "insert" ELSE "stop"]
          /\ UNCHANGED en

\* Mutant: the parent reads the files whatever the exit status was.
DecodeStatusIgnored(t) ==
  /\ at[t] = "decode"
  /\ half' = [half EXCEPT ![t] = FALSE]
  /\ name' = [name EXCEPT ![t] = Stream]
  /\ at' = [at EXCEPT ![t] = IF fx[t] \in opens[ReaderOf(en[t])] THEN "write" ELSE "read"]
  /\ UNCHANGED <<archive, opens, next, fx, en, said, disk, results, phase, verdicts, digests, bounded>>

\* Mutant: a file that does not open is tried again.
DecodeRetries(t) ==
  /\ at[t] = "decode" /\ fx[t] \in opens[ReaderOf(en[t])]
  /\ half' = [half EXCEPT ![t] = FALSE]
  /\ name' = [name EXCEPT ![t] = Stream]
  /\ at' = [at EXCEPT ![t] = "write"]
  /\ UNCHANGED <<archive, opens, next, fx, en, said, disk, results, phase, verdicts, digests, bounded>>

\* The child decodes and renders everything before it writes anything; a file
\* it cannot open is exit status 1 and no file.
Decode(t) ==
  /\ at[t] = "decode"
  /\ half' = [half EXCEPT ![t] = FALSE]
  /\ IF fx[t] \in opens[ReaderOf(en[t])]
     THEN /\ at' = [at EXCEPT ![t] = "write"]
          /\ name' = [name EXCEPT ![t] = Stream]
          /\ UNCHANGED <<en, said>>
     ELSE /\ Answered(t, "failed")
          /\ UNCHANGED name
  /\ UNCHANGED <<archive, opens, next, fx, disk, results, phase, verdicts, digests, bounded>>

SetFile(t, content) ==
  disk' = [disk EXCEPT ![en[t]][fx[t]][name[t]] = content]

\* fs::write, first half: the name exists and is empty.
Truncate(t) ==
  /\ at[t] = "write" /\ ~half[t]
  /\ SetFile(t, "torn")
  /\ half' = [half EXCEPT ![t] = TRUE]
  /\ UNCHANGED <<archive, opens, next, at, fx, en, name, said, results, phase, verdicts, digests, bounded>>

\* Another child is inside fs::write of the same file.
Shared(t) ==
  \E u \in Thread \ {t} :
    at[u] = "write" /\ half[u] /\ fx[u] = fx[t] /\ en[u] = en[t] /\ name[u] = name[t]

\* Mutant: the child exits before its last write has reached the file.
FillUnflushed(t) ==
  /\ at[t] = "write" /\ half[t]
  /\ IF name[t] = Stream THEN SetFile(t, ReaderOf(en[t])) ELSE UNCHANGED disk
  /\ half' = [half EXCEPT ![t] = FALSE]
  /\ IF name[t] < RunInfo
     THEN /\ name' = [name EXCEPT ![t] = @ + 1] /\ UNCHANGED at
     ELSE /\ at' = [at EXCEPT ![t] = "read"] /\ UNCHANGED name
  /\ UNCHANGED <<archive, opens, next, fx, en, said, results, phase, verdicts, digests, bounded>>

\* fs::write, second half.  What a concurrent writer truncated meanwhile may
\* miss its beginning.
Fill(t) ==
  /\ at[t] = "write" /\ half[t]
  /\ \E content \in {ReaderOf(en[t])} \cup (IF Shared(t) THEN {"torn"} ELSE {}) :
       SetFile(t, content)
  /\ half' = [half EXCEPT ![t] = FALSE]
  /\ IF name[t] < RunInfo
     THEN /\ name' = [name EXCEPT ![t] = @ + 1] /\ UNCHANGED at
     ELSE /\ at' = [at EXCEPT ![t] = "read"] /\ UNCHANGED name
  /\ UNCHANGED <<archive, opens, next, fx, en, said, results, phase, verdicts, digests, bounded>>

\* The child cannot write: exit status 1, and the files stay as they are.
WriteFails(t) ==
  /\ at[t] = "write"
  /\ fileErrors < MaxFileErrors /\ fileErrors' = fileErrors + 1
  /\ Answered(t, "failed")
  /\ UNCHANGED <<archive, opens, next, fx, name, half, disk, results, phase, verdicts, digests, runs, kills>>

OnDisk(t, n) == disk[en[t]][fx[t]][n]

\* finish(): the child exited with 0, so its stream is read back and parsed.
ReadStream(t) ==
  /\ at[t] = "read"
  /\ IF OnDisk(t, Stream) \in {"torn", Nothing}
     THEN Answered(t, "error")
     ELSE /\ said' = [said EXCEPT ![t][en[t]] = OnDisk(t, Stream)]
          /\ at' = [at EXCEPT ![t] = "side"]
          /\ UNCHANGED en
  /\ UNCHANGED <<archive, opens, next, fx, name, half, disk, results, phase, verdicts, digests, bounded>>

\* ... and then its sidecar, which has to fit the records; without one the stream
\* is judged alone.
ReadSidecar(t) ==
  /\ at[t] = "side"
  /\ Answered(t, CASE OnDisk(t, Sidecar) = "torn" -> "error"
                   [] OnDisk(t, Sidecar) = Nothing -> said[t][en[t]]
                   [] OTHER -> OnDisk(t, Sidecar))
  /\ UNCHANGED <<archive, opens, next, fx, name, half, disk, results, phase, verdicts, digests, bounded>>

\* results.lock().unwrap().insert(i, (a, b))
Insert(t) ==
  /\ at[t] = "insert"
  /\ results' = [results EXCEPT ![fx[t]] = said[t]]
  /\ at' = [at EXCEPT ![t] = "claim"]
  /\ UNCHANGED <<archive, opens, next, fx, en, name, half, said, disk, phase, verdicts, digests, bounded>>

\* The end of thread::scope.
Join ==
  /\ phase = "emitting" /\ \A t \in Worker : at[t] = "stop"
  /\ phase' = "judging"
  /\ UNCHANGED <<archive, opens, next, threads, disk, results, verdicts, digests, bounded>>

\* The sequential half of compute(): a fixture that is missing panics, an error
\* on any fixture ends the run without a verdict.
Judge ==
  /\ phase = "judging"
  /\ IF \E f \in Fixture : results[f] = Nothing \/ \E e \in Engine : results[f][e] = "error"
     THEN phase' = "failed" /\ UNCHANGED verdicts
     ELSE phase' = "digesting" /\ verdicts' = results
  /\ UNCHANGED <<archive, opens, next, threads, disk, results, digests, bounded>>

\* Mutant: the rows are made of the other emitter's streams.
StreamsOfTheOther == [f \in Fixture |-> disk["acadrust"][f][Stream]]

\* What digests() finds in the directory, and what the first stream's run.json
\* says about the archive.
Streams == [f \in Fixture |-> disk["acadsharp"][f][Stream]]
Found == {f \in Fixture : Streams[f] # Nothing}
First == CHOOSE f \in Found : \A g \in Found : f <= g
Label == disk["acadsharp"][First][RunInfo]

\* digests(): one row for every stream found in the directory, under the
\* archive that the first fixture's run.json names.
Digest ==
  /\ phase = "digesting"
  /\ IF Found = {}
     THEN phase' = "ended" /\ UNCHANGED digests
     ELSE IF \/ \E f \in Found : Streams[f] = "torn"
             \/ Label \in {"torn", Nothing}
     THEN phase' = "failed" /\ UNCHANGED digests
     ELSE phase' = "ended" /\ digests' = [rows |-> Streams, label |-> Label]
  /\ UNCHANGED <<archive, opens, next, threads, disk, results, verdicts, bounded>>

\* The test binary and its children are killed; the files stay.
Kill ==
  /\ phase \notin {"idle", "ended", "failed"}
  /\ kills < MaxKills /\ kills' = kills + 1
  /\ phase' = "idle" /\ verdicts' = Nothing /\ digests' = Nothing
  /\ next' = 0 /\ results' = [f \in Fixture |-> Nothing]
  /\ at' = [t \in Thread |-> "idle"]
  /\ fx' = [t \in Thread |-> Fresh.fx] /\ en' = [t \in Thread |-> Fresh.en]
  /\ name' = [t \in Thread |-> Fresh.name] /\ half' = [t \in Thread |-> Fresh.half]
  /\ said' = [t \in Thread |-> Fresh.said]
  /\ UNCHANGED <<archive, opens, disk, runs, fileErrors>>

Step(t) ==
  Claim(t) \/ Decode(t) \/ Truncate(t) \/ Fill(t) \/ WriteFails(t)
  \/ ReadStream(t) \/ ReadSidecar(t) \/ Insert(t)
Main == Join \/ Judge \/ Digest

Next == Begin \/ Main \/ ControlTest \/ Kill \/ \E t \in Thread : Step(t)

Spec == Init /\ [][Next]_vars
FairSpec == Spec /\ WF_vars(Main) /\ \A t \in Thread : WF_vars(Step(t))

-----------------------------------------------------------------------------
Busy == {"decode", "write", "read", "side", "insert"}

\* Lines 319-323: a fixture is claimed by one thread at a time and never again
\* once it is in the map, so no two workers write the files of one fixture.
OneClaimEach ==
  phase = "emitting" =>
    \A t \in Worker : at[t] \in Busy =>
      /\ results[fx[t]] = Nothing
      /\ \A u \in Worker : at[u] \in Busy /\ fx[u] = fx[t] => u = t

\* Line 337, expect("every fixture was run"): when the pool is joined the map
\* holds every fixture, whatever order the threads ran in.
EveryFixtureWasRun ==
  phase = "judging" => \A f \in Fixture : results[f] # Nothing

\* The verdicts a run reports rest on what the engines of this run read: never
\* on files of an earlier run, and OPEN_FAILED only for a fixture the engine
\* does not open, unless a file could not be written.
VerdictsAreThisRuns ==
  verdicts # Nothing =>
    \A f \in Fixture, e \in Engine :
      IF verdicts[f][e] = "failed" THEN f \notin opens[ReaderOf(e)] \/ fileErrors > 0
      ELSE verdicts[f][e] = ReaderOf(e) /\ f \in opens[ReaderOf(e)]

\* Lines 185-186: the digest table is "what the acadsharp emitter wrote for every
\* fixture it could read", "for the archive and target that produced it".
DigestsAreThisRuns ==
  digests # Nothing =>
    /\ digests.label = archive
    /\ \A f \in Fixture :
         digests.rows[f] = IF f \in opens[archive] THEN archive ELSE Nothing

\* The same while the directory holds nothing another archive left, and no write
\* has failed: the table has a row for each fixture this archive opens.
FilesAreThisArchives ==
  \A f \in Fixture, n \in Stream .. RunInfo :
    disk["acadsharp"][f][n] \in {archive, "torn", Nothing}
CleanDigestsAreThisRuns ==
  digests # Nothing /\ fileErrors = 0 /\ FilesAreThisArchives =>
    /\ digests.label = archive
    /\ \A f \in Fixture :
         digests.rows[f] = IF f \in opens[archive] THEN archive ELSE Nothing

\* Lines 1258-1259 keep the child run out of the shared directory because "two
\* runs writing one target/parity at the same time would read each other's
\* half-written sidecars": while the control test has not started beside the
\* pool, no worker meets a half-written file, whatever earlier runs left behind.
NoHalfWrittenRead ==
  at[Controller] = "idle" =>
    \A t \in Worker : at[t] \in {"insert", "stop"} => \A e \in Engine : said[t][e] # "error"

\* A run that is not killed comes to an end: it is judged, or it fails.
RunEnds == phase = "emitting" ~> phase \in {"ended", "failed", "idle"}

\* The pool, the child processes and the files implement the promise.
Promise == INSTANCE RunPromise WITH answer <- results
PromiseKept == Promise!Spec
=============================================================================
