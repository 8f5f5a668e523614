--------------------------- MODULE ParityRun_proofs ---------------------------
(***************************************************************************)
(* What the worker pool of tests/parity.rs keeps for any number of         *)
(* fixtures, threads, archives and runs, and that it implements            *)
(* RunPromise.                                                             *)
(***************************************************************************)
EXTENDS ParityRun, TLAPS, WellFoundedInduction

Child == {"decode", "write", "read", "side"}

\* The counter and the map: what is below the counter is in the map or in one
\* worker's hands, what is not below it is in neither.
Pool ==
  phase = "emitting" =>
    /\ \A t \in Worker : at[t] # "idle" /\ (at[t] = "stop" => Count <= next)
    /\ \A t \in Worker : at[t] \in Busy => fx[t] < next /\ results[fx[t]] = Nothing
    /\ \A t, u \in Worker : at[t] \in Busy /\ at[u] \in Busy /\ fx[t] = fx[u] => t = u
    /\ \A f \in Fixture : next <= f => results[f] = Nothing
    /\ \A f \in Fixture : f < next => \/ results[f] # Nothing
                                      \/ \E t \in Worker : at[t] \in Busy /\ fx[t] = f

\* What the threads do in each phase.
Phases ==
  /\ phase = "idle" => \A t \in Worker : at[t] = "idle"
  /\ phase \in {"judging", "digesting", "ended", "failed"} => \A t \in Worker : at[t] = "stop"
  /\ at[Controller] \notin {"claim", "insert"}
  /\ phase \in {"idle", "emitting", "judging"} => verdicts = Nothing
  /\ phase = "judging" => \A f \in Fixture : results[f] # Nothing

\* What an engine of this run may be said to have come to on a fixture.
Told(f, e, word) ==
  \/ word = "error"
  \/ word = "failed" /\ (f \notin opens[ReaderOf(e)] \/ fileErrors > 0)
  \/ word = ReaderOf(e) /\ f \in opens[ReaderOf(e)]

\* A child that writes has opened its file, and from its last file on the sidecar
\* on disk is one of this run; what a worker holds, what is in the map and what is
\* published was told by this run's engines.
WriterHasOpened ==
  \A t \in Thread : at[t] \in {"write", "read", "side"} => fx[t] \in opens[ReaderOf(en[t])]
SidecarIsOfThisRun ==
  \A t \in Thread : at[t] \in {"read", "side"} \/ (at[t] = "write" /\ name[t] = RunInfo) =>
    disk[en[t]][fx[t]][Sidecar] \in {ReaderOf(en[t]), "torn"}
FirstWordTold ==
  \A t \in Worker : at[t] \in Child /\ en[t] = "acadrust" =>
    Told(fx[t], "acadsharp", said[t]["acadsharp"])
HeldWordsTold ==
  \A t \in Worker : at[t] = "insert" => \A e \in Engine : Told(fx[t], e, said[t][e])
MapTold == \A f \in Fixture : results[f] # Nothing => \A e \in Engine : Told(f, e, results[f][e])
PublishedIsTheMap ==
  verdicts # Nothing =>
    verdicts = results /\ \A f \in Fixture : results[f] # Nothing /\ \A e \in Engine : results[f][e] # "error"

Words ==
  /\ WriterHasOpened /\ SidecarIsOfThisRun /\ FirstWordTold /\ HeldWordsTold
  /\ MapTold /\ PublishedIsTheMap

IInv == TypeOK /\ Pool /\ Phases /\ Words

LEMMA InitIInv == Init => IInv
<1> SUFFICES ASSUME Init PROVE IInv
  OBVIOUS
<1>1. 0 \in Fixture
  BY RunAssumption DEF Fixture
<1>2. TypeOK
  BY <1>1, RunAssumption DEF Init, TypeOK, Fresh, Unsaid, Both, Outcome, Reader, Engine, Content, Stream, Sidecar, RunInfo
<1>3. Pool /\ Phases /\ Words
  BY RunAssumption DEF Init, Pool, Phases, Words, Thread, Child, WriterHasOpened, SidecarIsOfThisRun,
       FirstWordTold, HeldWordsTold, MapTold, PublishedIsTheMap
<1> QED
  BY <1>2, <1>3 DEF IInv

\* Facts about the small sets of names, for the provers that do not compute them.
LEMMA Names ==
  /\ Stream = 1 /\ Sidecar = 2 /\ RunInfo = 3
  /\ Worker \subseteq Thread /\ Controller \in Thread /\ Controller \notin Worker
  /\ \A t \in Thread : t \in Worker \/ t = Controller
  BY RunAssumption DEF Stream, Sidecar, RunInfo, Thread

LEMMA ReaderType == ASSUME TypeOK, NEW e \in Engine PROVE ReaderOf(e) \in Reader
  BY DEF TypeOK, ReaderOf, Reader

\* A child is answered for: nothing changes but what its thread has been told.
LEMMA AnsweredStep ==
  ASSUME IInv, NEW t \in Thread, NEW outcome \in Outcome, at[t] \in Child,
         Answered(t, outcome),
         outcome = "error" \/ (outcome = "failed" /\ (fx[t] \notin opens[ReaderOf(en[t])] \/ fileErrors' > 0))
           \/ (outcome = ReaderOf(en[t]) /\ fx[t] \in opens[ReaderOf(en[t])]),
         UNCHANGED <<archive, opens, next, fx, name, disk, results, phase, verdicts, digests, runs, kills>>,
         half' \in [Thread -> BOOLEAN],
         fileErrors' \in 0 .. MaxFileErrors, fileErrors' >= fileErrors
  PROVE  IInv'
<1> USE DEF IInv
<1>0. en[t] \in Engine /\ fileErrors \in Nat
  BY DEF TypeOK
<1>1. TypeOK'
  <2>1. said' \in [Thread -> Both]
    BY <1>0 DEF TypeOK, Answered, Both
  <2>2. en' \in [Thread -> Engine]
    <3>1. en' = en \/ en' = [en EXCEPT ![t] = "acadrust"]
      BY DEF Answered
    <3> QED
      BY <3>1 DEF TypeOK, Engine
  <2>3. at' \in [Thread -> {"idle", "claim", "decode", "write", "read", "side", "insert", "stop"}]
    BY DEF TypeOK, Answered
  <2> QED
    BY <2>1, <2>2, <2>3 DEF TypeOK, Reader, ReaderOf, Outcome, Both
<1>2. \A u \in Thread : u # t => at'[u] = at[u] /\ en'[u] = en[u] /\ said'[u] = said[u]
  BY DEF TypeOK, Answered
<1>3. t \in Worker => at[t] \in Busy /\ at'[t] \in {"decode", "insert"} /\ at'[t] \in Busy
  BY DEF TypeOK, Answered, Child, Busy
<1>4. t = Controller => at'[t] = "stop"
  BY Names DEF TypeOK, Answered
<1>5. at'[t] \in {"decode", "insert", "stop"}
  BY DEF TypeOK, Answered
<1>6. Pool'
  <2> SUFFICES ASSUME phase = "emitting" PROVE Pool'
    BY DEF Pool
  <2>1. \A u \in Worker : at'[u] \in Busy <=> at[u] \in Busy
    BY <1>2, <1>3, Names
  <2>2. \A u \in Worker : at'[u] # "idle" /\ (at'[u] = "stop" => at[u] = "stop")
    BY <1>2, <1>3, Names DEF Pool
  <2> QED
    BY <2>1, <2>2 DEF Pool
<1>7. Phases'
  <2>1. t \in Worker => phase = "emitting"
    BY DEF Phases, TypeOK, Child
  <2>2. at'[Controller] \notin {"claim", "insert"}
    BY <1>2, <1>4, Names DEF Phases
  <2>3. \A u \in Worker : phase # "emitting" => at'[u] = at[u]
    BY <1>2, <2>1, Names
  <2> QED
    BY <2>2, <2>3 DEF Phases
<1>8. Words'
  <2>1. \A f, e, w : Told(f, e, w) => Told(f, e, w)'
    BY <1>0 DEF Told, ReaderOf
  <2>2. WriterHasOpened'
    BY <1>2, <1>5 DEF Words, WriterHasOpened, ReaderOf
  <2>3. SidecarIsOfThisRun'
    BY <1>2, <1>5 DEF Words, SidecarIsOfThisRun, ReaderOf
  <2>4. said'[t] = [said[t] EXCEPT ![en[t]] = outcome] /\ said[t] \in [Engine -> Outcome]
    BY DEF Answered, TypeOK, Both
  <2>5. said'[t][en[t]] = outcome /\ \A e \in Engine : e # en[t] => said'[t][e] = said[t][e]
    BY <1>0, <2>4
  <2>6. FirstWordTold'
    <3> SUFFICES ASSUME NEW u \in Worker, at'[u] \in Child, en'[u] = "acadrust"
                 PROVE  Told(fx[u], "acadsharp", said[u]["acadsharp"])'
      BY DEF FirstWordTold
    <3>1. CASE u = t /\ en[t] = "acadsharp"
      BY <1>0, <2>5, <3>1 DEF Told, ReaderOf
    <3>2. CASE u = t /\ en[t] = "acadrust"
      <4>1. at'[t] = "insert"
        BY <3>2 DEF Answered, TypeOK
      <4> QED
        BY <3>2, <4>1 DEF Child
    <3>3. CASE u # t
      <4>1. at'[u] = at[u] /\ en'[u] = en[u] /\ said'[u] = said[u]
        BY <1>2, <3>3, Names
      <4>2. Told(fx[u], "acadsharp", said[u]["acadsharp"])
        BY <4>1 DEF Words, FirstWordTold
      <4> QED
        BY <2>1, <4>1, <4>2 DEF Told, ReaderOf
    <3> QED
      BY <1>0, <3>1, <3>2, <3>3 DEF Engine
  <2>7. HeldWordsTold'
    <3> SUFFICES ASSUME NEW u \in Worker, at'[u] = "insert", NEW e \in Engine
                 PROVE  Told(fx[u], e, said[u][e])'
      BY DEF HeldWordsTold
    <3>1. CASE u # t
      <4>1. at'[u] = at[u] /\ said'[u] = said[u]
        BY <1>2, <3>1, Names
      <4>2. Told(fx[u], e, said[u][e])
        BY <4>1 DEF Words, HeldWordsTold
      <4> QED
        BY <2>1, <4>1, <4>2 DEF Told, ReaderOf
    <3>2. CASE u = t
      <4>1. en[t] = "acadrust"
        BY <1>0, <3>2 DEF Answered, TypeOK, Engine
      <4>2. CASE e = "acadrust"
        BY <1>0, <2>5, <3>2, <4>1, <4>2 DEF Told, ReaderOf
      <4>3. CASE e = "acadsharp"
        <5>1. Told(fx[t], "acadsharp", said[t]["acadsharp"])
          BY <3>2, <4>1, Names DEF Words, FirstWordTold
        <5>2. said'[t]["acadsharp"] = said[t]["acadsharp"]
          BY <2>5, <4>1 DEF Engine
        <5> QED
          BY <2>1, <3>2, <4>3, <5>1, <5>2 DEF Told, ReaderOf
      <4> QED
        BY <4>2, <4>3 DEF Engine
    <3> QED
      BY <3>1, <3>2
  <2>8. MapTold' /\ PublishedIsTheMap'
    BY <2>1 DEF Words, MapTold, PublishedIsTheMap, Told, ReaderOf
  <2> QED
    BY <2>2, <2>3, <2>6, <2>7, <2>8 DEF Words
<1> QED
  BY <1>1, <1>6, <1>7, <1>8

Labels == {"idle", "claim", "decode", "write", "read", "side", "insert", "stop"}

\* A child goes on: the pool, the phases and everything told stay as they are.
LEMMA ChildGoesOn ==
  ASSUME IInv, NEW t \in Thread, at[t] \in Child,
         NEW label \in {"write", "read", "side"}, at' = [at EXCEPT ![t] = label],
         UNCHANGED <<archive, opens, next, fx, en, results, phase, verdicts, fileErrors>>,
         \A u \in Thread, e \in Engine : u # t \/ e # en[t] => said'[u][e] = said[u][e]
  PROVE  /\ Pool' /\ Phases' /\ FirstWordTold' /\ HeldWordsTold' /\ MapTold' /\ PublishedIsTheMap'
         /\ \A u \in Thread : u # t => at'[u] = at[u]
         /\ at'[t] = label /\ at' \in [Thread -> Labels]
<1> USE DEF IInv
<1>1. /\ \A u \in Thread : u # t => at'[u] = at[u]
      /\ at'[t] = label /\ at' \in [Thread -> Labels]
  BY DEF TypeOK, Labels
<1>2. at[t] \in Busy /\ at'[t] \in Busy
  BY <1>1 DEF Child, Busy
<1>3. Pool'
  <2> SUFFICES ASSUME phase = "emitting" PROVE Pool'
    BY DEF Pool
  <2>1. \A u \in Worker : at'[u] \in Busy <=> at[u] \in Busy
    BY <1>1, <1>2, Names
  <2>2. \A u \in Worker : at'[u] # "idle" /\ (at'[u] = "stop" => at[u] = "stop")
    BY <1>1, Names DEF Pool
  <2> QED
    BY <2>1, <2>2 DEF Pool
<1>4. Phases'
  <2>1. t \in Worker => phase = "emitting"
    BY DEF Phases, TypeOK, Child
  <2>2. at'[Controller] \notin {"claim", "insert"}
    BY <1>1, Names DEF Phases
  <2>3. \A u \in Worker : phase # "emitting" => at'[u] = at[u]
    BY <1>1, <2>1, Names
  <2> QED
    BY <2>2, <2>3 DEF Phases
<1>5. \A f, e, w : Told(f, e, w) <=> Told(f, e, w)'
  BY DEF Told, ReaderOf
<1>6. FirstWordTold'
  <2> SUFFICES ASSUME NEW u \in Worker, at'[u] \in Child, en[u] = "acadrust"
               PROVE  Told(fx[u], "acadsharp", said[u]["acadsharp"])'
    BY DEF FirstWordTold
  <2>1. at[u] \in Child
    BY <1>1, Names
  <2>2. Told(fx[u], "acadsharp", said[u]["acadsharp"])
    BY <2>1 DEF Words, FirstWordTold
  <2>3. said'[u]["acadsharp"] = said[u]["acadsharp"]
    BY Names DEF Engine
  <2> QED
    BY <2>2, <2>3 DEF Told, ReaderOf
<1>7. HeldWordsTold'
  <2> SUFFICES ASSUME NEW u \in Worker, at'[u] = "insert", NEW e \in Engine
               PROVE  Told(fx[u], e, said[u][e])'
    BY DEF HeldWordsTold
  <2>1. at[u] = "insert"
    BY <1>1, Names
  <2>2. Told(fx[u], e, said[u][e])
    BY <2>1 DEF Words, HeldWordsTold
  <2>3. said'[u][e] = said[u][e]
    BY <1>1, <2>1, Names
  <2> QED
    BY <2>2, <2>3 DEF Told, ReaderOf
<1>8. MapTold' /\ PublishedIsTheMap'
  BY DEF Words, MapTold, PublishedIsTheMap, Told, ReaderOf
<1> QED
  BY <1>1, <1>3, <1>4, <1>6, <1>7, <1>8

LEMMA DecodeStep == ASSUME IInv, NEW t \in Thread, Decode(t) PROVE IInv'
<1> USE DEF IInv
<1>1. CASE fx[t] \in opens[ReaderOf(en[t])]
  <2>1. /\ at' = [at EXCEPT ![t] = "write"] /\ name' = [name EXCEPT ![t] = Stream]
        /\ half' = [half EXCEPT ![t] = FALSE] /\ at[t] \in Child
        /\ UNCHANGED <<archive, opens, next, fx, en, said, disk, results, phase, verdicts, digests, bounded>>
    BY <1>1 DEF Decode, Child
  <2>2. /\ Pool' /\ Phases' /\ FirstWordTold' /\ HeldWordsTold' /\ MapTold' /\ PublishedIsTheMap'
        /\ \A u \in Thread : u # t => at'[u] = at[u]
        /\ at'[t] = "write" /\ at' \in [Thread -> Labels]
    BY <2>1, ChildGoesOn DEF bounded
  <2>3. TypeOK'
    BY <2>1, <2>2, Names DEF TypeOK, Labels, Reader, ReaderOf, Outcome, Both, bounded
  <2>4. WriterHasOpened'
    BY <1>1, <2>1, <2>2 DEF Words, WriterHasOpened, ReaderOf
  <2>5. SidecarIsOfThisRun'
    <3>1. name'[t] # RunInfo /\ \A u \in Thread : u # t => name'[u] = name[u]
      BY <2>1, Names DEF TypeOK
    <3> QED
      BY <2>1, <2>2, <3>1 DEF Words, SidecarIsOfThisRun, ReaderOf
  <2> QED
    BY <2>2, <2>3, <2>4, <2>5 DEF Words
<1>2. CASE fx[t] \notin opens[ReaderOf(en[t])]
  <2>1. /\ Answered(t, "failed") /\ at[t] \in Child /\ half' = [half EXCEPT ![t] = FALSE]
        /\ UNCHANGED <<archive, opens, next, fx, name, disk, results, phase, verdicts, digests, bounded>>
    BY <1>2 DEF Decode, Child
  <2>2. half' \in [Thread -> BOOLEAN] /\ "failed" \in Outcome /\ fileErrors \in 0 .. MaxFileErrors
    BY <2>1 DEF TypeOK, Outcome
  <2> QED
    BY <1>2, <2>1, <2>2, AnsweredStep, RunAssumption DEF bounded
<1> QED
  BY <1>1, <1>2

\* What a write may leave in a file.
LEMMA FileSet ==
  ASSUME IInv, NEW t \in Thread, NEW content, content \in {ReaderOf(en[t]), "torn"}, SetFile(t, content)
  PROVE  /\ disk' \in [Engine -> [Fixture -> [Stream .. RunInfo -> Content]]]
         /\ \A e \in Engine, f \in Fixture, n \in Stream .. RunInfo :
              disk'[e][f][n] = IF e = en[t] /\ f = fx[t] /\ n = name[t] THEN content ELSE disk[e][f][n]
<1> USE DEF IInv
<1>1. en[t] \in Engine /\ fx[t] \in Fixture /\ name[t] \in Stream .. RunInfo
  BY DEF TypeOK
<1>2. content \in Content
  BY <1>1, ReaderType DEF Content
<1>3. disk \in [Engine -> [Fixture -> [Stream .. RunInfo -> Content]]]
  BY DEF TypeOK
<1> DEFINE ofEngine == disk[en[t]]
           file == ofEngine[fx[t]]
           files == [file EXCEPT ![name[t]] = content]
           engines == [ofEngine EXCEPT ![fx[t]] = files]
<1>4. ofEngine \in [Fixture -> [Stream .. RunInfo -> Content]] /\ file \in [Stream .. RunInfo -> Content]
  BY <1>1, <1>3
<1>5. disk' = [disk EXCEPT ![en[t]] = engines]
  BY DEF SetFile
<1>6. /\ files \in [Stream .. RunInfo -> Content]
      /\ \A n \in Stream .. RunInfo : files[n] = IF n = name[t] THEN content ELSE file[n]
  BY <1>1, <1>2, <1>4
<1> HIDE DEF files
<1>7. /\ engines \in [Fixture -> [Stream .. RunInfo -> Content]]
      /\ \A f \in Fixture : engines[f] = IF f = fx[t] THEN files ELSE ofEngine[f]
  BY <1>1, <1>4, <1>6
<1> HIDE DEF engines
<1>8. /\ disk' \in [Engine -> [Fixture -> [Stream .. RunInfo -> Content]]]
      /\ \A e \in Engine : disk'[e] = IF e = en[t] THEN engines ELSE disk[e]
  BY <1>1, <1>3, <1>5, <1>7
<1>9. ASSUME NEW e \in Engine, NEW f \in Fixture, NEW n \in Stream .. RunInfo
      PROVE  disk'[e][f][n] = IF e = en[t] /\ f = fx[t] /\ n = name[t] THEN content ELSE disk[e][f][n]
  <2>1. CASE e = en[t] /\ f = fx[t]
    BY <1>6, <1>7, <1>8, <2>1
  <2>2. CASE e = en[t] /\ f # fx[t]
    BY <1>7, <1>8, <2>2
  <2>3. CASE e # en[t]
    BY <1>8, <2>3
  <2> QED
    BY <2>1, <2>2, <2>3
<1> QED
  BY <1>8, <1>9

LEMMA TruncateStep == ASSUME IInv, NEW t \in Thread, Truncate(t) PROVE IInv'
<1> USE DEF IInv
<1>1. /\ SetFile(t, "torn") /\ half' = [half EXCEPT ![t] = TRUE] /\ at[t] = "write"
      /\ UNCHANGED <<archive, opens, next, at, fx, en, name, said, results, phase, verdicts, digests, bounded>>
  BY DEF Truncate
<1>2. /\ disk' \in [Engine -> [Fixture -> [Stream .. RunInfo -> Content]]]
      /\ \A e \in Engine, f \in Fixture, n \in Stream .. RunInfo :
           disk'[e][f][n] = IF e = en[t] /\ f = fx[t] /\ n = name[t] THEN "torn" ELSE disk[e][f][n]
  BY <1>1, FileSet
<1>3. TypeOK'
  BY <1>1, <1>2 DEF TypeOK, Reader, ReaderOf, Outcome, Both, bounded
<1>4. Pool' /\ Phases'
  BY <1>1 DEF Pool, Phases
<1>5. SidecarIsOfThisRun'
  <2>1. \A u \in Thread : en[u] \in Engine /\ fx[u] \in Fixture /\ Sidecar \in Stream .. RunInfo
    BY Names DEF TypeOK
  <2> QED
    BY <1>1, <1>2, <2>1 DEF Words, SidecarIsOfThisRun, ReaderOf
<1>6. WriterHasOpened' /\ FirstWordTold' /\ HeldWordsTold' /\ MapTold' /\ PublishedIsTheMap'
  BY <1>1 DEF Words, WriterHasOpened, FirstWordTold, HeldWordsTold, MapTold, PublishedIsTheMap, Told, ReaderOf, bounded
<1> QED
  BY <1>3, <1>4, <1>5, <1>6 DEF Words

\* Another writer of the same file writes for the same engine, and so the same
\* archive: whatever it leaves is of this run or torn.
LEMMA FillStep == ASSUME IInv, NEW t \in Thread, Fill(t) PROVE IInv'
<1> USE DEF IInv
<1>1. /\ at[t] = "write" /\ half' = [half EXCEPT ![t] = FALSE]
      /\ UNCHANGED <<archive, opens, next, fx, en, said, results, phase, verdicts, digests, bounded>>
  BY DEF Fill
<1>2. PICK content \in {ReaderOf(en[t]), "torn"} : SetFile(t, content)
  BY DEF Fill
<1>3. /\ disk' \in [Engine -> [Fixture -> [Stream .. RunInfo -> Content]]]
      /\ \A e \in Engine, f \in Fixture, n \in Stream .. RunInfo :
           disk'[e][f][n] = IF e = en[t] /\ f = fx[t] /\ n = name[t] THEN content ELSE disk[e][f][n]
  BY <1>2, FileSet
<1>4. \A u \in Thread : en[u] \in Engine /\ fx[u] \in Fixture /\ name[u] \in 1 .. 3
  BY Names DEF TypeOK
<1>5. WriterHasOpened' /\ at' \in [Thread -> Labels] /\ name' \in [Thread -> Stream .. RunInfo]
  <2>1. CASE name[t] < RunInfo
    <3>1. name' = [name EXCEPT ![t] = name[t] + 1] /\ at' = at /\ name[t] + 1 \in 1 .. 3
      BY <1>4, <2>1, Names DEF Fill
    <3>2. name' \in [Thread -> Stream .. RunInfo]
      BY <3>1, Names DEF TypeOK
    <3> QED
      BY <1>1, <3>1, <3>2 DEF TypeOK, Labels, Words, WriterHasOpened, ReaderOf
  <2>2. CASE ~(name[t] < RunInfo)
    <3>1. at' = [at EXCEPT ![t] = "read"] /\ name' = name
      BY <2>2 DEF Fill
    <3>2. at' \in [Thread -> Labels] /\ name' \in [Thread -> Stream .. RunInfo]
      BY <3>1 DEF TypeOK, Labels
    <3>3. \A u \in Thread : at'[u] \in {"write", "read", "side"} => at[u] \in {"write", "read", "side"}
      BY <1>1, <3>1 DEF TypeOK
    <3> QED
      BY <1>1, <3>2, <3>3 DEF Words, WriterHasOpened, ReaderOf
  <2> QED
    BY <2>1, <2>2
<1>6. TypeOK'
  BY <1>1, <1>3, <1>5 DEF TypeOK, Labels, Reader, ReaderOf, Outcome, Both, bounded
<1>7. SidecarIsOfThisRun'
  <2> SUFFICES ASSUME NEW u \in Thread,
                      at'[u] \in {"read", "side"} \/ (at'[u] = "write" /\ name'[u] = RunInfo)
               PROVE  disk'[en[u]][fx[u]][Sidecar] \in {ReaderOf(en[u]), "torn"}
    BY <1>1 DEF SidecarIsOfThisRun, ReaderOf
  <2>1. disk'[en[u]][fx[u]][Sidecar] \in {disk[en[u]][fx[u]][Sidecar], ReaderOf(en[u]), "torn"}
    <3>1. CASE en[u] = en[t] /\ fx[u] = fx[t] /\ Sidecar = name[t]
      BY <1>3, <1>4, <3>1, Names
    <3>2. CASE ~(en[u] = en[t] /\ fx[u] = fx[t] /\ Sidecar = name[t])
      BY <1>3, <1>4, <3>2, Names
    <3> QED
      BY <3>1, <3>2
  <2>2. CASE u # t
    <3>1. at'[u] = at[u] /\ name'[u] = name[u]
      BY <2>2 DEF Fill, TypeOK
    <3> QED
      BY <2>1, <3>1 DEF Words, SidecarIsOfThisRun
  <2>3. CASE u = t /\ name[t] = RunInfo
    BY <1>1, <2>1, <2>3 DEF Words, SidecarIsOfThisRun
  <2>4. CASE u = t /\ name[t] = Sidecar
    BY <1>3, <1>4, <2>4, Names
  <2>5. CASE u = t /\ name[t] = Stream
    <3>1. name'[t] = Sidecar /\ at'[t] = "write"
      BY <1>1, <2>5, Names DEF Fill, TypeOK
    <3> QED
      BY <2>5, <3>1, Names
  <2> QED
    BY <1>4, <2>2, <2>3, <2>4, <2>5, Names
<1>8. /\ Pool' /\ Phases' /\ FirstWordTold' /\ HeldWordsTold' /\ MapTold' /\ PublishedIsTheMap'
  <2>1. PICK label \in {"write", "read", "side"} : at' = [at EXCEPT ![t] = label]
    BY <1>1 DEF Fill, TypeOK
  <2> QED
    BY <1>1, <2>1, ChildGoesOn DEF Child, bounded
<1> QED
  BY <1>5, <1>6, <1>7, <1>8 DEF Words

LEMMA WriteFailsStep == ASSUME IInv, NEW t \in Thread, WriteFails(t) PROVE IInv'
<1> USE DEF IInv
<1>1. /\ Answered(t, "failed") /\ at[t] \in Child /\ fileErrors' = fileErrors + 1
      /\ UNCHANGED <<archive, opens, next, fx, name, half, disk, results, phase, verdicts, digests, runs, kills>>
  BY DEF WriteFails, Child
<1>2. fileErrors' \in 0 .. MaxFileErrors /\ fileErrors' > 0 /\ fileErrors' >= fileErrors
  BY RunAssumption DEF WriteFails, TypeOK
<1>3. half' \in [Thread -> BOOLEAN] /\ "failed" \in Outcome
  BY <1>1 DEF TypeOK, Outcome
<1> QED
  BY <1>1, <1>2, <1>3, AnsweredStep

LEMMA ReadStreamStep == ASSUME IInv, NEW t \in Thread, ReadStream(t) PROVE IInv'
<1> USE DEF IInv
<1>1. /\ at[t] = "read" /\ at[t] \in Child
      /\ UNCHANGED <<archive, opens, next, fx, name, half, disk, results, phase, verdicts, digests, bounded>>
  BY DEF ReadStream, Child
<1>2. CASE OnDisk(t, Stream) \in {"torn", Nothing}
  <2>1. half' \in [Thread -> BOOLEAN] /\ "error" \in Outcome /\ fileErrors \in 0 .. MaxFileErrors
    BY <1>1 DEF TypeOK, Outcome
  <2>2. Answered(t, "error")
    BY <1>2 DEF ReadStream
  <2> QED
    BY <1>1, <2>1, <2>2, AnsweredStep, RunAssumption DEF bounded
<1>3. CASE OnDisk(t, Stream) \notin {"torn", Nothing}
  <2>1. /\ at' = [at EXCEPT ![t] = "side"] /\ UNCHANGED en
        /\ said' = [said EXCEPT ![t][en[t]] = OnDisk(t, Stream)]
    BY <1>3 DEF ReadStream
  <2>5. OnDisk(t, Stream) \in Outcome
    BY <1>3, Names DEF OnDisk, TypeOK, Content, Outcome
  <2>6. said' \in [Thread -> Both]
    BY <2>1, <2>5 DEF TypeOK, Both
  <2>7. \A u \in Thread, e \in Engine : u # t \/ e # en[t] => said'[u][e] = said[u][e]
    BY <2>1 DEF TypeOK, Both
  <2>2. /\ Pool' /\ Phases' /\ FirstWordTold' /\ HeldWordsTold' /\ MapTold' /\ PublishedIsTheMap'
        /\ \A u \in Thread : u # t => at'[u] = at[u]
        /\ at'[t] = "side" /\ at' \in [Thread -> Labels]
    BY <1>1, <2>1, <2>7, ChildGoesOn DEF bounded
  <2>3. TypeOK'
    BY <1>1, <2>1, <2>2, <2>6 DEF TypeOK, Labels, Reader, ReaderOf, Outcome, Both, bounded
  <2>4. WriterHasOpened' /\ SidecarIsOfThisRun'
    BY <1>1, <2>1, <2>2 DEF Words, WriterHasOpened, SidecarIsOfThisRun, ReaderOf
  <2> QED
    BY <2>2, <2>3, <2>4 DEF Words
<1> QED
  BY <1>2, <1>3

LEMMA ReadSidecarStep == ASSUME IInv, NEW t \in Thread, ReadSidecar(t) PROVE IInv'
<1> USE DEF IInv
<1> DEFINE outcome == IF OnDisk(t, Sidecar) = "torn" THEN "error" ELSE ReaderOf(en[t])
<1>3. ReaderOf(en[t]) \in Reader /\ Nothing \notin Reader
  BY ReaderType, RunAssumption DEF TypeOK, Reader
<1>5. at[t] = "side" /\ OnDisk(t, Sidecar) \in {ReaderOf(en[t]), "torn"} /\ fx[t] \in opens[ReaderOf(en[t])]
  BY DEF ReadSidecar, Words, SidecarIsOfThisRun, WriterHasOpened, OnDisk
<1>6. OnDisk(t, Sidecar) # Nothing
  BY <1>3, <1>5, RunAssumption
<1>7. Answered(t, outcome)
  <2>1. CASE OnDisk(t, Sidecar) = "torn"
    BY <1>6, <2>1 DEF ReadSidecar
  <2>2. CASE OnDisk(t, Sidecar) # "torn"
    BY <1>5, <1>6, <2>2 DEF ReadSidecar
  <2> QED
    BY <2>1, <2>2
<1>1. /\ at[t] \in Child /\ Answered(t, outcome)
      /\ UNCHANGED <<archive, opens, next, fx, name, half, disk, results, phase, verdicts, digests, bounded>>
  BY <1>5, <1>7 DEF ReadSidecar, Child
<1>2. outcome \in {"error", ReaderOf(en[t])} /\ fx[t] \in opens[ReaderOf(en[t])]
  BY <1>5
<1>4. half' \in [Thread -> BOOLEAN] /\ outcome \in Outcome /\ fileErrors \in 0 .. MaxFileErrors
  BY <1>1, <1>2, <1>3 DEF TypeOK, Outcome
<1> HIDE DEF outcome
<1> QED
  BY <1>1, <1>2, <1>4, AnsweredStep, RunAssumption DEF bounded

\* The worker's two words enter the map, at the fixture it alone held.
LEMMA InsertStep == ASSUME IInv, NEW t \in Thread, Insert(t) PROVE IInv'
<1> USE DEF IInv
<1>1. /\ at[t] = "insert" /\ results' = [results EXCEPT ![fx[t]] = said[t]] /\ at' = [at EXCEPT ![t] = "claim"]
      /\ UNCHANGED <<archive, opens, next, fx, en, name, half, said, disk, phase, verdicts, digests, bounded>>
  BY DEF Insert
<1>2. t \in Worker /\ phase = "emitting" /\ verdicts = Nothing /\ at[t] \in Busy
  BY <1>1, Names DEF Phases, TypeOK, Busy
<1>3. fx[t] \in Fixture /\ said[t] \in Both /\ said[t] # Nothing
  BY ReaderType, RunAssumption DEF TypeOK, Both, Outcome, Reader
<1>4. \A u \in Thread : at'[u] = IF u = t THEN "claim" ELSE at[u]
  BY <1>1 DEF TypeOK
<1>5. \A f \in Fixture : results'[f] = IF f = fx[t] THEN said[t] ELSE results[f]
  BY <1>1, <1>3 DEF TypeOK
<1>6. TypeOK'
  <2>1. at' \in [Thread -> Labels] /\ results' \in [Fixture -> Both \cup {Nothing}]
    BY <1>1, <1>3 DEF TypeOK, Labels
  <2> QED
    BY <1>1, <2>1 DEF TypeOK, Labels, Reader, ReaderOf, Outcome, Both, bounded
<1>7. Pool'
  <2>1. \A u \in Worker : at'[u] \in Busy <=> u # t /\ at[u] \in Busy
    BY <1>4, Names DEF Busy
  <2>2. \A u \in Worker : at'[u] # "idle" /\ (at'[u] = "stop" => Count <= next')
    BY <1>1, <1>2, <1>4, Names DEF Pool
  <2>3. \A u \in Worker : at'[u] \in Busy => fx[u] < next /\ fx[u] # fx[t] /\ results'[fx[u]] = Nothing
    BY <1>2, <1>5, <2>1, Names DEF Pool, TypeOK
  <2>4. \A u, v \in Worker : at'[u] \in Busy /\ at'[v] \in Busy /\ fx[u] = fx[v] => u = v
    BY <1>2, <2>1 DEF Pool
  <2>5. \A f \in Fixture : next <= f => results'[f] = Nothing
    <3>1. fx[t] < next /\ next \in Nat /\ fx[t] \in Nat
      BY <1>2, <1>3 DEF Pool, TypeOK, Fixture
    <3> QED
      BY <1>2, <1>5, <3>1 DEF Pool, Fixture
  <2>6. \A f \in Fixture : f < next => \/ results'[f] # Nothing
                                        \/ \E u \in Worker : at'[u] \in Busy /\ fx[u] = f
    BY <1>2, <1>3, <1>5, <2>1 DEF Pool
  <2> QED
    BY <1>1, <2>2, <2>3, <2>4, <2>5, <2>6 DEF Pool
<1>8. Phases'
  BY <1>1, <1>2, <1>4, Names DEF Phases
<1>9. Words'
  <2>1. \A f, e, w : Told(f, e, w) => Told(f, e, w)'
    BY <1>1 DEF Told, ReaderOf, bounded
  <2>2. WriterHasOpened' /\ SidecarIsOfThisRun'
    BY <1>1, <1>4 DEF Words, WriterHasOpened, SidecarIsOfThisRun, ReaderOf
  <2>3. FirstWordTold'
    <3> SUFFICES ASSUME NEW u \in Worker, at'[u] \in Child, en'[u] = "acadrust"
                 PROVE  Told(fx[u], "acadsharp", said[u]["acadsharp"])'
      BY DEF FirstWordTold
    <3>1. at[u] \in Child
      BY <1>4, Names DEF Child
    <3>2. Told(fx[u], "acadsharp", said[u]["acadsharp"])
      BY <1>1, <3>1 DEF Words, FirstWordTold
    <3> QED
      BY <1>1, <2>1, <3>2 DEF Told, ReaderOf
  <2>4. HeldWordsTold'
    <3> SUFFICES ASSUME NEW u \in Worker, at'[u] = "insert", NEW e \in Engine
                 PROVE  Told(fx[u], e, said[u][e])'
      BY DEF HeldWordsTold
    <3>1. at[u] = "insert"
      BY <1>4, Names
    <3>2. Told(fx[u], e, said[u][e])
      BY <3>1 DEF Words, HeldWordsTold
    <3> QED
      BY <1>1, <2>1, <3>2 DEF Told, ReaderOf
  <2>5. MapTold'
    <3> SUFFICES ASSUME NEW f \in Fixture, results'[f] # Nothing, NEW e \in Engine
                 PROVE  Told(f, e, results[f][e])'
      BY DEF MapTold
    <3>1. CASE f = fx[t]
      <4>1. Told(fx[t], e, said[t][e])
        BY <1>1, <1>2 DEF Words, HeldWordsTold
      <4> QED
        BY <1>1, <1>5, <3>1, <4>1 DEF Told, ReaderOf, bounded
    <3>2. CASE f # fx[t]
      <4>1. results'[f] = results[f]
        BY <1>5, <3>2
      <4>2. Told(f, e, results[f][e])
        BY <4>1 DEF Words, MapTold
      <4> QED
        BY <1>1, <4>1, <4>2 DEF Told, ReaderOf, bounded
    <3> QED
      BY <3>1, <3>2
  <2>6. PublishedIsTheMap'
    BY <1>1, <1>2 DEF PublishedIsTheMap
  <2> QED
    BY <2>2, <2>3, <2>4, <2>5, <2>6 DEF Words
<1> QED
  BY <1>6, <1>7, <1>8, <1>9

\* The counter moves past the fixture that the worker takes.
LEMMA ClaimStep == ASSUME IInv, NEW t \in Thread, Claim(t) PROVE IInv'
<1> USE DEF IInv
<1>1. /\ t \in Worker /\ at[t] = "claim" /\ phase = "emitting" /\ next' = next + 1 /\ next \in Nat
      /\ UNCHANGED <<archive, opens, name, half, said, disk, results, phase, verdicts, digests, bounded>>
  BY DEF Claim, TypeOK
<1>2. /\ \A u \in Thread : u # t => at'[u] = at[u] /\ fx'[u] = fx[u] /\ en'[u] = en[u]
      /\ at' \in [Thread -> Labels] /\ fx' \in [Thread -> Fixture] /\ en' \in [Thread -> Engine]
      /\ \/ next < Count /\ at'[t] = "decode" /\ fx'[t] = next /\ en'[t] = "acadsharp"
         \/ Count <= next /\ at'[t] = "stop"
  <2>1. CASE next < Count
    <3>1. /\ fx' = [fx EXCEPT ![t] = next] /\ en' = [en EXCEPT ![t] = "acadsharp"] /\ at' = [at EXCEPT ![t] = "decode"]
          /\ next \in Fixture
      BY <1>1, <2>1, RunAssumption DEF Claim, Fixture
    <3> QED
      BY <2>1, <3>1 DEF TypeOK, Labels, Engine
  <2>2. CASE ~(next < Count)
    <3>1. at' = [at EXCEPT ![t] = "stop"] /\ UNCHANGED <<fx, en>> /\ Count <= next
      BY <1>1, <2>2, RunAssumption DEF Claim
    <3> QED
      BY <3>1 DEF TypeOK, Labels
  <2> QED
    BY <2>1, <2>2
<1>3. TypeOK'
  BY <1>1, <1>2 DEF TypeOK, Labels, Reader, ReaderOf, Outcome, Both, bounded
<1>4. Pool'
  <2>1. \A u \in Worker : u # t => at'[u] = at[u] /\ fx'[u] = fx[u]
    BY <1>2, Names
  <2>2. \A u \in Worker : fx[u] \in Nat /\ (at[u] \in Busy => u # t)
    BY <1>1, Names DEF TypeOK, Fixture, Busy
  <2>3. at'[t] \in Busy => fx'[t] = next /\ next \in Fixture
    BY <1>1, <1>2, RunAssumption DEF Busy, Fixture
  <2>4. \A u \in Worker : at'[u] # "idle" /\ (at'[u] = "stop" => Count <= next')
    BY <1>1, <1>2, <2>1, RunAssumption DEF Pool
  <2>5. \A u \in Worker : at'[u] \in Busy => fx'[u] < next' /\ results'[fx'[u]] = Nothing
    BY <1>1, <2>1, <2>2, <2>3 DEF Pool
  <2>6. \A u, v \in Worker : at'[u] \in Busy /\ at'[v] \in Busy /\ fx'[u] = fx'[v] => u = v
    <3>1. \A u \in Worker : at[u] \in Busy => fx[u] # next
      BY <1>1, <2>2 DEF Pool
    <3> QED
      BY <1>1, <2>1, <2>3, <3>1 DEF Pool
  <2>7. \A f \in Fixture : next' <= f => results'[f] = Nothing
    BY <1>1 DEF Pool, Fixture
  <2>8. \A f \in Fixture : f < next' => \/ results'[f] # Nothing
                                         \/ \E u \in Worker : at'[u] \in Busy /\ fx'[u] = f
    <3> SUFFICES ASSUME NEW f \in Fixture, f < next', results'[f] = Nothing
                 PROVE  \E u \in Worker : at'[u] \in Busy /\ fx'[u] = f
      OBVIOUS
    <3>1. f \in Nat /\ f < Count
      BY RunAssumption DEF Fixture
    <3>2. CASE f = next
      BY <1>1, <1>2, <3>1, <3>2, RunAssumption DEF Busy
    <3>3. CASE f # next
      <4>1. f < next
        BY <1>1, <3>1, <3>3
      <4>2. PICK u \in Worker : at[u] \in Busy /\ fx[u] = f
        BY <1>1, <4>1 DEF Pool
      <4> QED
        BY <2>1, <2>2, <4>2
    <3> QED
      BY <3>2, <3>3
  <2> QED
    BY <2>4, <2>5, <2>6, <2>7, <2>8 DEF Pool
<1>5. Phases'
  BY <1>1, <1>2, Names DEF Phases
<1>6. Words'
  <2>1. \A f, e, w : Told(f, e, w) => Told(f, e, w)'
    BY <1>1 DEF Told, ReaderOf, bounded
  <2>2. at'[t] \notin {"write", "read", "side", "insert"} /\ (at'[t] \in Child => en'[t] # "acadrust")
    BY <1>2 DEF Child
  <2>3. WriterHasOpened' /\ SidecarIsOfThisRun'
    BY <1>1, <1>2, <2>2 DEF Words, WriterHasOpened, SidecarIsOfThisRun, ReaderOf
  <2>4. FirstWordTold'
    <3> SUFFICES ASSUME NEW u \in Worker, at'[u] \in Child, en'[u] = "acadrust"
                 PROVE  Told(fx[u], "acadsharp", said[u]["acadsharp"])'
      BY DEF FirstWordTold
    <3>1. u # t /\ at'[u] = at[u] /\ fx'[u] = fx[u] /\ en'[u] = en[u]
      BY <1>2, <2>2, Names
    <3>2. Told(fx[u], "acadsharp", said[u]["acadsharp"])
      BY <3>1 DEF Words, FirstWordTold
    <3> QED
      BY <1>1, <3>1, <3>2 DEF Told, ReaderOf, bounded
  <2>5. HeldWordsTold'
    <3> SUFFICES ASSUME NEW u \in Worker, at'[u] = "insert", NEW e \in Engine
                 PROVE  Told(fx[u], e, said[u][e])'
      BY DEF HeldWordsTold
    <3>1. u # t /\ at'[u] = at[u] /\ fx'[u] = fx[u]
      BY <1>2, <2>2, Names
    <3>2. Told(fx[u], e, said[u][e])
      BY <3>1 DEF Words, HeldWordsTold
    <3> QED
      BY <1>1, <3>1, <3>2 DEF Told, ReaderOf, bounded
  <2>6. MapTold' /\ PublishedIsTheMap'
    BY <1>1 DEF Words, MapTold, PublishedIsTheMap, Told, ReaderOf, bounded
  <2> QED
    BY <2>3, <2>4, <2>5, <2>6 DEF Words
<1> QED
  BY <1>3, <1>4, <1>5, <1>6

LEMMA ControlStep == ASSUME IInv, ControlTest PROVE IInv'
<1> USE DEF IInv
<1>1. /\ at[Controller] = "idle" /\ phase = "emitting" /\ Controlled \in Fixture
      /\ at' = [at EXCEPT ![Controller] = "decode"] /\ fx' = [fx EXCEPT ![Controller] = Controlled]
      /\ en' = [en EXCEPT ![Controller] = "acadrust"]
      /\ UNCHANGED <<archive, opens, next, name, half, said, disk, results, phase, verdicts, digests, bounded>>
  BY RunAssumption DEF ControlTest
<1>2. /\ \A u \in Thread : u # Controller => at'[u] = at[u] /\ fx'[u] = fx[u] /\ en'[u] = en[u]
      /\ at'[Controller] = "decode"
      /\ at' \in [Thread -> Labels] /\ fx' \in [Thread -> Fixture] /\ en' \in [Thread -> Engine]
  BY <1>1, Names DEF TypeOK, Labels, Engine
<1>3. \A u \in Worker : u \in Thread /\ u # Controller /\ at'[u] = at[u] /\ fx'[u] = fx[u] /\ en'[u] = en[u]
  BY <1>2, Names
<1>4. TypeOK'
  BY <1>1, <1>2 DEF TypeOK, Labels, Reader, ReaderOf, Outcome, Both, bounded
<1>5. Pool'
  <2> SUFFICES ASSUME phase = "emitting" PROVE Pool'
    BY <1>1
  <2> QED
    BY <1>1, <1>3 DEF Pool
<1>6. Phases'
  BY <1>1, <1>2, <1>3 DEF Phases
<1>7. WriterHasOpened' /\ SidecarIsOfThisRun'
  BY <1>1, <1>2 DEF Words, WriterHasOpened, SidecarIsOfThisRun, ReaderOf
<1>8. FirstWordTold' /\ HeldWordsTold' /\ MapTold' /\ PublishedIsTheMap'
  BY <1>1, <1>3 DEF Words, FirstWordTold, HeldWordsTold, MapTold, PublishedIsTheMap, Told, ReaderOf, bounded
<1> QED
  BY <1>4, <1>5, <1>6, <1>7, <1>8 DEF Words

\* Begin and Kill set the threads and the map back.
LEMMA SetBack ==
  ASSUME IInv,
         fx' = [t \in Thread |-> Fresh.fx], en' = [t \in Thread |-> Fresh.en],
         name' = [t \in Thread |-> Fresh.name], half' = [t \in Thread |-> Fresh.half],
         said' = [t \in Thread |-> Fresh.said],
         at' \in [Thread -> {"idle", "claim"}], at'[Controller] = "idle",
         next' = 0, results' = [f \in Fixture |-> Nothing], verdicts' = Nothing, digests' = Nothing,
         phase' \in {"idle", "emitting"},
         \A t \in Worker : at'[t] = IF phase' = "idle" THEN "idle" ELSE "claim",
         archive' \in Archive, UNCHANGED <<opens, disk, fileErrors>>,
         runs' \in 0 .. MaxRuns, kills' \in 0 .. MaxKills
  PROVE  IInv'
<1> USE DEF IInv
<1>1. TypeOK'
  <2>1. Fresh.fx \in Fixture /\ Fresh.en \in Engine /\ Fresh.name \in Stream .. RunInfo /\ Fresh.half \in BOOLEAN
    BY RunAssumption, Names DEF Fresh, Fixture, Engine
  <2>2. Fresh.said \in Both
    BY DEF Fresh, Unsaid, Both, Outcome
  <2> QED
    BY <2>1, <2>2 DEF TypeOK, Reader, Outcome, Both
<1>2. Pool' /\ Phases'
  BY RunAssumption DEF Pool, Phases, Busy, Fixture
<1>3. Words'
  BY Names DEF Words, WriterHasOpened, SidecarIsOfThisRun, FirstWordTold, HeldWordsTold, MapTold,
       PublishedIsTheMap, Child
<1> QED
  BY <1>1, <1>2, <1>3

LEMMA BeginStep == ASSUME IInv, Begin PROVE IInv'
<1>1. runs' \in 0 .. MaxRuns /\ kills' \in 0 .. MaxKills
  BY RunAssumption DEF Begin, IInv, TypeOK
<1> QED
  BY <1>1, Names, SetBack DEF Begin

LEMMA KillStep == ASSUME IInv, Kill PROVE IInv'
<1>1. runs' \in 0 .. MaxRuns /\ kills' \in 0 .. MaxKills /\ archive' \in Archive
  BY RunAssumption DEF Kill, IInv, TypeOK
<1> QED
  BY <1>1, Names, SetBack DEF Kill

\* What First chooses exists.
LEMMA LeastExists == ASSUME NEW S \in SUBSET Nat, S # {} PROVE \E x \in S : \A y \in S : x <= y
<1>1. PICK x \in S : \A y \in S : <<y, x>> \notin OpToRel(<, Nat)
  BY NatLessThanWellFounded, WFMin
<1>2. \A y \in S : ~(y < x)
  BY <1>1 DEF OpToRel
<1> QED
  BY <1>2

\* The threads and their files stand still while the main thread goes on.
LEMMA MainStep == ASSUME IInv, Main PROVE IInv'
<1> USE DEF IInv
<1>1. UNCHANGED <<archive, opens, next, threads, disk, results, bounded>>
  BY DEF Main, Join, Judge, Digest
<1>2. WriterHasOpened' /\ SidecarIsOfThisRun' /\ FirstWordTold' /\ HeldWordsTold' /\ MapTold'
  BY <1>1 DEF Words, WriterHasOpened, SidecarIsOfThisRun, FirstWordTold, HeldWordsTold, MapTold, Told,
       ReaderOf, threads, bounded
<1>3. CASE Join
  <2>1. /\ phase = "emitting" /\ phase' = "judging" /\ \A t \in Worker : at[t] = "stop"
        /\ UNCHANGED <<verdicts, digests>>
    BY <1>3 DEF Join
  <2>2. TypeOK'
    BY <1>1, <2>1 DEF TypeOK, Reader, ReaderOf, Outcome, Both, threads, bounded
  <2>3. Pool' /\ PublishedIsTheMap'
    BY <1>1, <2>1 DEF Pool, Words, PublishedIsTheMap
  <2>4. \A f \in Fixture : results[f] # Nothing
    <3>1. Count <= next /\ next \in Nat /\ Count \in Nat
      <4>1. PICK t \in Worker : TRUE
        BY RunAssumption
      <4> QED
        BY <2>1, <4>1, RunAssumption DEF Pool, TypeOK
    <3>2. \A t \in Worker : at[t] \notin Busy
      BY <2>1 DEF Busy
    <3> QED
      BY <2>1, <3>1, <3>2 DEF Pool, Fixture
  <2>5. Phases'
    BY <1>1, <2>1, <2>4 DEF Phases, threads
  <2> QED
    BY <1>2, <2>2, <2>3, <2>5 DEF Words
<1>4. CASE Judge
  <2>1. phase = "judging" /\ phase' \in {"failed", "digesting"} /\ digests' = digests
    BY <1>4 DEF Judge
  <2>2. \/ verdicts' = Nothing
        \/ verdicts' = results /\ \A f \in Fixture : results[f] # Nothing /\ \A e \in Engine : results[f][e] # "error"
    BY <1>4, <2>1 DEF Judge, Phases
  <2>3. TypeOK'
    <3>1. verdicts' = Nothing \/ verdicts' \in [Fixture -> Both]
      BY <2>2 DEF TypeOK
    <3> QED
      BY <1>1, <2>1, <3>1 DEF TypeOK, Reader, ReaderOf, Outcome, Both, threads, bounded
  <2>4. Pool' /\ Phases'
    BY <1>1, <2>1 DEF Pool, Phases, threads
  <2>5. PublishedIsTheMap'
    BY <1>1, <2>2 DEF PublishedIsTheMap
  <2> QED
    BY <1>2, <2>3, <2>4, <2>5 DEF Words
<1>5. CASE Digest
  <2>1. phase = "digesting" /\ phase' \in {"failed", "ended"} /\ verdicts' = verdicts
    BY <1>5 DEF Digest
  <2>2. digests' = Nothing \/ digests' \in [rows : [Fixture -> Reader \cup {Nothing}], label : Reader]
    <3>1. CASE UNCHANGED digests
      BY <3>1 DEF TypeOK
    <3>2. CASE digests' # digests
      <4>1. /\ digests' = [rows |-> Streams, label |-> Label] /\ Found # {}
            /\ \A f \in Found : Streams[f] # "torn" /\ Label \notin {"torn", Nothing}
        BY <1>5, <3>2 DEF Digest
      <4>2. \A f \in Fixture : Streams[f] \in Reader \cup {Nothing}
        BY <4>1, Names DEF TypeOK, Streams, Found, Content, Engine
      <4>3. Label \in Reader
        <5>1. First \in Found
          <6>1. Found \in SUBSET Nat
            BY RunAssumption DEF Found, Fixture
          <6>2. \E f \in Found : \A g \in Found : f <= g
            BY <4>1, <6>1, LeastExists
          <6> QED
            BY <6>2 DEF First
        <5> QED
          BY <4>1, <5>1, Names DEF TypeOK, Label, Content, Engine, Found
      <4> QED
        BY <4>1, <4>2, <4>3 DEF Streams
    <3> QED
      BY <3>1, <3>2
  <2>3. TypeOK'
    BY <1>1, <2>1, <2>2 DEF TypeOK, Reader, ReaderOf, Outcome, Both, threads, bounded
  <2>4. Pool' /\ Phases' /\ PublishedIsTheMap'
    BY <1>1, <2>1 DEF Pool, Phases, Words, PublishedIsTheMap, threads
  <2> QED
    BY <1>2, <2>3, <2>4 DEF Words
<1> QED
  BY <1>3, <1>4, <1>5 DEF Main

LEMMA StepIInv == IInv /\ [Next]_vars => IInv'
<1> SUFFICES ASSUME IInv, [Next]_vars PROVE IInv'
  OBVIOUS
<1>1. CASE Begin
  BY <1>1, BeginStep
<1>2. CASE Main
  BY <1>2, MainStep
<1>3. CASE ControlTest
  BY <1>3, ControlStep
<1>4. CASE Kill
  BY <1>4, KillStep
<1>5. ASSUME NEW t \in Thread, Step(t) PROVE IInv'
  BY <1>5, ClaimStep, DecodeStep, TruncateStep, FillStep, WriteFailsStep, ReadStreamStep, ReadSidecarStep, InsertStep
     DEF Step
<1>6. CASE UNCHANGED vars
  <2>1. TypeOK'
    BY <1>6 DEF vars, threads, bounded, IInv, TypeOK, Reader, ReaderOf, Outcome, Both
  <2>2. Pool' /\ Phases'
    BY <1>6 DEF vars, threads, IInv, Pool, Phases
  <2>3. Words'
    BY <1>6 DEF vars, threads, bounded, IInv, Words, WriterHasOpened, SidecarIsOfThisRun, FirstWordTold,
         HeldWordsTold, MapTold, PublishedIsTheMap, Told, ReaderOf
  <2> QED
    BY <2>1, <2>2, <2>3 DEF IInv
<1> QED
  BY <1>1, <1>2, <1>3, <1>4, <1>5, <1>6 DEF Next

LEMMA Invariant == Spec => []IInv
  BY InitIInv, StepIInv, PTL DEF Spec

\* Every variable of a run keeps its type, for any number of fixtures, threads,
\* archives and runs.
THEOREM RunTypes == Spec => []TypeOK
<1>1. IInv => TypeOK
  BY DEF IInv
<1> QED
  BY <1>1, Invariant, PTL

\* No two workers ever hold one fixture, and none takes a fixture that is in the
\* map already: the files of a fixture have one writer of the pool.
THEOREM ClaimsAreExclusive == Spec => []OneClaimEach
<1>1. IInv => OneClaimEach
  BY DEF IInv, Pool, OneClaimEach
<1> QED
  BY <1>1, Invariant, PTL

\* The map is complete whenever the pool is joined: the expect() of the
\* sequential half cannot fail.
THEOREM JoinFindsEveryFixture == Spec => []EveryFixtureWasRun
<1>1. IInv => EveryFixtureWasRun
  BY DEF IInv, Phases, EveryFixtureWasRun
<1> QED
  BY <1>1, Invariant, PTL

\* Whatever the directory held before, the published verdicts are those of the
\* engines of this run.
THEOREM PublishedIsOfThisRun == Spec => []VerdictsAreThisRuns
<1>1. ASSUME IInv, verdicts # Nothing, NEW f \in Fixture, NEW e \in Engine
      PROVE  IF verdicts[f][e] = "failed" THEN f \notin opens[ReaderOf(e)] \/ fileErrors > 0
             ELSE verdicts[f][e] = ReaderOf(e) /\ f \in opens[ReaderOf(e)]
  <2>1. verdicts = results /\ results[f] # Nothing /\ results[f][e] # "error"
    BY <1>1 DEF IInv, Words, PublishedIsTheMap
  <2>2. Told(f, e, results[f][e])
    BY <1>1, <2>1 DEF IInv, Words, MapTold
  <2>3. ReaderOf(e) # "failed"
    BY <1>1, RunAssumption DEF IInv, TypeOK, ReaderOf
  <2> QED
    BY <2>1, <2>2, <2>3 DEF Told
<1>2. IInv => VerdictsAreThisRuns
  BY <1>1 DEF VerdictsAreThisRuns
<1> QED
  BY <1>2, Invariant, PTL

-----------------------------------------------------------------------------
\* Outside of Begin, Kill, Insert and Judge a step is not seen by the promise.
LEMMA Unseen ==
  ASSUME NEW t \in Thread, Step(t), ~Insert(t)
  PROVE  UNCHANGED <<archive, opens, results, verdicts>>
  BY DEF Step, Claim, Decode, Truncate, Fill, WriteFails, ReadStream, ReadSidecar

LEMMA InsertAnswers == ASSUME IInv, NEW t \in Thread, Insert(t) PROVE Promise!Answer(fx[t])
<1>1. /\ t \in Worker /\ phase = "emitting" /\ at[t] = "insert" /\ at[t] \in Busy
      /\ results' = [results EXCEPT ![fx[t]] = said[t]] /\ UNCHANGED <<archive, opens, verdicts>>
  BY Names DEF IInv, Phases, TypeOK, Insert, Busy
<1>2. results[fx[t]] = Nothing
  BY <1>1 DEF IInv, Pool
<1>3. \A e \in Engine : Told(fx[t], e, said[t][e])
  BY <1>1 DEF IInv, Words, HeldWordsTold
<1>4. said[t] \in Promise!Both
  BY DEF IInv, TypeOK, Both, Promise!Both, Engine, Promise!Engine, Outcome, Reader
<1>5. Promise!Honest(fx[t], said[t])
  BY <1>3 DEF Promise!Honest, Promise!Engine, Promise!ReaderOf, Engine, Told, ReaderOf
<1> QED
  BY <1>1, <1>2, <1>4, <1>5 DEF Promise!Answer

LEMMA JudgePublishes == ASSUME IInv, Judge PROVE Promise!Publish \/ UNCHANGED <<archive, opens, results, verdicts>>
  BY DEF IInv, Phases, Judge, Promise!Publish, Promise!Engine, Engine

\* The pool, its child processes and the files in between do what RunPromise
\* says: each fixture is answered once, by engines of this run, and verdicts are
\* published for all fixtures or for none.
THEOREM RunKeepsItsPromise == Spec => PromiseKept
<1>1. Init => Promise!Init
  BY DEF Init, Promise!Init, Reader
<1>2. IInv /\ [Next]_vars => [Promise!Next]_<<archive, opens, results, verdicts>>
  <2> SUFFICES ASSUME IInv, [Next]_vars
               PROVE  Promise!Next \/ UNCHANGED <<archive, opens, results, verdicts>>
    OBVIOUS
  <2>1. CASE Begin
    BY <2>1 DEF Begin, Promise!Next, Promise!Begin
  <2>2. CASE Kill
    <3>1. archive \in Archive
      BY DEF IInv, TypeOK
    <3> QED
      BY <2>2, <3>1 DEF Kill, Promise!Next, Promise!Begin
  <2>3. CASE Judge
    BY <2>3, JudgePublishes DEF Promise!Next
  <2>4. CASE Join \/ Digest \/ ControlTest
    BY <2>4 DEF Join, Digest, ControlTest
  <2>5. ASSUME NEW t \in Thread, Step(t)
        PROVE  Promise!Next \/ UNCHANGED <<archive, opens, results, verdicts>>
    <3>1. CASE Insert(t)
      <4>1. fx[t] \in Fixture
        BY DEF IInv, TypeOK
      <4> QED
        BY <3>1, <4>1, InsertAnswers DEF Promise!Next
    <3>2. CASE ~Insert(t)
      BY <2>5, <3>2, Unseen
    <3> QED
      BY <3>1, <3>2
  <2>6. CASE UNCHANGED vars
    BY <2>6 DEF vars
  <2> QED
    BY <2>1, <2>2, <2>3, <2>4, <2>5, <2>6 DEF Next, Main
<1> QED
  BY <1>1, <1>2, Invariant, PTL DEF Spec, PromiseKept, Promise!Spec

-----------------------------------------------------------------------------
\* Without the control test every writer of a file is a worker that holds its
\* fixture, so a child reads back what it wrote itself.
OwnStream ==
  \A t \in Worker : at[t] = "read" \/ (at[t] = "write" /\ name[t] > Stream) =>
    disk[en[t]][fx[t]][Stream] \notin {"torn", Nothing}
OwnSidecar ==
  \A t \in Worker : at[t] \in {"read", "side"} \/ (at[t] = "write" /\ name[t] > Sidecar) =>
    disk[en[t]][fx[t]][Sidecar] # "torn"
NoErrorSaid == \A t \in Thread, e \in Engine : said[t][e] # "error"

Clean == at[Controller] = "idle" /\ NoErrorSaid /\ OwnStream /\ OwnSidecar

CleanAlone == at[Controller] = "idle" => Clean

\* What a step of one thread leaves alone in the others.
LEMMA OneThreadSteps ==
  ASSUME TypeOK, NEW t \in Thread, Step(t)
  PROVE  \A u \in Thread : u # t =>
           /\ at'[u] = at[u] /\ fx'[u] = fx[u] /\ en'[u] = en[u] /\ name'[u] = name[u]
           /\ said'[u] = said[u]
<1>1. CASE Claim(t) \/ Insert(t)
  BY <1>1 DEF Claim, Insert, TypeOK
<1>2. CASE Decode(t) \/ WriteFails(t) \/ ReadStream(t) \/ ReadSidecar(t)
  BY <1>2 DEF Decode, WriteFails, ReadStream, ReadSidecar, Answered, TypeOK
<1>3. CASE Truncate(t) \/ Fill(t)
  BY <1>3 DEF Truncate, Fill, TypeOK
<1> QED
  BY <1>1, <1>2, <1>3 DEF Step

LEMMA WriterOf ==
  ASSUME IInv, NEW t \in Worker, NEW u \in Worker, at[t] \in Child, at[u] \in Child, u # t
  PROVE  fx[u] # fx[t]
<1>1. phase = "emitting"
  BY DEF IInv, TypeOK, Phases, Child
<1> QED
  BY <1>1 DEF IInv, Pool, Child, Busy

\* A child that is answered for without an error.
LEMMA AnsweredClean ==
  ASSUME IInv, Clean, NEW t \in Worker, at[t] \in Child, NEW outcome, outcome # "error", Answered(t, outcome),
         \A u \in Thread : u # t =>
           /\ at'[u] = at[u] /\ fx'[u] = fx[u] /\ en'[u] = en[u] /\ name'[u] = name[u]
           /\ said'[u] = said[u],
         disk' = disk
  PROVE  Clean'
<1> USE DEF IInv, Clean
<1>1. t \in Thread /\ Controller \in Thread /\ Controller # t /\ Worker \subseteq Thread
  BY Names
<1>2. at'[t] \in {"decode", "insert"}
  BY <1>1 DEF Answered, TypeOK
<1>3. \A e \in Engine : said'[t][e] # "error"
  BY <1>1 DEF Answered, TypeOK, NoErrorSaid, Both
<1>4. NoErrorSaid'
  BY <1>3 DEF NoErrorSaid
<1>5. OwnStream' /\ OwnSidecar'
  BY <1>1, <1>2 DEF OwnStream, OwnSidecar
<1> QED
  BY <1>1, <1>4, <1>5

\* A child that writes: the file it has open is nobody else's.
LEMMA WriteClean ==
  ASSUME IInv, Clean, NEW t \in Worker, at[t] = "write", NEW content, content \in {ReaderOf(en[t]), "torn"},
         SetFile(t, content), UNCHANGED <<fx, en, said>>,
         \A u \in Thread : u # t => at'[u] = at[u] /\ name'[u] = name[u],
         \/ content = "torn" /\ at'[t] = at[t] /\ name'[t] = name[t]
         \/ content # "torn" /\ name[t] < RunInfo /\ at'[t] = at[t] /\ name'[t] = name[t] + 1
         \/ content # "torn" /\ name[t] = RunInfo /\ at'[t] = "read" /\ name'[t] = name[t]
  PROVE  Clean'
<1> USE DEF IInv, Clean
<1>1. /\ t \in Thread /\ Controller \in Thread /\ Controller # t /\ Worker \subseteq Thread
      /\ Stream = 1 /\ Sidecar = 2 /\ RunInfo = 3
  BY Names
<1>2. \A u \in Thread : en[u] \in Engine /\ fx[u] \in Fixture /\ name[u] \in 1 .. 3
  BY <1>1 DEF TypeOK
<1>3. \A e \in Engine, f \in Fixture, n \in 1 .. 3 :
        disk'[e][f][n] = IF e = en[t] /\ f = fx[t] /\ n = name[t] THEN content ELSE disk[e][f][n]
  BY <1>1, FileSet
<1>4. ASSUME NEW u \in Worker, u # t, at'[u] \in Child
      PROVE  \A n \in 1 .. 3 : disk'[en[u]][fx[u]][n] = disk[en[u]][fx[u]][n]
  <2>1. fx[u] # fx[t]
    BY <1>1, <1>4, WriterOf DEF Child
  <2> QED
    BY <1>1, <1>2, <1>3, <2>1
<1>5. OwnStream'
  <2> SUFFICES ASSUME NEW u \in Worker, at'[u] = "read" \/ (at'[u] = "write" /\ name'[u] > 1)
               PROVE  disk'[en[u]][fx[u]][1] \notin {"torn", Nothing}
    BY <1>1 DEF OwnStream
  <2>1. CASE u # t
    BY <1>1, <1>4, <2>1 DEF OwnStream, Child
  <2>2. CASE u = t /\ name[t] = 1
    <3>1. ReaderOf(en[t]) # Nothing
      BY <1>1, <1>2, ReaderType, RunAssumption DEF Reader
    <3> QED
      BY <1>1, <1>2, <1>3, <2>2, <3>1
  <2>3. CASE u = t /\ name[t] # 1
    BY <1>1, <1>2, <1>3, <2>3 DEF OwnStream
  <2> QED
    BY <2>1, <2>2, <2>3
<1>6. OwnSidecar'
  <2> SUFFICES ASSUME NEW u \in Worker, at'[u] \in {"read", "side"} \/ (at'[u] = "write" /\ name'[u] > 2)
               PROVE  disk'[en[u]][fx[u]][2] # "torn"
    BY <1>1 DEF OwnSidecar
  <2>1. CASE u # t
    BY <1>1, <1>4, <2>1 DEF OwnSidecar, Child
  <2>2. CASE u = t /\ name[t] = 2
    BY <1>1, <1>2, <1>3, <2>2
  <2>3. CASE u = t /\ name[t] = 1
    BY <1>1, <1>2, <2>3
  <2>4. CASE u = t /\ name[t] = 3
    BY <1>1, <1>2, <1>3, <2>4 DEF OwnSidecar
  <2> QED
    BY <1>2, <1>1, <2>1, <2>2, <2>3, <2>4
<1>7. NoErrorSaid'
  BY DEF NoErrorSaid
<1> QED
  BY <1>1, <1>5, <1>6, <1>7

LEMMA CleanStep ==
  ASSUME IInv, Clean, [Next]_vars, at'[Controller] = "idle"
  PROVE  Clean'
<1> USE DEF IInv, Clean
<1>1. ASSUME NEW t \in Thread, Step(t) PROVE Clean'
  <2>1. /\ t \in Worker /\ Controller \in Thread /\ Controller # t /\ Worker \subseteq Thread
        /\ Stream = 1 /\ Sidecar = 2 /\ RunInfo = 3
    BY <1>1, Names DEF Step, Claim, Decode, Truncate, Fill, WriteFails, ReadStream, ReadSidecar, Insert
  <2>2. \A u \in Thread : u # t =>
           /\ at'[u] = at[u] /\ fx'[u] = fx[u] /\ en'[u] = en[u] /\ name'[u] = name[u]
           /\ said'[u] = said[u]
    BY <1>1, OneThreadSteps
  <2>3. ReaderOf(en[t]) \in Reader /\ ReaderOf(en[t]) # "torn" /\ ReaderOf(en[t]) # "error"
    <3>1. en[t] \in Engine
      BY DEF TypeOK
    <3> QED
      BY <3>1, ReaderType, RunAssumption DEF Reader
  <2>4. CASE Claim(t) \/ Insert(t)
    <3>1. at'[t] \in {"decode", "stop", "claim"} /\ disk' = disk /\ said' = said
      BY <2>4 DEF Claim, Insert, TypeOK
    <3> QED
      BY <2>1, <2>2, <3>1 DEF OwnStream, OwnSidecar, NoErrorSaid
  <2>5. CASE Decode(t)
    <3>1. CASE fx[t] \in opens[ReaderOf(en[t])]
      <4>1. at'[t] = "write" /\ name'[t] = 1 /\ disk' = disk /\ said' = said
        BY <2>1, <2>5, <3>1 DEF Decode, TypeOK
      <4> QED
        BY <2>1, <2>2, <4>1 DEF OwnStream, OwnSidecar, NoErrorSaid
    <3>2. CASE fx[t] \notin opens[ReaderOf(en[t])]
      <4>1. Answered(t, "failed") /\ disk' = disk /\ at[t] \in Child
        BY <2>5, <3>2 DEF Decode, Child
      <4> QED
        BY <2>1, <2>2, <4>1, AnsweredClean
    <3> QED
      BY <3>1, <3>2
  <2>6. CASE WriteFails(t)
    <3>1. Answered(t, "failed") /\ disk' = disk /\ at[t] \in Child
      BY <2>6 DEF WriteFails, Child
    <3> QED
      BY <2>1, <2>2, <3>1, AnsweredClean
  <2>7. CASE Truncate(t)
    <3>1. /\ at[t] = "write" /\ SetFile(t, "torn") /\ UNCHANGED <<fx, en, said, at, name>>
      BY <2>7 DEF Truncate
    <3> QED
      BY <2>1, <2>2, <3>1, WriteClean
  <2>8. CASE Fill(t)
    <3>1. ~Shared(t)
      <4> SUFFICES ASSUME NEW u \in Thread \ {t}, at[u] = "write", fx[u] = fx[t] PROVE FALSE
        BY DEF Shared
      <4>1. u \in Worker
        BY Names
      <4>2. at[t] = "write"
        BY <2>8 DEF Fill
      <4> QED
        BY <2>1, <4>1, <4>2, WriterOf DEF Child
    <3>2. SetFile(t, ReaderOf(en[t])) /\ at[t] = "write" /\ UNCHANGED <<fx, en, said>>
      BY <2>8, <3>1 DEF Fill
    <3>3. \/ name[t] < RunInfo /\ at'[t] = at[t] /\ name'[t] = name[t] + 1
          \/ name[t] = RunInfo /\ at'[t] = "read" /\ name'[t] = name[t]
      <4>1. name[t] \in 1 .. 3
        BY <2>1 DEF TypeOK, Stream, RunInfo
      <4>2. CASE name[t] < RunInfo
        BY <2>1, <2>8, <4>2 DEF Fill, TypeOK
      <4>3. CASE ~(name[t] < RunInfo)
        BY <2>1, <2>8, <4>1, <4>3 DEF Fill, TypeOK, RunInfo
      <4> QED
        BY <4>2, <4>3
    <3> QED
      BY <2>1, <2>2, <2>3, <3>2, <3>3, WriteClean
  <2>9. CASE ReadStream(t)
    <3>1. at[t] = "read" /\ OnDisk(t, Stream) \notin {"torn", Nothing}
      BY <2>1, <2>9 DEF ReadStream, OwnStream, OnDisk
    <3>2. at'[t] = "side" /\ UNCHANGED <<fx, en, name, disk>>
      BY <2>9, <3>1 DEF ReadStream, TypeOK
    <3>5. OnDisk(t, Stream) # "error"
      <4>1. OnDisk(t, Stream) \in Content
        BY <2>1, Names DEF OnDisk, TypeOK
      <4>2. "error" \notin Content
        BY RunAssumption DEF Content, Reader
      <4> QED
        BY <4>1, <4>2
    <3>6. \A e \in Engine : said'[t][e] # "error"
      BY <2>1, <2>9, <3>1, <3>5 DEF ReadStream, NoErrorSaid, TypeOK, Both
    <3>3. disk[en[t]][fx[t]][Sidecar] # "torn"
      BY <2>1, <3>1 DEF OwnSidecar
    <3>4. OwnStream' /\ OwnSidecar' /\ NoErrorSaid'
      BY <2>1, <2>2, <3>2, <3>3, <3>6 DEF OwnStream, OwnSidecar, NoErrorSaid
    <3> QED
      BY <2>1, <2>2, <3>4
  <2>10. CASE ReadSidecar(t)
    <3>1. at[t] = "side" /\ disk' = disk
      BY <2>10 DEF ReadSidecar
    <3>2. OnDisk(t, Sidecar) \in {ReaderOf(en[t]), "torn"}
      BY <3>1 DEF Words, SidecarIsOfThisRun, OnDisk
    <3>3. OnDisk(t, Sidecar) = ReaderOf(en[t])
      BY <2>1, <3>1, <3>2 DEF OwnSidecar, OnDisk
    <3>4. Nothing \notin Reader
      BY RunAssumption DEF Reader
    <3>5. Answered(t, ReaderOf(en[t]))
      BY <2>3, <2>10, <3>3, <3>4 DEF ReadSidecar
    <3> QED
      BY <2>1, <2>2, <2>3, <3>1, <3>5, AnsweredClean DEF Child
  <2> QED
    BY <1>1, <2>4, <2>5, <2>6, <2>7, <2>8, <2>9, <2>10 DEF Step
<1>2. CASE Begin \/ Kill
  <2>1. /\ at'[Controller] = "idle" /\ \A t \in Worker : at'[t] \in {"claim", "idle"}
        /\ \A t \in Thread : said'[t] = Unsaid
    BY <1>2, Names DEF Begin, Kill, Fresh
  <2>2. NoErrorSaid'
    BY <2>1 DEF NoErrorSaid, Unsaid
  <2> QED
    BY <2>1, <2>2 DEF OwnStream, OwnSidecar
<1>3. CASE Main \/ UNCHANGED vars
  <2>1. UNCHANGED <<at, fx, en, name, said, disk>>
    BY <1>3 DEF Main, Join, Judge, Digest, vars, threads
  <2> QED
    BY <2>1 DEF OwnStream, OwnSidecar, NoErrorSaid
<1>4. ~ControlTest
  BY Names DEF ControlTest, TypeOK
<1> QED
  BY <1>1, <1>2, <1>3, <1>4 DEF Next

\* Only a step that begins a run, or ends one, brings the control test back to
\* where it has not started.
LEMMA CleanAloneStep ==
  ASSUME IInv, CleanAlone, [Next]_vars
  PROVE  CleanAlone'
<1> SUFFICES ASSUME at'[Controller] = "idle" PROVE Clean'
  BY DEF CleanAlone
<1>1. CASE Clean
  BY <1>1, CleanStep
<1>2. CASE ~Clean
  <2>1. at[Controller] # "idle" /\ Controller \in Thread
    BY <1>2, Names DEF CleanAlone
  <2>2. CASE Begin \/ Kill
    <3>1. /\ at'[Controller] = "idle" /\ \A t \in Worker : at'[t] \in {"claim", "idle"}
          /\ \A t \in Thread : said'[t] = Unsaid
      BY <2>2, Names DEF Begin, Kill, Fresh
    <3>2. NoErrorSaid'
      BY <3>1 DEF NoErrorSaid, Unsaid
    <3> QED
      BY <3>1, <3>2 DEF Clean, OwnStream, OwnSidecar
  <2>3. CASE Main \/ UNCHANGED vars
    BY <2>1, <2>3 DEF Main, Join, Judge, Digest, vars, threads
  <2>4. CASE ControlTest
    BY <2>1, <2>4 DEF ControlTest
  <2>5. ASSUME NEW t \in Thread, Step(t) PROVE FALSE
    <3>1. CASE t # Controller
      BY <2>1, <2>5, <3>1, OneThreadSteps DEF IInv
    <3>2. CASE t = Controller
      BY <2>1, <2>5, <3>2, Names DEF IInv, TypeOK, Step, Claim, Decode, Truncate, Fill, WriteFails, ReadStream,
           ReadSidecar, Insert, Answered
    <3> QED
      BY <3>1, <3>2
  <2> QED
    BY <2>2, <2>3, <2>4, <2>5 DEF Next
<1> QED
  BY <1>1, <1>2

\* However many fixtures, workers and runs there are: while the control test
\* has not started beside the pool, no worker reads a file that another has half
\* written, whatever killed runs left half written before.
THEOREM PoolReadsWholeFiles == Spec => []NoHalfWrittenRead
<1>1. Init => CleanAlone
  <2> SUFFICES ASSUME Init PROVE Clean
    BY DEF CleanAlone
  <2>1. /\ \A t \in Thread : at[t] = "idle" /\ said[t] = Unsaid
        /\ Controller \in Thread /\ Worker \subseteq Thread
    BY Names DEF Init, Fresh
  <2>2. NoErrorSaid
    BY <2>1 DEF NoErrorSaid, Unsaid
  <2> QED
    BY <2>1, <2>2 DEF Clean, OwnStream, OwnSidecar
<1>2. IInv /\ CleanAlone /\ [Next]_vars => CleanAlone'
  BY CleanAloneStep
<1>3. CleanAlone => NoHalfWrittenRead
  BY DEF Thread, CleanAlone, Clean, NoErrorSaid, NoHalfWrittenRead
<1> QED
  BY <1>1, <1>2, <1>3, Invariant, PTL DEF Spec

-----------------------------------------------------------------------------
(* The digest table.  A file once there stays, a stream is there from the child's *)
(* first write on, and what a build's name stands on was opened by that build.    *)

HasStream(f) == disk["acadsharp"][f][Stream] # Nothing

WriterHasStream ==
  \A t \in Worker : at[t] \in {"read", "side"} \/ (at[t] = "write" /\ name[t] > Stream) =>
    disk[en[t]][fx[t]][Stream] # Nothing
HeldHasStream ==
  \A t \in Worker : at[t] = "insert" \/ (at[t] \in Child /\ en[t] = "acadrust") =>
    said[t]["acadsharp"] \in {"failed", "error"} \/ HasStream(fx[t])
MapHasStreams ==
  \A f \in Fixture : results[f] # Nothing => results[f]["acadsharp"] \in {"failed", "error"} \/ HasStream(f)
FilesWereOpened ==
  \A f \in Fixture, n \in Stream .. RunInfo :
    disk["acadsharp"][f][n] \in Archive => f \in opens[disk["acadsharp"][f][n]]
ControlIsRust == at[Controller] \in Child => en[Controller] = "acadrust"
TableIsTheStreams ==
  /\ phase # "ended" => digests = Nothing
  /\ phase = "digesting" \/ digests # Nothing =>
       \A f \in Fixture : results[f] # Nothing /\ results[f]["acadsharp"] # "error"
  /\ digests # Nothing =>
       /\ \A f \in Fixture : digests.rows[f] = disk["acadsharp"][f][Stream] /\ digests.rows[f] # "torn"
       /\ digests.label \notin {"torn", Nothing}
       /\ \E f \in Fixture : digests.label = disk["acadsharp"][f][RunInfo]

Streamed ==
  /\ WriterHasStream /\ HeldHasStream /\ MapHasStreams /\ FilesWereOpened /\ ControlIsRust
  /\ TableIsTheStreams

\* The one file a step may write.
LEMMA StepWrites ==
  ASSUME IInv, NEW t \in Thread, Step(t)
  PROVE  \/ disk' = disk
         \/ at[t] = "write" /\ \E content \in {ReaderOf(en[t]), "torn"} : SetFile(t, content)
<1>1. CASE Truncate(t) \/ Fill(t)
  BY <1>1 DEF Truncate, Fill
<1>2. CASE Claim(t) \/ Decode(t) \/ WriteFails(t) \/ ReadStream(t) \/ ReadSidecar(t) \/ Insert(t)
  BY <1>2 DEF Claim, Decode, WriteFails, ReadStream, ReadSidecar, Insert
<1> QED
  BY <1>1, <1>2 DEF Step

\* What the directory keeps through any step.
DirectoryStep ==
  /\ \A e \in Engine, f \in Fixture, n \in 1 .. 3 : disk[e][f][n] # Nothing => disk'[e][f][n] # Nothing
  /\ \A f \in Fixture, n \in 1 .. 3 :
       \/ disk'["acadsharp"][f][n] = disk["acadsharp"][f][n]
       \/ /\ phase = "emitting" /\ disk'["acadsharp"][f][n] \in {archive, "torn"}
          /\ f \in opens[archive]

LEMMA DirectoryKeeps ==
  ASSUME IInv, ControlIsRust, [Next]_vars
  PROVE  DirectoryStep
<1> USE DEF IInv
<1>1. CASE disk' = disk
  BY <1>1 DEF DirectoryStep
<1>2. ASSUME NEW t \in Thread, Step(t), disk' # disk PROVE DirectoryStep
  <2>1. at[t] = "write"
    BY <1>2, StepWrites
  <2>2. PICK content \in {ReaderOf(en[t]), "torn"} : SetFile(t, content)
    BY <1>2, StepWrites
  <2>3. \A e \in Engine, f \in Fixture, n \in 1 .. 3 :
          disk'[e][f][n] = IF e = en[t] /\ f = fx[t] /\ n = name[t] THEN content ELSE disk[e][f][n]
    BY <2>2, FileSet, Names
  <2>4. en[t] \in Engine /\ content # Nothing
    BY RunAssumption, ReaderType DEF TypeOK, Reader
  <2>5. ASSUME NEW f \in Fixture, NEW n \in 1 .. 3, disk'["acadsharp"][f][n] # disk["acadsharp"][f][n]
        PROVE  /\ phase = "emitting" /\ disk'["acadsharp"][f][n] \in {archive, "torn"}
               /\ f \in opens[archive]
    <3>1. "acadsharp" \in Engine /\ "acadrust" # "acadsharp"
      BY DEF Engine
    <3>2. en[t] = "acadsharp" /\ f = fx[t] /\ disk'["acadsharp"][f][n] = content
      BY <2>3, <2>5, <3>1
    <3>3. t \in Worker
      BY <2>1, <3>1, <3>2, Names DEF ControlIsRust, Child
    <3>4. phase = "emitting"
      BY <2>1, <3>3 DEF TypeOK, Phases
    <3>5. ReaderOf(en[t]) = archive /\ fx[t] \in opens[archive]
      BY <2>1, <3>2 DEF ReaderOf, Words, WriterHasOpened
    <3> QED
      BY <3>2, <3>4, <3>5
  <2> QED
    BY <2>3, <2>4, <2>5 DEF DirectoryStep
<1>3. CASE Begin \/ Main \/ ControlTest \/ Kill \/ UNCHANGED vars
  <2>1. disk' = disk
    BY <1>3 DEF Begin, Main, Join, Judge, Digest, ControlTest, Kill, vars
  <2> QED
    BY <1>1, <2>1
<1> QED
  BY <1>1, <1>2, <1>3 DEF Next

\* Whoever does not move keeps what it had.
Still(t) ==
  at'[t] = at[t] /\ fx'[t] = fx[t] /\ en'[t] = en[t] /\ name'[t] = name[t] /\ said'[t] = said[t]

ThreadHas(t) ==
  /\ at[t] \in {"read", "side"} \/ (at[t] = "write" /\ name[t] > Stream) =>
       disk[en[t]][fx[t]][Stream] # Nothing
  /\ at[t] = "insert" \/ (at[t] \in Child /\ en[t] = "acadrust") =>
       said[t]["acadsharp"] \in {"failed", "error"} \/ HasStream(fx[t])

LEMMA ThreadsHave == WriterHasStream /\ HeldHasStream <=> \A t \in Worker : ThreadHas(t)
  BY DEF WriterHasStream, HeldHasStream, ThreadHas

LEMMA StillHas ==
  ASSUME TypeOK, DirectoryStep, NEW t \in Worker, ThreadHas(t), Still(t)
  PROVE  ThreadHas(t)'
<1>1. en[t] \in Engine /\ fx[t] \in Fixture /\ Stream \in 1 .. 3 /\ "acadsharp" \in Engine
  BY Names DEF TypeOK, Engine
<1>2. /\ disk[en[t]][fx[t]][Stream] # Nothing => disk'[en[t]][fx[t]][Stream] # Nothing
      /\ HasStream(fx[t]) => disk'["acadsharp"][fx[t]][Stream] # Nothing
  BY <1>1 DEF DirectoryStep, HasStream
<1> QED
  BY <1>2 DEF ThreadHas, Still, HasStream

\* A child is answered for: with its stream in the directory, or with no reading.
LEMMA AnsweredHas ==
  ASSUME IInv, DirectoryStep, NEW t \in Worker, ThreadHas(t), at[t] \in Child, NEW outcome, Answered(t, outcome),
         fx'[t] = fx[t], name'[t] = name[t],
         outcome \in {"failed", "error"} \/ disk[en[t]][fx[t]][Stream] # Nothing
  PROVE  ThreadHas(t)'
<1> USE DEF IInv
<1>1. /\ t \in Thread /\ en[t] \in Engine /\ fx[t] \in Fixture /\ Stream \in 1 .. 3
      /\ "acadsharp" \in Engine /\ "acadrust" \in Engine
  BY Names DEF TypeOK, Engine
<1>2. said'[t]["acadsharp"] = IF en[t] = "acadsharp" THEN outcome ELSE said[t]["acadsharp"]
  BY <1>1 DEF Answered, TypeOK, Both
<1>3. HasStream(fx[t]) => disk'["acadsharp"][fx[t]][Stream] # Nothing
  BY <1>1 DEF DirectoryStep, HasStream
<1>4. at'[t] \in {"decode", "insert"}
  BY <1>1 DEF Answered, TypeOK
<1>5. CASE en[t] = "acadsharp"
  BY <1>1, <1>2, <1>3, <1>4, <1>5 DEF ThreadHas, HasStream
<1>6. CASE en[t] = "acadrust"
  BY <1>1, <1>2, <1>3, <1>4, <1>6 DEF ThreadHas, HasStream
<1> QED
  BY <1>1, <1>5, <1>6 DEF Engine

LEMMA MoverHas ==
  ASSUME IInv, DirectoryStep, NEW t \in Worker, ThreadHas(t), Step(t)
  PROVE  ThreadHas(t)'
<1> USE DEF IInv
<1>1. /\ t \in Thread /\ en[t] \in Engine /\ fx[t] \in Fixture /\ name[t] \in 1 .. 3
      /\ Stream = 1 /\ Sidecar = 2 /\ RunInfo = 3
  BY Names DEF TypeOK
<1>2. CASE Claim(t)
  <2>1. at'[t] \in {"decode", "stop"} /\ (at'[t] = "decode" => en'[t] = "acadsharp")
    BY <1>1, <1>2 DEF Claim, TypeOK
  <2> QED
    BY <2>1 DEF ThreadHas, Child
<1>3. CASE Decode(t)
  <2>1. CASE fx[t] \in opens[ReaderOf(en[t])]
    <3>1. at'[t] = "write" /\ name'[t] = 1 /\ UNCHANGED <<en, fx, said>> /\ disk' = disk /\ at[t] = "decode"
      BY <1>1, <1>3, <2>1 DEF Decode, TypeOK
    <3> QED
      BY <1>1, <3>1 DEF ThreadHas, HasStream, Child
  <2>2. CASE fx[t] \notin opens[ReaderOf(en[t])]
    <3>1. Answered(t, "failed") /\ at[t] \in Child /\ fx'[t] = fx[t] /\ name'[t] = name[t]
      BY <1>3, <2>2 DEF Decode, Child
    <3> QED
      BY <3>1, AnsweredHas
  <2> QED
    BY <2>1, <2>2
<1>4. CASE WriteFails(t)
  <2>1. Answered(t, "failed") /\ at[t] \in Child /\ fx'[t] = fx[t] /\ name'[t] = name[t]
    BY <1>4 DEF WriteFails, Child
  <2> QED
    BY <2>1, AnsweredHas
<1>5. CASE Truncate(t)
  <2>1. Still(t)
    BY <1>5 DEF Truncate, Still
  <2> QED
    BY <2>1, StillHas
<1>6. CASE Fill(t)
  <2>1. at[t] = "write" /\ UNCHANGED <<fx, en, said>>
    BY <1>6 DEF Fill
  <2>2. /\ name[t] < 3 => at'[t] = at[t]
        /\ at'[t] \in {"write", "read"}
    BY <1>1, <1>6, <2>1 DEF Fill, TypeOK
  <2>3. disk'[en[t]][fx[t]][1] # Nothing
    <3>1. CASE name[t] > 1
      BY <1>1, <2>1, <3>1 DEF ThreadHas, DirectoryStep
    <3>2. CASE name[t] = 1
      <4>1. PICK content \in {ReaderOf(en[t]), "torn"} : SetFile(t, content)
        BY <1>6 DEF Fill
      <4>2. disk'[en[t]][fx[t]][1] = content
        BY <1>1, <3>2, <4>1, FileSet
      <4> QED
        BY <1>1, <4>1, <4>2, RunAssumption, ReaderType DEF Reader
    <3> QED
      BY <1>1, <3>1, <3>2
  <2>4. HasStream(fx[t]) => disk'["acadsharp"][fx[t]][Stream] # Nothing
    BY <1>1 DEF DirectoryStep, HasStream, Engine
  <2> QED
    BY <1>1, <2>1, <2>2, <2>3, <2>4 DEF ThreadHas, HasStream, Child
<1>7. CASE ReadStream(t)
  <2>1. at[t] = "read" /\ at[t] \in Child /\ fx'[t] = fx[t] /\ name'[t] = name[t] /\ disk' = disk
    BY <1>7 DEF ReadStream, Child
  <2>2. CASE OnDisk(t, Stream) \in {"torn", Nothing}
    <3>1. Answered(t, "error")
      BY <1>7, <2>2 DEF ReadStream
    <3> QED
      BY <2>1, <3>1, AnsweredHas
  <2>3. CASE OnDisk(t, Stream) \notin {"torn", Nothing}
    <3>1. at'[t] = "side" /\ UNCHANGED en /\ (en[t] = "acadrust" => said'[t]["acadsharp"] = said[t]["acadsharp"])
      BY <1>1, <1>7, <2>3 DEF ReadStream, TypeOK, Both, Engine
    <3> QED
      BY <1>1, <2>1, <3>1 DEF ThreadHas, HasStream, Child
  <2> QED
    BY <2>2, <2>3
<1>8. CASE ReadSidecar(t)
  <2>1. /\ at[t] = "side" /\ at[t] \in Child /\ fx'[t] = fx[t] /\ name'[t] = name[t]
        /\ \E outcome : Answered(t, outcome)
    BY <1>8 DEF ReadSidecar, Child
  <2>2. disk[en[t]][fx[t]][Stream] # Nothing
    BY <2>1 DEF ThreadHas
  <2> QED
    BY <2>1, <2>2, AnsweredHas
<1>9. CASE Insert(t)
  <2>1. at'[t] = "claim"
    BY <1>1, <1>9 DEF Insert, TypeOK
  <2> QED
    BY <2>1 DEF ThreadHas, Child
<1> QED
  BY <1>2, <1>3, <1>4, <1>5, <1>6, <1>7, <1>8, <1>9 DEF Step

LEMMA WorkersHave ==
  ASSUME IInv, DirectoryStep, \A t \in Worker : ThreadHas(t), [Next]_vars, NEW u \in Worker
  PROVE  ThreadHas(u)'
<1> USE DEF IInv
<1>1. u \in Thread /\ u # Controller
  BY Names
<1>2. ASSUME NEW t \in Thread, Step(t) PROVE ThreadHas(u)'
  <2>1. CASE u = t
    BY <1>2, <2>1, MoverHas
  <2>2. CASE u # t
    <3>1. Still(u)
      BY <1>1, <1>2, <2>2, OneThreadSteps DEF Still
    <3> QED
      BY <3>1, StillHas
  <2> QED
    BY <2>1, <2>2
<1>3. CASE Begin \/ Kill
  <2>1. at'[u] \in {"claim", "idle"}
    BY <1>1, <1>3 DEF Begin, Kill
  <2> QED
    BY <2>1 DEF ThreadHas, Child
<1>4. CASE ControlTest \/ Main \/ UNCHANGED vars
  <2>1. Still(u)
    BY <1>1, <1>4 DEF ControlTest, Main, Join, Judge, Digest, vars, threads, Still, TypeOK
  <2> QED
    BY <2>1, StillHas
<1> QED
  BY <1>2, <1>3, <1>4 DEF Next

LEMMA MapStep ==
  ASSUME IInv, DirectoryStep, HeldHasStream, MapHasStreams, [Next]_vars
  PROVE  MapHasStreams'
<1> USE DEF IInv
<1>1. \A f \in Fixture : HasStream(f) => disk'["acadsharp"][f][Stream] # Nothing
  BY Names DEF DirectoryStep, HasStream, Engine
<1>2. CASE results' = results
  BY <1>1, <1>2 DEF MapHasStreams, HasStream
<1>3. ASSUME NEW t \in Thread, Insert(t) PROVE MapHasStreams'
  <2>1. t \in Worker /\ fx[t] \in Fixture /\ at[t] = "insert"
    BY <1>3, Names DEF Insert, Phases, TypeOK
  <2>2. \A f \in Fixture : results'[f] = IF f = fx[t] THEN said[t] ELSE results[f]
    BY <1>3, <2>1 DEF Insert, TypeOK
  <2> QED
    BY <1>1, <2>1, <2>2 DEF MapHasStreams, HeldHasStream, HasStream
<1>4. CASE Begin \/ Kill
  <2>1. \A f \in Fixture : results'[f] = Nothing
    BY <1>4 DEF Begin, Kill
  <2> QED
    BY <2>1 DEF MapHasStreams
<1>5. ASSUME NEW t \in Thread, Step(t), ~Insert(t) PROVE results' = results
  BY <1>5 DEF Step, Claim, Decode, Truncate, Fill, WriteFails, ReadStream, ReadSidecar
<1>6. CASE Main \/ ControlTest \/ UNCHANGED vars
  <2>1. results' = results
    BY <1>6 DEF Main, Join, Judge, Digest, ControlTest, vars
  <2> QED
    BY <2>1, <1>2
<1> QED
  BY <1>2, <1>3, <1>4, <1>5, <1>6 DEF Next

LEMMA ControlStaysRust ==
  ASSUME IInv, ControlIsRust, [Next]_vars
  PROVE  ControlIsRust'
<1> USE DEF IInv
<1>1. ASSUME NEW t \in Thread, Step(t) PROVE ControlIsRust'
  <2>1. CASE t # Controller
    BY <1>1, <2>1, Names, OneThreadSteps DEF ControlIsRust
  <2>2. CASE t = Controller
    <3>1. en' = en /\ at[t] \in Child
      <4>1. t \notin Worker /\ at[t] # "insert"
        BY <2>2, Names DEF Phases
      <4> QED
        BY <1>1, <4>1 DEF Step, Claim, Decode, Truncate, Fill, WriteFails, ReadStream, ReadSidecar, Insert,
             Answered, Child
    <3> QED
      BY <2>2, <3>1 DEF ControlIsRust
  <2> QED
    BY <2>1, <2>2
<1>2. CASE Begin \/ Kill
  BY <1>2, Names DEF Begin, Kill, ControlIsRust, Child
<1>3. CASE ControlTest
  BY <1>3, Names DEF ControlTest, ControlIsRust, TypeOK
<1>4. CASE Main \/ UNCHANGED vars
  <2>1. at' = at /\ en' = en
    BY <1>4 DEF Main, Join, Judge, Digest, vars, threads
  <2> QED
    BY <2>1 DEF ControlIsRust
<1> QED
  BY <1>1, <1>2, <1>3, <1>4 DEF Next

LEMMA TableStep ==
  ASSUME IInv, DirectoryStep, TableIsTheStreams, [Next]_vars
  PROVE  TableIsTheStreams'
<1> USE DEF IInv
<1>1. Stream \in 1 .. 3 /\ RunInfo \in 1 .. 3
  BY Names
<1>2. CASE Begin \/ Kill
  <2>1. phase' # "digesting" /\ digests' = Nothing
    BY <1>2 DEF Begin, Kill
  <2> QED
    BY <2>1 DEF TableIsTheStreams
<1>3. CASE Judge
  <2>1. /\ phase = "judging" /\ results' = results /\ disk' = disk /\ digests' = digests
        /\ phase' \in {"failed", "digesting"}
        /\ phase' = "digesting" => \A f \in Fixture : results[f] # Nothing /\ \A e \in Engine : results[f][e] # "error"
    BY <1>3 DEF Judge
  <2>2. digests = Nothing
    BY <2>1 DEF TableIsTheStreams
  <2> QED
    BY <2>1, <2>2 DEF TableIsTheStreams, Engine
<1>4. CASE Digest
  <2>1. /\ phase = "digesting" /\ results' = results /\ disk' = disk /\ digests = Nothing
        /\ phase' \in {"failed", "ended"}
    BY <1>4 DEF Digest, TableIsTheStreams
  <2>2. CASE digests' = digests
    BY <2>1, <2>2 DEF TableIsTheStreams
  <2>3. CASE digests' # digests
    <3>1. /\ digests' = [rows |-> Streams, label |-> Label] /\ Found # {} /\ phase' = "ended"
          /\ \A f \in Found : Streams[f] # "torn" /\ Label \notin {"torn", Nothing}
      BY <1>4, <2>3 DEF Digest
    <3>2. First \in Fixture
      <4>1. Found \in SUBSET Nat
        BY RunAssumption DEF Found, Fixture
      <4>2. \E f \in Found : \A g \in Found : f <= g
        BY <3>1, <4>1, LeastExists
      <4>3. First \in Found
        BY <4>2 DEF First
      <4> QED
        BY <4>3 DEF Found
    <3>3. digests'.rows = Streams /\ digests'.label = disk["acadsharp"][First][RunInfo]
      BY <3>1 DEF Label
    <3>4. \A f \in Fixture : Streams[f] = disk["acadsharp"][f][Stream] /\ Streams[f] # "torn"
      BY <3>1, RunAssumption DEF Streams, Found
    <3>5. digests'.label \notin {"torn", Nothing}
      BY <3>1
    <3> QED
      BY <2>1, <3>1, <3>2, <3>3, <3>4, <3>5 DEF TableIsTheStreams
  <2> QED
    BY <2>2, <2>3
<1>5. CASE Join
  <2>1. phase' = "judging" /\ phase = "emitting" /\ digests' = digests
    BY <1>5 DEF Join
  <2> QED
    BY <2>1 DEF TableIsTheStreams
<1>6. ASSUME phase' = phase, digests' = digests, phase = "emitting" \/ results' = results
      PROVE  TableIsTheStreams'
  <2>1. CASE phase = "emitting"
    BY <1>6, <2>1 DEF TableIsTheStreams
  <2>2. CASE phase # "emitting"
    <3>1. \A f \in Fixture, n \in 1 .. 3 : disk'["acadsharp"][f][n] = disk["acadsharp"][f][n]
      BY <2>2 DEF DirectoryStep
    <3> QED
      BY <1>1, <1>6, <2>2, <3>1 DEF TableIsTheStreams
  <2> QED
    BY <2>1, <2>2
<1>7. ASSUME NEW t \in Thread, Step(t) PROVE TableIsTheStreams'
  <2>1. phase' = phase /\ digests' = digests
    BY <1>7 DEF Step, Claim, Decode, Truncate, Fill, WriteFails, ReadStream, ReadSidecar, Insert
  <2>2. phase = "emitting" \/ results' = results
    <3>1. CASE Insert(t)
      <4>1. t \in Worker /\ at[t] = "insert"
        BY <3>1, Names DEF Insert, Phases
      <4> QED
        BY <4>1 DEF Phases, TypeOK
    <3>2. CASE ~Insert(t)
      BY <1>7, <3>2 DEF Step, Claim, Decode, Truncate, Fill, WriteFails, ReadStream, ReadSidecar
    <3> QED
      BY <3>1, <3>2
  <2> QED
    BY <2>1, <2>2, <1>6
<1>8. CASE ControlTest \/ UNCHANGED vars
  <2>1. phase' = phase /\ digests' = digests /\ results' = results
    BY <1>8 DEF ControlTest, vars
  <2> QED
    BY <2>1, <1>6
<1> QED
  BY <1>2, <1>3, <1>4, <1>5, <1>7, <1>8 DEF Next, Main

LEMMA StreamedStep ==
  ASSUME IInv, Streamed, [Next]_vars
  PROVE  Streamed'
<1> USE DEF IInv
<1>1. DirectoryStep
  BY DirectoryKeeps DEF Streamed
<1>2. WriterHasStream' /\ HeldHasStream'
  <2>1. \A u \in Worker : ThreadHas(u)
    BY ThreadsHave DEF Streamed
  <2>2. \A u \in Worker : ThreadHas(u)'
    BY <1>1, <2>1, WorkersHave
  <2> QED
    BY <2>2 DEF WriterHasStream, HeldHasStream, ThreadHas
<1>3. FilesWereOpened'
  <2>1. opens' = opens
    BY DEF Next, vars, Begin, Main, Join, Judge, Digest, ControlTest, Kill, Step, Claim, Decode, Truncate, Fill,
       WriteFails, ReadStream, ReadSidecar, Insert
  <2>2. "torn" \notin Archive /\ Stream = 1 /\ RunInfo = 3
    BY RunAssumption, Names
  <2> QED
    BY <1>1, <2>1, <2>2 DEF Streamed, FilesWereOpened, DirectoryStep
<1> QED
  BY <1>1, <1>2, <1>3, MapStep, ControlStaysRust, TableStep DEF Streamed

\* Over whatever earlier runs and kills left of this archive, for any number of
\* fixtures and workers and with the control test running: the digest table has the
\* label of this archive, and a row for each fixture it opens and for no other.
THEOREM DigestsAreOfThisRun == Spec => []CleanDigestsAreThisRuns
<1>1. Init => Streamed
  <2> SUFFICES ASSUME Init PROVE Streamed
    OBVIOUS
  <2>1. /\ \A t \in Thread : at[t] = "idle"
        /\ Controller \in Thread /\ Worker \subseteq Thread /\ "acadsharp" \in Engine
    BY Names DEF Init, Engine
  <2>2. WriterHasStream /\ HeldHasStream /\ ControlIsRust
    BY <2>1 DEF WriterHasStream, HeldHasStream, ControlIsRust, Child
  <2>3. MapHasStreams /\ TableIsTheStreams
    BY DEF Init, MapHasStreams, TableIsTheStreams
  <2>4. \A f \in Fixture, n \in Stream .. RunInfo : disk["acadsharp"][f][n] = Nothing
    BY <2>1 DEF Init
  <2>5. FilesWereOpened
    BY <2>4, RunAssumption DEF FilesWereOpened
  <2> QED
    BY <2>2, <2>3, <2>5 DEF Streamed
<1>2. IInv /\ Streamed /\ [Next]_vars => Streamed'
  BY StreamedStep
<1>3. IInv /\ Streamed => CleanDigestsAreThisRuns
  <2> SUFFICES ASSUME IInv, Streamed, digests # Nothing, fileErrors = 0, FilesAreThisArchives
               PROVE  /\ digests.label = archive
                      /\ \A f \in Fixture : digests.rows[f] = IF f \in opens[archive] THEN archive ELSE Nothing
    BY DEF CleanDigestsAreThisRuns
  <2> USE DEF IInv, Streamed
  <2>1. /\ archive \in Archive /\ archive \notin {"failed", "error"} /\ Stream \in Stream .. RunInfo
        /\ RunInfo \in Stream .. RunInfo /\ "acadsharp" \in Engine /\ ReaderOf("acadsharp") = archive
    BY RunAssumption, Names DEF TypeOK, Engine, ReaderOf
  <2>2. digests.label = archive
    BY <2>1 DEF TableIsTheStreams, FilesAreThisArchives
  <2>3. ASSUME NEW f \in Fixture PROVE digests.rows[f] = IF f \in opens[archive] THEN archive ELSE Nothing
    <3>1. digests.rows[f] = disk["acadsharp"][f][Stream] /\ digests.rows[f] \in {archive, Nothing}
      BY <2>1 DEF TableIsTheStreams, FilesAreThisArchives
    <3>2. CASE f \in opens[archive]
      <4>1. Told(f, "acadsharp", results[f]["acadsharp"]) /\ results[f]["acadsharp"] # "error" /\ results[f] # Nothing
        BY <2>1 DEF Words, MapTold, TableIsTheStreams
      <4>2. results[f]["acadsharp"] # "failed"
        BY <2>1, <3>2, <4>1 DEF Told
      <4>3. HasStream(f)
        BY <4>1, <4>2 DEF MapHasStreams
      <4> QED
        BY <3>1, <3>2, <4>3 DEF HasStream
    <3>3. CASE f \notin opens[archive]
      BY <2>1, <3>1, <3>3 DEF FilesWereOpened
    <3> QED
      BY <3>2, <3>3
  <2> QED
    BY <2>2, <2>3
<1> QED
  BY <1>1, <1>2, <1>3, Invariant, PTL DEF Spec
=============================================================================
