---------------------------- MODULE EmitMain_proofs ----------------------------
(***************************************************************************)
(* One run of an emitter, whatever it is given: what the two walks promise *)
(* by themselves they keep where they are run, between the writing and the *)
(* reading of the files.                                                   *)
(***************************************************************************)
EXTENDS Walks_proofs, EmitMain

mainVars == <<model1Vars, emitVars, streamVars>>

\* What a step leaves of the walk over the drawing, if it is not one of its own.
LEMMA DrawingStep == [MainNext]_mainVars => [EmitNext]_emitVars \/ UNCHANGED <<frames, active, at>>
<1> SUFFICES ASSUME [MainNext]_mainVars PROVE [EmitNext]_emitVars \/ UNCHANGED <<frames, active, at>>
  OBVIOUS
<1>1. CASE RefuseToRead
  BY <1>1 DEF RefuseToRead, emitVars
<1>2. CASE Extract
  BY <1>2 DEF Extract, Walk, MapWire
<1>3. CASE RenderModel1
  BY <1>3 DEF RenderModel1, emitVars
<1>4. CASE GiveUp
  BY <1>4 DEF GiveUp, emitVars
<1>5. CASE WriteEmission
  BY <1>5 DEF WriteEmission, Write
<1>6. CASE ReadEmission
  BY Zenon, <1>6 DEF ReadEmission, Spoil, Open, ReadLine, ReadEntry, emitVars
<1>7. CASE ReadModel1
  BY <1>7 DEF ReadModel1, emitVars
<1>8. CASE Settled
  BY <1>8 DEF Settled, emitVars
<1>9. CASE UNCHANGED mainVars
  BY <1>9 DEF mainVars, emitVars
<1> QED
  BY <1>1, <1>2, <1>3, <1>4, <1>5, <1>6, <1>7, <1>8, <1>9 DEF MainNext

\* Whatever a drawing's blocks refer to, and whatever else the run does
\* meanwhile: the active names are the blocks being expanded, in order and none
\* twice, within the limit, and a warning raised between two entities names the
\* entity that brought the innermost block in.
THEOREM OpenIsTheWayInARun == MainSpec => []OpenIsTheWay
<1>1. MainInit => WayInv
  BY WayStarts DEF MainInit, StreamInit
<1>2. WayInv /\ [MainNext]_mainVars => WayInv'
  <2>1. WayInv /\ UNCHANGED <<frames, active, at>> => WayInv'
    BY DEF WayInv
  <2> QED
    BY <2>1, WayStep, DrawingStep
<1>3. MainSpec => []WayInv
  BY <1>1, <1>2, PTL DEF MainSpec, mainVars
<1> QED
  BY <1>3, WayShown, PTL

-----------------------------------------------------------------------------

(* The walk a run makes over the dictionaries is the walk. *)

LEMMA SameStart == M1!StartWalk <=> StartWalk
BY DEF StartWalk, Meets, WriteDown, IsDictionary, Resolving, Entries, Owns, Under, NoPath,
       M1!StartWalk, M1!Meets, M1!WriteDown, M1!IsDictionary, M1!Resolving, M1!Entries, M1!Owns,
       M1!Under, M1!NoPath

LEMMA SameTurn ==
  /\ M1!Innermost = Innermost /\ M1!InTurn = InTurn
  /\ \A n : M1!Target(n) = Target(n) /\ M1!PathOf(n) = PathOf(n) /\ M1!Past(n) = Past(n)
BY DEF Innermost, InTurn, Target, PathOf, Past, Precedes, Before, Rank, Entries, Child,
       M1!Innermost, M1!InTurn, M1!Target, M1!PathOf, M1!Past, M1!Precedes, M1!Before, M1!Rank,
       M1!Entries, M1!Child

LEMMA SameXRecord == M1!ListXRecord <=> ListXRecord
BY Zenon, SameTurn DEF ListXRecord, IsXRecord, Owns, Under, M1!ListXRecord, M1!IsXRecord, M1!Owns, M1!Under

LEMMA SameEntering == M1!EnterDictionary <=> EnterDictionary
<1>1. \A h : M1!Meets(h) <=> Meets(h)
  BY DEF Meets, IsDictionary, M1!Meets, M1!IsDictionary
<1>2. \A h, path, stack : M1!WriteDown(h, path, stack) <=> WriteDown(h, path, stack)
  BY DEF WriteDown, Resolving, Entries, Owns, Under, M1!WriteDown, M1!Resolving, M1!Entries, M1!Owns,
         M1!Under
<1> QED
  BY <1>1, <1>2, SameTurn DEF EnterDictionary, M1!EnterDictionary

LEMMA SamePassing == M1!PassOver <=> PassOver
BY SameTurn DEF PassOver, IsXRecord, Meets, IsDictionary, M1!PassOver, M1!IsXRecord, M1!Meets,
       M1!IsDictionary

LEMMA SameReturn == M1!Return <=> Return
BY SameTurn DEF Return, M1!Return

LEMMA SameWalk == M1!WalkNext <=> WalkNext
BY SameStart, SameXRecord, SameEntering, SamePassing, SameReturn DEF WalkNext, M1!WalkNext

LEMMA DictionariesStep == [MainNext]_mainVars => [WalkNext]_<<doc, walkVars>>
<1> SUFFICES ASSUME [MainNext]_mainVars PROVE [WalkNext]_<<doc, walkVars>>
  OBVIOUS
<1> USE DEF walkVars, model1Vars, M1!walkVars
<1>1. CASE RefuseToRead
  BY <1>1 DEF RefuseToRead, M1!RefuseToRead
<1>2. CASE Extract
  BY <1>2 DEF Extract
<1>3. CASE RenderModel1
  BY <1>3, SameWalk DEF RenderModel1, M1!WalkStep, M1!Write
<1>4. CASE GiveUp
  BY <1>4 DEF GiveUp
<1>5. CASE WriteEmission
  BY <1>5 DEF WriteEmission
<1>6. CASE ReadEmission
  BY <1>6 DEF ReadEmission
<1>7. CASE ReadModel1
  BY Zenon, <1>7 DEF ReadModel1, M1!Damage, M1!OpenFile, M1!ReadLine, M1!EndOfFile, M1!Thaw, M1!Judge,
       M1!modelVars
<1>8. CASE Settled
  BY <1>8 DEF Settled
<1>9. CASE UNCHANGED mainVars
  BY <1>9 DEF mainVars
<1> QED
  BY <1>1, <1>2, <1>3, <1>4, <1>5, <1>6, <1>7, <1>8, <1>9 DEF MainNext

LEMMA DictionariesStart == MainInit => WalkInit
<1> SUFFICES ASSUME MainInit PROVE WalkInit
  OBVIOUS
<1>1. doc \in Docs
  BY InputsAssumption DEF MainInit
<1>2. M1!Begun
  BY DEF MainInit, M1!ModelInit
<1>3. Begun
  BY Zenon, <1>2 DEF Begun, Root, ExtensionDictionaries, OwnerPath, Under, NoPath, NoTree,
       M1!Begun, M1!Root, M1!ExtensionDictionaries, M1!OwnerPath, M1!Under, M1!NoPath, M1!NoTree
<1> QED
  BY <1>1, <1>3 DEF WalkInit

\* Whatever document a run is given, and wherever its walk over the
\* dictionaries stands when the run gives up, writes or reads: what it has
\* written down leads there, and once it is over nothing reachable is missed.
THEOREM TreeIsReachableInARun == MainSpec => []TreeIsWhatIsReachable
<1>1. MainSpec => []WalkInv
  <2>1. MainInit => WalkInv
    BY DictionariesStart, InitWalkInv
  <2>2. WalkInv /\ [MainNext]_mainVars => WalkInv'
    BY DictionariesStep, NextWalkInv
  <2> QED
    BY <2>1, <2>2, PTL DEF MainSpec, mainVars
<1>2. WalkInv => TreeIsWhatIsReachable
  BY WalkedMissesNothing DEF WalkInv, TreeIsWhatIsReachable
<1> QED
  BY <1>1, <1>2, PTL

-----------------------------------------------------------------------------
(* The comparison and its rules. *)

Judging(n) == phase = "unread" /\ M1!Pairs[n][2] = "acadrust"

\* The streams and the rules stay as they were when the first pair was judged,
\* so every report is still what a comparison under them finds.
ReportsHold ==
  /\ frozen = <<>> => reports = <<>>
  /\ frozen # <<>> => phase \in {"read", "unread"}
  /\ IsSequence(reports)
  /\ \A n \in DOMAIN reports :
       /\ n \in 1..3
       /\ reports[n].failed = Judging(n)
       /\ ~Judging(n) => reports[n].findings = M1!Compare(rules, M1!Pairs[n], M1!Streams)

\* Until a pair is judged nothing is held.
LEMMA NothingHeld ==
  ASSUME reports = <<>>, frozen # <<>> => phase \in {"read", "unread"}
  PROVE  ReportsHold
BY EmptySequence DEF ReportsHold

LEMMA ReportsStart == MainInit => ReportsHold
BY NothingHeld DEF MainInit, M1!JudgeInit

\* What a step does to what the reports are about.
LEMMA JudgingStep ==
  ASSUME [MainNext]_mainVars
  PROVE  \/ UNCHANGED <<phase, read, frozen, rules, reports>>
         \/ phase \notin {"read", "unread"} /\ UNCHANGED <<frozen, rules, reports>>
         \/ M1!Thaw \/ M1!Judge
<1> USE DEF model1Vars
<1>1. CASE RefuseToRead
  BY <1>1 DEF RefuseToRead, M1!RefuseToRead
<1>2. CASE Extract
  BY <1>2 DEF Extract
<1>3. CASE RenderModel1
  BY <1>3 DEF RenderModel1, M1!WalkStep, M1!Write
<1>4. CASE GiveUp
  BY <1>4 DEF GiveUp
<1>5. CASE WriteEmission
  BY <1>5 DEF WriteEmission
<1>6. CASE ReadEmission
  BY <1>6 DEF ReadEmission
<1>7. CASE ReadModel1
  BY Zenon, <1>7 DEF ReadModel1, M1!Damage, M1!OpenFile, M1!ReadLine, M1!EndOfFile
<1>8. CASE Settled
  BY <1>8 DEF Settled
<1>9. CASE UNCHANGED mainVars
  BY <1>9 DEF mainVars
<1> QED
  BY <1>1, <1>2, <1>3, <1>4, <1>5, <1>6, <1>7, <1>8, <1>9 DEF MainNext

LEMMA ReportsStep == ReportsHold /\ [MainNext]_mainVars => ReportsHold'
<1> SUFFICES ASSUME ReportsHold, [MainNext]_mainVars PROVE ReportsHold'
  OBVIOUS
<1>1. CASE UNCHANGED <<phase, read, frozen, rules, reports>>
  <2>1. M1!Streams' = M1!Streams
    BY <1>1 DEF M1!Streams
  <2>2. \A n : Judging(n)' = Judging(n)
    BY <1>1 DEF Judging, M1!Pairs
  <2> QED
    BY <1>1, <2>1, <2>2 DEF ReportsHold, IsSequence, M1!Pairs
<1>2. CASE phase \notin {"read", "unread"} /\ UNCHANGED <<frozen, rules, reports>>
  <2>1. frozen' = <<>> /\ reports' = <<>>
    BY <1>2 DEF ReportsHold
  <2> QED
    BY <2>1, EmptySequence DEF ReportsHold
<1>3. CASE M1!Thaw
  <2>1. phase \in {"read", "unread"} /\ frozen = <<>> /\ phase' = phase /\ reports' = reports
    BY <1>3 DEF M1!Thaw, M1!modelVars
  <2>2. reports' = <<>>
    BY <2>1 DEF ReportsHold
  <2> QED
    BY <2>1, <2>2, EmptySequence DEF ReportsHold
<1>4. CASE M1!Judge
  <2> DEFINE k == Len(reports) + 1
             new == [failed |-> Judging(k),
                     findings |-> IF Judging(k) THEN {} ELSE M1!Compare(rules, M1!Pairs[k], M1!Streams)]
  <2>1. /\ frozen # <<>> /\ Len(reports) < Len(M1!Pairs)
        /\ reports' = Append(reports, new)
        /\ phase' = phase /\ read' = read /\ frozen' = frozen /\ rules' = rules
    BY <1>4 DEF M1!Judge, M1!modelVars, Judging
  <2>2. M1!Streams' = M1!Streams
    BY <2>1 DEF M1!Streams
  <2>3. \A n : Judging(n)' = Judging(n)
    BY <2>1 DEF Judging, M1!Pairs
  <2>4. /\ IsSequence(Append(reports, new)) /\ DOMAIN Append(reports, new) = 1..k
        /\ \A n \in DOMAIN reports : Append(reports, new)[n] = reports[n]
        /\ Append(reports, new)[k] = new
        /\ Len(reports) \in Nat /\ DOMAIN reports = 1..Len(reports)
    <3> HIDE DEF new
    <3> QED
      BY Appended, Sequences_ DEF ReportsHold
  <2>5. Len(M1!Pairs) = 3
    BY DEF M1!Pairs
  <2>6. ASSUME NEW n \in 1..k
        PROVE  /\ n \in 1..3
               /\ Append(reports, new)[n].failed = Judging(n)
               /\ ~Judging(n) => Append(reports, new)[n].findings = M1!Compare(rules, M1!Pairs[n], M1!Streams)
    <3>1. n \in 1..3
      BY <2>1, <2>4, <2>5
    <3>2. CASE n = k
      BY <3>1, <3>2, <2>4
    <3>3. CASE n # k
      <4>1. n \in DOMAIN reports
        BY <3>3, <2>4
      <4> HIDE DEF new
      <4> QED
        BY <3>1, <4>1, <2>4 DEF ReportsHold
    <3> QED
      BY <3>2, <3>3
  <2>7. IsSequence(reports')
    BY <2>1, <2>4
  <2>8. \A n \in DOMAIN reports' :
          /\ n \in 1..3
          /\ reports'[n].failed = Judging(n)'
          /\ ~Judging(n)' => reports'[n].findings = M1!Compare(rules', M1!Pairs[n], M1!Streams')
    <3> HIDE DEF new, k
    <3> QED
      BY Zenon, <2>1, <2>2, <2>3, <2>4, <2>6
  <2> QED
    BY Zenon, <2>1, <2>7, <2>8 DEF ReportsHold, IsSequence, M1!Pairs
<1> QED
  BY <1>1, <1>2, <1>3, <1>4, JudgingStep

\* R gives up and knows no more than the rules do, and as much where F, which
\* the rules lead to, has a finding for it.
AsGood(R, F, pair) ==
  /\ \A engine, key : M1!ExcludedFor(R, pair, engine, key) => M1!ExcludedFor(rules, pair, engine, key)
  /\ \A key : M1!KnownFor(R, pair, key) => M1!KnownFor(rules, pair, key)
  /\ \A f \in F : f.disposition = "Excluded" /\ M1!ExcludedFor(rules, pair, f.excluded, f.key)
                    => M1!ExcludedFor(R, pair, f.excluded, f.key)
  /\ \A f \in F : f.disposition = "Known" /\ f.kind \in {"Value", "Type"} /\ M1!KnownFor(rules, pair, f.key)
                    => M1!KnownFor(R, pair, f.key)

LEMMA FindingParts ==
  ASSUME NEW kind, NEW key, NEW disposition, NEW excluded
  PROVE  LET f == M1!Finding(kind, key, disposition, excluded)
         IN  f.kind = kind /\ f.key = key /\ f.disposition = disposition /\ f.excluded = excluded
BY DEF M1!Finding

LEMMA SameDiffering ==
  ASSUME NEW R, NEW F, NEW pair, AsGood(R, F, pair), NEW key, NEW x, NEW y,
         M1!Differing(rules, pair, key, x, y) \subseteq F
  PROVE  M1!Differing(R, pair, key, x, y) = M1!Differing(rules, pair, key, x, y)
<1>1. CASE M1!Difference(x, y) = ""
  BY Zenon, <1>1 DEF M1!Differing
<1>2. CASE M1!Difference(x, y) # ""
  <2> DEFINE f == M1!Finding(M1!Difference(x, y), key,
                             IF M1!KnownFor(rules, pair, key) THEN "Known" ELSE "Red", "")
  <2>1. f \in F
    BY Zenon, <1>2 DEF M1!Differing
  <2>2. M1!Difference(x, y) \in {"Value", "Type"}
    BY <1>2 DEF M1!Difference
  <2>3. M1!KnownFor(rules, pair, key) => M1!KnownFor(R, pair, key)
    <3> SUFFICES ASSUME M1!KnownFor(rules, pair, key) PROVE M1!KnownFor(R, pair, key)
      OBVIOUS
    <3>1. f.kind \in {"Value", "Type"} /\ f.key = key /\ f.disposition = "Known"
      BY <2>2 DEF M1!Finding
    <3> HIDE DEF f
    <3> QED
      BY <2>1, <3>1 DEF AsGood
  <2>4. M1!KnownFor(R, pair, key) <=> M1!KnownFor(rules, pair, key)
    BY <2>3 DEF AsGood
  <2> QED
    BY Zenon, <1>2, <2>4 DEF M1!Differing
<1> QED
  BY Zenon, <1>1, <1>2

LEMMA SameLeaf ==
  ASSUME NEW R, NEW F, NEW pair, AsGood(R, F, pair), NEW key, NEW x, NEW y,
         M1!LeafFindings(rules, pair, key, x, y) \subseteq F
  PROVE  M1!LeafFindings(R, pair, key, x, y) = M1!LeafFindings(rules, pair, key, x, y)
<1> DEFINE Gives(Q, engine) == M1!ExcludedFor(Q, pair, engine, key)
           stored == x.t # "null" /\ y.t # "null"
<1>1. CASE ~stored
  BY <1>1 DEF M1!LeafFindings
<1>2. CASE stored /\ ~Gives(rules, pair[1]) /\ ~Gives(rules, pair[2])
  <2>1. ~Gives(R, pair[1]) /\ ~Gives(R, pair[2])
    BY <1>2 DEF AsGood
  <2>2. /\ M1!LeafFindings(R, pair, key, x, y) = M1!Differing(R, pair, key, x, y)
        /\ M1!LeafFindings(rules, pair, key, x, y) = M1!Differing(rules, pair, key, x, y)
    BY <1>2, <2>1 DEF M1!LeafFindings
  <2> QED
    BY <2>2, SameDiffering
<1>3. CASE stored /\ (Gives(rules, pair[1]) \/ Gives(rules, pair[2]))
  <2> DEFINE engine == IF Gives(rules, pair[1]) THEN pair[1] ELSE pair[2]
             f == M1!Finding("Value", key, "Excluded", engine)
  <2>1. M1!LeafFindings(rules, pair, key, x, y) = {f}
    BY <1>3 DEF M1!LeafFindings
  <2>2. f \in F /\ f.disposition = "Excluded" /\ f.excluded = engine /\ f.key = key
    BY <2>1, FindingParts
  <2>3. Gives(rules, engine)
    BY <1>3
  <2>4. Gives(R, engine)
    <3> HIDE DEF f, engine
    <3> QED
      BY <2>2, <2>3 DEF AsGood
  <2>5. Gives(R, pair[1]) => Gives(rules, pair[1])
    BY DEF AsGood
  <2>6. engine = IF Gives(R, pair[1]) THEN pair[1] ELSE pair[2]
    BY <2>4, <2>5
  <2>7. M1!LeafFindings(R, pair, key, x, y) = {f}
    BY <1>3, <2>4, <2>6 DEF M1!LeafFindings
  <2> QED
    BY <2>1, <2>7
<1> QED
  BY <1>1, <1>2, <1>3

LEMMA SameItem ==
  ASSUME NEW R, NEW F, NEW pair, AsGood(R, F, pair), NEW key, NEW a, NEW b,
         M1!ItemFindings(rules, pair, key, a, b) \subseteq F
  PROVE  M1!ItemFindings(R, pair, key, a, b) = M1!ItemFindings(rules, pair, key, a, b)
<1>1. CASE M1!IsHeader(a)
  BY <1>1, SameDiffering DEF M1!ItemFindings
<1>2. CASE ~M1!IsHeader(a)
  <2> DEFINE Of(Q, leaf) == M1!LeafFindings(Q, pair, key \o <<".">> \o leaf, a[leaf], b[leaf])
  <2>1. /\ M1!ItemFindings(rules, pair, key, a, b) = UNION {Of(rules, leaf) : leaf \in DOMAIN a \cap DOMAIN b}
        /\ M1!ItemFindings(R, pair, key, a, b) = UNION {Of(R, leaf) : leaf \in DOMAIN a \cap DOMAIN b}
    BY <1>2 DEF M1!ItemFindings
  <2>2. \A leaf \in DOMAIN a \cap DOMAIN b : Of(R, leaf) = Of(rules, leaf)
    <3> TAKE leaf \in DOMAIN a \cap DOMAIN b
    <3>1. Of(rules, leaf) \subseteq F
      <4> HIDE DEF Of
      <4> QED
        BY <2>1
    <3> QED
      BY <3>1, SameLeaf
  <2> HIDE DEF Of
  <2> QED
    BY <2>1, <2>2
<1> QED
  BY <1>1, <1>2

LEMMA SameOneSided ==
  ASSUME NEW R, NEW F, NEW pair, AsGood(R, F, pair), NEW kind, NEW key, NEW lacking,
         M1!OneSided(rules, kind, pair, key, lacking) \in F
  PROVE  M1!OneSided(R, kind, pair, key, lacking) = M1!OneSided(rules, kind, pair, key, lacking)
<1>1. CASE M1!ExcludedFor(rules, pair, lacking, key)
  <2> DEFINE f == M1!Finding(kind, key, "Excluded", lacking)
  <2>1. f \in F /\ f.disposition = "Excluded" /\ f.excluded = lacking /\ f.key = key
    BY <1>1, FindingParts DEF M1!OneSided
  <2>2. M1!ExcludedFor(R, pair, lacking, key)
    <3> HIDE DEF f
    <3> QED
      BY <1>1, <2>1 DEF AsGood
  <2> QED
    BY <1>1, <2>2 DEF M1!OneSided
<1>2. CASE ~M1!ExcludedFor(rules, pair, lacking, key)
  BY Zenon, <1>2 DEF M1!OneSided, AsGood
<1> QED
  BY <1>1, <1>2

LEMMA SameCompare ==
  ASSUME NEW R, NEW pair, NEW streams, AsGood(R, M1!Compare(rules, pair, streams), pair)
  PROVE  M1!Compare(R, pair, streams) = M1!Compare(rules, pair, streams)
<1> DEFINE a == M1!IndexOf(streams[pair[1]])
           b == M1!IndexOf(streams[pair[2]])
           F == M1!Compare(rules, pair, streams)
           SharedOf(Q, x, y) ==
             UNION {M1!ItemFindings(Q, pair, key, x[key], y[key]) : key \in DOMAIN x \cap DOMAIN y}
           LoneAOf(Q, x, y) == {M1!OneSided(Q, "OnlyInA", pair, key, pair[2]) : key \in DOMAIN x \ DOMAIN y}
           LoneBOf(Q, x, y) == {M1!OneSided(Q, "OnlyInB", pair, key, pair[1]) : key \in DOMAIN y \ DOMAIN x}
           Shared(Q) == SharedOf(Q, a, b)
           LoneA(Q) == LoneAOf(Q, a, b)
           LoneB(Q) == LoneBOf(Q, a, b)
<1>1. ASSUME NEW Q PROVE M1!Compare(Q, pair, streams) = LoneA(Q) \cup LoneB(Q) \cup Shared(Q)
  <2> DEFINE each == {LoneAOf(Q, x, y) \cup LoneBOf(Q, x, y) \cup SharedOf(Q, x, y) : x \in {a}, y \in {b}}
             whole == LoneAOf(Q, a, b) \cup LoneBOf(Q, a, b) \cup SharedOf(Q, a, b)
  <2>1. M1!Compare(Q, pair, streams) = UNION each
    BY DEF M1!Compare
  <2> HIDE DEF a, b, SharedOf, LoneAOf, LoneBOf
  <2>2. each = {whole}
    OBVIOUS
  <2>3. whole = LoneA(Q) \cup LoneB(Q) \cup Shared(Q)
    OBVIOUS
  <2> HIDE DEF each, whole
  <2>4. UNION {whole} = whole
    OBVIOUS
  <2>5. M1!Compare(Q, pair, streams) = whole
    BY <2>1, <2>2, <2>4
  <2> HIDE DEF Shared, LoneA, LoneB
  <2> QED
    BY <2>3, <2>5
<1>2. AsGood(R, F, pair)
  OBVIOUS
<1>3. Shared(rules) \subseteq F /\ LoneA(rules) \subseteq F /\ LoneB(rules) \subseteq F
  <2> HIDE DEF Shared, LoneA, LoneB
  <2> QED
    BY <1>1
<1> HIDE DEF F, a, b
<1>4. Shared(R) = Shared(rules)
  <2>1. \A key \in DOMAIN a \cap DOMAIN b :
          M1!ItemFindings(R, pair, key, a[key], b[key]) = M1!ItemFindings(rules, pair, key, a[key], b[key])
    <3> TAKE key \in DOMAIN a \cap DOMAIN b
    <3>1. M1!ItemFindings(rules, pair, key, a[key], b[key]) \subseteq F
      BY <1>3
    <3> QED
      BY <1>2, <3>1, SameItem
  <2> QED
    BY <2>1
<1>5. LoneA(R) = LoneA(rules)
  <2>1. \A key \in DOMAIN a \ DOMAIN b :
          M1!OneSided(R, "OnlyInA", pair, key, pair[2]) = M1!OneSided(rules, "OnlyInA", pair, key, pair[2])
    <3> TAKE key \in DOMAIN a \ DOMAIN b
    <3>1. M1!OneSided(rules, "OnlyInA", pair, key, pair[2]) \in F
      BY <1>3
    <3> QED
      BY <1>2, <3>1, SameOneSided
  <2> QED
    BY <2>1
<1>6. LoneB(R) = LoneB(rules)
  <2>1. \A key \in DOMAIN b \ DOMAIN a :
          M1!OneSided(R, "OnlyInB", pair, key, pair[1]) = M1!OneSided(rules, "OnlyInB", pair, key, pair[1])
    <3> TAKE key \in DOMAIN b \ DOMAIN a
    <3>1. M1!OneSided(rules, "OnlyInB", pair, key, pair[1]) \in F
      BY <1>3
    <3> QED
      BY <1>2, <3>1, SameOneSided
  <2> QED
    BY <2>1
<1> HIDE DEF Shared, LoneA, LoneB
<1>7. M1!Compare(R, pair, streams) = M1!Compare(rules, pair, streams)
  BY <1>1, <1>4, <1>5, <1>6
<1> QED
  BY <1>7

\* A row that no finding needed gives nothing up and knows nothing.
LEMMA StaleRowsDoNothing ==
  ASSUME NEW n \in DOMAIN reports, NEW R,
         R = [known |-> rules.known \ M1!StaleKnown, excluded |-> rules.excluded \ M1!StaleExcluded]
  PROVE  AsGood(R, reports[n].findings, M1!Pairs[n])
<1> DEFINE pair == M1!Pairs[n]
<1>1. /\ R.known = rules.known \ M1!StaleKnown /\ R.excluded = rules.excluded \ M1!StaleExcluded
  OBVIOUS
<1>2. ASSUME NEW f \in reports[n].findings, f.disposition = "Excluded",
             M1!ExcludedFor(rules, pair, f.excluded, f.key)
      PROVE  M1!ExcludedFor(R, pair, f.excluded, f.key)
  <2>1. PICK row \in rules.excluded :
          row.engine = f.excluded /\ M1!Glob(row.name, f.key) /\ M1!InScope(row, pair)
    BY <1>2 DEF M1!ExcludedFor
  <2>2. M1!OfThisTwin(row)
    BY <2>1 DEF M1!InScope, M1!OfThisTwin
  <2>3. row \notin M1!StaleExcluded
    BY <1>2, <2>1, <2>2 DEF M1!StaleExcluded
  <2> QED
    BY <1>1, <2>1, <2>3 DEF M1!ExcludedFor
<1>3. ASSUME NEW f \in reports[n].findings, f.disposition = "Known", f.kind \in {"Value", "Type"},
             M1!KnownFor(rules, pair, f.key)
      PROVE  M1!KnownFor(R, pair, f.key)
  <2>1. PICK row \in rules.known : M1!Glob(row.name, f.key) /\ M1!InScope(row, pair)
    BY <1>3 DEF M1!KnownFor
  <2>2. row \notin M1!StaleKnown
    BY <1>3, <2>1 DEF M1!StaleKnown
  <2> QED
    BY <1>1, <2>1, <2>2 DEF M1!KnownFor
<1>4. /\ \A engine, key : M1!ExcludedFor(R, pair, engine, key) => M1!ExcludedFor(rules, pair, engine, key)
      /\ \A key : M1!KnownFor(R, pair, key) => M1!KnownFor(rules, pair, key)
  BY <1>1 DEF M1!ExcludedFor, M1!KnownFor
<1> QED
  BY Zenon, <1>2, <1>3, <1>4 DEF AsGood

LEMMA IdleShown == ReportsHold => StaleRowsAreIdle
<1> SUFFICES ASSUME ReportsHold,
                    NEW R \in {[known |-> rules.known \ M1!StaleKnown,
                                excluded |-> rules.excluded \ M1!StaleExcluded]},
                    NEW n \in DOMAIN reports, ~reports[n].failed
             PROVE  M1!Verdict(M1!Compare(R, M1!Pairs[n], M1!Streams)) = M1!Verdict(reports[n].findings)
  BY Zenon DEF StaleRowsAreIdle, M1!StaleRowsAreIdle
<1>1. reports[n].findings = M1!Compare(rules, M1!Pairs[n], M1!Streams)
  BY DEF ReportsHold
<1>2. AsGood(R, reports[n].findings, M1!Pairs[n])
  BY StaleRowsDoNothing
<1>3. M1!Compare(R, M1!Pairs[n], M1!Streams) = M1!Compare(rules, M1!Pairs[n], M1!Streams)
  BY <1>1, <1>2, SameCompare
<1> QED
  BY <1>1, <1>3

\* Whatever the streams of the three engines and the rules of the comparison
\* are: every row the run calls stale can be taken out, and all of them
\* together, and no verdict comes to another word or number.
THEOREM StaleRowsStayIdle == MainSpec => []StaleRowsAreIdle
<1>1. MainSpec => []ReportsHold
  BY ReportsStart, ReportsStep, PTL DEF MainSpec, mainVars
<1> QED
  BY <1>1, IdleShown, PTL

-----------------------------------------------------------------------------
(* Keys and faults of a line, whoever wrote it. *)

\* Nothing is said against a line, or against one of its fields.
Accepted(line) == LineFault(line) = ""
Fits(line, f) == FieldFault(line, f) = ""

\* No key stands twice.
Distinct(keys) == \A m, n \in DOMAIN keys : keys[m][1] = keys[n][1] => m = n

LEMMA GetIs ==
  ASSUME NEW line, Distinct(line.keys), NEW n \in DOMAIN line.keys, n \in Nat
  PROVE  Get(line, line.keys[n][1]) = line.keys[n][2] /\ line.keys[n][1] \in Keys(line)
<1> DEFINE key == line.keys[n][1]
           IsLast(m) == line.keys[m][1] = key /\ \A l \in DOMAIN line.keys : line.keys[l][1] = key => l <= m
           last == CHOOSE m \in DOMAIN line.keys : IsLast(m)
<1>1. IsLast(n)
  BY DEF Distinct
<1>2. last \in DOMAIN line.keys /\ IsLast(last)
  BY Zenon, <1>1
<1>3. last = n
  BY <1>2 DEF Distinct
<1>4. Get(line, key) = line.keys[last][2]
  BY DEF Get
<1> QED
  BY Zenon, <1>3, <1>4 DEF Keys

LEMMA FirstOf ==
  ASSUME NEW faults, IsSequence(faults)
  PROVE  /\ FirstFault(faults) = "" => \A n \in DOMAIN faults : faults[n] = ""
         /\ (\A n \in DOMAIN faults : faults[n] = "") => FirstFault(faults) = ""
<1> DEFINE bad == {n \in DOMAIN faults : faults[n] # ""}
           least == CHOOSE n \in bad : \A m \in bad : n <= m
<1>1. FirstFault(faults) = IF bad = {} THEN "" ELSE faults[least]
  BY DEF FirstFault
<1>2. ASSUME bad # {} PROVE least \in bad
  <2>1. bad \subseteq Nat
    <3>1. DOMAIN faults = 1..Len(faults) /\ Len(faults) \in Nat
      BY Sequences_
    <3>2. 1..Len(faults) \subseteq Nat
      BY <3>1
    <3>3. bad \subseteq DOMAIN faults
      BY Zenon
    <3> QED
      BY Zenon, <3>1, <3>2, <3>3
  <2>2. PICK n \in bad : \A m \in bad : n <= m
    BY Zenon, <1>2, <2>1, LeastNumber
  <2> QED
    BY Zenon, <2>2
<1> HIDE DEF least
<1> QED
  BY Zenon, <1>1, <1>2

-----------------------------------------------------------------------------
(* The line of a record. *)

FieldValue(r, n) == WriteValue(Schema[r.record][n][2], r[Schema[r.record][n][1]])

FirstKeys(r) == <<<<"schema", Value("uint", 1)>>, <<"record", Value("string", r.record)>>>>

LEMMA RenderedKeys ==
  ASSUME NEW r, r.record \in Kinds
  PROVE  LET keys == RenderRecord(r).keys
             fields == Schema[r.record]
         IN  /\ IsSequence(keys)
             /\ Len(fields) \in Nat /\ DOMAIN fields = 1..Len(fields)
             /\ DOMAIN keys = 1..(2 + Len(fields))
             /\ keys[1] = <<"schema", Value("uint", 1)>>
             /\ keys[2] = <<"record", Value("string", r.record)>>
             /\ \A n \in DOMAIN fields :
                  2 + n \in DOMAIN keys /\ keys[2 + n] = <<fields[n][1], FieldValue(r, n)>>
             /\ \A m \in DOMAIN keys : m = 1 \/ m = 2 \/ \E n \in DOMAIN fields : m = 2 + n
             /\ Distinct(keys)
<1> DEFINE fields == Schema[r.record]
           body == [n \in DOMAIN fields |-> <<fields[n][1], FieldValue(r, n)>>]
           keys == RenderRecord(r).keys
<1> HIDE DEF fields
<1>1. keys = FirstKeys(r) \o body
  BY DEF RenderRecord, FirstKeys, FieldValue, fields
<1>2. IsSequence(fields) /\ Len(fields) \in Nat /\ DOMAIN fields = 1..Len(fields)
  <2>1. IsSequence(fields)
    BY FieldsAre DEF fields
  <2> QED
    BY <2>1, Sequences_
<1>3. /\ IsSequence(FirstKeys(r)) /\ Len(FirstKeys(r)) = 2 /\ DOMAIN FirstKeys(r) = 1..2
      /\ FirstKeys(r)[1] = <<"schema", Value("uint", 1)>>
      /\ FirstKeys(r)[2] = <<"record", Value("string", r.record)>>
  BY Tuple2 DEF FirstKeys
<1>4. IsSequence(body) /\ Len(body) = Len(fields) /\ DOMAIN body = DOMAIN fields
  BY <1>2, SameLength
<1>5. \A n \in DOMAIN fields : body[n] = <<fields[n][1], FieldValue(r, n)>>
  OBVIOUS
<1> HIDE DEF body, keys
<1>6. /\ IsSequence(keys) /\ DOMAIN keys = 1..(2 + Len(fields))
      /\ \A n \in DOMAIN FirstKeys(r) : keys[n] = FirstKeys(r)[n]
      /\ \A n \in DOMAIN body : keys[2 + n] = body[n]
  <2> DEFINE first == FirstKeys(r)
  <2>0. IsSequence(first) /\ IsSequence(body)
    BY <1>3, <1>4
  <2>1. Len(first) = 2 /\ Len(body) = Len(fields)
    BY <1>3, <1>4
  <2>2. keys = first \o body
    BY <1>1
  <2> HIDE DEF first
  <2>3. /\ IsSequence(first \o body)
        /\ DOMAIN (first \o body) = 1..(Len(first) + Len(body))
        /\ \A n \in DOMAIN first : (first \o body)[n] = first[n]
    BY Zenon, <2>0, Joined
  <2>5. \A n \in DOMAIN body : \A m : m = Len(first) + n => (first \o body)[m] = body[n]
    BY <2>0, JoinedRight
  <2>4. /\ IsSequence(keys) /\ DOMAIN keys = 1..(2 + Len(fields))
        /\ \A n \in DOMAIN first : keys[n] = first[n]
        /\ \A n \in DOMAIN body : keys[2 + n] = body[n]
    BY <2>1, <2>2, <2>3, <2>5
  <2> QED
    BY <2>4 DEF first
<1>7. keys[1] = <<"schema", Value("uint", 1)>> /\ keys[2] = <<"record", Value("string", r.record)>>
  BY <1>3, <1>6
<1>8. \A n \in DOMAIN fields : 2 + n \in DOMAIN keys /\ keys[2 + n] = <<fields[n][1], FieldValue(r, n)>>
  <2> SUFFICES ASSUME NEW n \in DOMAIN fields
               PROVE  2 + n \in DOMAIN keys /\ keys[2 + n] = <<fields[n][1], FieldValue(r, n)>>
    OBVIOUS
  <2>1. 2 + n \in 1..(2 + Len(fields))
    BY <1>2
  <2> QED
    BY <2>1, <1>4, <1>5, <1>6
<1>9. \A m \in DOMAIN keys : m = 1 \/ m = 2 \/ \E n \in DOMAIN fields : m = 2 + n
  <2> SUFFICES ASSUME NEW m \in DOMAIN keys, m # 1, m # 2 PROVE \E n \in DOMAIN fields : m = 2 + n
    OBVIOUS
  <2>1. m \in 1..(2 + Len(fields))
    BY <1>6
  <2>2. m - 2 \in 1..Len(fields) /\ m = 2 + (m - 2)
    BY <2>1, <1>2
  <2> QED
    BY <2>2, <1>2
<1>10. Distinct(keys)
  <2> SUFFICES ASSUME NEW m \in DOMAIN keys, NEW n \in DOMAIN keys, keys[m][1] = keys[n][1] PROVE m = n
    BY DEF Distinct
  <2>1. \A k \in DOMAIN fields : keys[2 + k][1] = fields[k][1] /\ fields[k][1] \notin {"schema", "record"}
    BY <1>8, FieldsAre DEF fields
  <2>2. \A k, l \in DOMAIN fields : fields[k][1] = fields[l][1] => k = l
    BY FieldsAre DEF fields
  <2>3. keys[1][1] = "schema" /\ keys[2][1] = "record"
    BY <1>7
  <2> QED
    BY <2>1, <2>2, <2>3, <1>9
<1> QED
  BY Zenon, <1>2, <1>6, <1>7, <1>8, <1>9, <1>10 DEF fields, keys

\* What a line is that nothing is said against.
LEMMA WellRead ==
  ASSUME NEW line, Accepted(line)
  PROVE  LET kind == Get(line, "record").v
             fields == Schema[kind]
         IN  /\ "schema" \in Keys(line) /\ Get(line, "schema") = Value("uint", 1)
             /\ "record" \in Keys(line) /\ Get(line, "record").t = "string" /\ kind \in Kinds
             /\ \A n \in DOMAIN fields : Fits(line, fields[n])
             /\ kind = "polyline" => Len(Get(line, "points").v) = Len(Get(line, "bulges").v)
             /\ Keys(line) \subseteq FieldNames(kind) \cup {"schema", "record"}
<1> DEFINE kind == Get(line, "record").v
           fields == Schema[kind]
           faults == [n \in DOMAIN fields |-> FieldFault(line, fields[n])]
<1>1. HeaderFault(line) = "" /\ RecordFault(line, kind) = ""
  BY Zenon DEF LineFault, Accepted
<1>2. /\ "schema" \in Keys(line) /\ Get(line, "schema") = Value("uint", 1)
      /\ "record" \in Keys(line) /\ Get(line, "record").t = "string" /\ kind \in Kinds
  BY Zenon, <1>1 DEF HeaderFault
<1> HIDE DEF kind, fields
<1>3. /\ FirstFault(faults) = ""
      /\ kind = "polyline" => Len(Get(line, "points").v) = Len(Get(line, "bulges").v)
      /\ Keys(line) \subseteq {fields[n][1] : n \in DOMAIN fields} \cup {"schema", "record"}
  <2> HIDE DEF faults
  <2> DEFINE names == {fields[n][1] : n \in DOMAIN fields} \cup {"schema", "record"}
  <2>1. RecordFault(line, kind) =
          CASE FirstFault(faults) # "" -> FirstFault(faults)
            [] kind = "polyline" /\ FirstFault(faults) = "" /\
                 Len(Get(line, "points").v) # Len(Get(line, "bulges").v) -> "LengthMismatch"
            [] OTHER -> IF Keys(line) \subseteq names THEN "" ELSE "UnknownField"
    BY DEF RecordFault, fields, faults
  <2> HIDE DEF names
  <2>2. /\ FirstFault(faults) = ""
        /\ kind = "polyline" => Len(Get(line, "points").v) = Len(Get(line, "bulges").v)
        /\ Keys(line) \subseteq names
    BY Zenon, <1>1, <2>1
  <2> QED
    BY Zenon, <2>2 DEF names
<1>4. IsSequence(fields)
  BY <1>2, FieldsAre DEF fields
<1>5. IsSequence(faults)
  BY <1>4, SameLength
<1>6. \A n \in DOMAIN fields : FieldFault(line, fields[n]) = ""
  <2>1. DOMAIN faults = DOMAIN fields /\ \A n \in DOMAIN fields : faults[n] = FieldFault(line, fields[n])
    OBVIOUS
  <2> HIDE DEF faults
  <2>2. \A n \in DOMAIN faults : faults[n] = ""
    BY Zenon, <1>3, <1>5, FirstOf
  <2> QED
    BY Zenon, <2>1, <2>2
<1> QED
  BY Zenon, <1>2, <1>3, <1>6 DEF kind, fields, FieldNames, Fits

LEMMA ValueIs == \A type, v : Value(type, v).t = type /\ Value(type, v).v = v
BY DEF Value

LEMMA RenderedValues ==
  ASSUME NEW r, r.record \in Kinds
  PROVE  /\ Get(RenderRecord(r), "schema") = Value("uint", 1)
         /\ Get(RenderRecord(r), "record") = Value("string", r.record)
         /\ \A n \in DOMAIN Schema[r.record] :
              Get(RenderRecord(r), Schema[r.record][n][1]) = FieldValue(r, n)
<1> DEFINE line == RenderRecord(r)
           fields == Schema[r.record]
<1>1. /\ IsSequence(line.keys) /\ Distinct(line.keys)
      /\ Len(fields) \in Nat /\ DOMAIN line.keys = 1..(2 + Len(fields))
      /\ line.keys[1] = <<"schema", Value("uint", 1)>>
      /\ line.keys[2] = <<"record", Value("string", r.record)>>
      /\ \A n \in DOMAIN fields :
           2 + n \in DOMAIN line.keys /\ line.keys[2 + n] = <<fields[n][1], FieldValue(r, n)>>
  BY RenderedKeys
<1> HIDE DEF line, fields
<1>2. \A m \in DOMAIN line.keys : Get(line, line.keys[m][1]) = line.keys[m][2]
  <2>1. \A m \in DOMAIN line.keys : m \in Nat
    BY <1>1
  <2> QED
    BY <1>1, <2>1, GetIs
<1>3. 1 \in DOMAIN line.keys /\ 2 \in DOMAIN line.keys
  BY <1>1
<1>4. Get(line, "schema") = Value("uint", 1) /\ Get(line, "record") = Value("string", r.record)
  BY <1>1, <1>2, <1>3
<1>5. \A n \in DOMAIN fields : Get(line, fields[n][1]) = FieldValue(r, n)
  <2> SUFFICES ASSUME NEW n \in DOMAIN fields PROVE Get(line, fields[n][1]) = FieldValue(r, n)
    OBVIOUS
  <2> DEFINE m == 2 + n
  <2>1. m \in DOMAIN line.keys /\ line.keys[m] = <<fields[n][1], FieldValue(r, n)>>
    BY <1>1
  <2> HIDE DEF m
  <2> QED
    BY <2>1, <1>2
<1> QED
  BY <1>4, <1>5 DEF line, fields

\* Zero as it is spelled.
Zero(v) == IF v = NegZero THEN 0 ELSE v

LEMMA ContentIs ==
  ASSUME NEW type \in FieldTypes, NEW v
  PROVE  Content(WriteValue(type, v)) =
           CASE type = "real" -> Zero(v)
             [] type = "array" -> [n \in DOMAIN v |-> Zero(v[n])]
             [] OTHER -> v
BY Zenon DEF Content, WriteValue, WriteReal, Value, Zero, FieldTypes

\* The line of a record is read as it was but for the spelling of zero.
LEMMA RecordHeard ==
  ASSUME NEW r, r.record \in Kinds
  PROVE  ParsedRecord(RenderRecord(r)) = Spelled(r)
<1> DEFINE line == RenderRecord(r)
           fields == Schema[r.record]
           names == FieldNames(r.record)
           Chosen(name) == CHOOSE f \in ToSet(fields) : f[1] = name
           Each(f) == CASE f[2] = "real" -> Zero(r[f[1]])
                        [] f[2] = "array" -> [n \in DOMAIN r[f[1]] |-> Zero(r[f[1]][n])]
                        [] OTHER -> r[f[1]]
           heard == [f \in names \cup {"record"} |->
                      IF f = "record" THEN r.record ELSE Content(Get(line, f))]
           spelled == [name \in {f[1] : f \in ToSet(fields)} \cup {"record"} |->
                         IF name = "record" THEN r.record ELSE Each(Chosen(name))]
<1>a. /\ Get(line, "record") = Value("string", r.record)
      /\ \A n \in DOMAIN fields : Get(line, fields[n][1]) = WriteValue(fields[n][2], r[fields[n][1]])
  BY RenderedValues DEF FieldValue
<1>b. /\ \A m, n \in DOMAIN fields : fields[m][1] = fields[n][1] => m = n
      /\ \A n \in DOMAIN fields : fields[n][2] \in FieldTypes
  BY FieldsAre
<1>1. Get(line, "record").v = r.record
  BY <1>a, ValueIs
<1>2. ParsedRecord(line) = heard
  BY <1>1 DEF ParsedRecord, FieldNames
<1>3. Spelled(r) = spelled
  BY DEF Spelled, Zero
<1> HIDE DEF line, fields
<1>4. \A n \in DOMAIN fields : Chosen(fields[n][1]) = fields[n]
  <2> SUFFICES ASSUME NEW n \in DOMAIN fields PROVE Chosen(fields[n][1]) = fields[n]
    OBVIOUS
  <2>1. fields[n] \in ToSet(fields)
    BY DEF ToSet
  <2>2. \A f \in ToSet(fields) : f[1] = fields[n][1] => f = fields[n]
    BY <1>b DEF ToSet
  <2> QED
    BY <2>1, <2>2
<1>5. \A n \in DOMAIN fields : Content(Get(line, fields[n][1])) = Each(fields[n])
  <2> SUFFICES ASSUME NEW n \in DOMAIN fields PROVE Content(Get(line, fields[n][1])) = Each(fields[n])
    OBVIOUS
  <2> DEFINE type == fields[n][2]
             v == r[fields[n][1]]
  <2>1. type \in FieldTypes /\ Get(line, fields[n][1]) = WriteValue(type, v)
    BY <1>a, <1>b
  <2>2. Each(fields[n]) = CASE type = "real" -> Zero(v)
                            [] type = "array" -> [k \in DOMAIN v |-> Zero(v[k])]
                            [] OTHER -> v
    OBVIOUS
  <2> HIDE DEF type, v, Each
  <2> QED
    BY <2>1, <2>2, ContentIs
<1>6. names = {fields[n][1] : n \in DOMAIN fields} /\ names = {f[1] : f \in ToSet(fields)}
  BY DEF FieldNames, ToSet, fields
<1>7. heard = spelled
  <2> HIDE DEF Each, Chosen
  <2>1. \A name \in names : Content(Get(line, name)) = Each(Chosen(name))
    BY <1>4, <1>5, <1>6
  <2> QED
    BY Zenon, <1>6, <2>1
<1> QED
  BY Zenon, <1>2, <1>3, <1>7 DEF line

\* A record whose line nothing is said against has no return in a text of its
\* own.
LEMMA RecordRead ==
  ASSUME NEW r, r.record \in Kinds, ~Unwritable(r), Accepted(RenderRecord(r))
  PROVE  ParsedRecord(RenderRecord(r)) = Spelled(r) /\ Intact(r)
<1> DEFINE line == RenderRecord(r)
           fields == Schema[r.record]
<1>a. /\ Get(line, "record") = Value("string", r.record)
      /\ \A n \in DOMAIN fields : Get(line, fields[n][1]) = WriteValue(fields[n][2], r[fields[n][1]])
  BY RenderedValues DEF FieldValue
<1>c. \A n \in DOMAIN fields : Fits(line, fields[n])
  <2>1. Get(line, "record").v = r.record
    BY <1>a, ValueIs
  <2>2. Accepted(line)
    OBVIOUS
  <2> HIDE DEF line
  <2> DEFINE kind == Get(line, "record").v
  <2>3. \A n \in DOMAIN Schema[kind] : Fits(line, Schema[kind][n])
    BY Zenon, <2>2, WellRead
  <2> QED
    BY <2>1, <2>3
<1> HIDE DEF line, fields
<1>8. Intact(r)
  <2> SUFFICES ASSUME NEW f \in ToSet(fields), f[2] = "string", HasReturn(r[f[1]]) PROVE FALSE
    BY DEF Intact, fields
  <2>1. PICK n \in DOMAIN fields : f = fields[n]
    BY DEF ToSet
  <2>2. Fits(line, f)
    BY <2>1, <1>c
  <2>3. Get(line, f[1]) = Value("string", r[f[1]])
    BY Zenon, <2>1, <1>a DEF WriteValue
  <2>4. StringFault(Get(line, f[1])) = ""
    BY Zenon, <2>2 DEF Fits, FieldFault
  <2> QED
    BY <2>3, <2>4, ValueIs DEF StringFault
<1> QED
  BY <1>8, RecordHeard

LEMMA WrittenReal == ASSUME NEW v PROVE RealFault(WriteReal(v)) = ""
<1>1. WriteReal(v).t = "real" /\ WriteReal(v).v # NegZero
  BY CanonicalAssumption, ValueIs DEF WriteReal
<1> QED
  BY Zenon, <1>1 DEF RealFault

LEMMA WrittenArray == ASSUME NEW v, IsSequence(v) PROVE ArrayFault(WriteValue("array", v)) = ""
<1> DEFINE all == [n \in DOMAIN v |-> WriteReal(v[n])]
           faults == [n \in DOMAIN all |-> RealFault(all[n])]
<1>1. WriteValue("array", v) = Value("array", all)
  BY DEF WriteValue
<1>2. IsSequence(all) /\ DOMAIN all = DOMAIN v
  BY SameLength
<1>3. \A n \in DOMAIN v : all[n] = WriteReal(v[n])
  OBVIOUS
<1> HIDE DEF all
<1>4. IsSequence(faults) /\ DOMAIN faults = DOMAIN v
  BY <1>2, SameLength
<1>5. \A n \in DOMAIN v : faults[n] = RealFault(WriteReal(v[n]))
  BY <1>2, <1>3
<1>6. ArrayFault(Value("array", all)) = FirstFault(faults)
  BY ValueIs DEF ArrayFault
<1> HIDE DEF faults
<1>7. \A n \in DOMAIN faults : faults[n] = ""
  BY Zenon, <1>4, <1>5, WrittenReal
<1>8. FirstFault(faults) = ""
  BY Zenon, <1>4, <1>7, FirstOf
<1> QED
  BY Zenon, <1>1, <1>6, <1>8

\* Nothing is said against a field of a record that can be written and has no
\* return in its texts.
LEMMA WrittenFits ==
  ASSUME NEW r, Proper(r), Intact(r), NEW n \in DOMAIN Schema[r.record]
  PROVE  Fits(RenderRecord(r), Schema[r.record][n])
<1> DEFINE line == RenderRecord(r)
           fields == Schema[r.record]
           f == fields[n]
           value == Get(line, f[1])
           v == r[f[1]]
<1>1. r.record \in Kinds
  BY DEF Proper
<1>2. f[1] \in Keys(line)
  <2>1. /\ 2 + n \in DOMAIN line.keys /\ line.keys[2 + n] = <<f[1], FieldValue(r, n)>>
    BY <1>1, RenderedKeys
  <2>2. line.keys[2 + n][1] = f[1]
    BY <2>1
  <2> HIDE DEF line, f
  <2> QED
    BY <2>1, <2>2 DEF Keys
<1>3. value = WriteValue(f[2], v)
  BY <1>1, RenderedValues DEF FieldValue
<1>4. f[2] \in FieldTypes /\ (f[2] = "array" => IsSequence(v)) /\ (f[2] = "string" => ~HasReturn(v))
  <2>1. f[2] \in FieldTypes
    BY <1>1, FieldsAre
  <2>2. f[2] = "array" => IsSequence(v)
    BY DEF Proper
  <2>3. f \in ToSet(fields)
    BY DEF ToSet
  <2>4. f[2] = "string" => ~HasReturn(v)
    BY Zenon, <2>3 DEF Intact
  <2> QED
    BY <2>1, <2>2, <2>4
<1>5. FieldFault(line, f) = CASE f[2] = "real" -> RealFault(value)
                              [] f[2] = "string" -> StringFault(value)
                              [] f[2] = "array" -> ArrayFault(value)
                              [] OTHER -> PlainFault(f[2], value)
  BY Zenon, <1>2 DEF FieldFault
<1> HIDE DEF line, fields, f, value, v
<1>6. CASE f[2] = "real"
  <2>1. value = WriteReal(v)
    BY Zenon, <1>3, <1>6 DEF WriteValue
  <2>2. FieldFault(line, f) = RealFault(value)
    BY Zenon, <1>5, <1>6
  <2> QED
    BY Zenon, <2>1, <2>2, WrittenReal DEF Fits, f, fields, line
<1>7. CASE f[2] = "array"
  <2>1. ArrayFault(value) = ""
    BY Zenon, <1>3, <1>4, <1>7, WrittenArray
  <2>2. FieldFault(line, f) = ArrayFault(value)
    BY Zenon, <1>5, <1>7
  <2> QED
    BY Zenon, <2>1, <2>2 DEF Fits, f, fields, line
<1>8. CASE f[2] = "string"
  <2>1. value = Value("string", v)
    BY Zenon, <1>3, <1>8 DEF WriteValue
  <2>2. value.t = "string" /\ ~HasReturn(value.v)
    BY <2>1, <1>4, <1>8, ValueIs
  <2>3. StringFault(value) = ""
    BY Zenon, <2>2 DEF StringFault
  <2>4. FieldFault(line, f) = StringFault(value)
    BY Zenon, <1>5, <1>8
  <2> QED
    BY Zenon, <2>3, <2>4 DEF Fits, f, fields, line
<1>9. CASE f[2] \notin {"real", "array", "string"}
  <2>1. value = Value(f[2], v)
    BY Zenon, <1>3, <1>9 DEF WriteValue
  <2>2. PlainFault(f[2], value) = ""
    BY Zenon, <2>1, ValueIs DEF PlainFault
  <2>3. FieldFault(line, f) = PlainFault(f[2], value)
    BY Zenon, <1>5, <1>9
  <2> QED
    BY Zenon, <2>2, <2>3 DEF Fits, f, fields, line
<1> QED
  BY <1>6, <1>7, <1>8, <1>9

\* The line of such a record is always accepted.
LEMMA IntactAccepted ==
  ASSUME NEW r, Proper(r), Intact(r)
  PROVE  Accepted(RenderRecord(r))
<1> DEFINE line == RenderRecord(r)
           fields == Schema[r.record]
           faults == [n \in DOMAIN fields |-> FieldFault(line, fields[n])]
           names == {fields[n][1] : n \in DOMAIN fields} \cup {"schema", "record"}
<1>1. r.record \in Kinds /\ IsSequence(fields)
  BY FieldsAre DEF Proper
<1>2. ~line.cr /\ line.ends /\ line.json = "object"
  BY DEF RenderRecord
<1>3. /\ Get(line, "schema") = Value("uint", 1) /\ Get(line, "record").t = "string"
      /\ Get(line, "record").v = r.record
  BY <1>1, RenderedValues, ValueIs
<1>4. "schema" \in Keys(line) /\ "record" \in Keys(line) /\ Keys(line) \subseteq names
  <2> DEFINE keys == line.keys
  <2>1. /\ Len(fields) \in Nat /\ DOMAIN keys = 1..(2 + Len(fields))
        /\ keys[1] = <<"schema", Value("uint", 1)>> /\ keys[2] = <<"record", Value("string", r.record)>>
        /\ \A n \in DOMAIN fields : 2 + n \in DOMAIN keys /\ keys[2 + n] = <<fields[n][1], FieldValue(r, n)>>
        /\ \A m \in DOMAIN keys : m = 1 \/ m = 2 \/ \E n \in DOMAIN fields : m = 2 + n
    BY <1>1, RenderedKeys
  <2>2. /\ 1 \in DOMAIN keys /\ 2 \in DOMAIN keys /\ keys[1][1] = "schema" /\ keys[2][1] = "record"
        /\ \A n \in DOMAIN fields : keys[2 + n][1] = fields[n][1]
    BY <2>1
  <2>3. Keys(line) = {keys[m][1] : m \in DOMAIN keys}
    BY DEF Keys
  <2> HIDE DEF keys, fields, line
  <2>4. \A m \in DOMAIN keys : keys[m][1] \in names
    BY <2>1, <2>2
  <2> QED
    BY <2>2, <2>3, <2>4
<1>5. IsSequence(faults) /\ DOMAIN faults = DOMAIN fields
  BY <1>1, SameLength
<1>6. \A n \in DOMAIN fields : faults[n] = ""
  BY Zenon, WrittenFits DEF Fits
<1>7. FirstFault(faults) = ""
  <2> HIDE DEF faults
  <2> QED
    BY Zenon, <1>5, <1>6, FirstOf
<1>8. r.record = "polyline" => Len(Get(line, "points").v) = Len(Get(line, "bulges").v)
  <2> SUFFICES ASSUME r.record = "polyline"
               PROVE  Len(Get(line, "points").v) = Len(Get(line, "bulges").v)
    OBVIOUS
  <2>1. ASSUME NEW name \in {"points", "bulges"}
        PROVE  Len(Get(line, name).v) = Len(r[name])
    <3>1. name \in FieldNames(r.record)
      BY PolylineFields
    <3>2. PICK n \in DOMAIN fields : fields[n][1] = name
      BY <3>1 DEF FieldNames
    <3>3. fields[n][2] = "array"
      BY <1>1, <3>2, FieldsAre
    <3>4. IsSequence(r[name])
      BY <3>2, <3>3 DEF Proper
    <3>5. Get(line, name) = WriteValue("array", r[name])
      BY <1>1, <3>2, <3>3, RenderedValues DEF FieldValue
    <3> DEFINE s == r[name]
               all == [m \in DOMAIN s |-> WriteReal(s[m])]
    <3>6. WriteValue("array", s) = Value("array", all)
      BY DEF WriteValue
    <3> HIDE DEF s
    <3>7. IsSequence(s)
      BY <3>4 DEF s
    <3>8. Len(all) = Len(s)
      BY <3>7, SameLength
    <3> HIDE DEF all
    <3> QED
      BY <3>5, <3>6, <3>8, ValueIs DEF s
  <2>2. Len(r.points) = Len(r.bulges)
    BY DEF Proper
  <2> QED
    BY <2>1, <2>2
<1>9. RecordFault(line, r.record) =
        CASE FirstFault(faults) # "" -> FirstFault(faults)
          [] r.record = "polyline" /\ FirstFault(faults) = "" /\
               Len(Get(line, "points").v) # Len(Get(line, "bulges").v) -> "LengthMismatch"
          [] OTHER -> IF Keys(line) \subseteq names THEN "" ELSE "UnknownField"
  BY DEF RecordFault
<1> HIDE DEF line, faults, fields, names
<1>10. RecordFault(line, r.record) = ""
  BY Zenon, <1>4, <1>7, <1>8, <1>9
<1>11. HeaderFault(line) = ""
  BY Zenon, <1>1, <1>3, <1>4 DEF HeaderFault
<1>12. JsonFault(line) = ""
  BY Zenon, <1>2 DEF JsonFault
<1>13. LineFault(line) = ""
  <2>1. line.json # "empty"
    BY <1>2
  <2> QED
    BY Zenon, <1>2, <1>3, <1>10, <1>11, <1>12, <2>1 DEF LineFault
<1> QED
  BY Zenon, <1>13 DEF Accepted, line

-----------------------------------------------------------------------------
(* A line that was altered. *)

Faults == {"MissingField", "WrongType", "NegativeZero", "CarriageReturn", "NonFinite", "NotJson",
           "NotAnObject", "EmptyLine", "MissingFinalNewline", "UnknownField", "TypeDisagrees", "IndexGap"}

LEMMA FaultsSpeak == \A fault \in Faults : fault # ""
<1>1. "" \notin Faults
  BY DEF Faults
<1> QED
  BY Zenon, <1>1

LEMMA FaultOfALine == ASSUME NEW line, LineFault(line) \in Faults PROVE ~Accepted(line)
BY Zenon, FaultsSpeak DEF Accepted

LEMMA FaultOfAField == ASSUME NEW line, NEW f, FieldFault(line, f) \in Faults PROVE ~Fits(line, f)
BY Zenon, FaultsSpeak DEF Fits

ValueWays == {"retyped", "integer", "negated", "return", "element", "shorter", "next", "unknown",
              "other", "handle", "expanded"}

KeysBecame(keys, how, key) ==
  [n \in DOMAIN keys |-> IF keys[n][1] = key THEN <<key, Became(how, keys[n][2])>> ELSE keys[n]]

LEMMA ChangedIs ==
  ASSUME NEW line, NEW how \in ValueWays, NEW key
  PROVE  Changed(line, how, key) = [line EXCEPT !.keys = KeysBecame(line.keys, how, key)]
BY Zenon DEF Changed, KeysBecame, Became, ValueWays

LEMMA BecameKeys ==
  ASSUME NEW keys, IsSequence(keys), Distinct(keys), NEW n \in DOMAIN keys, NEW how,
         NEW line, line.keys = KeysBecame(keys, how, keys[n][1])
  PROVE  /\ Get(line, keys[n][1]) = Became(how, keys[n][2])
         /\ \A m \in DOMAIN keys : m # n => Get(line, keys[m][1]) = keys[m][2]
<1> DEFINE new == KeysBecame(keys, how, keys[n][1])
           value == Became(how, keys[n][2])
<1>1. /\ DOMAIN new = DOMAIN keys
      /\ \A m \in DOMAIN keys : m # n => new[m] = keys[m]
      /\ new[n] = <<keys[n][1], value>>
  BY DEF KeysBecame, Distinct
<1>2. line.keys = new
  OBVIOUS
<1> HIDE DEF new, value
<1>3. \A m \in DOMAIN new : new[m][1] = keys[m][1]
  BY <1>1
<1>4. Distinct(line.keys)
  BY <1>1, <1>2, <1>3 DEF Distinct
<1>5. \A m \in DOMAIN keys : m \in Nat
  <2>1. DOMAIN keys = 1..Len(keys) /\ Len(keys) \in Nat
    BY Sequences_
  <2> QED
    BY <2>1
<1>6. \A m \in DOMAIN keys : Get(line, keys[m][1]) = new[m][2]
  BY <1>1, <1>2, <1>3, <1>4, <1>5, GetIs
<1>7. new[n][2] = value
  BY <1>1
<1> QED
  BY <1>1, <1>6, <1>7 DEF value

LEMMA ElementFaults ==
  ASSUME NEW s, IsSequence(s)
  PROVE  ArrayFault(Value("array", <<Value("uint", 0)>> \o s)) # ""
<1> DEFINE odd == <<Value("uint", 0)>>
           all == odd \o s
           faults == [n \in DOMAIN all |-> RealFault(all[n])]
<1>1. odd \in Seq({Value("uint", 0)}) /\ odd[1] = Value("uint", 0) /\ DOMAIN odd = 1..1
  OBVIOUS
<1>2. IsSequence(odd)
  BY Zenon, <1>1, SequenceOf
<1> HIDE DEF odd
<1>3. IsSequence(all) /\ \A n \in DOMAIN odd : all[n] = odd[n]
  BY Zenon, <1>2, Joined
<1>4. DOMAIN all = 1..(Len(odd) + Len(s)) /\ Len(odd) \in Nat /\ Len(s) \in Nat /\ DOMAIN odd = 1..Len(odd)
  BY <1>2, Joined, Sequences_
<1>5. 1 \in DOMAIN odd
  BY <1>1
<1>6. 1 \in DOMAIN all
  BY <1>4, <1>5
<1>7. all[1] = Value("uint", 0)
  BY <1>1, <1>3, <1>5
<1> HIDE DEF all
<1>8. IsSequence(faults)
  BY <1>3, SameLength
<1>9. faults[1] = "WrongType" /\ 1 \in DOMAIN faults
  BY <1>6, <1>7, ValueIs DEF RealFault
<1>10. ArrayFault(Value("array", all)) = FirstFault(faults)
  BY ValueIs DEF ArrayFault
<1> HIDE DEF faults
<1> QED
  BY Zenon, <1>8, <1>9, <1>10, FirstOf DEF all, odd

LEMMA BecameElement ==
  ASSUME NEW s
  PROVE  Became("element", Value("array", s)) = Value("array", <<Value("uint", 0)>> \o s)
<1> DEFINE odd == <<Value("uint", 0)>>
           all == odd \o s
           old == [t |-> "array", v |-> s]
<1>1. Became("element", old) = [old EXCEPT !.v = odd \o old.v]
  BY DEF Became
<1>2. old.v = s
  OBVIOUS
<1>3. [old EXCEPT !.v = odd \o old.v] = [old EXCEPT !.v = all]
  BY <1>2
<1> HIDE DEF all, odd
<1>4. [old EXCEPT !.v = all] = [t |-> "array", v |-> all]
  OBVIOUS
<1> QED
  BY <1>1, <1>3, <1>4 DEF all, odd, Value

LEMMA SpoiledField ==
  ASSUME NEW r, Proper(r), NEW n \in DOMAIN Schema[r.record],
         NEW how \in NotAllowed(Schema[r.record][n][2]),
         NEW line, Get(line, Schema[r.record][n][1]) = Became(how, FieldValue(r, n))
  PROVE  ~Fits(line, Schema[r.record][n])
<1> DEFINE f == Schema[r.record][n]
           type == f[2]
           v == r[f[1]]
           value == Get(line, f[1])
<1>1. type \in FieldTypes /\ (type = "array" => IsSequence(v))
  BY FieldsAre DEF Proper
<1>2. how \in NotAllowed(type) /\ value = Became(how, WriteValue(type, v))
  BY DEF FieldValue
<1> HIDE DEF f, type, v, value
<1>3. ASSUME f[1] \in Keys(line)
      PROVE  FieldFault(line, f) = CASE f[2] = "real" -> RealFault(value)
                                     [] f[2] = "string" -> StringFault(value)
                                     [] f[2] = "array" -> ArrayFault(value)
                                     [] OTHER -> PlainFault(f[2], value)
  BY <1>3 DEF FieldFault, value
<1>4. CASE f[1] \notin Keys(line)
  <2>1. FieldFault(line, f) = "MissingField"
    BY <1>4 DEF FieldFault
  <2> QED
    BY <2>1, FaultOfAField DEF Faults, f
<1>5. CASE how = "retyped" /\ f[1] \in Keys(line)
  <2>1. value.t = "null"
    BY <1>1, <1>2, <1>5 DEF Became, WriteValue, WriteReal, Value, FieldTypes
  <2>2. FieldFault(line, f) = "WrongType"
    BY Zenon, <1>1, <1>3, <1>5, <2>1 DEF RealFault, StringFault, ArrayFault, PlainFault, FieldTypes, type
  <2> QED
    BY <2>2, FaultOfAField DEF Faults, f
<1>6. CASE how = "integer" /\ f[1] \in Keys(line)
  <2>1. type = "real"
    BY <1>1, <1>2, <1>6 DEF NotAllowed, FieldTypes
  <2>2. value.t = "uint"
    BY <1>2, <1>6, <2>1 DEF Became, WriteValue, WriteReal, Value
  <2>3. FieldFault(line, f) = "WrongType"
    BY <1>3, <1>6, <2>1, <2>2 DEF RealFault, type
  <2> QED
    BY <2>3, FaultOfAField DEF Faults, f
<1>7. CASE how = "negated" /\ f[1] \in Keys(line)
  <2>1. type = "real"
    BY <1>1, <1>2, <1>7 DEF NotAllowed, FieldTypes
  <2>2. value = Value("real", NegZero)
    BY <1>2, <1>7 DEF Became
  <2>3. FieldFault(line, f) = "NegativeZero"
    BY Zenon, <1>3, <1>7, <2>1, <2>2, ValueIs DEF RealFault, type
  <2> QED
    BY <2>3, FaultOfAField DEF Faults, f
<1>8. CASE how = "return" /\ f[1] \in Keys(line)
  <2>1. type = "string"
    BY <1>1, <1>2, <1>8 DEF NotAllowed, FieldTypes
  <2>2. value = Value("string", "two\rlines")
    BY <1>2, <1>8 DEF Became
  <2>3. FieldFault(line, f) = "CarriageReturn"
    BY Zenon, <1>3, <1>8, <2>1, <2>2, ValueIs DEF StringFault, HasReturn, type
  <2> QED
    BY <2>3, FaultOfAField DEF Faults, f
<1>9. CASE how = "element" /\ f[1] \in Keys(line)
  <2> DEFINE s == [k \in DOMAIN v |-> WriteReal(v[k])]
  <2>1. type = "array"
    BY <1>1, <1>2, <1>9 DEF NotAllowed, FieldTypes
  <2>2. value = Value("array", <<Value("uint", 0)>> \o s)
    <3>1. WriteValue(type, v) = Value("array", s)
      BY <2>1 DEF WriteValue
    <3> HIDE DEF s
    <3> QED
      BY <1>2, <1>9, <3>1, BecameElement
  <2>3. IsSequence(s)
    BY <1>1, <2>1, SameLength
  <2> HIDE DEF s
  <2>4. FieldFault(line, f) = ArrayFault(value)
    BY <1>3, <1>9, <2>1 DEF type
  <2>5. FieldFault(line, f) # ""
    BY Zenon, <2>2, <2>3, <2>4, ElementFaults
  <2> QED
    BY Zenon, <2>5 DEF Fits, f
<1> QED
  BY <1>1, <1>2, <1>4, <1>5, <1>6, <1>7, <1>8, <1>9 DEF NotAllowed, FieldTypes

LEMMA PartOf ==
  ASSUME NEW s, IsSequence(s), NEW m \in Nat \ {0}, NEW n \in Nat, m <= n + 1, n <= Len(s)
  PROVE  /\ IsSequence(SubSeq(s, m, n)) /\ Len(SubSeq(s, m, n)) = n - m + 1
         /\ DOMAIN SubSeq(s, m, n) = 1..(n - m + 1)
         /\ \A i \in 1..(n - m + 1) : SubSeq(s, m, n)[i] = s[m + i - 1]
<1> DEFINE part == SubSeq(s, m, n)
           V == Values(s)
<1>1. Len(s) \in Nat /\ DOMAIN s = 1..Len(s)
  BY Sequences_
<1>2. \A i \in m..n : s[i] \in V
  <2> SUFFICES ASSUME NEW i \in m..n PROVE i \in DOMAIN s
    BY DEF Values
  <2> QED
    BY <1>1
<1>3. m \in Int /\ n \in Int
  OBVIOUS
<1> HIDE DEF V
<1>4. /\ part \in Seq(V)
      /\ Len(part) = IF m <= n THEN n - m + 1 ELSE 0
      /\ \A i \in 1..(n - m + 1) : part[i] = s[m + i - 1]
  BY <1>2, <1>3, SubSeqProperties
<1>5. IsSequence(part)
  BY Zenon, <1>4, SequenceOf
<1>6. Len(part) = n - m + 1
  <2>1. ~(m <= n) => n - m + 1 = 0
    OBVIOUS
  <2> QED
    BY <1>4, <2>1
<1>7. DOMAIN part = 1..(n - m + 1)
  BY <1>5, <1>6, Sequences_
<1> QED
  BY <1>4, <1>5, <1>6, <1>7

LEMMA WithoutOne ==
  ASSUME NEW s, IsSequence(s), NEW n \in DOMAIN s
  PROVE  /\ IsSequence(Without(s, n)) /\ Len(Without(s, n)) = Len(s) - 1
         /\ \A i \in DOMAIN Without(s, n) :
              \/ i \in DOMAIN s /\ i < n /\ Without(s, n)[i] = s[i]
              \/ i + 1 \in DOMAIN s /\ n <= i /\ Without(s, n)[i] = s[i + 1]
         /\ \A i \in DOMAIN s : i # n => \E k \in DOMAIN Without(s, n) : Without(s, n)[k] = s[i]
<1> DEFINE front == SubSeq(s, 1, n - 1)
           back == SubSeq(s, n + 1, Len(s))
           j == Without(s, n)
<1>1. Len(s) \in Nat /\ DOMAIN s = 1..Len(s) /\ n \in Nat /\ 1 <= n /\ n <= Len(s)
  BY Sequences_
<1>2. /\ IsSequence(front) /\ Len(front) = n - 1 /\ DOMAIN front = 1..(n - 1)
      /\ \A i \in 1..(n - 1) : front[i] = s[i]
  <2> DEFINE one == 1
             last == n - 1
  <2>1. one \in Nat \ {0} /\ last \in Nat /\ one <= last + 1 /\ last <= Len(s)
    BY <1>1
  <2> HIDE DEF one, last
  <2>2. /\ IsSequence(SubSeq(s, one, last)) /\ Len(SubSeq(s, one, last)) = last - one + 1
        /\ DOMAIN SubSeq(s, one, last) = 1..(last - one + 1)
        /\ \A i \in 1..(last - one + 1) : SubSeq(s, one, last)[i] = s[one + i - 1]
    BY <2>1, PartOf
  <2>3. last - one + 1 = n - 1 /\ \A i \in 1..(n - 1) : one + i - 1 = i
    BY <1>1 DEF one, last
  <2> QED
    BY Zenon, <2>2, <2>3 DEF one, last
<1>3. /\ IsSequence(back) /\ Len(back) = Len(s) - n /\ DOMAIN back = 1..(Len(s) - n)
      /\ \A i \in 1..(Len(s) - n) : back[i] = s[n + i]
  <2> DEFINE first == n + 1
             last == Len(s)
  <2>1. first \in Nat \ {0} /\ last \in Nat /\ first <= last + 1 /\ last <= Len(s)
    BY <1>1
  <2> HIDE DEF first, last
  <2>2. /\ IsSequence(SubSeq(s, first, last)) /\ Len(SubSeq(s, first, last)) = last - first + 1
        /\ DOMAIN SubSeq(s, first, last) = 1..(last - first + 1)
        /\ \A i \in 1..(last - first + 1) : SubSeq(s, first, last)[i] = s[first + i - 1]
    BY <2>1, PartOf
  <2>3. last - first + 1 = Len(s) - n /\ \A i \in 1..(Len(s) - n) : first + i - 1 = n + i
    BY <1>1 DEF first, last
  <2> QED
    BY <2>2, <2>3 DEF first, last
<1>4. j = front \o back
  BY DEF Without
<1> HIDE DEF front, back, j
<1>5. /\ IsSequence(j) /\ Len(j) = Len(front) + Len(back) /\ DOMAIN j = 1..(Len(front) + Len(back))
      /\ \A i \in DOMAIN front : j[i] = front[i]
      /\ \A i \in DOMAIN j : \/ i \in DOMAIN front /\ j[i] = front[i]
                             \/ i - Len(front) \in DOMAIN back /\ j[i] = back[i - Len(front)]
  BY Zenon, <1>2, <1>3, <1>4, Joined
<1>6. Len(j) = Len(s) - 1 /\ DOMAIN j = 1..(Len(s) - 1)
  BY <1>1, <1>2, <1>3, <1>5
<1>7. ASSUME NEW i \in DOMAIN j
      PROVE  \/ i \in DOMAIN s /\ i < n /\ j[i] = s[i]
             \/ i + 1 \in DOMAIN s /\ n <= i /\ j[i] = s[i + 1]
  <2>1. CASE i \in DOMAIN front /\ j[i] = front[i]
    BY <2>1, <1>1, <1>2
  <2>2. CASE i - Len(front) \in DOMAIN back /\ j[i] = back[i - Len(front)]
    <3> DEFINE k == i - (n - 1)
    <3>1. k \in 1..(Len(s) - n) /\ j[i] = back[k]
      BY <2>2, <1>2, <1>3
    <3>2. i \in Int
      BY <1>6, <1>1
    <3>3. n + k = i + 1 /\ n <= i /\ i + 1 \in DOMAIN s
      BY <3>1, <3>2, <1>1
    <3> HIDE DEF k
    <3>4. back[k] = s[n + k]
      BY <3>1, <1>3
    <3> QED
      BY <3>1, <3>3, <3>4
  <2> QED
    BY <2>1, <2>2, <1>5
<1>8. ASSUME NEW i \in DOMAIN s, i # n PROVE \E k \in DOMAIN j : j[k] = s[i]
  <2>1. CASE i < n
    <3>1. i \in DOMAIN j /\ i \in DOMAIN front /\ front[i] = s[i]
      BY <2>1, <1>1, <1>2, <1>6
    <3> QED
      BY <3>1, <1>5
  <2>2. CASE i > n
    <3> DEFINE k == i - 1
    <3>1. k \in DOMAIN j /\ n <= k /\ k + 1 = i /\ ~(k < n)
      BY <2>2, <1>1, <1>6
    <3> HIDE DEF k
    <3>2. j[k] = s[k + 1]
      BY <3>1, <1>7
    <3> QED
      BY <3>1, <3>2
  <2> QED
    BY <1>8, <1>1, <2>1, <2>2
<1> QED
  BY <1>5, <1>6, <1>7, <1>8 DEF j

TextWays == {"empty", "junk", "array", "overflowing", "nan", "cr", "extra", "unended"}

LEMMA SpoiledText ==
  ASSUME NEW r, Proper(r), NEW how \in TextWays, NEW key
  PROVE  ~Accepted(Changed(RenderRecord(r), how, key))
<1> DEFINE keys == RenderRecord(r).keys
           line == [json |-> "object", cr |-> FALSE, ends |-> TRUE, keys |-> keys]
           new == Changed(line, how, key)
<1>1. RenderRecord(r) = line
  BY DEF RenderRecord
<1>2. IsSequence(keys)
  BY RenderedKeys DEF Proper
<1> HIDE DEF keys
<1>3. CASE how \in {"empty", "junk", "array", "overflowing", "nan"}
  <2>1. new = [json |-> how, cr |-> FALSE, ends |-> TRUE, keys |-> keys]
    BY Zenon, <1>3 DEF Changed
  <2> HIDE DEF new, line
  <2>2. new.json = how /\ ~new.cr /\ new.ends
    BY <2>1
  <2>3. LineFault(new) \in Faults
    BY Zenon, <1>3, <2>2 DEF LineFault, JsonFault, Faults
  <2> QED
    BY <1>1, <2>3, FaultOfALine DEF new
<1>4. CASE how = "cr"
  <2>1. new = [json |-> "object", cr |-> TRUE, ends |-> TRUE, keys |-> keys]
    BY Zenon, <1>4 DEF Changed
  <2> HIDE DEF new, line
  <2>2. LineFault(new) \in Faults
    BY <2>1 DEF LineFault, Faults
  <2> QED
    BY <1>1, <2>2, FaultOfALine DEF new
<1>5. CASE how = "unended"
  <2>1. new = [json |-> "object", cr |-> FALSE, ends |-> FALSE, keys |-> keys]
    BY Zenon, <1>5 DEF Changed
  <2> HIDE DEF new, line
  <2>2. LineFault(new) \in Faults
    BY <2>1 DEF LineFault, Faults
  <2> QED
    BY <1>1, <2>2, FaultOfALine DEF new
<1>6. CASE how = "extra"
  <2> DEFINE extra == <<"extra", Value("bool", TRUE)>>
             more == Append(keys, extra)
  <2>1. new = [json |-> "object", cr |-> FALSE, ends |-> TRUE, keys |-> more]
    BY Zenon, <1>6 DEF Changed
  <2>2. extra[1] = "extra"
    OBVIOUS
  <2> HIDE DEF new, line, extra
  <2>3. Len(keys) + 1 \in DOMAIN more /\ more[Len(keys) + 1] = extra
    <3>1. Len(keys) \in Nat
      BY <1>2, Sequences_
    <3> QED
      BY <1>2, <3>1, Appended
  <2> HIDE DEF more
  <2>4. "extra" \in Keys(new)
    BY <2>1, <2>2, <2>3 DEF Keys
  <2>5. ASSUME Accepted(new) PROVE FALSE
    <3> DEFINE kind == Get(new, "record").v
    <3>1. kind \in Kinds /\ Keys(new) \subseteq FieldNames(kind) \cup {"schema", "record"}
      BY <2>5, WellRead
    <3> HIDE DEF kind
    <3>2. "extra" \notin FieldNames(kind)
      BY <3>1, FieldsAre DEF FieldNames
    <3> QED
      BY <3>1, <3>2, <2>4
  <2> QED
    BY <1>1, <2>5 DEF new
<1> QED
  BY <1>3, <1>4, <1>5, <1>6 DEF TextWays

LEMMA BecamePlain ==
  /\ \A type, v : Became("retyped", Value(type, v)) = Value("null", v)
  /\ \A value : Became("next", value) = Value("uint", 2)
  /\ \A value : Became("return", value) = Value("string", "two\rlines")
  /\ \A value : Became("unknown", value) = Value("string", "blob")
<1>1. \A type, v : Became("retyped", Value(type, v)) = Value("null", v)
  BY DEF Became, Value
<1>2. \A value : Became("next", value) = Value("uint", 2)
  BY DEF Became
<1>3. \A value : Became("return", value) = Value("string", "two\rlines")
  BY DEF Became
<1>4. \A value : Became("unknown", value) = Value("string", "blob")
  BY DEF Became
<1> QED
  BY <1>1, <1>2, <1>3, <1>4

LEMMA ValuesDiffer ==
  ASSUME NEW type, NEW v, NEW other, NEW w, Value(type, v) = Value(other, w)
  PROVE  type = other /\ v = w
<1>1. Value(type, v).t = Value(other, w).t /\ Value(type, v).v = Value(other, w).v
  OBVIOUS
<1> QED
  BY <1>1, ValueIs

LEMMA SchemasDiffer == Value("uint", 1) # Value("null", 1) /\ Value("uint", 1) # Value("uint", 2)
<1>1. Value("uint", 1) # Value("null", 1)
  BY ValuesDiffer
<1>2. Value("uint", 1) # Value("uint", 2)
  <2>1. 1 # 2
    OBVIOUS
  <2> QED
    BY <2>1, ValuesDiffer
<1> QED
  BY <1>1, <1>2

LEMMA SpoiledSchema ==
  ASSUME NEW line, NEW how \in {"retyped", "next"}, Get(line, "schema") = Became(how, Value("uint", 1))
  PROVE  ~Accepted(line)
<1> SUFFICES ASSUME Accepted(line) PROVE FALSE
  OBVIOUS
<1>1. Get(line, "schema") = Value("uint", 1)
  BY WellRead
<1> QED
  BY <1>1, SchemasDiffer, BecamePlain

LEMMA SpoiledRecord ==
  ASSUME NEW line, NEW how \in {"retyped", "return", "unknown"}, NEW kind,
         Get(line, "record") = Became(how, Value("string", kind))
  PROVE  ~Accepted(line)
<1> SUFFICES ASSUME Accepted(line) PROVE FALSE
  OBVIOUS
<1> DEFINE value == Get(line, "record")
<1>1. value.t = "string" /\ value.v \in Kinds
  BY WellRead
<1>2. value = Value("null", kind) \/ value = Value("string", "two\rlines") \/ value = Value("string", "blob")
  BY BecamePlain
<1> HIDE DEF value
<1>3. CASE value = Value("null", kind)
  <2>1. value.t = "null"
    BY <1>3, ValueIs
  <2> QED
    BY <2>1, <1>1
<1>4. CASE value = Value("string", "two\rlines")
  <2>1. value.v = "two\rlines"
    BY <1>4, ValueIs
  <2> QED
    BY <2>1, <1>1, KindsAre
<1>5. CASE value = Value("string", "blob")
  <2>1. value.v = "blob"
    BY <1>5, ValueIs
  <2> QED
    BY <2>1, <1>1, KindsAre
<1> QED
  BY <1>2, <1>3, <1>4, <1>5

LEMMA LostKey ==
  ASSUME NEW r, Proper(r), NEW m \in DOMAIN RenderRecord(r).keys
  PROVE  ~Accepted(Changed(RenderRecord(r), "keyless", RenderRecord(r).keys[m][1]))
<1> DEFINE keys == RenderRecord(r).keys
           fields == Schema[r.record]
           line == [json |-> "object", cr |-> FALSE, ends |-> TRUE, keys |-> keys]
           key == keys[m][1]
           kept == Without(keys, m)
           new == Changed(line, "keyless", key)
<1>1. RenderRecord(r) = line
  BY DEF RenderRecord
<1>2. /\ IsSequence(keys) /\ Distinct(keys)
      /\ DOMAIN keys = 1..(2 + Len(fields)) /\ Len(fields) \in Nat
      /\ keys[1] = <<"schema", Value("uint", 1)>>
      /\ keys[2] = <<"record", Value("string", r.record)>>
      /\ \A n \in DOMAIN fields : keys[2 + n] = <<fields[n][1], FieldValue(r, n)>>
      /\ \A k \in DOMAIN keys : k = 1 \/ k = 2 \/ \E n \in DOMAIN fields : k = 2 + n
  BY RenderedKeys DEF Proper
<1>0. m \in DOMAIN keys
  OBVIOUS
<1> HIDE DEF keys, fields
<1>3. new.keys = kept
  <2>1. (CHOOSE n \in DOMAIN keys : keys[n][1] = key) = m
    BY <1>0, <1>2 DEF Distinct
  <2>2. new = [line EXCEPT !.keys = Without(line.keys, CHOOSE n \in DOMAIN line.keys : line.keys[n][1] = key)]
    BY DEF Changed
  <2>3. line.keys = keys
    OBVIOUS
  <2>4. new = [line EXCEPT !.keys = kept]
    BY Zenon, <2>1, <2>2, <2>3
  <2> HIDE DEF kept, new
  <2> QED
    BY <2>4
<1> HIDE DEF new
<1>4. /\ \A i \in DOMAIN kept : \E k \in DOMAIN keys : k # m /\ kept[i] = keys[k]
      /\ \A k \in DOMAIN keys : k # m => \E i \in DOMAIN kept : kept[i] = keys[k]
      /\ \A i, j \in DOMAIN kept : kept[i][1] = kept[j][1] => i = j
      /\ \A i \in DOMAIN kept : i \in Nat
  <2>1. DOMAIN keys = 1..Len(keys) /\ Len(keys) \in Nat /\ \A k \in DOMAIN keys : k \in Nat
    <3>1. DOMAIN keys = 1..Len(keys) /\ Len(keys) \in Nat
      BY <1>2, Sequences_
    <3> QED
      BY <3>1
  <2>2. /\ \A i \in DOMAIN kept :
             \/ i \in DOMAIN keys /\ i < m /\ kept[i] = keys[i]
             \/ i + 1 \in DOMAIN keys /\ m <= i /\ kept[i] = keys[i + 1]
        /\ \A k \in DOMAIN keys : k # m => \E i \in DOMAIN kept : kept[i] = keys[k]
        /\ IsSequence(kept)
    BY Zenon, <1>2, WithoutOne DEF keys
  <2>3. \A i \in DOMAIN kept : i \in Nat
    <3>1. DOMAIN kept = 1..Len(kept) /\ Len(kept) \in Nat
      BY <2>2, Sequences_
    <3> QED
      BY <3>1
  <2>7. m \in DOMAIN keys /\ m \in Nat
    BY <2>1 DEF keys
  <2> HIDE DEF kept
  <2>4. ASSUME NEW i \in DOMAIN kept PROVE \E k \in DOMAIN keys : k # m /\ kept[i] = keys[k]
    <3>1. CASE i \in DOMAIN keys /\ i < m /\ kept[i] = keys[i]
      BY <3>1, <2>3, <2>7
    <3>2. CASE i + 1 \in DOMAIN keys /\ m <= i /\ kept[i] = keys[i + 1]
      <4>1. i + 1 # m
        BY <3>2, <2>3, <2>7
      <4> QED
        BY <3>2, <4>1
    <3> QED
      BY <3>1, <3>2, <2>2
  <2>5. ASSUME NEW i \in DOMAIN kept, NEW j \in DOMAIN kept, kept[i][1] = kept[j][1] PROVE i = j
    <3>1. CASE kept[i] = keys[i] /\ kept[j] = keys[j] /\ i \in DOMAIN keys /\ j \in DOMAIN keys
      BY <2>5, <3>1, <1>2 DEF Distinct
    <3>2. CASE kept[i] = keys[i + 1] /\ kept[j] = keys[j + 1] /\ i + 1 \in DOMAIN keys /\ j + 1 \in DOMAIN keys
      <4>1. i + 1 = j + 1
        BY <2>5, <3>2, <1>2 DEF Distinct
      <4> QED
        BY <4>1, <2>3
    <3>3. CASE kept[i] = keys[i] /\ kept[j] = keys[j + 1] /\ i \in DOMAIN keys /\ j + 1 \in DOMAIN keys /\ i < m /\ m <= j
      <4>1. i = j + 1
        BY <2>5, <3>3, <1>2 DEF Distinct
      <4> QED
        BY <4>1, <3>3, <2>3, <2>7
    <3>4. CASE kept[i] = keys[i + 1] /\ kept[j] = keys[j] /\ i + 1 \in DOMAIN keys /\ j \in DOMAIN keys /\ j < m /\ m <= i
      <4>1. i + 1 = j
        BY <2>5, <3>4, <1>2 DEF Distinct
      <4> QED
        BY <4>1, <3>4, <2>3, <2>7
    <3> QED
      BY <3>1, <3>2, <3>3, <3>4, <2>2
  <2> QED
    BY <2>2, <2>3, <2>4, <2>5
<1> HIDE DEF kept
<1>5. key \notin Keys(new)
  BY <1>0, <1>2, <1>3, <1>4 DEF Keys, Distinct
<1>6. ASSUME Accepted(new) PROVE FALSE
  <2> DEFINE kind == Get(new, "record").v
  <2>1. /\ "schema" \in Keys(new) /\ "record" \in Keys(new)
        /\ \A n \in DOMAIN Schema[kind] : Fits(new, Schema[kind][n])
    BY Zenon, <1>6, WellRead
  <2>2. CASE m = 1 \/ m = 2
    BY <2>1, <2>2, <1>2, <1>5
  <2>3. ASSUME NEW n \in DOMAIN fields, m = 2 + n PROVE FALSE
    <3>1. 2 \in DOMAIN keys /\ m # 2
      <4>1. m # 2
        BY <2>3, FieldsAre, <1>2, <1>5, <2>1
      <4> QED
        BY <4>1, <1>2
    <3>2. PICK i \in DOMAIN kept : kept[i] = keys[2]
      BY <3>1, <1>4
    <3>3. Get(new, kept[i][1]) = kept[i][2]
      BY <1>3, <1>4, GetIs DEF Distinct
    <3>4. kind = r.record
      BY <3>2, <3>3, <1>2, ValueIs
    <3>5. Fits(new, fields[n])
      BY <2>1, <3>4 DEF fields
    <3>6. fields[n][1] \notin Keys(new)
      BY <2>3, <1>2, <1>5
    <3>7. FieldFault(new, fields[n]) = "MissingField"
      BY <3>6 DEF FieldFault
    <3> QED
      BY <3>5, <3>7, FaultOfAField DEF Faults
  <2>4. m \in DOMAIN keys
    BY DEF keys
  <2> QED
    BY <2>2, <2>3, <2>4, <1>2
<1> QED
  BY Zenon, <1>1, <1>6 DEF new, keys

LEMMA SpoiledKey ==
  ASSUME NEW r, Proper(r), NEW how \in ValueWays, NEW m \in DOMAIN RenderRecord(r).keys
  PROVE  LET keys == RenderRecord(r).keys
             new == Changed(RenderRecord(r), how, keys[m][1])
         IN  /\ Get(new, keys[m][1]) = Became(how, keys[m][2])
             /\ \A k \in DOMAIN keys : k # m => Get(new, keys[k][1]) = keys[k][2]
<1> DEFINE keys == RenderRecord(r).keys
           line == [json |-> "object", cr |-> FALSE, ends |-> TRUE, keys |-> keys]
           key == keys[m][1]
           new == Changed(line, how, key)
           became == KeysBecame(keys, how, key)
<1>1. RenderRecord(r) = line
  BY DEF RenderRecord
<1>2. IsSequence(keys) /\ Distinct(keys) /\ m \in DOMAIN keys
  BY RenderedKeys DEF Proper
<1> HIDE DEF keys
<1>3. new.keys = became
  <2>1. new = [line EXCEPT !.keys = KeysBecame(line.keys, how, key)] /\ line.keys = keys
    BY Zenon, ChangedIs
  <2>2. new = [line EXCEPT !.keys = became]
    BY <2>1
  <2> HIDE DEF became, new
  <2> QED
    BY <2>2
<1> HIDE DEF new
<1>4. /\ Get(new, keys[m][1]) = Became(how, keys[m][2])
      /\ \A k \in DOMAIN keys : k # m => Get(new, keys[k][1]) = keys[k][2]
  BY <1>2, <1>3, BecameKeys
<1> QED
  BY Zenon, <1>1, <1>4 DEF new, keys

LEMMA SpoiledFieldLine ==
  ASSUME NEW r, Proper(r), NEW n \in DOMAIN Schema[r.record], NEW how \in NotAllowed(Schema[r.record][n][2])
  PROVE  ~Accepted(Changed(RenderRecord(r), how, Schema[r.record][n][1]))
<1> DEFINE keys == RenderRecord(r).keys
           fields == Schema[r.record]
           m == 2 + n
           new == Changed(RenderRecord(r), how, fields[n][1])
           kind == Get(new, "record").v
<1>1. /\ keys[2] = <<"record", Value("string", r.record)>> /\ 2 \in DOMAIN keys
      /\ m \in DOMAIN keys /\ keys[m] = <<fields[n][1], FieldValue(r, n)>> /\ m # 2
  BY RenderedKeys DEF Proper
<1>2. how \in ValueWays
  BY DEF NotAllowed, ValueWays
<1> HIDE DEF m
<1>3. /\ Get(new, keys[m][1]) = Became(how, keys[m][2])
      /\ \A k \in DOMAIN keys : k # m => Get(new, keys[k][1]) = keys[k][2]
  BY <1>1, <1>2, SpoiledKey
<1> HIDE DEF new, keys, fields
<1>4. Get(new, fields[n][1]) = Became(how, FieldValue(r, n)) /\ Get(new, "record") = Value("string", r.record)
  BY <1>1, <1>3
<1>5. ~Fits(new, fields[n])
  BY <1>4, SpoiledField DEF fields
<1>6. kind = r.record
  BY <1>4, ValueIs
<1>7. Accepted(new) => \A k \in DOMAIN Schema[kind] : Fits(new, Schema[kind][k])
  BY WellRead
<1> QED
  BY <1>5, <1>6, <1>7 DEF new, fields

LEMMA ShorterIs ==
  ASSUME NEW v, IsSequence(v), v # <<>>
  PROVE  Len(Became("shorter", Value("array", v)).v) = Len(v) - 1
<1>1. Became("shorter", Value("array", v)) = [t |-> "array", v |-> Tail(v)]
  BY DEF Became, Value
<1>2. v \in Seq(Values(v))
  BY DEF IsSequence, Values
<1>3. Len(Tail(v)) = Len(v) - 1
  BY <1>2, HeadTailProperties
<1>4. [t |-> "array", v |-> Tail(v)].v = Tail(v)
  OBVIOUS
<1> QED
  BY Zenon, <1>1, <1>3, <1>4

\* A polyline has a bulge for each point, and is refused a list of one fewer.
LEMMA ShorterPolyline ==
  ASSUME NEW r, Proper(r), r.record = "polyline", NEW n \in DOMAIN Schema[r.record],
         FieldValue(r, n).t = "array", FieldValue(r, n).v # <<>>
  PROVE  ~Accepted(Changed(RenderRecord(r), "shorter", Schema[r.record][n][1]))
<1> DEFINE keys == RenderRecord(r).keys
           fields == Schema[r.record]
           key == fields[n][1]
           new == Changed(RenderRecord(r), "shorter", key)
           kind == Get(new, "record").v
           m == 2 + n
           Written(s) == [k \in DOMAIN s |-> WriteReal(s[k])]
<1>0. r.record \in Kinds /\ Len(r.points) = Len(r.bulges)
  BY DEF Proper
<1>1. fields[n][2] \in FieldTypes
  BY <1>0, FieldsAre
<1>2. fields[n][2] = "array"
  <2>1. FieldValue(r, n).t = fields[n][2]
    BY <1>1, ValueIs DEF FieldValue, WriteValue, WriteReal, FieldTypes
  <2> QED
    BY <2>1
<1>3. key \in {"points", "bulges"}
  <2>1. ArraysOf("polyline") = {"points", "bulges"}
    BY DEF ArraysOf
  <2> QED
    BY <1>0, <1>2, <2>1, FieldsAre
<1>4. \E other \in {"points", "bulges"} : other # key
  BY <1>3
<1>5. PICK other \in {"points", "bulges"} : other # key
  BY <1>4
<1>6. PICK p \in DOMAIN fields : fields[p][1] = other
  BY <1>0, PolylineFields DEF FieldNames
<1>7. fields[p][2] = "array" /\ IsSequence(r[key]) /\ IsSequence(r[other]) /\ Len(r[key]) = Len(r[other])
  <2>1. fields[p][2] = "array"
    BY <1>0, <1>6, FieldsAre
  <2>2. IsSequence(r[key]) /\ IsSequence(r[other])
    BY <1>2, <1>6, <2>1 DEF Proper
  <2>3. Len(r[key]) = Len(r[other])
    BY <1>0, <1>3, <1>5
  <2> QED
    BY <2>1, <2>2, <2>3
<1>8. /\ keys[2] = <<"record", Value("string", r.record)>> /\ 2 \in DOMAIN keys
      /\ m \in DOMAIN keys /\ keys[m] = <<key, FieldValue(r, n)>>
      /\ 2 + p \in DOMAIN keys /\ keys[2 + p] = <<other, FieldValue(r, p)>>
      /\ m # 2 /\ 2 + p # m
  <2>1. n # p /\ n \in Nat /\ p \in Nat /\ n # 0
    <3>1. n # p
      BY <1>5, <1>6
    <3>2. n \in DOMAIN fields /\ p \in DOMAIN fields
      OBVIOUS
    <3>3. DOMAIN fields = 1..Len(fields) /\ Len(fields) \in Nat
      BY <1>0, FieldsAre, Sequences_
    <3> HIDE DEF fields
    <3> QED
      BY <3>1, <3>2, <3>3
  <2>2. /\ keys[2] = <<"record", Value("string", r.record)>>
        /\ Len(fields) \in Nat /\ DOMAIN keys = 1..(2 + Len(fields))
        /\ \A k \in DOMAIN fields : 2 + k \in DOMAIN keys /\ keys[2 + k] = <<fields[k][1], FieldValue(r, k)>>
    BY RenderedKeys DEF Proper
  <2>3. n \in DOMAIN fields /\ p \in DOMAIN fields /\ fields[p][1] = other
    BY <1>6
  <2> HIDE DEF keys, fields
  <2>4. 2 \in DOMAIN keys /\ m # 2 /\ 2 + p # m
    BY <2>1, <2>2
  <2> QED
    BY <2>2, <2>3, <2>4
<1>9. FieldValue(r, n) = Value("array", Written(r[key])) /\ FieldValue(r, p) = Value("array", Written(r[other]))
  BY <1>2, <1>6, <1>7 DEF FieldValue, WriteValue
<1>10. /\ IsSequence(Written(r[key])) /\ Len(Written(r[key])) = Len(r[key])
       /\ Len(Written(r[other])) = Len(r[other])
  BY <1>7, SameLength
<1>11. Written(r[key]) # <<>>
  <2> DEFINE w == Written(r[key])
             v == FieldValue(r, n)
  <2>1. v = Value("array", w) /\ v.v # <<>>
    BY <1>9
  <2> HIDE DEF w, v
  <2> QED
    BY Zenon, <2>1, ValueIs DEF w
<1>12. Len(r[key]) \in Nat
  BY <1>7, Sequences_
<1> HIDE DEF m, Written
<1>13. /\ Get(new, key) = Became("shorter", FieldValue(r, n))
       /\ \A k \in DOMAIN keys : k # m => Get(new, keys[k][1]) = keys[k][2]
  <2>1. keys[m][1] = key /\ keys[m][2] = FieldValue(r, n)
    BY <1>8
  <2>2. "shorter" \in ValueWays
    BY DEF ValueWays
  <2>3. /\ Get(Changed(RenderRecord(r), "shorter", keys[m][1]), keys[m][1]) = Became("shorter", keys[m][2])
        /\ \A k \in DOMAIN keys : k # m =>
             Get(Changed(RenderRecord(r), "shorter", keys[m][1]), keys[k][1]) = keys[k][2]
    BY <1>8, <2>2, SpoiledKey
  <2> QED
    BY <2>1, <2>3
<1> HIDE DEF keys, fields, new, key
<1>14. /\ Get(new, "record") = Value("string", r.record)
       /\ Get(new, other) = FieldValue(r, p)
  BY <1>8, <1>13
<1>15. kind = "polyline"
  BY <1>14, ValueIs
<1>16. Len(Get(new, other).v) = Len(r[other]) /\ Len(Get(new, key).v) = Len(r[key]) - 1
  BY <1>9, <1>10, <1>11, <1>13, <1>14, ShorterIs, ValueIs
<1>17. Len(Get(new, other).v) # Len(Get(new, key).v)
  BY <1>7, <1>12, <1>16
<1>18. Len(Get(new, "points").v) # Len(Get(new, "bulges").v)
  BY <1>3, <1>5, <1>17
<1> QED
  BY <1>15, <1>18, WellRead DEF new, key, fields

LEMMA FieldTypeIs ==
  ASSUME NEW r, r.record \in Kinds, NEW n \in DOMAIN Schema[r.record]
  PROVE  FieldValue(r, n).t = Schema[r.record][n][2]
<1>1. Schema[r.record][n][2] \in FieldTypes
  BY FieldsAre
<1> QED
  BY <1>1, ValueIs DEF FieldValue, WriteValue, WriteReal, FieldTypes

\* The ways of the three kinds of key.
LEMMA SchemaWays ==
  /\ NotAllowed("uint") = {"retyped"}
  /\ NotForKey("schema") = {"next"}
<1>1. NotAllowed("uint") = {"retyped"}
  BY DEF NotAllowed
<1>2. NotForKey("schema") = {"next"}
  BY DEF NotForKey
<1> QED
  BY <1>1, <1>2

LEMMA RecordWays ==
  NotAllowed("string") = {"retyped", "return"} /\ NotForKey("record") = {"unknown"}
<1>1. NotAllowed("string") = {"retyped", "return"}
  BY DEF NotAllowed
<1>2. NotForKey("record") = {"unknown"}
  BY DEF NotForKey
<1> QED
  BY <1>1, <1>2

LEMMA FieldWays == \A key : key \notin {"schema", "record"} => NotForKey(key) = {}
BY DEF NotForKey

LEMMA SpoiledByKey ==
  ASSUME NEW r, Proper(r), NEW m \in DOMAIN RenderRecord(r).keys, NEW how,
         how \in NotAllowed(RenderRecord(r).keys[m][2].t) \cup NotForKey(RenderRecord(r).keys[m][1])
  PROVE  ~Accepted(Changed(RenderRecord(r), how, RenderRecord(r).keys[m][1]))
<1> DEFINE keys == RenderRecord(r).keys
           fields == Schema[r.record]
           key == keys[m][1]
           value == keys[m][2]
           new == Changed(RenderRecord(r), how, key)
<1>1. /\ keys[1] = <<"schema", Value("uint", 1)>>
      /\ keys[2] = <<"record", Value("string", r.record)>>
      /\ \A n \in DOMAIN fields : keys[2 + n] = <<fields[n][1], FieldValue(r, n)>>
      /\ m = 1 \/ m = 2 \/ \E n \in DOMAIN fields : m = 2 + n
  BY RenderedKeys DEF Proper
<1>2. how \in ValueWays => Get(new, key) = Became(how, value)
  BY SpoiledKey
<1>3. how \in NotAllowed(value.t) \cup NotForKey(key)
  OBVIOUS
<1> HIDE DEF new
<1>4. CASE m = 1
  <2>1. keys[m] = <<"schema", Value("uint", 1)>>
    BY <1>1, <1>4
  <2>2. key = "schema" /\ value = Value("uint", 1)
    BY <2>1
  <2> HIDE DEF key, value
  <2>3. value.t = "uint"
    BY <2>2, ValueIs
  <2>4. how \in {"retyped", "next"}
    BY <1>3, <2>2, <2>3, SchemaWays
  <2>5. {"retyped", "next"} \subseteq ValueWays
    BY DEF ValueWays
  <2>6. Get(new, "schema") = Became(how, Value("uint", 1))
    BY <1>2, <2>2, <2>4, <2>5
  <2> QED
    BY <2>4, <2>6, SpoiledSchema DEF new, key
<1>5. CASE m = 2
  <2>1. keys[m] = <<"record", Value("string", r.record)>>
    BY <1>1, <1>5
  <2>2. key = "record" /\ value = Value("string", r.record)
    BY <2>1
  <2> HIDE DEF key, value
  <2>3. value.t = "string"
    BY <2>2, ValueIs
  <2>4. how \in {"retyped", "return", "unknown"}
    BY <1>3, <2>2, <2>3, RecordWays
  <2>5. {"retyped", "return", "unknown"} \subseteq ValueWays
    BY DEF ValueWays
  <2>6. Get(new, "record") = Became(how, Value("string", r.record))
    BY <1>2, <2>2, <2>4, <2>5
  <2> QED
    BY <2>4, <2>6, SpoiledRecord DEF new, key
<1>6. ASSUME NEW n \in DOMAIN fields, m = 2 + n
      PROVE  ~Accepted(new)
  <2>1. keys[m] = <<fields[n][1], FieldValue(r, n)>>
    BY <1>1, <1>6
  <2>2. key = fields[n][1] /\ value = FieldValue(r, n)
    BY <2>1
  <2> HIDE DEF key, value
  <2>3. value.t = fields[n][2] /\ key \notin {"schema", "record"}
    BY <2>2, FieldTypeIs, FieldsAre DEF Proper
  <2>4. CASE how \in NotAllowed(value.t)
    <3>1. ~Accepted(Changed(RenderRecord(r), how, fields[n][1]))
      BY <2>3, <2>4, SpoiledFieldLine
    <3> QED
      BY <2>2, <3>1 DEF new
  <2>5. how \notin NotForKey(key)
    BY <2>3, FieldWays
  <2> QED
    BY <1>3, <2>4, <2>5
<1> QED
  BY <1>1, <1>4, <1>5, <1>6 DEF new

\* No way of a line of the stream leaves a line that is accepted.
LEMMA SpoiledIsRefused ==
  ASSUME NEW r, Proper(r), NEW last, NEW way, way \in StreamWays(RenderRecord(r), last)
  PROVE  ~Accepted(Changed(RenderRecord(r), way[1], way[2]))
<1> DEFINE keys == RenderRecord(r).keys
           line == RenderRecord(r)
           texts == {"empty", "junk", "array", "overflowing", "nan", "cr",
                     "extra"} \cup IF last THEN {"unended"} ELSE {}
<1>1. \/ way \in {<<how, "none">> : how \in texts}
      \/ \E m \in DOMAIN keys : way \in Ways(keys[m][1], keys[m][2])
  BY DEF StreamWays
<1>2. CASE way \in {<<how, "none">> : how \in texts}
  <2>1. PICK how \in texts : way = <<how, "none">>
    BY <1>2
  <2>2. way[1] = how
    BY <2>1
  <2>3. texts \subseteq TextWays
    BY DEF TextWays
  <2> HIDE DEF texts
  <2>4. ~Accepted(Changed(line, how, way[2]))
    BY <2>3, SpoiledText
  <2> QED
    BY <2>2, <2>4
<1>3. ASSUME NEW m \in DOMAIN keys, way \in Ways(keys[m][1], keys[m][2])
      PROVE  ~Accepted(Changed(line, way[1], way[2]))
  <2> DEFINE key == keys[m][1]
             value == keys[m][2]
             hows == NotAllowed(value.t) \cup NotForKey(key)
  <2>1. \E how \in {"keyless"} \cup hows : way = <<how, key>>
    <3>1. Ways(key, value) = {<<how, key>> : how \in {"keyless"} \cup NotAllowed(value.t) \cup NotForKey(key)}
      BY DEF Ways
    <3>2. way \in Ways(key, value)
      BY <1>3
    <3> HIDE DEF key, value
    <3> QED
      BY <3>1, <3>2
  <2>2. PICK how \in {"keyless"} \cup hows : way = <<how, key>>
    BY Zenon, <2>1
  <2>3. way[1] = how /\ way[2] = key
    BY <2>2
  <2>4. CASE how = "keyless"
    <3>1. ~Accepted(Changed(line, "keyless", key))
      BY LostKey
    <3> QED
      BY <2>3, <2>4, <3>1
  <2>5. CASE how \in hows
    <3>1. ~Accepted(Changed(line, how, key))
      BY <2>5, SpoiledByKey
    <3> QED
      BY <2>3, <3>1
  <2> QED
    BY <2>2, <2>4, <2>5
<1> QED
  BY <1>1, <1>2, <1>3

\* What a field can become and still be one is asked of the fields only.
LEMMA SlipsAre ==
  ASSUME NEW r, Proper(r), NEW way, way \in StreamSlips(RenderRecord(r))
  PROVE  \E n \in DOMAIN Schema[r.record] :
           /\ way[1] \in {"other", "shorter"} /\ way[2] = Schema[r.record][n][1]
           /\ way[1] = "shorter" => FieldValue(r, n).t = "array" /\ FieldValue(r, n).v # <<>>
<1> DEFINE keys == RenderRecord(r).keys
           fields == Schema[r.record]
<1>1. PICK m \in DOMAIN keys : way \in Slips(keys[m][1], keys[m][2])
  BY DEF StreamSlips
<1>2. /\ keys[1] = <<"schema", Value("uint", 1)>>
      /\ keys[2] = <<"record", Value("string", r.record)>>
      /\ \A n \in DOMAIN fields : keys[2 + n] = <<fields[n][1], FieldValue(r, n)>>
      /\ m = 1 \/ m = 2 \/ \E n \in DOMAIN fields : m = 2 + n
  BY RenderedKeys DEF Proper
<1> DEFINE key == keys[m][1]
           value == keys[m][2]
<1>3. \E k, v : k = key /\ v = value /\ way \in Slips(k, v)
  BY <1>1
<1>4. PICK k, v : k = key /\ v = value /\ way \in Slips(k, v)
  BY Zenon, <1>3
<1>5. k \notin {"schema", "record"} /\ (v.t = "array" => v.v # <<>>)
      /\ way \in {<<"other", k>>} \cup IF v.t = "array" THEN {<<"shorter", k>>} ELSE {}
  <2>1. way \in CASE k \in {"schema", "record"} \/ (v.t = "array" /\ v.v = <<>>) -> {}
                  [] OTHER -> {<<"other", k>>} \cup IF v.t = "array" THEN {<<"shorter", k>>} ELSE {}
    BY <1>4 DEF Slips
  <2> QED
    BY Zenon, <2>1
<1>6. way[2] = k /\ (way[1] = "other" \/ (way[1] = "shorter" /\ v.t = "array"))
  BY <1>5
<1>7. m # 1 /\ m # 2
  BY <1>2, <1>4, <1>5
<1>8. PICK n \in DOMAIN fields : m = 2 + n
  BY <1>2, <1>7
<1>9. k = fields[n][1] /\ v = FieldValue(r, n)
  BY <1>2, <1>4, <1>8
<1>10. way[1] = "shorter" => FieldValue(r, n).t = "array" /\ FieldValue(r, n).v # <<>>
  BY <1>5, <1>6, <1>9
<1> QED
  BY <1>6, <1>9, <1>10

\* What is heard of a record, but for what stands under one key.
HeardBut(r, heard, key) == heard = [Spelled(r) EXCEPT ![key] = heard[key]] /\ heard.record = r.record

\* A field that became another is read as that one, and nothing else is read
\* differently.
LEMMA SlippedHeard ==
  ASSUME NEW r, Proper(r), NEW n \in DOMAIN Schema[r.record], NEW how \in {"other", "shorter"}
  PROVE  HeardBut(r, ParsedRecord(Changed(RenderRecord(r), how, Schema[r.record][n][1])), Schema[r.record][n][1])
<1> DEFINE keys == RenderRecord(r).keys
           fields == Schema[r.record]
           key == fields[n][1]
           line == RenderRecord(r)
           new == Changed(line, how, key)
           names == FieldNames(r.record)
<1>1. /\ keys[2] = <<"record", Value("string", r.record)>> /\ 2 \in DOMAIN keys
      /\ \A p \in DOMAIN fields : 2 + p \in DOMAIN keys /\ keys[2 + p] = <<fields[p][1], FieldValue(r, p)>>
      /\ \A p \in DOMAIN fields : p \in Nat /\ p # 0
  <2>1. r.record \in Kinds
    BY DEF Proper
  <2>2. /\ keys[2] = <<"record", Value("string", r.record)>> /\ DOMAIN keys = 1..(2 + Len(fields))
        /\ \A p \in DOMAIN fields : keys[2 + p] = <<fields[p][1], FieldValue(r, p)>>
        /\ \A p \in DOMAIN fields : 2 + p \in DOMAIN keys
    BY <2>1, RenderedKeys
  <2>3. DOMAIN fields = 1..Len(fields) /\ Len(fields) \in Nat
    BY <2>1, FieldsAre, Sequences_
  <2> HIDE DEF keys, fields
  <2>4. 2 \in DOMAIN keys /\ \A p \in DOMAIN fields : p \in Nat /\ p # 0
    BY <2>2, <2>3
  <2> QED
    BY <2>2, <2>4
<1>2. r.record \in Kinds /\ \A p \in DOMAIN fields : p # n => fields[p][1] # key
  BY FieldsAre DEF Proper
<1>3. \A p \in DOMAIN fields : fields[p][1] \notin {"schema", "record"}
  BY <1>2, FieldsAre
<1>4. \A k \in DOMAIN keys : k # 2 + n => Get(new, keys[k][1]) = keys[k][2]
  <2>1. 2 + n \in DOMAIN keys /\ keys[2 + n][1] = key
    BY <1>1
  <2>2. how \in ValueWays
    BY DEF ValueWays
  <2> DEFINE other == Changed(RenderRecord(r), how, keys[2 + n][1])
  <2>3. \A k \in DOMAIN keys : k # 2 + n => Get(other, keys[k][1]) = keys[k][2]
    BY <2>1, <2>2, SpoiledKey
  <2>4. other = new
    BY <2>1
  <2> HIDE DEF other, new
  <2> QED
    BY <2>3, <2>4
<1>5. /\ Get(line, "record") = Value("string", r.record)
      /\ \A p \in DOMAIN fields : Get(line, fields[p][1]) = FieldValue(r, p)
  BY <1>2, RenderedValues
<1> HIDE DEF keys, new, line
<1>6. Get(new, "record") = Value("string", r.record)
  <2>1. 2 # 2 + n /\ keys[2][1] = "record" /\ keys[2][2] = Value("string", r.record)
    BY <1>1
  <2> QED
    BY <1>1, <1>4, <2>1
<1>7. \A p \in DOMAIN fields : p # n => Get(new, fields[p][1]) = FieldValue(r, p)
  <2> SUFFICES ASSUME NEW p \in DOMAIN fields, p # n PROVE Get(new, fields[p][1]) = FieldValue(r, p)
    OBVIOUS
  <2>1. 2 + p \in DOMAIN keys /\ keys[2 + p][1] = fields[p][1] /\ keys[2 + p][2] = FieldValue(r, p)
    BY <1>1
  <2>2. 2 + p # 2 + n
    BY <1>1
  <2> QED
    BY <1>4, <2>1, <2>2
<1> DEFINE Heard(l) == [f \in names \cup {"record"} |-> IF f = "record" THEN r.record ELSE Content(Get(l, f))]
<1>8. ParsedRecord(line) = Heard(line) /\ ParsedRecord(new) = Heard(new)
  <2>1. Get(line, "record").v = r.record /\ Get(new, "record").v = r.record
    BY <1>5, <1>6, ValueIs
  <2>2. names = {fields[p][1] : p \in DOMAIN fields}
    BY DEF FieldNames
  <2> QED
    BY <2>1, <2>2 DEF ParsedRecord
<1>9. ParsedRecord(line) = Spelled(r)
  BY <1>2, RecordHeard DEF line
<1>10. \A f \in names : f # key => Get(new, f) = Get(line, f)
  <2> SUFFICES ASSUME NEW f \in names, f # key PROVE Get(new, f) = Get(line, f)
    OBVIOUS
  <2>1. PICK p \in DOMAIN fields : f = fields[p][1]
    BY DEF FieldNames
  <2> QED
    BY <1>5, <1>7, <2>1
<1>11. key \in names /\ "record" \notin names
  BY <1>3 DEF FieldNames
<1> DEFINE heard == Heard(new)
<1>12. Heard(new) = [Heard(line) EXCEPT ![key] = Heard(new)[key]]
  <2> DEFINE x == Heard(line)
             y == Heard(new)
  <2>1. DOMAIN x = names \cup {"record"} /\ DOMAIN y = names \cup {"record"}
        /\ y = [f \in DOMAIN x |-> y[f]]
    OBVIOUS
  <2>2. \A f \in DOMAIN x : f # key => y[f] = x[f]
    <3> SUFFICES ASSUME NEW f \in names \cup {"record"}, f # key PROVE y[f] = x[f]
      BY <2>1
    <3>1. CASE f = "record"
      BY <3>1
    <3>2. CASE f # "record"
      BY <3>2, <1>10
    <3> QED
      BY <3>1, <3>2
  <2> HIDE DEF x, y
  <2>3. [x EXCEPT ![key] = y[key]] = [f \in DOMAIN x |-> IF f = key THEN y[key] ELSE x[f]]
    OBVIOUS
  <2>4. [f \in DOMAIN x |-> IF f = key THEN y[key] ELSE x[f]] = [f \in DOMAIN x |-> y[f]]
    BY <2>2
  <2>5. y = [x EXCEPT ![key] = y[key]]
    BY <2>1, <2>3, <2>4
  <2> QED
    BY <2>5 DEF x, y
<1>13. Heard(new).record = r.record
  OBVIOUS
<1> HIDE DEF Heard
<1>14. ParsedRecord(new) = [Spelled(r) EXCEPT ![key] = ParsedRecord(new)[key]] /\ ParsedRecord(new).record = r.record
  BY <1>8, <1>9, <1>12, <1>13
<1> QED
  BY <1>14 DEF new, line, HeardBut

-----------------------------------------------------------------------------
(* The line of a sidecar entry. *)

\* Nothing is said against line n of the sidecar of these records.
Passes(line, n, records) == EntryFault(line, n, records) = ""

LEMMA JoinedKeys ==
  ASSUME NEW s, IsSequence(s), Distinct(s), NEW t, IsSequence(t), Distinct(t),
         \A m \in DOMAIN s : \A n \in DOMAIN t : s[m][1] # t[n][1]
  PROVE  IsSequence(s \o t) /\ Distinct(s \o t) /\ Values(s \o t) = Values(s) \cup Values(t)
<1> DEFINE j == s \o t
<1>1. /\ IsSequence(j)
      /\ DOMAIN j = 1..(Len(s) + Len(t))
      /\ \A n \in DOMAIN s : j[n] = s[n]
      /\ \A n \in DOMAIN j : \/ n \in DOMAIN s /\ j[n] = s[n]
                             \/ n - Len(s) \in DOMAIN t /\ j[n] = t[n - Len(s)]
  BY Joined
<1>2. /\ Len(s) \in Nat /\ Len(t) \in Nat /\ DOMAIN s = 1..Len(s) /\ DOMAIN t = 1..Len(t)
  BY Sequences_
<1>3. \A n \in DOMAIN t : Len(s) + n \in DOMAIN j
  BY <1>1, <1>2
<1>4. \A n \in DOMAIN t : j[Len(s) + n] = t[n]
  BY JoinedRight
<1> HIDE DEF j
<1>5. DOMAIN s \subseteq DOMAIN j
  BY <1>1, <1>2
<1>6. Values(j) = Values(s) \cup Values(t)
  BY <1>1, <1>3, <1>4, <1>5 DEF Values
<1>7. \A n \in DOMAIN j : n \in Int
  BY <1>1
<1>8. Distinct(j)
  <2> SUFFICES ASSUME NEW m \in DOMAIN j, NEW n \in DOMAIN j, j[m][1] = j[n][1] PROVE m = n
    BY DEF Distinct
  <2>1. CASE m \in DOMAIN s /\ j[m] = s[m] /\ n \in DOMAIN s /\ j[n] = s[n]
    BY <2>1 DEF Distinct
  <2>2. CASE m \in DOMAIN s /\ j[m] = s[m] /\ n - Len(s) \in DOMAIN t /\ j[n] = t[n - Len(s)]
    BY <2>2
  <2>3. CASE n \in DOMAIN s /\ j[n] = s[n] /\ m - Len(s) \in DOMAIN t /\ j[m] = t[m - Len(s)]
    BY <2>3
  <2>4. CASE n - Len(s) \in DOMAIN t /\ j[n] = t[n - Len(s)] /\ m - Len(s) \in DOMAIN t /\ j[m] = t[m - Len(s)]
    <3>1. n - Len(s) = m - Len(s)
      BY <2>4 DEF Distinct
    <3> QED
      BY <3>1, <1>2, <1>7
  <2> QED
    BY <1>1, <2>1, <2>2, <2>3, <2>4
<1> QED
  BY <1>1, <1>6, <1>8 DEF j

LEMMA HasKey ==
  ASSUME NEW line, IsSequence(line.keys), Distinct(line.keys), NEW x \in Values(line.keys)
  PROVE  x[1] \in Keys(line) /\ Get(line, x[1]) = x[2]
<1>1. PICK n \in DOMAIN line.keys : x = line.keys[n]
  BY DEF Values
<1>2. n \in Nat
  <2>1. DOMAIN line.keys = 1..Len(line.keys) /\ Len(line.keys) \in Nat
    BY Sequences_
  <2> QED
    BY <2>1
<1> QED
  BY <1>1, <1>2, GetIs

LEMMA KeysOf == ASSUME NEW line PROVE Keys(line) = {x[1] : x \in Values(line.keys)}
BY DEF Keys, Values

LEMMA OneKey ==
  ASSUME NEW x
  PROVE  IsSequence(<<x>>) /\ Distinct(<<x>>) /\ Values(<<x>>) = {x} /\ DOMAIN <<x>> = {1}
<1>1. <<x>> \in Seq({x}) /\ DOMAIN <<x>> = 1..1 /\ <<x>>[1] = x /\ 1..1 = {1}
  OBVIOUS
<1>2. IsSequence(<<x>>)
  BY Zenon, <1>1, SequenceOf
<1> DEFINE s == <<x>>
<1>3. DOMAIN s = {1} /\ s[1] = x
  BY <1>1
<1> HIDE DEF s
<1>4. Distinct(s) /\ Values(s) = {x}
  BY <1>3 DEF Distinct, Values
<1> QED
  BY <1>2, <1>3, <1>4 DEF s

LEMMA NoKeys == IsSequence(<<>>) /\ Distinct(<<>>) /\ Values(<<>>) = {}
<1>1. <<>> \in Seq({}) /\ DOMAIN <<>> = {}
  OBVIOUS
<1>2. IsSequence(<<>>)
  BY Zenon, <1>1, SequenceOf
<1> QED
  BY <1>1, <1>2 DEF Distinct, Values

\* A key that is left out for what is not known.
GivenKeys(key, type, v) == IF v = "none" THEN <<>> ELSE <<<<key, Value(type, v)>>>>

Gives(s, key, type, v) ==
  /\ IsSequence(s) /\ Distinct(s)
  /\ Values(s) = IF v = "none" THEN {} ELSE {<<key, Value(type, v)>>}
  /\ \A n \in DOMAIN s : s[n][1] = key

LEMMA GivenAre ==
  ASSUME NEW key, NEW type, NEW v, NEW s, s = GivenKeys(key, type, v)
  PROVE  Gives(s, key, type, v)
<1> DEFINE x == <<key, Value(type, v)>>
<1>0. x[1] = key
  OBVIOUS
<1> HIDE DEF x
<1>1. CASE v = "none"
  <2>1. s = <<>>
    BY <1>1 DEF GivenKeys
  <2>2. DOMAIN <<>> = {}
    OBVIOUS
  <2>3. IsSequence(s) /\ Distinct(s) /\ Values(s) = {} /\ DOMAIN s = {}
    BY <2>1, <2>2, NoKeys
  <2> QED
    BY <1>1, <2>3 DEF Gives
<1>2. CASE v # "none"
  <2>1. s = <<x>>
    BY <1>2 DEF GivenKeys, x
  <2>2. IsSequence(s) /\ Distinct(s) /\ Values(s) = {x} /\ DOMAIN s = {1} /\ s[1] = x
    BY <2>1, OneKey
  <2>3. \A n \in DOMAIN s : s[n][1] = key
    BY <2>2, <1>0
  <2> QED
    BY <1>2, <2>2, <2>3 DEF Gives, x
<1> QED
  BY <1>1, <1>2

\* The keys of an entry's line, and their values.
LEMMA EntryKeys ==
  ASSUME NEW e
  PROVE  LET keys == RenderEntry(e).keys
         IN  /\ IsSequence(keys) /\ Distinct(keys)
             /\ Values(keys) = {<<"i", Value("uint", e.i)>>, <<"h", Value("array", e.h)>>}
                  \cup (IF e.t = "none" THEN {} ELSE {<<"t", Value("string", e.t)>>})
                  \cup (IF e.x = "none" THEN {} ELSE {<<"x", Value("bool", e.x)>>})
                  \cup (IF e.d = "none" THEN {} ELSE {<<"d", Value("string", e.d)>>})
<1> DEFINE index == <<"i", Value("uint", e.i)>>
           path == <<"h", Value("array", e.h)>>
           first == <<index, path>>
           t == GivenKeys("t", "string", e.t)
           x == GivenKeys("x", "bool", e.x)
           d == GivenKeys("d", "string", e.d)
<1>1. RenderEntry(e).keys = ((first \o t) \o x) \o d
  BY DEF RenderEntry, GivenKeys
<1>2. index[1] = "i" /\ path[1] = "h"
  OBVIOUS
<1> HIDE DEF index, path
<1>3. IsSequence(first) /\ Distinct(first) /\ Values(first) = {index, path}
      /\ \A n \in DOMAIN first : first[n][1] \in {"i", "h"}
  <2>1. IsSequence(first)
    BY Tuple2
  <2>2. DOMAIN first = {1, 2} /\ first[1] = index /\ first[2] = path
    OBVIOUS
  <2> HIDE DEF first
  <2> QED
    BY <2>1, <2>2, <1>2 DEF Distinct, Values
<1>0. /\ t = GivenKeys("t", "string", e.t)
      /\ x = GivenKeys("x", "bool", e.x)
      /\ d = GivenKeys("d", "string", e.d)
  OBVIOUS
<1> HIDE DEF first, t, x, d
<1>4. /\ IsSequence(t) /\ Distinct(t) /\ \A n \in DOMAIN t : t[n][1] = "t"
      /\ Values(t) = IF e.t = "none" THEN {} ELSE {<<"t", Value("string", e.t)>>}
  <2>1. Gives(t, "t", "string", e.t)
    BY <1>0, GivenAre
  <2> QED
    BY <2>1 DEF Gives
<1>12. /\ IsSequence(x) /\ Distinct(x) /\ \A n \in DOMAIN x : x[n][1] = "x"
       /\ Values(x) = IF e.x = "none" THEN {} ELSE {<<"x", Value("bool", e.x)>>}
  <2>1. Gives(x, "x", "bool", e.x)
    BY <1>0, GivenAre
  <2> QED
    BY <2>1 DEF Gives
<1>13. /\ IsSequence(d) /\ Distinct(d) /\ \A n \in DOMAIN d : d[n][1] = "d"
       /\ Values(d) = IF e.d = "none" THEN {} ELSE {<<"d", Value("string", e.d)>>}
  <2>1. Gives(d, "d", "string", e.d)
    BY <1>0, GivenAre
  <2> QED
    BY <2>1 DEF Gives
<1> DEFINE two == first \o t
           three == two \o x
           four == three \o d
           Heads(s) == {y[1] : y \in Values(s)}
<1>a. \A s : \A n \in DOMAIN s : s[n][1] \in Heads(s)
  BY DEF Values
<1>b. Heads(first) \subseteq {"i", "h"} /\ Heads(t) \subseteq {"t"} /\ Heads(x) \subseteq {"x"}
      /\ Heads(d) \subseteq {"d"}
  BY <1>3, <1>4, <1>12, <1>13 DEF Values
<1>5. IsSequence(two) /\ Distinct(two) /\ Values(two) = Values(first) \cup Values(t)
  <2>1. \A m \in DOMAIN first : \A n \in DOMAIN t : first[m][1] # t[n][1]
    BY <1>3, <1>4
  <2> QED
    BY <2>1, <1>3, <1>4, JoinedKeys
<1> HIDE DEF two
<1>6. \A m \in DOMAIN two : two[m][1] \in {"i", "h", "t"}
  <2>1. Heads(two) = Heads(first) \cup Heads(t)
    BY <1>5
  <2> HIDE DEF Heads
  <2> QED
    BY <2>1, <1>a, <1>b
<1>7. IsSequence(three) /\ Distinct(three) /\ Values(three) = Values(two) \cup Values(x)
  <2>1. \A m \in DOMAIN two : \A n \in DOMAIN x : two[m][1] # x[n][1]
    BY <1>12, <1>6
  <2> QED
    BY <2>1, <1>12, <1>5, JoinedKeys
<1> HIDE DEF three
<1>8. \A m \in DOMAIN three : three[m][1] \in {"i", "h", "t", "x"}
  <2>1. Heads(three) = Heads(first) \cup Heads(t) \cup Heads(x)
    BY <1>5, <1>7
  <2> HIDE DEF Heads
  <2> QED
    BY <2>1, <1>a, <1>b
<1>9. IsSequence(four) /\ Distinct(four) /\ Values(four) = Values(three) \cup Values(d)
  <2>1. \A m \in DOMAIN three : \A n \in DOMAIN d : three[m][1] # d[n][1]
    BY <1>13, <1>8
  <2> QED
    BY <2>1, <1>13, <1>7, JoinedKeys
<1>10. RenderEntry(e).keys = four
  BY <1>1 DEF two, three
<1> HIDE DEF four
<1>11. Values(four) = {index, path} \cup Values(t) \cup Values(x) \cup Values(d)
  BY <1>3, <1>5, <1>7, <1>9
<1> QED
  BY <1>4, <1>12, <1>13, <1>9, <1>10, <1>11 DEF index, path

\* What stands under each key of an entry's line.
LEMMA EntryValues ==
  ASSUME NEW e, NEW line, line.keys = RenderEntry(e).keys
  PROVE  /\ Keys(line) = {"i", "h"} \cup (IF e.t = "none" THEN {} ELSE {"t"})
                           \cup (IF e.x = "none" THEN {} ELSE {"x"}) \cup (IF e.d = "none" THEN {} ELSE {"d"})
         /\ Get(line, "i") = Value("uint", e.i) /\ Get(line, "h") = Value("array", e.h)
         /\ e.t # "none" => Get(line, "t") = Value("string", e.t)
         /\ e.x # "none" => Get(line, "x") = Value("bool", e.x)
         /\ e.d # "none" => Get(line, "d") = Value("string", e.d)
<1> DEFINE index == <<"i", Value("uint", e.i)>>
           path == <<"h", Value("array", e.h)>>
           t == <<"t", Value("string", e.t)>>
           x == <<"x", Value("bool", e.x)>>
           d == <<"d", Value("string", e.d)>>
           all == {index, path} \cup (IF e.t = "none" THEN {} ELSE {t})
                    \cup (IF e.x = "none" THEN {} ELSE {x}) \cup (IF e.d = "none" THEN {} ELSE {d})
<1>1. IsSequence(line.keys) /\ Distinct(line.keys) /\ Values(line.keys) = all
  BY EntryKeys
<1>2. /\ index[1] = "i" /\ index[2] = Value("uint", e.i)
      /\ path[1] = "h" /\ path[2] = Value("array", e.h)
      /\ t[1] = "t" /\ t[2] = Value("string", e.t)
      /\ x[1] = "x" /\ x[2] = Value("bool", e.x)
      /\ d[1] = "d" /\ d[2] = Value("string", e.d)
  OBVIOUS
<1> HIDE DEF index, path, t, x, d
<1>3. \A y \in all : Get(line, y[1]) = y[2]
  BY <1>1, HasKey
<1>4. /\ index \in all /\ path \in all
      /\ e.t # "none" => t \in all
      /\ e.x # "none" => x \in all
      /\ e.d # "none" => d \in all
  OBVIOUS
<1>5. Keys(line) = {y[1] : y \in all}
  BY <1>1, KeysOf
<1>6. {y[1] : y \in all} = {"i", "h"} \cup (IF e.t = "none" THEN {} ELSE {"t"})
        \cup (IF e.x = "none" THEN {} ELSE {"x"}) \cup (IF e.d = "none" THEN {} ELSE {"d"})
  BY <1>2
<1> HIDE DEF all
<1> QED
  BY <1>2, <1>3, <1>4, <1>5, <1>6

\* An entry is read as it was, for what is known of it and what is not.
LEMMA EntryRead ==
  ASSUME NEW e, IsEntry(e)
  PROVE  ParsedEntry(RenderEntry(e)) = e
<1> DEFINE line == RenderEntry(e)
           Given(key) == IF key \in Keys(line) THEN Get(line, key).v ELSE "none"
<1>1. /\ Keys(line) = {"i", "h"} \cup (IF e.t = "none" THEN {} ELSE {"t"})
                           \cup (IF e.x = "none" THEN {} ELSE {"x"}) \cup (IF e.d = "none" THEN {} ELSE {"d"})
      /\ Get(line, "i") = Value("uint", e.i) /\ Get(line, "h") = Value("array", e.h)
      /\ e.t # "none" => Get(line, "t") = Value("string", e.t)
      /\ e.x # "none" => Get(line, "x") = Value("bool", e.x)
      /\ e.d # "none" => Get(line, "d") = Value("string", e.d)
  BY EntryValues
<1>2. ParsedEntry(line) =
        [i |-> Get(line, "i").v, h |-> Get(line, "h").v, t |-> Given("t"), x |-> Given("x"), d |-> Given("d")]
  BY DEF ParsedEntry
<1> HIDE DEF line
<1>3. Get(line, "i").v = e.i /\ Get(line, "h").v = e.h
  BY <1>1, ValueIs
<1>4. Given("t") = e.t /\ Given("x") = e.x /\ Given("d") = e.d
  BY <1>1, ValueIs
<1> HIDE DEF Given
<1> QED
  BY <1>2, <1>3, <1>4 DEF IsEntry, line

\* What is asked of the line of an entry, in turn.
IndexFault(value, n) ==
  IF value.t # "uint" THEN "WrongType" ELSE IF value.v # n - 1 THEN "IndexGap" ELSE ""

Asked(line, n, records) ==
  <<IF "i" \in Keys(line) THEN IndexFault(Get(line, "i"), n) ELSE "MissingField",
    IF "h" \in Keys(line) THEN HandlesFault(Get(line, "h")) ELSE "MissingField",
    Optional(line, "t", "string"), Optional(line, "x", "bool"),
    IF ("t" \in Keys(line) /\ n \in DOMAIN records) /\ Get(line, "t").t = "string"
         /\ Get(line, "t").v # records[n].record
    THEN "TypeDisagrees" ELSE "",
    Optional(line, "d", "string")>>

LEMMA EntryFaultIs ==
  ASSUME NEW line, NEW n, NEW records
  PROVE  EntryFault(line, n, records) =
           CASE line.json = "junk" -> "NotJson"
             [] line.json = "array" -> "NotAnObject"
             [] line.json = "object" /\ ~(Keys(line) \subseteq SidecarKeys) -> "UnknownField"
             [] OTHER -> FirstFault(Asked(line, n, records))
BY DEF EntryFault, Asked, Required, IndexFault

LEMMA FaultOfAnEntry ==
  ASSUME NEW line, NEW n, NEW records, EntryFault(line, n, records) \in Faults
  PROVE  ~Passes(line, n, records)
BY Zenon, FaultsSpeak DEF Passes

LEMMA Six ==
  ASSUME NEW a, NEW b, NEW c, NEW d, NEW e, NEW f
  PROVE  IsSequence(<<a, b, c, d, e, f>>) /\ DOMAIN <<a, b, c, d, e, f>> = 1..6
<1>1. DOMAIN <<a, b, c, d, e, f>> = 1..6
  OBVIOUS
<1> QED
  BY <1>1, Tuple6

LEMMA AskedAll ==
  ASSUME NEW line, NEW n, NEW records
  PROVE  IsSequence(Asked(line, n, records)) /\ DOMAIN Asked(line, n, records) = 1..6
BY Zenon, Six DEF Asked

LEMMA AskedFault ==
  ASSUME NEW line, line.json = "object", NEW n, NEW records,
         NEW m \in 1..6, Asked(line, n, records)[m] \in Faults
  PROVE  ~Passes(line, n, records)
<1> DEFINE asked == Asked(line, n, records)
<1>1. IsSequence(asked) /\ DOMAIN asked = 1..6
  BY AskedAll
<1>2. asked[m] # ""
  BY Zenon, FaultsSpeak
<1> HIDE DEF asked
<1>3. FirstFault(asked) # ""
  BY Zenon, <1>1, <1>2, FirstOf
<1>4. EntryFault(line, n, records) = IF Keys(line) \subseteq SidecarKeys THEN FirstFault(asked) ELSE "UnknownField"
  BY EntryFaultIs DEF asked
<1>5. "UnknownField" \in Faults
  BY DEF Faults
<1> QED
  BY Zenon, <1>3, <1>4, <1>5, FaultOfAnEntry DEF Passes

\* Nothing is said against the line of an entry, in its place and for its
\* record.
LEMMA WrittenPasses ==
  ASSUME NEW e, NEW n, NEW r, Names(e, n, r), NEW records,
         n \in DOMAIN records => records[n].record = r.record
  PROVE  Passes(RenderEntry(e), n, records)
<1> DEFINE line == RenderEntry(e)
           asked == Asked(line, n, records)
<1>1. line.json = "object"
  BY DEF RenderEntry
<1>2. /\ Keys(line) = {"i", "h"} \cup (IF e.t = "none" THEN {} ELSE {"t"})
                           \cup (IF e.x = "none" THEN {} ELSE {"x"}) \cup (IF e.d = "none" THEN {} ELSE {"d"})
      /\ Get(line, "i") = Value("uint", e.i) /\ Get(line, "h") = Value("array", e.h)
      /\ e.t # "none" => Get(line, "t") = Value("string", e.t)
      /\ e.x # "none" => Get(line, "x") = Value("bool", e.x)
      /\ e.d # "none" => Get(line, "d") = Value("string", e.d)
  BY EntryValues
<1> HIDE DEF line
<1>3. Keys(line) \subseteq SidecarKeys /\ "i" \in Keys(line) /\ "h" \in Keys(line)
  BY <1>2 DEF SidecarKeys
<1>4. IndexFault(Get(line, "i"), n) = ""
  <2>1. Get(line, "i").t = "uint" /\ Get(line, "i").v = n - 1
    BY <1>2, ValueIs DEF Names
  <2> QED
    BY Zenon, <2>1 DEF IndexFault
<1>5. HandlesFault(Get(line, "h")) = ""
  <2>1. Get(line, "h").t = "array" /\ Get(line, "h").v = e.h
    BY <1>2, ValueIs
  <2>2. e.h # <<>> /\ ~\E m \in DOMAIN e.h : e.h[m] < 0
    <3>1. e.h \in Seq(Nat)
      BY DEF Names, Paths
    <3>2. \A m \in DOMAIN e.h : e.h[m] \in Nat
      BY <3>1
    <3> QED
      BY <3>2 DEF Names
  <2> QED
    BY Zenon, <2>1, <2>2 DEF HandlesFault
<1>6. /\ Optional(line, "t", "string") = "" /\ Optional(line, "x", "bool") = ""
      /\ Optional(line, "d", "string") = ""
  <2>1. /\ "t" \in Keys(line) => Get(line, "t").t = "string"
        /\ "x" \in Keys(line) => Get(line, "x").t = "bool"
        /\ "d" \in Keys(line) => Get(line, "d").t = "string"
    BY <1>2, ValueIs
  <2> QED
    BY Zenon, <2>1 DEF Optional, PlainFault
<1>7. ~(("t" \in Keys(line) /\ n \in DOMAIN records) /\ Get(line, "t").t = "string"
          /\ Get(line, "t").v # records[n].record)
  <2> SUFFICES ASSUME "t" \in Keys(line), n \in DOMAIN records PROVE Get(line, "t").v = records[n].record
    OBVIOUS
  <2>1. e.t # "none"
    BY <1>2
  <2> QED
    BY <1>2, <2>1, ValueIs DEF Names
<1>8. asked = <<"", "", "", "", "", "">>
  BY Zenon, <1>3, <1>4, <1>5, <1>6, <1>7 DEF Asked
<1>9. IsSequence(asked) /\ DOMAIN asked = 1..6
  BY AskedAll
<1>10. \A m \in 1..6 : asked[m] = ""
  <2> HIDE DEF asked
  <2>1. \A x : \A m \in 1..6 : <<x, x, x, x, x, x>>[m] = x
    OBVIOUS
  <2> QED
    BY Zenon, <1>8, <2>1
<1> HIDE DEF asked
<1>11. FirstFault(asked) = ""
  BY Zenon, <1>9, <1>10, FirstOf
<1>12. EntryFault(line, n, records) = FirstFault(asked)
  <2>1. EntryFault(line, n, records) = IF Keys(line) \subseteq SidecarKeys THEN FirstFault(asked) ELSE "UnknownField"
    BY <1>1, EntryFaultIs DEF asked, line
  <2> QED
    BY <1>3, <2>1
<1> QED
  BY Zenon, <1>11, <1>12 DEF Passes, line

\* The faults of an altered line, one for each key.
LEMMA NoIndex ==
  ASSUME NEW line, line.json = "object", NEW n, NEW records,
         "i" \notin Keys(line) \/ Get(line, "i").t # "uint"
  PROVE  ~Passes(line, n, records)
<1>1. Asked(line, n, records)[1] = IF "i" \in Keys(line) THEN IndexFault(Get(line, "i"), n) ELSE "MissingField"
  BY DEF Asked
<1>2. Asked(line, n, records)[1] = "WrongType" \/ Asked(line, n, records)[1] = "MissingField"
  <2>1. Get(line, "i").t # "uint" => IndexFault(Get(line, "i"), n) = "WrongType"
    BY DEF IndexFault
  <2> QED
    BY <1>1, <2>1
<1>3. {"WrongType", "MissingField"} \subseteq Faults /\ 1 \in 1..6
  BY DEF Faults
<1> QED
  BY <1>2, <1>3, AskedFault

LEMMA WrongIndex ==
  ASSUME NEW line, line.json = "object", NEW n, NEW records,
         "i" \in Keys(line), Get(line, "i").t = "uint", Get(line, "i").v # n - 1
  PROVE  ~Passes(line, n, records)
<1>1. Asked(line, n, records)[1] = IF "i" \in Keys(line) THEN IndexFault(Get(line, "i"), n) ELSE "MissingField"
  BY DEF Asked
<1>2. IndexFault(Get(line, "i"), n) = "IndexGap"
  BY DEF IndexFault
<1>3. "IndexGap" \in Faults /\ 1 \in 1..6
  BY DEF Faults
<1> QED
  BY <1>1, <1>2, <1>3, AskedFault

\* The line of an entry is one for its own place only.
LEMMA Misplaced ==
  ASSUME NEW e, NEW n, NEW records, e.i # n - 1
  PROVE  ~Passes(RenderEntry(e), n, records)
<1> DEFINE line == RenderEntry(e)
<1>1. line.json = "object"
  BY DEF RenderEntry
<1>2. "i" \in Keys(line) /\ Get(line, "i") = Value("uint", e.i)
  BY EntryValues
<1> HIDE DEF line
<1>3. Get(line, "i").t = "uint" /\ Get(line, "i").v = e.i
  BY <1>2, ValueIs
<1> QED
  BY <1>1, <1>2, <1>3, WrongIndex DEF line

LEMMA NoHandles ==
  ASSUME NEW line, line.json = "object", NEW n, NEW records,
         "h" \notin Keys(line) \/ Get(line, "h").t # "array"
  PROVE  ~Passes(line, n, records)
<1>1. Asked(line, n, records)[2] = IF "h" \in Keys(line) THEN HandlesFault(Get(line, "h")) ELSE "MissingField"
  BY DEF Asked
<1>2. Asked(line, n, records)[2] = "WrongType" \/ Asked(line, n, records)[2] = "MissingField"
  <2>1. Get(line, "h").t # "array" => HandlesFault(Get(line, "h")) = "WrongType"
    BY DEF HandlesFault
  <2> QED
    BY <1>1, <2>1
<1>3. {"WrongType", "MissingField"} \subseteq Faults /\ 2 \in 1..6
  BY DEF Faults
<1> QED
  BY <1>2, <1>3, AskedFault

LEMMA OddOptional ==
  ASSUME NEW line, line.json = "object", NEW n, NEW records, NEW key, NEW type,
         <<key, type>> \in {<<"t", "string">>, <<"x", "bool">>, <<"d", "string">>},
         key \in Keys(line), Get(line, key).t # type
  PROVE  ~Passes(line, n, records)
<1>1. \/ key = "t" /\ type = "string"
      \/ key = "x" /\ type = "bool"
      \/ key = "d" /\ type = "string"
  OBVIOUS
<1>2. Optional(line, key, type) = "WrongType"
  BY DEF Optional, PlainFault
<1>3. /\ Asked(line, n, records)[3] = Optional(line, "t", "string")
      /\ Asked(line, n, records)[4] = Optional(line, "x", "bool")
      /\ Asked(line, n, records)[6] = Optional(line, "d", "string")
  BY DEF Asked
<1>4. "WrongType" \in Faults /\ 3 \in 1..6 /\ 4 \in 1..6 /\ 6 \in 1..6
  BY DEF Faults
<1> QED
  BY <1>1, <1>2, <1>3, <1>4, AskedFault

LEMMA OddKind ==
  ASSUME NEW line, line.json = "object", NEW n, NEW records, n \in DOMAIN records,
         "t" \in Keys(line), Get(line, "t").t = "string", Get(line, "t").v # records[n].record
  PROVE  ~Passes(line, n, records)
<1>1. Asked(line, n, records)[5] = "TypeDisagrees"
  BY DEF Asked
<1>2. "TypeDisagrees" \in Faults /\ 5 \in 1..6
  BY DEF Faults
<1> QED
  BY <1>1, <1>2, AskedFault

\* A key that is taken out is not there any more.
LEMMA LostFrom ==
  ASSUME NEW keys, IsSequence(keys), Distinct(keys), NEW m \in DOMAIN keys,
         NEW line, line.keys = Without(keys, m)
  PROVE  keys[m][1] \notin Keys(line)
<1> SUFFICES ASSUME NEW i \in DOMAIN line.keys, line.keys[i][1] = keys[m][1] PROVE FALSE
  BY DEF Keys
<1> DEFINE kept == Without(keys, m)
<1>1. \/ i \in DOMAIN keys /\ i < m /\ kept[i] = keys[i]
      \/ i + 1 \in DOMAIN keys /\ m <= i /\ kept[i] = keys[i + 1]
  BY WithoutOne
<1>2. kept[i][1] = keys[m][1]
  OBVIOUS
<1>3. m \in Nat /\ i \in Int
  <2>1. DOMAIN keys = 1..Len(keys) /\ Len(keys) \in Nat
    BY Sequences_
  <2>2. IsSequence(kept)
    BY WithoutOne
  <2>3. DOMAIN kept = 1..Len(kept) /\ Len(kept) \in Nat
    BY <2>2, Sequences_
  <2> HIDE DEF kept
  <2> QED
    BY <2>1, <2>3 DEF kept
<1> HIDE DEF kept
<1>4. CASE i \in DOMAIN keys /\ i < m /\ kept[i] = keys[i]
  <2>1. i = m
    BY <1>2, <1>4 DEF Distinct
  <2> QED
    BY <2>1, <1>3, <1>4
<1>5. CASE i + 1 \in DOMAIN keys /\ m <= i /\ kept[i] = keys[i + 1]
  <2>1. i + 1 = m
    BY <1>2, <1>5 DEF Distinct
  <2> QED
    BY <2>1, <1>3, <1>5
<1> QED
  BY <1>1, <1>4, <1>5

LEMMA SameHeads ==
  ASSUME NEW keys, NEW how, NEW key, NEW line, line.keys = KeysBecame(keys, how, key),
         NEW n \in DOMAIN keys
  PROVE  keys[n][1] \in Keys(line)
<1> DEFINE new == KeysBecame(keys, how, key)
<1>1. DOMAIN new = DOMAIN keys /\ new[n] = IF keys[n][1] = key THEN <<key, Became(how, keys[n][2])>> ELSE keys[n]
  BY DEF KeysBecame
<1>2. <<key, Became(how, keys[n][2])>>[1] = key
  OBVIOUS
<1> HIDE DEF new
<1>3. new[n][1] = keys[n][1]
  BY <1>1, <1>2
<1>4. line.keys = new
  BY DEF new
<1> QED
  BY <1>1, <1>3, <1>4 DEF Keys

LEMMA AnotherIndex == \A v : Became("other", Value("uint", v)) = Value("uint", v + 1)
<1>1. \A value : Became("other", value) = Another(value)
  BY DEF Became
<1>2. \A value : value.t = "uint" => Another(value) = Value("uint", value.v + 1)
  BY DEF Another
<1> QED
  BY <1>1, <1>2, ValueIs

\* An altered line of the sidecar is the line it was, or is refused for the
\* record it is for.
LEMMA SpoiledEntry ==
  ASSUME NEW e, NEW way, way \in SidecarWays(RenderEntry(e)),
         NEW records, NEW n \in DOMAIN records, records[n].record \in Kinds, n \in Nat, e.i = n - 1
  PROVE  LET new == Changed(RenderEntry(e), way[1], way[2])
         IN  new = RenderEntry(e) \/ ~Passes(new, n, records)
<1> DEFINE keys == RenderEntry(e).keys
           line == [json |-> "object", keys |-> keys]
           how == way[1]
           key == way[2]
           new == Changed(line, how, key)
           Known_(k) == IF k = "i" THEN Value("uint", e.i) ELSE IF k = "h" THEN Value("array", e.h)
                        ELSE IF k = "t" THEN Value("string", e.t) ELSE IF k = "x" THEN Value("bool", e.x)
                        ELSE Value("string", e.d)
<1>1. RenderEntry(e) = line
  BY DEF RenderEntry
<1>2. IsSequence(keys) /\ Distinct(keys)
  BY EntryKeys
<1>3. /\ \E m \in DOMAIN keys : keys[m] = <<"i", Value("uint", e.i)>>
      /\ \E m \in DOMAIN keys : keys[m] = <<"h", Value("array", e.h)>>
      /\ \A m \in DOMAIN keys : \/ keys[m] = <<"i", Value("uint", e.i)>>
                                \/ keys[m] = <<"h", Value("array", e.h)>>
                                \/ keys[m] = <<"t", Value("string", e.t)>>
                                \/ keys[m] = <<"x", Value("bool", e.x)>>
                                \/ keys[m] = <<"d", Value("string", e.d)>>
  <2> DEFINE index == <<"i", Value("uint", e.i)>>
             path == <<"h", Value("array", e.h)>>
             t == <<"t", Value("string", e.t)>>
             x == <<"x", Value("bool", e.x)>>
             d == <<"d", Value("string", e.d)>>
  <2>1. Values(keys) = {index, path} \cup (IF e.t = "none" THEN {} ELSE {t})
                    \cup (IF e.x = "none" THEN {} ELSE {x}) \cup (IF e.d = "none" THEN {} ELSE {d})
    BY EntryKeys
  <2> HIDE DEF keys, index, path, t, x, d
  <2>2. index \in Values(keys) /\ path \in Values(keys) /\ Values(keys) \subseteq {index, path, t, x, d}
    BY <2>1
  <2>3. (\E m \in DOMAIN keys : keys[m] = index) /\ (\E m \in DOMAIN keys : keys[m] = path)
    BY <2>2 DEF Values
  <2>4. \A m \in DOMAIN keys : keys[m] \in {index, path, t, x, d}
    BY <2>2 DEF Values
  <2> QED
    BY <2>3, <2>4 DEF index, path, t, x, d
<1>4. \/ \E h \in {"junk", "array", "extra"} : way = <<h, "none">>
      \/ \E m \in DOMAIN keys : way = <<"retyped", keys[m][1]>>
      \/ way = <<"keyless", "i">> \/ way = <<"keyless", "h">> \/ way = <<"unknown", "t">>
      \/ way = <<"other", "i">>
  BY DEF SidecarWays
<1> HIDE DEF keys
<1>5. CASE \E h \in {"junk", "array"} : way = <<h, "none">>
  <2>1. how \in {"junk", "array"}
    BY <1>5
  <2> HIDE DEF how, key
  <2>2. new = [json |-> how, keys |-> keys]
    BY <2>1 DEF Changed
  <2> HIDE DEF new, line
  <2>3. EntryFault(new, n, records) \in {"NotJson", "NotAnObject"}
    BY Zenon, <2>1, <2>2 DEF EntryFault
  <2>4. ~Passes(new, n, records)
    BY <2>3, FaultOfAnEntry DEF Faults
  <2> QED
    BY <1>1, <2>4 DEF new, how, key
<1>6. CASE way = <<"extra", "none">>
  <2> DEFINE extra == <<"extra", Value("bool", TRUE)>>
             more == Append(keys, extra)
  <2>1. how = "extra" /\ extra[1] = "extra"
    BY <1>6
  <2> HIDE DEF how, key
  <2>2. new = [json |-> "object", keys |-> more]
    BY Zenon, <2>1 DEF Changed
  <2> HIDE DEF new, line, extra
  <2>3. Len(keys) + 1 \in DOMAIN more /\ more[Len(keys) + 1] = extra
    <3>1. Len(keys) \in Nat
      BY <1>2, Sequences_
    <3> QED
      BY <1>2, <3>1, Appended
  <2> HIDE DEF more
  <2>4. "extra" \in Keys(new) /\ "extra" \notin SidecarKeys
    BY <2>1, <2>2, <2>3 DEF Keys, SidecarKeys
  <2>5. new.json = "object"
    BY <2>2
  <2>6. EntryFault(new, n, records) = "UnknownField"
    BY <2>4, <2>5, EntryFaultIs
  <2>7. ~Passes(new, n, records)
    BY <2>6, FaultOfAnEntry DEF Faults
  <2> QED
    BY <1>1, <2>7 DEF new, how, key
<1>7. ASSUME NEW m \in DOMAIN keys, how = "keyless", key = keys[m][1], key \in {"i", "h"}
      PROVE  ~Passes(new, n, records)
  <2> DEFINE kept == Without(keys, m)
  <2> HIDE DEF how, key
  <2>1. (CHOOSE k \in DOMAIN keys : keys[k][1] = key) = m
    BY <1>2, <1>7 DEF Distinct
  <2>2. new = [line EXCEPT !.keys = Without(line.keys, CHOOSE k \in DOMAIN line.keys : line.keys[k][1] = key)]
    BY <1>7 DEF Changed
  <2>3. line.keys = keys
    OBVIOUS
  <2>4. new = [line EXCEPT !.keys = kept]
    BY Zenon, <2>1, <2>2, <2>3
  <2> HIDE DEF kept, new
  <2>5. new.keys = kept /\ new.json = "object"
    BY <2>4
  <2>6. key \notin Keys(new)
    BY <1>2, <1>7, <2>5, LostFrom DEF kept
  <2> QED
    BY <1>7, <2>5, <2>6, NoIndex, NoHandles
<1>8. ASSUME how \in {"retyped", "unknown", "other"}
      PROVE  new = [json |-> "object", keys |-> KeysBecame(keys, how, key)]
  <2>1. how \in ValueWays
    BY <1>8 DEF ValueWays
  <2> HIDE DEF how, key
  <2>2. new = [line EXCEPT !.keys = KeysBecame(line.keys, how, key)] /\ line.keys = keys
    BY <2>1, ChangedIs
  <2> DEFINE became == KeysBecame(keys, how, key)
  <2>3. new = [line EXCEPT !.keys = became]
    BY <2>2
  <2> HIDE DEF became, new
  <2>4. new = [json |-> "object", keys |-> became]
    BY <2>3
  <2> QED
    BY <2>4 DEF became
<1>9. ASSUME NEW m \in DOMAIN keys, how \in {"retyped", "unknown", "other"}, key = keys[m][1]
      PROVE  new.json = "object" /\ key \in Keys(new) /\ Get(new, key) = Became(how, keys[m][2])
  <2> DEFINE became == KeysBecame(keys, how, keys[m][1])
  <2> HIDE DEF how, key
  <2>1. new = [json |-> "object", keys |-> became]
    BY <1>8, <1>9
  <2> HIDE DEF new, became
  <2>2. new.json = "object" /\ new.keys = became
    BY <2>1
  <2>5. new.keys = KeysBecame(keys, how, keys[m][1])
    BY <2>2 DEF became
  <2>6. /\ Get(new, keys[m][1]) = Became(how, keys[m][2])
        /\ \A l \in DOMAIN keys : l # m => Get(new, keys[l][1]) = keys[l][2]
    BY <1>2, <2>5, BecameKeys
  <2>3. Get(new, keys[m][1]) = Became(how, keys[m][2])
    BY <2>6
  <2>4. keys[m][1] \in Keys(new)
    BY <2>2, SameHeads DEF became
  <2> QED
    BY <1>9, <2>2, <2>3, <2>4
<1>10. ASSUME NEW m \in DOMAIN keys, way = <<"retyped", keys[m][1]>>
       PROVE  ~Passes(new, n, records)
  <2>1. how = "retyped" /\ key = keys[m][1]
    BY <1>10
  <2> HIDE DEF how, key
  <2>2. new.json = "object" /\ key \in Keys(new) /\ Get(new, key) = Became("retyped", keys[m][2])
    BY <1>9, <2>1
  <2> HIDE DEF new
  <2>3. \A type, v : Became("retyped", Value(type, v)).t = "null"
    BY BecamePlain, ValueIs
  <2>4. \E k, type, v : keys[m] = <<k, Value(type, v)>> /\ k \in {"i", "h", "t", "x", "d"}
    BY <1>3
  <2>5. PICK k, type, v : keys[m] = <<k, Value(type, v)>> /\ k \in {"i", "h", "t", "x", "d"}
    BY <2>4
  <2>6. keys[m][2] = Value(type, v) /\ keys[m][1] = k
    BY <2>5
  <2>7. Get(new, key).t = "null" /\ key \in {"i", "h", "t", "x", "d"}
    BY <2>1, <2>2, <2>3, <2>5, <2>6
  <2>8. CASE key \in {"i", "h"}
    BY <2>2, <2>7, <2>8, NoIndex, NoHandles
  <2>9. CASE key \in {"t", "x", "d"}
    <3>1. \E asked \in {"string", "bool"} : <<key, asked>> \in {<<"t", "string">>, <<"x", "bool">>, <<"d", "string">>}
      BY <2>9
    <3> QED
      BY <2>2, <2>7, <3>1, OddOptional
  <2> QED
    BY <2>7, <2>8, <2>9
<1>11. CASE way = <<"unknown", "t">>
  <2>1. how = "unknown" /\ key = "t"
    BY <1>11
  <2> HIDE DEF how, key
  <2>2. CASE \E m \in DOMAIN keys : keys[m][1] = "t"
    <3>1. PICK m \in DOMAIN keys : keys[m][1] = "t"
      BY <2>2
    <3>2. new.json = "object" /\ "t" \in Keys(new) /\ Get(new, "t") = Became("unknown", keys[m][2])
      BY <1>9, <2>1, <3>1
    <3> HIDE DEF new
    <3>3. Get(new, "t") = Value("string", "blob")
      BY <3>2, BecamePlain
    <3>4. Get(new, "t").t = "string" /\ Get(new, "t").v = "blob"
      BY <3>3, ValueIs
    <3>5. ~Passes(new, n, records)
      BY <3>2, <3>4, OddKind, KindsAre
    <3> QED
      BY <1>1, <3>5 DEF new, how, key
  <2>3. CASE ~\E m \in DOMAIN keys : keys[m][1] = "t"
    <3>1. KeysBecame(keys, how, key) = [m \in DOMAIN keys |-> keys[m]]
      BY <2>1, <2>3 DEF KeysBecame
    <3>2. keys = [m \in DOMAIN keys |-> keys[m]]
      BY <1>2 DEF IsSequence
    <3>3. new = [json |-> "object", keys |-> keys]
      BY <1>8, <2>1, <3>1, <3>2
    <3> QED
      BY <1>1, <3>3 DEF new, how, key
  <2> QED
    BY <2>2, <2>3
<1>12. CASE way = <<"keyless", "i">> \/ way = <<"keyless", "h">>
  <2>1. how = "keyless" /\ key \in {"i", "h"}
    BY <1>12
  <2> HIDE DEF how, key
  <2>2. \E m \in DOMAIN keys : keys[m][1] = key
    <3>1. PICK m \in DOMAIN keys : keys[m] = <<"i", Value("uint", e.i)>>
      BY <1>3
    <3>2. PICK k \in DOMAIN keys : keys[k] = <<"h", Value("array", e.h)>>
      BY <1>3
    <3>3. keys[m][1] = "i" /\ keys[k][1] = "h"
      BY <3>1, <3>2
    <3> QED
      BY <3>3, <2>1
  <2>3. ~Passes(new, n, records)
    BY <1>7, <2>1, <2>2
  <2> QED
    BY <1>1, <2>3 DEF new, how, key
<1>13. CASE \E m \in DOMAIN keys : way = <<"retyped", keys[m][1]>>
  BY <1>1, <1>10, <1>13
<1>14. CASE way = <<"other", "i">>
  <2>1. how = "other" /\ key = "i"
    BY <1>14
  <2> HIDE DEF how, key
  <2>2. PICK m \in DOMAIN keys : keys[m] = <<"i", Value("uint", e.i)>>
    BY <1>3
  <2>3. keys[m][1] = "i" /\ keys[m][2] = Value("uint", e.i)
    BY <2>2
  <2>4. new.json = "object" /\ "i" \in Keys(new) /\ Get(new, "i") = Became("other", keys[m][2])
    BY <1>9, <2>1, <2>3
  <2> HIDE DEF new
  <2>5. Get(new, "i") = Value("uint", e.i + 1)
    BY <2>3, <2>4, AnotherIndex
  <2>6. Get(new, "i").t = "uint" /\ Get(new, "i").v = e.i + 1
    BY <2>5, ValueIs
  <2>7. Get(new, "i").v # n - 1
    BY <2>6
  <2>8. ~Passes(new, n, records)
    BY <2>4, <2>6, <2>7, WrongIndex
  <2> QED
    BY <1>1, <2>8 DEF new, how, key
<1> QED
  BY <1>4, <1>5, <1>6, <1>11, <1>12, <1>13, <1>14

\* What an entry is read as, where only what stands under one key differs.
LEMMA SlippedOnly ==
  ASSUME NEW e, IsEntry(e), NEW new, NEW key \in SidecarKeys,
         \A k \in Keys(new) : k \in Keys(RenderEntry(e)),
         \A k \in Keys(RenderEntry(e)) : k # key => k \in Keys(new) /\ Get(new, k) = Get(RenderEntry(e), k)
  PROVE  ParsedEntry(new) = [e EXCEPT ![key] = ParsedEntry(new)[key]]
<1> DEFINE old == RenderEntry(e)
           Given(line, k) == IF k \in Keys(line) THEN Get(line, k).v ELSE "none"
           Heard(line) == [i |-> Get(line, "i").v, h |-> Get(line, "h").v, t |-> Given(line, "t"),
                           x |-> Given(line, "x"), d |-> Given(line, "d")]
<1>1. ParsedEntry(old) = Heard(old) /\ ParsedEntry(new) = Heard(new)
  BY DEF ParsedEntry
<1>2. key \in {"i", "h", "t", "x", "d"}
  BY DEF SidecarKeys
<1>3. "i" \in Keys(old) /\ "h" \in Keys(old)
  BY EntryValues
<1>4. ParsedEntry(old) = e
  BY EntryRead
<1> HIDE DEF old
<1>5. \A k \in {"i", "h"} : k # key => Get(new, k).v = Get(old, k).v
  BY <1>3 DEF old
<1>6. \A k \in {"t", "x", "d"} : k # key => Given(new, k) = Given(old, k)
  BY DEF old
<1> HIDE DEF Given
<1>7. Heard(new) = [Heard(old) EXCEPT ![key] = Heard(new)[key]]
  BY <1>2, <1>5, <1>6
<1> HIDE DEF Heard
<1> QED
  BY <1>1, <1>4, <1>7

\* What an entry need not say, or may say otherwise, is read as that, and
\* nothing else is read differently.
LEMMA SlippedEntryHeard ==
  ASSUME NEW e, IsEntry(e), NEW way, way \in SidecarSlips(RenderEntry(e))
  PROVE  LET heard == ParsedEntry(Changed(RenderEntry(e), way[1], way[2]))
         IN  /\ heard = [e EXCEPT ![way[2]] = heard[way[2]]]
             /\ \/ way[1] \in {"handle", "expanded", "other"} /\ way[2] # "i"
                \/ way[1] = "keyless" /\ way[2] \in {"t", "x", "d"}
<1> DEFINE line == RenderEntry(e)
           keys == line.keys
           how == way[1]
           key == way[2]
           new == Changed(line, how, key)
           all == {"i", "h"} \cup (IF e.t = "none" THEN {} ELSE {"t"})
                    \cup (IF e.x = "none" THEN {} ELSE {"x"}) \cup (IF e.d = "none" THEN {} ELSE {"d"})
<1>1. Keys(line) = all /\ all \subseteq SidecarKeys
  BY EntryValues DEF SidecarKeys
<1>2. /\ \/ how \in {"handle", "expanded", "other"} /\ key # "i"
         \/ how = "keyless" /\ key \in {"t", "x", "d"}
      /\ key \in Keys(line)
  <2>1. "h" \in Keys(line)
    BY <1>1
  <2> HIDE DEF line
  <2>2. way \in SidecarSlips(line)
    BY DEF line
  <2> QED
    BY <2>1, <2>2 DEF SidecarSlips
<1>3. IsSequence(keys) /\ Distinct(keys)
  BY EntryKeys
<1>4. \A k \in DOMAIN keys : Get(line, keys[k][1]) = keys[k][2] /\ keys[k] \in Values(keys)
  <2>1. \A k \in DOMAIN keys : keys[k] \in Values(keys)
    BY DEF Values
  <2> HIDE DEF keys
  <2>2. \A x \in Values(keys) : x[1] \in Keys(line) /\ Get(line, x[1]) = x[2]
    BY <1>3, HasKey DEF keys
  <2> QED
    BY <2>1, <2>2
<1> HIDE DEF all, line, new, how, key
<1>5. PICK m \in DOMAIN keys : keys[m][1] = key
  BY <1>2 DEF Keys
<1>6. \A k \in DOMAIN keys : k # m => keys[k][1] # key
  BY <1>3, <1>5 DEF Distinct
<1>9. ASSUME \A k \in Keys(new) : k \in Keys(line),
             \A k \in Keys(line) : k # key => k \in Keys(new) /\ Get(new, k) = Get(line, k)
      PROVE  ParsedEntry(new) = [e EXCEPT ![key] = ParsedEntry(new)[key]]
  <2>1. key \in SidecarKeys
    BY <1>1, <1>2
  <2>2. line = RenderEntry(e)
    BY DEF line
  <2> QED
    BY <1>9, <2>1, <2>2, SlippedOnly
<1>7. ASSUME how \in {"handle", "expanded", "other"}
      PROVE  ParsedEntry(new) = [e EXCEPT ![key] = ParsedEntry(new)[key]]
  <2>1. new.keys = KeysBecame(keys, how, keys[m][1])
    <3>1. how \in ValueWays
      BY <1>7 DEF ValueWays
    <3> DEFINE became == KeysBecame(line.keys, how, key)
    <3>2. new = [line EXCEPT !.keys = became] /\ line = [json |-> line.json, keys |-> line.keys]
      <4>1. line = [json |-> line.json, keys |-> line.keys]
        BY DEF line, RenderEntry
      <4> QED
        BY <3>1, <4>1, ChangedIs DEF new
    <3> HIDE DEF became
    <3>3. new.keys = became
      BY <3>2
    <3> QED
      BY <1>5, <3>3 DEF became
  <2>2. \A k \in DOMAIN keys : k # m => Get(new, keys[k][1]) = keys[k][2]
    BY <1>3, <2>1, BecameKeys
  <2>3. \A k \in DOMAIN keys : keys[k][1] \in Keys(new)
    BY <2>1, SameHeads
  <2>4. \A k \in DOMAIN new.keys : k \in DOMAIN keys /\ new.keys[k][1] = keys[k][1]
    <3> DEFINE became == KeysBecame(keys, how, keys[m][1])
    <3>1. DOMAIN became = DOMAIN keys
          /\ \A k \in DOMAIN keys : became[k] = IF keys[k][1] = keys[m][1]
                                                THEN <<keys[m][1], Became(how, keys[k][2])>> ELSE keys[k]
      BY DEF KeysBecame
    <3>2. \A x, y : <<x, y>>[1] = x
      OBVIOUS
    <3> HIDE DEF became, keys
    <3>3. \A k \in DOMAIN keys : became[k][1] = keys[k][1]
      BY <3>1, <3>2
    <3>4. new.keys = became
      BY <2>1 DEF became
    <3> QED
      BY <3>1, <3>3, <3>4
  <2> HIDE DEF keys
  <2>5. Keys(new) = Keys(line)
    BY <2>3, <2>4 DEF Keys, keys
  <2>6. \A k \in Keys(line) : k # key => Get(new, k) = Get(line, k)
    BY <1>4, <1>5, <2>2 DEF Keys, keys
  <2> QED
    BY <1>9, <2>5, <2>6
<1>8. ASSUME how = "keyless"
      PROVE  ParsedEntry(new) = [e EXCEPT ![key] = ParsedEntry(new)[key]]
  <2> DEFINE kept == Without(keys, m)
  <2>1. new.keys = kept
    <3>1. (CHOOSE k \in DOMAIN keys : keys[k][1] = key) = m
      BY <1>5, <1>6
    <3>2. new = [line EXCEPT !.keys = Without(line.keys, CHOOSE k \in DOMAIN line.keys : line.keys[k][1] = key)]
      BY <1>8 DEF Changed, new
    <3>3. new = [line EXCEPT !.keys = kept]
      BY Zenon, <3>1, <3>2
    <3>4. line = [json |-> line.json, keys |-> line.keys]
      BY DEF line, RenderEntry
    <3> HIDE DEF kept
    <3> QED
      BY <3>3, <3>4
  <2>2. /\ IsSequence(kept)
        /\ \A i \in DOMAIN kept : \/ i \in DOMAIN keys /\ i < m /\ kept[i] = keys[i]
                                  \/ i + 1 \in DOMAIN keys /\ m <= i /\ kept[i] = keys[i + 1]
        /\ \A i \in DOMAIN keys : i # m => \E k \in DOMAIN kept : kept[k] = keys[i]
    BY <1>3, <1>5, WithoutOne
  <2>3. key \notin Keys(new)
    BY <1>3, <1>5, <2>1, LostFrom
  <2>4. m \in Int /\ \A i \in DOMAIN kept : i \in Int
    <3>1. DOMAIN keys = 1..Len(keys) /\ Len(keys) \in Nat /\ DOMAIN kept = 1..Len(kept) /\ Len(kept) \in Nat
      BY <1>3, <2>2, Sequences_
    <3> HIDE DEF keys, kept
    <3> QED
      BY <3>1, <1>5
  <2> HIDE DEF kept
  <2>5. Distinct(kept)
    <3> SUFFICES ASSUME NEW i \in DOMAIN kept, NEW j \in DOMAIN kept, kept[i][1] = kept[j][1] PROVE i = j
      BY DEF Distinct
    <3> HIDE DEF keys
    <3>1. \A p \in DOMAIN keys : \A q \in DOMAIN keys : keys[p][1] = keys[q][1] => p = q
      BY <1>3 DEF Distinct
    <3>2. CASE kept[i] = keys[i] /\ i \in DOMAIN keys /\ i < m
      BY <2>2, <2>4, <3>1, <3>2
    <3>3. CASE kept[i] = keys[i + 1] /\ i + 1 \in DOMAIN keys /\ m <= i
      <4>1. CASE kept[j] = keys[j] /\ j \in DOMAIN keys /\ j < m
        BY <2>4, <3>1, <3>3, <4>1
      <4>2. CASE kept[j] = keys[j + 1] /\ j + 1 \in DOMAIN keys /\ m <= j
        <5>1. i + 1 = j + 1
          BY <3>1, <3>3, <4>2
        <5> QED
          BY <5>1, <2>4
      <4> QED
        BY <2>2, <4>1, <4>2
    <3> QED
      BY <2>2, <3>2, <3>3
  <2>6. \A i \in DOMAIN keys : i # m => keys[i][1] \in Keys(new) /\ Get(new, keys[i][1]) = keys[i][2]
    <3> SUFFICES ASSUME NEW i \in DOMAIN keys, i # m
                 PROVE  keys[i][1] \in Keys(new) /\ Get(new, keys[i][1]) = keys[i][2]
      OBVIOUS
    <3>1. keys[i] \in Values(kept)
      BY <2>2 DEF Values
    <3> HIDE DEF keys
    <3> QED
      BY <2>1, <2>2, <2>5, <3>1, HasKey
  <2>7. \A k \in Keys(new) : k \in Keys(line)
    <3> SUFFICES ASSUME NEW i \in DOMAIN kept PROVE kept[i][1] \in Keys(line)
      BY <2>1 DEF Keys
    <3> QED
      BY <2>2 DEF Keys
  <2>8. \A k \in Keys(line) : k # key => k \in Keys(new) /\ Get(new, k) = Get(line, k)
    BY <1>4, <1>5, <2>6 DEF Keys
  <2> QED
    BY <1>9, <2>7, <2>8
<1> QED
  BY <1>2, <1>7, <1>8 DEF line, new, how, key

-----------------------------------------------------------------------------
(* The reading of what was written. *)

\* What moves lines and alters none.
Moves == {"lost", "doubled", "swapped"}

\* A file to which one thing was done that moves its lines, or is one of these
\* ways to alter one.
Hurt(old, new, s, ways) ==
  /\ s.line \in DOMAIN old
  /\ \/ s.how = "lost" /\ new = Without(old, s.line)
     \/ s.how = "doubled" /\ new = Doubled(old, s.line)
     \/ s.how = "swapped" /\ s.line < Len(old) /\ new = Swapped(old, s.line)
     \/ /\ <<s.how, s.key>> \in ways
        /\ new = [old EXCEPT ![s.line] = Changed(old[s.line], s.how, s.key)]

LineWays(lines, n) == StreamWays(lines[n], n = Len(lines)) \cup StreamSlips(lines[n])
EntryWays(lines, n) == SidecarWays(lines[n]) \cup SidecarSlips(lines[n])

\* The files are as they were written, or one thing was done to one of them.
Lying(f, e, s) ==
  LET a == RenderStream(e.records)
      b == RenderSidecar(e.sidecar)
  IN  /\ WellFormed(e) /\ \A n \in DOMAIN e.records : ~Unwritable(e.records[n])
      /\ \/ s = Untouched /\ f.stream = a /\ f.sidecar = b
         \/ s.file = "stream" /\ Hurt(a, f.stream, s, LineWays(a, s.line)) /\ f.sidecar = b
         \/ s.file = "sidecar" /\ Hurt(b, f.sidecar, s, EntryWays(b, s.line)) /\ f.stream = a

\* The lines read so far.
LinesRead(p, f) ==
  /\ IsSequence(p.records) /\ Len(p.records) <= Len(f.stream)
  /\ \A n \in DOMAIN p.records : Accepted(f.stream[n]) /\ p.records[n] = ParsedRecord(f.stream[n])

EntriesRead(p, f) ==
  /\ IsSequence(p.entries) /\ Len(p.entries) <= Len(f.sidecar) /\ Len(p.records) = Len(f.stream)
  /\ \A n \in DOMAIN p.entries :
       Passes(f.sidecar[n], n, p.records) /\ p.entries[n] = ParsedEntry(f.sidecar[n])

BothFiles == files = [stream |-> files.stream, sidecar |-> files.sidecar]
BothParts == parsed = [records |-> parsed.records, entries |-> parsed.entries]

ReadInv ==
  /\ BothParts
  /\ state \in {"emitting", "written"} => parsed.records = <<>>
  /\ state \in {"emitting", "written", "stream"} => parsed.entries = <<>>
  /\ state \in {"emitting", "written"} => spoiled = Untouched
  /\ state \in {"written", "stream", "sidecar", "read", "refused"} => Finished /\ Lying(files, emission, spoiled)
  /\ state = "written" => BothFiles
  /\ state \in {"stream", "sidecar", "read"} => LinesRead(parsed, files)
  /\ state \in {"sidecar", "read"} => EntriesRead(parsed, files)
  /\ state = "read" => Len(parsed.entries) = Len(files.sidecar) /\ Len(parsed.entries) = Len(parsed.records)

LEMMA Rendered ==
  ASSUME NEW e, WellFormed(e)
  PROVE  /\ IsSequence(RenderStream(e.records)) /\ Len(RenderStream(e.records)) = Len(e.records)
         /\ DOMAIN RenderStream(e.records) = DOMAIN e.records
         /\ IsSequence(RenderSidecar(e.sidecar)) /\ Len(RenderSidecar(e.sidecar)) = Len(e.records)
         /\ DOMAIN RenderSidecar(e.sidecar) = DOMAIN e.records
         /\ \A n \in DOMAIN e.records : RenderStream(e.records)[n] = RenderRecord(e.records[n])
         /\ \A n \in DOMAIN e.records : RenderSidecar(e.sidecar)[n] = RenderEntry(e.sidecar[n])
<1> DEFINE a == RenderStream(e.records)
           b == RenderSidecar(e.sidecar)
<1>1. a = [n \in DOMAIN e.records |-> RenderRecord(e.records[n])]
  BY DEF RenderStream
<1>2. b = [n \in DOMAIN e.sidecar |-> RenderEntry(e.sidecar[n])]
  BY DEF RenderSidecar
<1>3. /\ IsSequence(e.records) /\ IsSequence(e.sidecar) /\ Len(e.sidecar) = Len(e.records)
      /\ DOMAIN e.records = 1..Len(e.records) /\ DOMAIN e.sidecar = 1..Len(e.sidecar)
  BY Sequences_ DEF WellFormed
<1> HIDE DEF a, b
<1>4. a = [n \in DOMAIN e.records |-> a[n]] /\ b = [n \in DOMAIN e.sidecar |-> b[n]]
  BY <1>1, <1>2
<1>5. /\ IsSequence(a) /\ Len(a) = Len(e.records) /\ DOMAIN a = DOMAIN e.records
      /\ IsSequence(b) /\ Len(b) = Len(e.sidecar) /\ DOMAIN b = DOMAIN e.sidecar
  BY <1>3, <1>4, SameLength
<1>6. /\ \A n \in DOMAIN e.records : a[n] = RenderRecord(e.records[n])
      /\ \A n \in DOMAIN e.sidecar : b[n] = RenderEntry(e.sidecar[n])
  BY <1>1, <1>2
<1> QED
  BY <1>3, <1>5, <1>6 DEF a, b

LEMMA DoubledOne ==
  ASSUME NEW s, IsSequence(s), NEW n \in DOMAIN s
  PROVE  /\ IsSequence(Doubled(s, n)) /\ Len(Doubled(s, n)) = Len(s) + 1
         /\ \A i \in DOMAIN Doubled(s, n) :
              \/ i \in DOMAIN s /\ i <= n /\ Doubled(s, n)[i] = s[i]
              \/ i - 1 \in DOMAIN s /\ n < i /\ Doubled(s, n)[i] = s[i - 1]
<1> DEFINE front == SubSeq(s, 1, n)
           back == SubSeq(s, n, Len(s))
           j == Doubled(s, n)
<1>1. Len(s) \in Nat /\ DOMAIN s = 1..Len(s) /\ n \in Nat /\ 1 <= n /\ n <= Len(s)
  BY Sequences_
<1>2. /\ IsSequence(front) /\ DOMAIN front = 1..n /\ Len(front) = n
      /\ \A i \in 1..n : front[i] = s[i]
  <2> DEFINE one == 1
  <2>1. one \in Nat \ {0} /\ one <= n + 1
    BY <1>1
  <2> HIDE DEF one
  <2>2. /\ IsSequence(SubSeq(s, one, n)) /\ Len(SubSeq(s, one, n)) = n - one + 1
        /\ DOMAIN SubSeq(s, one, n) = 1..(n - one + 1)
        /\ \A i \in 1..(n - one + 1) : SubSeq(s, one, n)[i] = s[one + i - 1]
    BY <1>1, <2>1, PartOf
  <2>3. n - one + 1 = n /\ \A i \in 1..n : one + i - 1 = i
    BY <1>1 DEF one
  <2> QED
    BY Zenon, <2>2, <2>3 DEF one
<1>3. /\ IsSequence(back) /\ Len(back) = Len(s) - n + 1 /\ DOMAIN back = 1..(Len(s) - n + 1)
      /\ \A i \in 1..(Len(s) - n + 1) : back[i] = s[n + i - 1]
  BY <1>1, PartOf
<1>4. j = front \o back
  BY DEF Doubled
<1> HIDE DEF front, back, j
<1>5. /\ IsSequence(j) /\ Len(j) = Len(front) + Len(back) /\ DOMAIN j = 1..(Len(front) + Len(back))
      /\ \A i \in DOMAIN j : \/ i \in DOMAIN front /\ j[i] = front[i]
                             \/ i - Len(front) \in DOMAIN back /\ j[i] = back[i - Len(front)]
  BY Zenon, <1>2, <1>3, <1>4, Joined
<1>6. Len(j) = Len(s) + 1 /\ DOMAIN j = 1..(Len(s) + 1)
  BY <1>1, <1>2, <1>3, <1>5
<1>7. ASSUME NEW i \in DOMAIN j
      PROVE  \/ i \in DOMAIN s /\ i <= n /\ j[i] = s[i]
             \/ i - 1 \in DOMAIN s /\ n < i /\ j[i] = s[i - 1]
  <2>1. CASE i \in DOMAIN front /\ j[i] = front[i]
    BY <2>1, <1>1, <1>2
  <2>2. CASE i - Len(front) \in DOMAIN back /\ j[i] = back[i - Len(front)]
    <3> DEFINE k == i - n
    <3>1. k \in 1..(Len(s) - n + 1) /\ j[i] = back[k]
      BY <2>2, <1>2, <1>3
    <3>2. i \in Int
      BY <1>6, <1>1
    <3>3. n + k - 1 = i - 1 /\ n < i /\ i - 1 \in DOMAIN s
      BY <3>1, <3>2, <1>1
    <3> HIDE DEF k
    <3>4. back[k] = s[n + k - 1]
      BY <3>1, <1>3
    <3> QED
      BY <3>1, <3>3, <3>4
  <2> QED
    BY <2>1, <2>2, <1>5
<1> QED
  BY <1>5, <1>6, <1>7 DEF j

LEMMA SwappedTwo ==
  ASSUME NEW s, IsSequence(s), NEW n \in DOMAIN s, n < Len(s)
  PROVE  /\ IsSequence(Swapped(s, n)) /\ Len(Swapped(s, n)) = Len(s) /\ DOMAIN Swapped(s, n) = DOMAIN s
         /\ n + 1 \in DOMAIN s
         /\ Swapped(s, n)[n] = s[n + 1] /\ Swapped(s, n)[n + 1] = s[n]
         /\ \A i \in DOMAIN s : i # n /\ i # n + 1 => Swapped(s, n)[i] = s[i]
<1> DEFINE a == s[n]
           b == s[n + 1]
           j == [s EXCEPT ![n] = b, ![n + 1] = a]
<1>1. Len(s) \in Nat /\ DOMAIN s = 1..Len(s)
  BY Sequences_
<1>2. n + 1 \in DOMAIN s /\ n + 1 # n
  BY <1>1
<1>3. j = Swapped(s, n)
  BY DEF Swapped
<1> HIDE DEF a, b
<1>4. /\ DOMAIN j = DOMAIN s /\ j = [i \in DOMAIN s |-> j[i]] /\ j[n] = b /\ j[n + 1] = a
      /\ \A i \in DOMAIN s : i # n /\ i # n + 1 => j[i] = s[i]
  BY <1>2
<1> HIDE DEF j
<1>5. IsSequence(j) /\ Len(j) = Len(s)
  BY <1>4, SameLength
<1> QED
  BY <1>2, <1>3, <1>4, <1>5 DEF a, b

\* Where the line that lies in a place of the file was written.
From(s, n) ==
  IF s.how = "lost" THEN (IF n < s.line THEN n ELSE n + 1)
  ELSE IF s.how = "doubled" THEN (IF n <= s.line THEN n ELSE n - 1)
  ELSE IF s.how = "swapped" THEN (IF n = s.line THEN n + 1 ELSE IF n = s.line + 1 THEN n - 1 ELSE n)
  ELSE n

\* Every line of the file is one that was written, but for the altered one.
Placed(old, new, s) ==
  /\ IsSequence(new)
  /\ Len(new) = IF s.how = "lost" THEN Len(old) - 1 ELSE IF s.how = "doubled" THEN Len(old) + 1 ELSE Len(old)
  /\ \A n \in DOMAIN new :
       IF s.how \in Moves \/ n # s.line THEN From(s, n) \in DOMAIN old /\ new[n] = old[From(s, n)]
       ELSE n \in DOMAIN old /\ new[n] = Changed(old[n], s.how, s.key)

LEMMA HurtIs ==
  ASSUME NEW old, IsSequence(old), NEW new, NEW s, NEW ways, Hurt(old, new, s, ways),
         <<s.how, s.key>> \in ways => s.how \notin Moves
  PROVE  Placed(old, new, s)
<1> DEFINE n == s.line
<1>0. n \in DOMAIN old /\ n \in Int /\ \A i \in DOMAIN new : IsSequence(new) => i \in Int
  <2>1. IsSequence(new) => DOMAIN new = 1..Len(new) /\ Len(new) \in Nat
    BY Sequences_
  <2>2. DOMAIN old = 1..Len(old) /\ Len(old) \in Nat /\ n \in DOMAIN old
    BY Sequences_ DEF Hurt
  <2> QED
    BY <2>1, <2>2
<1>1. CASE s.how = "lost" /\ new = Without(old, n)
  <2>1. /\ IsSequence(new) /\ Len(new) = Len(old) - 1
        /\ \A i \in DOMAIN new : \/ i \in DOMAIN old /\ i < n /\ new[i] = old[i]
                                 \/ i + 1 \in DOMAIN old /\ n <= i /\ new[i] = old[i + 1]
    BY <1>0, <1>1, WithoutOne
  <2> QED
    BY <1>0, <1>1, <2>1 DEF Placed, From, Moves
<1>2. CASE s.how = "doubled" /\ new = Doubled(old, n)
  <2>1. /\ IsSequence(new) /\ Len(new) = Len(old) + 1
        /\ \A i \in DOMAIN new : \/ i \in DOMAIN old /\ i <= n /\ new[i] = old[i]
                                 \/ i - 1 \in DOMAIN old /\ n < i /\ new[i] = old[i - 1]
    BY <1>0, <1>2, DoubledOne
  <2> QED
    BY <1>0, <1>2, <2>1 DEF Placed, From, Moves
<1>3. CASE s.how = "swapped" /\ n < Len(old) /\ new = Swapped(old, n)
  <2>1. /\ IsSequence(new) /\ Len(new) = Len(old) /\ DOMAIN new = DOMAIN old /\ n + 1 \in DOMAIN old
        /\ new[n] = old[n + 1] /\ new[n + 1] = old[n]
        /\ \A i \in DOMAIN old : i # n /\ i # n + 1 => new[i] = old[i]
    BY <1>0, <1>3, SwappedTwo
  <2>2. n + 1 - 1 = n /\ n + 1 # n
    BY <1>0
  <2> QED
    BY <1>0, <1>3, <2>1, <2>2 DEF Placed, From, Moves
<1>4. CASE <<s.how, s.key>> \in ways /\ new = [old EXCEPT ![n] = Changed(old[n], s.how, s.key)]
  <2> DEFINE line == Changed(old[n], s.how, s.key)
  <2>1. s.how \notin Moves
    BY <1>4
  <2> HIDE DEF line
  <2>2. /\ DOMAIN new = DOMAIN old /\ new = [i \in DOMAIN old |-> new[i]] /\ new[n] = line
        /\ \A i \in DOMAIN old : i # n => new[i] = old[i]
    BY <1>0, <1>4 DEF line
  <2>3. IsSequence(new) /\ Len(new) = Len(old)
    BY <2>2, SameLength
  <2>4. s.how # "lost" /\ s.how # "doubled" /\ s.how # "swapped"
    BY <2>1 DEF Moves
  <2>5. \A i : From(s, i) = i
    BY <2>4 DEF From
  <2> HIDE DEF n
  <2>6. ASSUME NEW i \in DOMAIN new
        PROVE  IF s.how \in Moves \/ i # n THEN From(s, i) \in DOMAIN old /\ new[i] = old[From(s, i)]
               ELSE i \in DOMAIN old /\ new[i] = Changed(old[i], s.how, s.key)
    <3>1. CASE i = n
      BY <2>1, <2>2, <3>1 DEF line
    <3>2. CASE i # n
      BY <2>1, <2>2, <2>5, <3>2
    <3> QED
      BY <3>1, <3>2
  <2>7. Len(new) = IF s.how = "lost" THEN Len(old) - 1 ELSE IF s.how = "doubled" THEN Len(old) + 1 ELSE Len(old)
    BY <2>3, <2>4
  <2> QED
    BY <2>3, <2>6, <2>7 DEF Placed, n
<1> QED
  BY <1>1, <1>2, <1>3, <1>4 DEF Hurt

LEMMA PairIs == \A way : (\E x, y : way = <<x, y>>) => way = <<way[1], way[2]>>
OBVIOUS

\* The ways a line can be altered do not move it.
LEMMA AlteredStays ==
  ASSUME NEW line, NEW last, NEW way,
         way \in StreamWays(line, last) \cup StreamSlips(line) \cup SidecarWays(line) \cup SidecarSlips(line)
  PROVE  way[1] \notin Moves
<1>1. \A type : NotAllowed(type) \cap Moves = {}
  BY DEF NotAllowed, Moves
<1>2. \A key : NotForKey(key) \cap Moves = {}
  BY DEF NotForKey, Moves
<1>3. ASSUME NEW key, NEW value, way \in Ways(key, value) PROVE way[1] \notin Moves
  <2>1. \E how \in {"keyless"} \cup NotAllowed(value.t) \cup NotForKey(key) : way = <<how, key>>
    BY <1>3 DEF Ways
  <2>2. "keyless" \notin Moves
    BY DEF Moves
  <2> QED
    BY <2>1, <2>2, <1>1, <1>2
<1>4. CASE way \in StreamWays(line, last)
  <2> DEFINE texts == {"empty", "junk", "array", "overflowing", "nan", "cr",
                       "extra"} \cup IF last THEN {"unended"} ELSE {}
  <2>1. \/ way \in {<<how, "none">> : how \in texts}
        \/ \E m \in DOMAIN line.keys : way \in Ways(line.keys[m][1], line.keys[m][2])
    BY <1>4 DEF StreamWays
  <2>2. texts \cap Moves = {}
    BY DEF Moves
  <2> HIDE DEF texts
  <2>3. CASE way \in {<<how, "none">> : how \in texts}
    BY <2>2, <2>3
  <2> QED
    BY <1>3, <2>1, <2>3
<1>5. CASE way \in SidecarWays(line)
  BY <1>5 DEF SidecarWays, Moves
<1>6. CASE way \in SidecarSlips(line)
  BY <1>6 DEF SidecarSlips, Moves
<1>7. CASE way \in StreamSlips(line)
  <2>1. PICK m \in DOMAIN line.keys : way \in Slips(line.keys[m][1], line.keys[m][2])
    BY <1>7 DEF StreamSlips
  <2>2. \E key, value : way \in Slips(key, value)
    BY <2>1
  <2>3. PICK key, value : way \in Slips(key, value)
    BY <2>2
  <2>4. way[1] \in {"other", "shorter"}
    BY <2>3 DEF Slips
  <2> QED
    BY <2>4 DEF Moves
<1> QED
  BY <1>4, <1>5, <1>6, <1>7

\* The records of the lines that were written are of the kinds they were.
LEMMA ReadKind ==
  ASSUME NEW r, r.record \in Kinds
  PROVE  ParsedRecord(RenderRecord(r)).record = r.record
<1>1. Get(RenderRecord(r), "record").v = r.record
  BY RenderedValues, ValueIs
<1> QED
  BY <1>1 DEF ParsedRecord

\* What lies there, line by line.
LEMMA LyingIs ==
  ASSUME NEW f, NEW e, NEW s, Lying(f, e, s)
  PROVE  LET a == RenderStream(e.records)
             b == RenderSidecar(e.sidecar)
         IN  /\ IsSequence(f.stream) /\ IsSequence(f.sidecar)
             /\ \/ s = Untouched /\ f.stream = a /\ f.sidecar = b
                \/ /\ s.file = "stream" /\ Placed(a, f.stream, s) /\ f.sidecar = b /\ s.line \in DOMAIN e.records
                   /\ s.how \in Moves \/ <<s.how, s.key>> \in LineWays(a, s.line)
                   /\ s.how = "swapped" => s.line + 1 \in DOMAIN e.records
                \/ /\ s.file = "sidecar" /\ Placed(b, f.sidecar, s) /\ f.stream = a /\ s.line \in DOMAIN e.records
                   /\ s.how \in Moves \/ <<s.how, s.key>> \in EntryWays(b, s.line)
                   /\ s.how = "swapped" => s.line + 1 \in DOMAIN e.records
<1> DEFINE a == RenderStream(e.records)
           b == RenderSidecar(e.sidecar)
<1>1. /\ IsSequence(a) /\ IsSequence(b) /\ DOMAIN a = DOMAIN e.records /\ DOMAIN b = DOMAIN e.records
      /\ Len(a) = Len(e.records) /\ Len(b) = Len(e.records)
      /\ DOMAIN e.records = 1..Len(e.records) /\ Len(e.records) \in Nat
  BY Rendered, Sequences_ DEF Lying, WellFormed
<1>2. \/ s = Untouched /\ f.stream = a /\ f.sidecar = b
      \/ s.file = "stream" /\ Hurt(a, f.stream, s, LineWays(a, s.line)) /\ f.sidecar = b
      \/ s.file = "sidecar" /\ Hurt(b, f.sidecar, s, EntryWays(b, s.line)) /\ f.stream = a
  BY DEF Lying
<1>3. \A x, y : <<x, y>>[1] = x
  OBVIOUS
<1>4. /\ <<s.how, s.key>> \in LineWays(a, s.line) => s.how \notin Moves
      /\ <<s.how, s.key>> \in EntryWays(b, s.line) => s.how \notin Moves
  <2> DEFINE way == <<s.how, s.key>>
             last == s.line = Len(a)
  <2>1. way \in LineWays(a, s.line) => way \in StreamWays(a[s.line], last) \cup StreamSlips(a[s.line])
    BY DEF LineWays
  <2>2. way \in EntryWays(b, s.line) => way \in SidecarWays(b[s.line]) \cup SidecarSlips(b[s.line])
    BY DEF EntryWays
  <2>3. way[1] = s.how
    BY <1>3
  <2> HIDE DEF way, last, a, b
  <2>4. way \in LineWays(a, s.line) => way[1] \notin Moves
    BY <2>1, AlteredStays
  <2>5. way \in EntryWays(b, s.line) => way[1] \notin Moves
    BY <2>2, AlteredStays
  <2> QED
    BY <2>3, <2>4, <2>5 DEF way
<1>5. ASSUME NEW old, old \in {a, b}, NEW new, NEW ways, Hurt(old, new, s, ways),
             <<s.how, s.key>> \in ways => s.how \notin Moves
      PROVE  /\ IsSequence(new) /\ Placed(old, new, s) /\ s.line \in DOMAIN e.records
             /\ s.how \in Moves \/ <<s.how, s.key>> \in ways
             /\ s.how = "swapped" => s.line + 1 \in DOMAIN e.records
  <2> HIDE DEF a, b
  <2>1. IsSequence(old) /\ DOMAIN old = DOMAIN e.records /\ Len(old) = Len(e.records)
    BY <1>1, <1>5
  <2>2. Placed(old, new, s)
    BY <1>5, <2>1, HurtIs
  <2>3. s.line \in DOMAIN e.records /\ (s.how \in Moves \/ <<s.how, s.key>> \in ways)
    BY <1>5, <2>1 DEF Hurt, Moves
  <2>4. s.how = "swapped" => s.line < Len(old)
    BY <1>5 DEF Hurt, Moves
  <2> QED
    BY <1>1, <2>1, <2>2, <2>3, <2>4 DEF Placed
<1> HIDE DEF a, b
<1>6. CASE s = Untouched /\ f.stream = a /\ f.sidecar = b
  BY <1>1, <1>6 DEF a, b
<1>7. CASE s.file = "stream" /\ Hurt(a, f.stream, s, LineWays(a, s.line)) /\ f.sidecar = b
  BY <1>1, <1>4, <1>5, <1>7 DEF a, b
<1>8. CASE s.file = "sidecar" /\ Hurt(b, f.sidecar, s, EntryWays(b, s.line)) /\ f.stream = a
  BY <1>1, <1>4, <1>5, <1>8 DEF a, b
<1> QED
  BY <1>2, <1>6, <1>7, <1>8

LEMMA WriteStep ==
  ASSUME ReadInv, Finished => WellFormed(emission), Write
  PROVE  ReadInv'
<1> USE DEF BothParts, BothFiles
<1>1. /\ state = "emitting" /\ Finished /\ emission' = emission /\ parsed' = parsed /\ spoiled' = spoiled
      /\ \/ state' = "unwritten"
         \/ /\ state' = "written"
            /\ \A n \in DOMAIN emission.records : ~Unwritable(emission.records[n])
            /\ files' = [stream |-> RenderStream(emission.records), sidecar |-> RenderSidecar(emission.sidecar)]
  BY Zenon DEF Write
<1>2. WellFormed(emission) /\ Finished'
  BY <1>1 DEF Finished
<1>3. CASE state' = "unwritten"
  BY <1>1, <1>3 DEF ReadInv
<1>4. CASE /\ state' = "written"
           /\ \A n \in DOMAIN emission.records : ~Unwritable(emission.records[n])
           /\ files' = [stream |-> RenderStream(emission.records), sidecar |-> RenderSidecar(emission.sidecar)]
  <2>1. /\ files'.stream = RenderStream(emission.records) /\ files'.sidecar = RenderSidecar(emission.sidecar)
        /\ files' = [stream |-> files'.stream, sidecar |-> files'.sidecar]
    BY <1>4
  <2>4. Lying(files', emission, Untouched)
    BY <1>2, <1>4, <2>1 DEF Lying
  <2>5. spoiled' = Untouched
    BY <1>1 DEF ReadInv
  <2> QED
    BY <1>1, <1>2, <1>4, <2>1, <2>4, <2>5 DEF ReadInv
<1> QED
  BY <1>1, <1>3, <1>4

LEMMA NothingRead ==
  ASSUME NEW p, p.records = <<>>, NEW f, IsSequence(f.stream)
  PROVE  LinesRead(p, f)
<1>1. IsSequence(<<>>) /\ DOMAIN <<>> = {} /\ Len(<<>>) = 0
  BY NoKeys
<1>2. Len(f.stream) \in Nat
  BY Sequences_
<1> QED
  BY <1>1, <1>2 DEF LinesRead

\* Spoiling does one thing to one of the files.
LEMMA SpoilDoes ==
  ASSUME ReadInv, Spoil
  PROVE  Lying(files', emission, spoiled')
<1> DEFINE f == files
           g == files'
           e == emission
           s == spoiled'
           a == RenderStream(e.records)
           b == RenderSidecar(e.sidecar)
           Ways_(name, n) == IF name = "stream" THEN StreamWays(f[name][n], n = Len(f[name])) \cup StreamSlips(f[name][n])
                             ELSE SidecarWays(f[name][n]) \cup SidecarSlips(f[name][n])
           Did(name, n) ==
             \/ \E way \in Ways_(name, n) :
                  /\ g = [f EXCEPT ![name][n] = Changed(f[name][n], way[1], way[2])]
                  /\ s = [file |-> name, line |-> n, how |-> way[1], key |-> way[2]]
             \/ /\ g = [f EXCEPT ![name] = Without(f[name], n)]
                /\ s = [file |-> name, line |-> n, how |-> "lost", key |-> "none"]
             \/ /\ g = [f EXCEPT ![name] = Doubled(f[name], n)]
                /\ s = [file |-> name, line |-> n, how |-> "doubled", key |-> "none"]
             \/ /\ n < Len(f[name])
                /\ g = [f EXCEPT ![name] = Swapped(f[name], n)]
                /\ s = [file |-> name, line |-> n, how |-> "swapped", key |-> "none"]
<1>1. state = "written"
  BY DEF Spoil
<1>2. Lying(f, e, Untouched) /\ f = [stream |-> f.stream, sidecar |-> f.sidecar]
  BY <1>1 DEF ReadInv, BothFiles
<1>3. /\ WellFormed(e) /\ \A n \in DOMAIN e.records : ~Unwritable(e.records[n])
      /\ f.stream = a /\ f.sidecar = b
  <2>1. Untouched.file = "neither"
    BY DEF Untouched
  <2> QED
    BY <1>2, <2>1 DEF Lying
<1>4. PICK name \in {"stream", "sidecar"} : \E n \in DOMAIN f[name] : Did(name, n)
  BY Zenon DEF Spoil
<1>5. PICK n \in DOMAIN f[name] : Did(name, n)
  BY <1>4
<1>6. DOMAIN f = {"stream", "sidecar"}
  BY <1>2
<1> DEFINE ways == Ways_(name, n)
           old == f[name]
           new == g[name]
<1>7. \A way \in Ways_(name, n) : way = <<way[1], way[2]>>
  <2> SUFFICES ASSUME NEW way \in Ways_(name, n) PROVE \E x, y : way = <<x, y>>
    BY PairIs
  <2>1. \A line, last : \A w \in StreamWays(line, last) : \E x, y : w = <<x, y>>
    BY DEF StreamWays, Ways
  <2>2. \A line : \A w \in SidecarWays(line) \cup SidecarSlips(line) : \E x, y : w = <<x, y>>
    BY DEF SidecarWays, SidecarSlips
  <2>3. \A key, value : \A w \in Slips(key, value) : \E x, y : w = <<x, y>>
    BY DEF Slips
  <2>4. \A line : \A w \in StreamSlips(line) : \E x, y : w = <<x, y>>
    BY <2>3 DEF StreamSlips
  <2> QED
    BY <2>1, <2>2, <2>4
<1> HIDE DEF f, g, e, s
<1>8. /\ s.file = name /\ s.line = n /\ Hurt(old, new, s, ways) /\ g = [f EXCEPT ![name] = new]
  <2> HIDE DEF ways
  <2>1. CASE \E way \in Ways_(name, n) :
                  /\ g = [f EXCEPT ![name][n] = Changed(f[name][n], way[1], way[2])]
                  /\ s = [file |-> name, line |-> n, how |-> way[1], key |-> way[2]]
    <3>1. PICK way \in ways :
                  /\ g = [f EXCEPT ![name][n] = Changed(f[name][n], way[1], way[2])]
                  /\ s = [file |-> name, line |-> n, how |-> way[1], key |-> way[2]]
      BY Zenon, <2>1 DEF ways
    <3>2. s.file = name /\ s.line = n /\ s.how = way[1] /\ s.key = way[2]
      BY <3>1
    <3>3. <<s.how, s.key>> \in ways
      BY <1>7, <3>1, <3>2 DEF ways
    <3> DEFINE line == Changed(f[name][n], way[1], way[2])
    <3>4. g = [f EXCEPT ![name][n] = line]
      BY Zenon, <3>1
    <3>5. line = Changed(old[s.line], s.how, s.key)
      BY <3>2
    <3> HIDE DEF line, ways
    <3>6. new = [old EXCEPT ![n] = line] /\ g = [f EXCEPT ![name] = new]
      BY <1>6, <3>4
    <3> HIDE DEF new, old
    <3>7. s.line \in DOMAIN old
      BY <3>2 DEF old
    <3>8. new = [old EXCEPT ![s.line] = Changed(old[s.line], s.how, s.key)]
      BY Zenon, <3>2, <3>5, <3>6
    <3>9. Hurt(old, new, s, ways)
      BY <3>3, <3>7, <3>8 DEF Hurt
    <3> QED
      BY <3>2, <3>6, <3>9
  <2>2. ASSUME NEW lines, g = [f EXCEPT ![name] = lines] PROVE new = lines /\ g = [f EXCEPT ![name] = new]
    BY <1>6, <2>2
  <2>3. CASE /\ g = [f EXCEPT ![name] = Without(f[name], n)]
             /\ s = [file |-> name, line |-> n, how |-> "lost", key |-> "none"]
    <3>1. new = Without(old, n) /\ g = [f EXCEPT ![name] = new]
      BY <2>2, <2>3
    <3>2. s.file = name /\ s.line = n /\ s.how = "lost"
      BY <2>3
    <3> HIDE DEF new, old
    <3> QED
      BY <3>1, <3>2 DEF Hurt, old
  <2>4. CASE /\ g = [f EXCEPT ![name] = Doubled(f[name], n)]
             /\ s = [file |-> name, line |-> n, how |-> "doubled", key |-> "none"]
    <3>1. new = Doubled(old, n) /\ g = [f EXCEPT ![name] = new]
      BY <2>2, <2>4
    <3>2. s.file = name /\ s.line = n /\ s.how = "doubled"
      BY <2>4
    <3> HIDE DEF new, old
    <3> QED
      BY <3>1, <3>2 DEF Hurt, old
  <2>5. CASE /\ n < Len(f[name]) /\ g = [f EXCEPT ![name] = Swapped(f[name], n)]
             /\ s = [file |-> name, line |-> n, how |-> "swapped", key |-> "none"]
    <3>1. new = Swapped(old, n) /\ g = [f EXCEPT ![name] = new] /\ n < Len(old)
      BY <2>2, <2>5
    <3>2. s.file = name /\ s.line = n /\ s.how = "swapped"
      BY <2>5
    <3> HIDE DEF new, old
    <3> QED
      BY <3>1, <3>2 DEF Hurt, old
  <2> QED
    BY Zenon, <1>5, <2>1, <2>3, <2>4, <2>5
<1>9. CASE name = "stream"
  <2>1. old = a /\ new = g.stream /\ ways = LineWays(a, n) /\ g.sidecar = f.sidecar
    BY <1>3, <1>6, <1>8, <1>9 DEF LineWays
  <2> HIDE DEF old, new, ways, a, b
  <2>2. s.file = "stream" /\ Hurt(a, g.stream, s, LineWays(a, s.line)) /\ g.sidecar = b
    BY <1>3, <1>8, <1>9, <2>1
  <2> QED
    BY <1>3, <2>2 DEF Lying, a, b, g, s, e
<1>10. CASE name = "sidecar"
  <2>1. old = b /\ new = g.sidecar /\ ways = EntryWays(b, n) /\ g.stream = f.stream
    BY <1>3, <1>6, <1>8, <1>10 DEF EntryWays
  <2> HIDE DEF old, new, ways, a, b
  <2>2. s.file = "sidecar" /\ Hurt(b, g.sidecar, s, EntryWays(b, s.line)) /\ g.stream = a
    BY <1>3, <1>8, <1>10, <2>1
  <2> QED
    BY <1>3, <2>2 DEF Lying, a, b, g, s, e
<1> QED
  BY <1>4, <1>9, <1>10

LEMMA OpenStep ==
  ASSUME ReadInv, Open \/ Spoil
  PROVE  ReadInv'
<1>1. state = "written" /\ state' = "stream" /\ emission' = emission /\ parsed' = parsed
  BY DEF Open, Spoil, emitVars
<1>2. Lying(files', emission, spoiled')
  BY <1>1, SpoilDoes DEF Open, ReadInv
<1>3. parsed.records = <<>> /\ parsed.entries = <<>> /\ Finished' /\ BothParts'
  BY <1>1 DEF ReadInv, Finished, BothParts
<1>4. IsSequence(files'.stream)
  BY <1>2, LyingIs
<1>5. LinesRead(parsed', files')
  BY <1>1, <1>3, <1>4, NothingRead
<1> QED
  BY <1>1, <1>2, <1>3, <1>5 DEF ReadInv

LEMMA LineTaken ==
  ASSUME ReadLine
  PROVE  LET n == Len(parsed.records) + 1
             line == files.stream[n]
         IN  \/ n > Len(files.stream) /\ state' = "sidecar" /\ parsed' = parsed
             \/ state' = "refused" /\ parsed' = parsed
             \/ /\ ~(n > Len(files.stream)) /\ Accepted(line) /\ state' = state
                /\ parsed' = [parsed EXCEPT !["records"] = Append(@, ParsedRecord(line))]
<1> DEFINE n == Len(parsed.records) + 1
           line == files.stream[n]
<1>1. IF n > Len(files.stream) THEN GoOn("sidecar")
      ELSE IF ~Accepted(line) THEN Refuse("stream", n, LineFault(line))
      ELSE Accept("records", ParsedRecord(line))
  BY Zenon DEF ReadLine, Accepted
<1> HIDE DEF n, line
<1>2. \/ n > Len(files.stream) /\ GoOn("sidecar")
      \/ Refuse("stream", n, LineFault(line))
      \/ ~(n > Len(files.stream)) /\ Accepted(line) /\ Accept("records", ParsedRecord(line))
  BY <1>1
<1>3. CASE n > Len(files.stream) /\ GoOn("sidecar")
  BY <1>3 DEF GoOn, n, line
<1>4. CASE Refuse("stream", n, LineFault(line))
  BY <1>4 DEF Refuse, n, line
<1>5. CASE ~(n > Len(files.stream)) /\ Accepted(line) /\ Accept("records", ParsedRecord(line))
  BY <1>5 DEF Accept, n, line
<1> QED
  BY <1>2, <1>3, <1>4, <1>5

LEMMA EntryTaken ==
  ASSUME ReadEntry
  PROVE  LET n == Len(parsed.entries) + 1
             line == files.sidecar[n]
         IN  \/ /\ n > Len(files.sidecar) /\ Len(parsed.entries) = Len(parsed.records)
                /\ state' = "read" /\ parsed' = parsed
             \/ state' = "refused" /\ parsed' = parsed
             \/ /\ ~(n > Len(files.sidecar)) /\ Passes(line, n, parsed.records) /\ state' = state
                /\ parsed' = [parsed EXCEPT !["entries"] = Append(@, ParsedEntry(line))]
<1> DEFINE n == Len(parsed.entries) + 1
           line == files.sidecar[n]
           fault == EntryFault(line, n, parsed.records)
<1>1. IF n > Len(files.sidecar)
      THEN IF Len(parsed.entries) = Len(parsed.records) THEN GoOn("read")
           ELSE Refuse("sidecar", 0, "CountMismatch")
      ELSE IF ~Passes(line, n, parsed.records) THEN Refuse("sidecar", n, fault)
      ELSE Accept("entries", ParsedEntry(line))
  BY Zenon DEF ReadEntry, Passes
<1> HIDE DEF n, line, fault
<1>2. \/ n > Len(files.sidecar) /\ Len(parsed.entries) = Len(parsed.records) /\ GoOn("read")
      \/ Refuse("sidecar", 0, "CountMismatch") \/ Refuse("sidecar", n, fault)
      \/ ~(n > Len(files.sidecar)) /\ Passes(line, n, parsed.records) /\ Accept("entries", ParsedEntry(line))
  BY <1>1
<1>3. CASE n > Len(files.sidecar) /\ Len(parsed.entries) = Len(parsed.records) /\ GoOn("read")
  BY <1>3 DEF GoOn, n, line
<1>4. CASE Refuse("sidecar", 0, "CountMismatch") \/ Refuse("sidecar", n, fault)
  BY <1>4 DEF Refuse, n, line
<1>5. CASE ~(n > Len(files.sidecar)) /\ Passes(line, n, parsed.records) /\ Accept("entries", ParsedEntry(line))
  BY <1>5 DEF Accept, n, line
<1> QED
  BY <1>2, <1>3, <1>4, <1>5

LEMMA LineStep ==
  ASSUME ReadInv, ReadLine
  PROVE  ReadInv'
<1> DEFINE n == Len(parsed.records) + 1
           line == files.stream[n]
           p == parsed'
<1>1. state = "stream" /\ emission' = emission /\ files' = files /\ spoiled' = spoiled
  BY Zenon DEF ReadLine, emitVars
<1>2. /\ Lying(files, emission, spoiled) /\ Finished /\ Finished' /\ LinesRead(parsed, files) /\ parsed.entries = <<>>
      /\ parsed = [records |-> parsed.records, entries |-> parsed.entries]
  BY <1>1 DEF ReadInv, Finished, BothParts
<1>3. /\ IsSequence(parsed.records) /\ Len(parsed.records) \in Nat
      /\ Len(parsed.records) <= Len(files.stream) /\ DOMAIN parsed.records = 1..Len(parsed.records)
      /\ IsSequence(files.stream) /\ Len(files.stream) \in Nat
      /\ IsSequence(files.sidecar) /\ Len(files.sidecar) \in Nat
  BY <1>2, LyingIs, Sequences_ DEF LinesRead
<1>4. CASE n > Len(files.stream) /\ state' = "sidecar" /\ parsed' = parsed
  <2>1. Len(parsed.records) = Len(files.stream)
    BY <1>3, <1>4
  <2>2. IsSequence(<<>>) /\ DOMAIN <<>> = {} /\ Len(<<>>) = 0
    BY NoKeys
  <2>3. EntriesRead(parsed, files)
    BY <1>2, <1>3, <2>1, <2>2 DEF EntriesRead
  <2> QED
    BY <1>1, <1>2, <1>4, <2>3 DEF ReadInv, BothParts
<1>5. CASE state' = "refused" /\ parsed' = parsed
  BY <1>1, <1>2, <1>5 DEF ReadInv, BothParts
<1>6. CASE /\ ~(n > Len(files.stream)) /\ Accepted(line) /\ state' = state
           /\ parsed' = [parsed EXCEPT !["records"] = Append(@, ParsedRecord(line))]
  <2> DEFINE rs == parsed.records
             item == ParsedRecord(line)
             more == Append(rs, item)
  <2>1. parsed' = [records |-> more, entries |-> parsed.entries]
    <3> HIDE DEF item, line
    <3> QED
      BY Zenon, <1>2, <1>6 DEF item
  <2>2. p.records = more /\ p.entries = <<>> /\ p = [records |-> p.records, entries |-> p.entries]
    <3> HIDE DEF more
    <3> QED
      BY <1>2, <2>1
  <2>3. /\ IsSequence(more) /\ DOMAIN more = 1..(Len(rs) + 1) /\ Len(more) = Len(rs) + 1
        /\ (\A k \in DOMAIN rs : more[k] = rs[k]) /\ more[Len(rs) + 1] = item
    <3> HIDE DEF item, more
    <3> QED
      BY <1>3, Appended DEF more
  <2> HIDE DEF more
  <2>4. ASSUME NEW k \in DOMAIN more PROVE Accepted(files.stream[k]) /\ more[k] = ParsedRecord(files.stream[k])
    <3>1. CASE k \in DOMAIN rs
      BY <1>2, <2>3, <3>1 DEF LinesRead
    <3>2. CASE k \notin DOMAIN rs
      <4>1. k = n
        BY <1>3, <2>3, <3>2
      <4> QED
        BY <1>6, <2>3, <4>1
    <3> QED
      BY <3>1, <3>2
  <2>5. LinesRead(p, files)
    <3>1. Len(more) <= Len(files.stream)
      BY <1>3, <1>6, <2>3
    <3>2. p.records = more /\ IsSequence(more)
      BY <2>2, <2>3
    <3> HIDE DEF p
    <3> QED
      BY <2>4, <3>1, <3>2 DEF LinesRead
  <2> QED
    BY <1>1, <1>2, <1>6, <2>2, <2>5 DEF ReadInv, BothParts
<1> QED
  BY <1>4, <1>5, <1>6, LineTaken

LEMMA EntryStep ==
  ASSUME ReadInv, ReadEntry
  PROVE  ReadInv'
<1> DEFINE n == Len(parsed.entries) + 1
           line == files.sidecar[n]
           p == parsed'
<1>1. state = "sidecar" /\ emission' = emission /\ files' = files /\ spoiled' = spoiled
  BY Zenon DEF ReadEntry, emitVars
<1>2. /\ Lying(files, emission, spoiled) /\ Finished /\ Finished' /\ LinesRead(parsed, files) /\ EntriesRead(parsed, files)
      /\ parsed = [records |-> parsed.records, entries |-> parsed.entries]
  BY <1>1 DEF ReadInv, Finished, BothParts
<1>3. /\ IsSequence(parsed.entries) /\ Len(parsed.entries) \in Nat
      /\ Len(parsed.entries) <= Len(files.sidecar) /\ DOMAIN parsed.entries = 1..Len(parsed.entries)
      /\ IsSequence(files.sidecar) /\ Len(files.sidecar) \in Nat /\ Len(parsed.records) = Len(files.stream)
  BY <1>2, LyingIs, Sequences_ DEF EntriesRead
<1>4. CASE /\ n > Len(files.sidecar) /\ Len(parsed.entries) = Len(parsed.records)
           /\ state' = "read" /\ parsed' = parsed
  <2>1. Len(parsed.entries) = Len(files.sidecar)
    BY <1>3, <1>4
  <2> QED
    BY <1>1, <1>2, <1>4, <2>1 DEF ReadInv, BothParts
<1>5. CASE state' = "refused" /\ parsed' = parsed
  BY <1>1, <1>2, <1>5 DEF ReadInv, BothParts
<1>6. CASE /\ ~(n > Len(files.sidecar)) /\ Passes(line, n, parsed.records) /\ state' = state
           /\ parsed' = [parsed EXCEPT !["entries"] = Append(@, ParsedEntry(line))]
  <2> DEFINE es == parsed.entries
             item == ParsedEntry(line)
             more == Append(es, item)
  <2>1. parsed' = [records |-> parsed.records, entries |-> more]
    <3> HIDE DEF item, line
    <3> QED
      BY Zenon, <1>2, <1>6 DEF item
  <2>2. p.entries = more /\ p.records = parsed.records /\ p = [records |-> p.records, entries |-> p.entries]
    <3> HIDE DEF more
    <3> QED
      BY <1>2, <2>1
  <2>3. /\ IsSequence(more) /\ DOMAIN more = 1..(Len(es) + 1) /\ Len(more) = Len(es) + 1
        /\ (\A k \in DOMAIN es : more[k] = es[k]) /\ more[Len(es) + 1] = item
    <3> HIDE DEF item, more
    <3> QED
      BY <1>3, Appended DEF more
  <2> HIDE DEF more
  <2>4. ASSUME NEW k \in DOMAIN more
        PROVE  Passes(files.sidecar[k], k, parsed.records) /\ more[k] = ParsedEntry(files.sidecar[k])
    <3>1. CASE k \in DOMAIN es
      BY <1>2, <2>3, <3>1 DEF EntriesRead
    <3>2. CASE k \notin DOMAIN es
      <4>1. k = n
        BY <1>3, <2>3, <3>2
      <4> QED
        BY <1>6, <2>3, <4>1
    <3> QED
      BY <3>1, <3>2
  <2>5. EntriesRead(p, files) /\ LinesRead(p, files)
    <3>1. Len(more) <= Len(files.sidecar)
      BY <1>3, <1>6, <2>3
    <3>2. p.records = parsed.records /\ p.entries = more /\ IsSequence(more)
      BY <2>2, <2>3
    <3> HIDE DEF p
    <3>3. EntriesRead(p, files)
      BY <1>3, <2>4, <3>1, <3>2 DEF EntriesRead
    <3>4. LinesRead(p, files)
      BY <1>2, <3>2 DEF LinesRead
    <3> QED
      BY <3>3, <3>4
  <2> QED
    BY <1>1, <1>2, <1>6, <2>2, <2>5 DEF ReadInv, BothParts
<1> QED
  BY <1>4, <1>5, <1>6, EntryTaken

LEMMA SequenceIs ==
  ASSUME NEW s, IsSequence(s)
  PROVE  s = [n \in DOMAIN s |-> s[n]]
<1>1. s \in [1..Len(s) -> Values(s)]
  <2>1. s \in Seq(Values(s))
    BY DEF IsSequence, Values
  <2> QED
    BY <2>1, LenProperties
<1> QED
  BY <1>1

LEMMA SameSequence ==
  ASSUME NEW s, IsSequence(s), NEW f, f = [n \in DOMAIN f |-> f[n]], DOMAIN f = DOMAIN s,
         \A n \in DOMAIN s : s[n] = f[n]
  PROVE  s = f
<1>1. s = [n \in DOMAIN s |-> s[n]]
  BY SequenceIs
<1>2. [n \in DOMAIN s |-> s[n]] = [n \in DOMAIN f |-> f[n]]
  OBVIOUS
<1> QED
  BY <1>1, <1>2

\* The records as they are spelled.
Spellings(e) == [n \in DOMAIN e.records |-> Spelled(e.records[n])]

\* The lines that lie there, as they are read to the end.
AllRead(f, rs, es) ==
  /\ IsSequence(rs) /\ IsSequence(es) /\ DOMAIN rs = DOMAIN f.stream /\ DOMAIN es = DOMAIN f.sidecar
  /\ Len(f.stream) = Len(f.sidecar)
  /\ \A n \in DOMAIN rs : Accepted(f.stream[n]) /\ rs[n] = ParsedRecord(f.stream[n])
  /\ \A n \in DOMAIN es : Passes(f.sidecar[n], n, rs) /\ es[n] = ParsedEntry(f.sidecar[n])

LEMMA WrittenAre ==
  ASSUME NEW e, WellFormed(e)
  PROVE  LET a == RenderStream(e.records)
             b == RenderSidecar(e.sidecar)
         IN  /\ DOMAIN a = DOMAIN e.records /\ DOMAIN b = DOMAIN e.records /\ DOMAIN e.sidecar = DOMAIN e.records
             /\ Len(a) = Len(e.records) /\ Len(b) = Len(e.records) /\ Len(e.sidecar) = Len(e.records)
             /\ Len(e.records) \in Nat /\ DOMAIN e.records = 1..Len(e.records) /\ IsSequence(e.sidecar)
             /\ \A n \in DOMAIN e.records :
                  /\ a[n] = RenderRecord(e.records[n]) /\ b[n] = RenderEntry(e.sidecar[n])
                  /\ Proper(e.records[n]) /\ e.records[n].record \in Kinds
                  /\ IsEntry(e.sidecar[n]) /\ Names(e.sidecar[n], n, e.records[n])
BY Rendered, Sequences_ DEF WellFormed, Proper

\* A record whose line is read is read as it is spelled, and is intact.
LEMMA LineHeard ==
  ASSUME NEW e, WellFormed(e), \A m \in DOMAIN e.records : ~Unwritable(e.records[m]),
         NEW n \in DOMAIN e.records, Accepted(RenderRecord(e.records[n]))
  PROVE  ParsedRecord(RenderRecord(e.records[n])) = Spelled(e.records[n]) /\ Intact(e.records[n])
BY WrittenAre, RecordRead

LEMMA StreamHeard ==
  ASSUME NEW e, WellFormed(e), \A m \in DOMAIN e.records : ~Unwritable(e.records[m]),
         NEW f, NEW rs, NEW es, AllRead(f, rs, es), f.stream = RenderStream(e.records)
  PROVE  rs = Spellings(e) /\ \A n \in DOMAIN e.records : Intact(e.records[n])
<1>1. /\ IsSequence(rs) /\ DOMAIN rs = DOMAIN e.records
      /\ \A n \in DOMAIN e.records : /\ Accepted(RenderRecord(e.records[n]))
                                    /\ rs[n] = ParsedRecord(RenderRecord(e.records[n]))
  BY WrittenAre DEF AllRead
<1>2. \A n \in DOMAIN e.records : rs[n] = Spelled(e.records[n]) /\ Intact(e.records[n])
  BY <1>1, LineHeard
<1> DEFINE g == Spellings(e)
<1>3. DOMAIN g = DOMAIN rs /\ (\A n \in DOMAIN rs : rs[n] = g[n]) /\ g = [n \in DOMAIN g |-> g[n]]
  BY <1>1, <1>2 DEF Spellings
<1> HIDE DEF g
<1>4. rs = g
  BY <1>1, <1>3, SameSequence
<1> QED
  BY <1>2, <1>4 DEF g

LEMMA SidecarHeard ==
  ASSUME NEW e, WellFormed(e), NEW f, NEW rs, NEW es, AllRead(f, rs, es), f.sidecar = RenderSidecar(e.sidecar)
  PROVE  es = e.sidecar
<1>1. /\ IsSequence(es) /\ DOMAIN es = DOMAIN e.sidecar
      /\ \A n \in DOMAIN e.sidecar : IsEntry(e.sidecar[n]) /\ es[n] = ParsedEntry(RenderEntry(e.sidecar[n]))
  BY WrittenAre DEF AllRead
<1>2. \A n \in DOMAIN es : es[n] = e.sidecar[n]
  BY <1>1, EntryRead
<1>3. e.sidecar = [n \in DOMAIN e.sidecar |-> e.sidecar[n]]
  BY WrittenAre, SequenceIs
<1> QED
  BY <1>1, <1>2, <1>3, SameSequence

\* A line came or went: the two files are of two lengths.
LEMMA GoneIsUneven ==
  ASSUME NEW f, NEW e, NEW s, Lying(f, e, s), s # Untouched, s.how \in {"lost", "doubled"}
  PROVE  Len(f.stream) # Len(f.sidecar)
<1> DEFINE a == RenderStream(e.records)
           b == RenderSidecar(e.sidecar)
<1>1. Len(a) = Len(b) /\ Len(a) \in Nat
  BY WrittenAre DEF Lying
<1>2. \/ Placed(a, f.stream, s) /\ f.sidecar = b
      \/ Placed(b, f.sidecar, s) /\ f.stream = a
  BY LyingIs
<1> HIDE DEF a, b
<1> QED
  BY <1>1, <1>2 DEF Placed

\* A record that became another: everything else is as it was.
LEMMA StreamSlipped ==
  ASSUME NEW f, NEW e, NEW s, Lying(f, e, s), NEW rs, NEW es, AllRead(f, rs, es),
         s.file = "stream", s.how \notin Moves
  PROVE  LET n == s.line
         IN  /\ s.how = "other" \/ (s.how = "shorter" /\ e.records[n].record # "polyline")
             /\ rs = [Spellings(e) EXCEPT ![n][s.key] = rs[n][s.key]]
             /\ \A m \in DOMAIN e.records : m # n => Intact(e.records[m])
             /\ s.key # "i"
<1> DEFINE a == RenderStream(e.records)
           n == s.line
           r == e.records[n]
           way == <<s.how, s.key>>
<1>1. WellFormed(e) /\ \A m \in DOMAIN e.records : ~Unwritable(e.records[m])
  BY DEF Lying
<1>2. Placed(a, f.stream, s) /\ n \in DOMAIN e.records /\ way \in LineWays(a, n)
  BY LyingIs DEF Untouched
<1>3. DOMAIN a = DOMAIN e.records /\ (\A m \in DOMAIN e.records : a[m] = RenderRecord(e.records[m])) /\ Proper(r)
  BY <1>1, <1>2, WrittenAre
<1>4. way[1] = s.how /\ way[2] = s.key
  OBVIOUS
<1>5. /\ DOMAIN f.stream = DOMAIN e.records
      /\ \A m \in DOMAIN e.records : f.stream[m] = IF m = n THEN Changed(RenderRecord(r), s.how, s.key)
                                                  ELSE RenderRecord(e.records[m])
  <2>1. Len(f.stream) = Len(a) /\ IsSequence(f.stream) /\ IsSequence(a)
    BY <1>1, <1>2, Rendered DEF Placed, Moves
  <2>2. DOMAIN f.stream = DOMAIN a
    BY <2>1, Sequences_
  <2>3. \A m : From(s, m) = m
    BY DEF From, Moves
  <2> HIDE DEF a, n, r
  <2> QED
    BY <1>2, <1>3, <2>2, <2>3 DEF Placed, n, r
<1>6. /\ IsSequence(rs) /\ DOMAIN rs = DOMAIN f.stream
      /\ \A m \in DOMAIN rs : Accepted(f.stream[m]) /\ rs[m] = ParsedRecord(f.stream[m])
  BY DEF AllRead
<1> HIDE DEF a, way, r, n
<1>7. /\ Accepted(Changed(RenderRecord(r), s.how, s.key))
      /\ rs[n] = ParsedRecord(Changed(RenderRecord(r), s.how, s.key))
  BY <1>2, <1>5, <1>6
<1>8. way \in StreamSlips(RenderRecord(r))
  <2>1. way \in StreamWays(RenderRecord(r), n = Len(a)) \cup StreamSlips(RenderRecord(r))
    BY <1>2, <1>3 DEF LineWays, r
  <2> DEFINE last == n = Len(a)
  <2>2. way \in StreamWays(RenderRecord(r), last) \cup StreamSlips(RenderRecord(r))
    BY <2>1
  <2> HIDE DEF last
  <2>3. ASSUME way \in StreamWays(RenderRecord(r), last) PROVE FALSE
    <3>1. ~Accepted(Changed(RenderRecord(r), way[1], way[2]))
      BY <1>3, <2>3, SpoiledIsRefused
    <3> QED
      BY <1>4, <1>7, <3>1
  <2> QED
    BY <2>2, <2>3
<1>9. PICK k \in DOMAIN Schema[r.record] :
        /\ way[1] \in {"other", "shorter"} /\ way[2] = Schema[r.record][k][1]
        /\ way[1] = "shorter" => FieldValue(r, k).t = "array" /\ FieldValue(r, k).v # <<>>
  BY <1>3, <1>8, SlipsAre
<1>10. s.how \in {"other", "shorter"} /\ s.key = Schema[r.record][k][1]
  BY <1>4, <1>9
<1>11. s.how = "shorter" => r.record # "polyline"
  <2> SUFFICES ASSUME s.how = "shorter", r.record = "polyline" PROVE FALSE
    OBVIOUS
  <2>1. FieldValue(r, k).t = "array" /\ FieldValue(r, k).v # <<>>
    BY <1>4, <1>9
  <2>2. ~Accepted(Changed(RenderRecord(r), "shorter", Schema[r.record][k][1]))
    BY <1>3, <2>1, ShorterPolyline
  <2> QED
    BY <1>7, <1>10, <2>2
<1>12. rs[n] = [Spelled(r) EXCEPT ![s.key] = rs[n][s.key]]
  <2> DEFINE heard == ParsedRecord(Changed(RenderRecord(r), s.how, Schema[r.record][k][1]))
  <2>1. heard = [Spelled(r) EXCEPT ![Schema[r.record][k][1]] = heard[Schema[r.record][k][1]]]
    <3>1. HeardBut(r, heard, Schema[r.record][k][1])
      BY <1>3, <1>10, SlippedHeard
    <3> HIDE DEF heard
    <3> QED
      BY <3>1 DEF HeardBut
  <2>2. rs[n] = heard
    BY <1>7, <1>10
  <2> HIDE DEF heard
  <2> QED
    BY <1>10, <2>1, <2>2
<1>13. \A m \in DOMAIN e.records : m # n => rs[m] = Spelled(e.records[m]) /\ Intact(e.records[m])
  <2> SUFFICES ASSUME NEW m \in DOMAIN e.records, m # n
               PROVE  rs[m] = Spelled(e.records[m]) /\ Intact(e.records[m])
    OBVIOUS
  <2>1. Accepted(RenderRecord(e.records[m])) /\ rs[m] = ParsedRecord(RenderRecord(e.records[m]))
    BY <1>5, <1>6
  <2> QED
    BY <1>1, <2>1, LineHeard
<1>14. s.key # "i"
  BY <1>3, <1>10, FieldsAre DEF Proper
<1>15. rs = [Spellings(e) EXCEPT ![n][s.key] = rs[n][s.key]]
  <2> DEFINE g == Spellings(e)
             x == rs[n][s.key]
             h == [g EXCEPT ![n][s.key] = x]
  <2>1. DOMAIN g = DOMAIN e.records /\ \A m \in DOMAIN e.records : g[m] = Spelled(e.records[m])
    BY DEF Spellings
  <2> HIDE DEF g, x
  <2>2. /\ DOMAIN h = DOMAIN e.records /\ h = [m \in DOMAIN h |-> h[m]] /\ h[n] = [g[n] EXCEPT ![s.key] = x]
        /\ \A m \in DOMAIN e.records : m # n => h[m] = g[m]
    BY <1>2, <2>1
  <2> HIDE DEF h
  <2>3. h[n] = rs[n]
    BY <1>2, <1>12, <2>1, <2>2 DEF x, r
  <2>4. DOMAIN h = DOMAIN rs /\ \A m \in DOMAIN rs : rs[m] = h[m]
    BY <1>5, <1>6, <1>13, <2>1, <2>2, <2>3
  <2>5. rs = h
    BY <1>6, <2>2, <2>4, SameSequence
  <2> QED
    BY <2>5 DEF h, g, x
<1> QED
  BY <1>10, <1>11, <1>13, <1>14, <1>15 DEF n, r

\* Two records in each other's place: their entries name no two kinds.
LEMMA StreamSwapped ==
  ASSUME NEW f, NEW e, NEW s, Lying(f, e, s), NEW rs, NEW es, AllRead(f, rs, es),
         s.file = "stream", s.how = "swapped"
  PROVE  LET n == s.line
         IN  /\ \/ e.records[n].record = e.records[n + 1].record
                \/ e.sidecar[n].t = "none" /\ e.sidecar[n + 1].t = "none"
             /\ rs = Swapped(Spellings(e), n)
             /\ \A m \in DOMAIN e.records : Intact(e.records[m])
<1> DEFINE a == RenderStream(e.records)
           b == RenderSidecar(e.sidecar)
           n == s.line
<1>1. WellFormed(e) /\ \A m \in DOMAIN e.records : ~Unwritable(e.records[m])
  BY DEF Lying
<1>2. Placed(a, f.stream, s) /\ n \in DOMAIN e.records /\ n + 1 \in DOMAIN e.records /\ f.sidecar = b
  <2>1. s # Untouched /\ s.file # "sidecar"
    BY DEF Untouched
  <2> QED
    BY <2>1, LyingIs
<1>3. /\ DOMAIN a = DOMAIN e.records /\ DOMAIN b = DOMAIN e.records /\ DOMAIN e.records = 1..Len(e.records)
      /\ Len(e.records) \in Nat
      /\ \A m \in DOMAIN e.records :
           /\ a[m] = RenderRecord(e.records[m]) /\ b[m] = RenderEntry(e.sidecar[m])
           /\ e.records[m].record \in Kinds /\ Names(e.sidecar[m], m, e.records[m])
  BY <1>1, WrittenAre
<1>4. n \in Int /\ n + 1 # n /\ n + 1 - 1 = n
  BY <1>2, <1>3
<1>5. DOMAIN f.stream = DOMAIN e.records
  <2>1. Len(f.stream) = Len(a) /\ IsSequence(f.stream) /\ IsSequence(a)
    BY <1>1, <1>2, Rendered DEF Placed
  <2>2. DOMAIN f.stream = DOMAIN a
    BY <2>1, Sequences_
  <2> QED
    BY <1>3, <2>2
<1>6. /\ IsSequence(rs) /\ DOMAIN rs = DOMAIN e.records
      /\ (\A m \in DOMAIN rs : Accepted(f.stream[m]) /\ rs[m] = ParsedRecord(f.stream[m]))
      /\ \A m \in DOMAIN e.records : Passes(RenderEntry(e.sidecar[m]), m, rs)
  <2>1. DOMAIN es = DOMAIN e.records
    BY <1>2, <1>3 DEF AllRead
  <2> HIDE DEF a
  <2> QED
    BY <1>2, <1>3, <1>5, <2>1 DEF AllRead
<1> HIDE DEF a, b, n
<1>7. \A m \in DOMAIN e.records :
        LET k == IF m = n THEN n + 1 ELSE IF m = n + 1 THEN n ELSE m
        IN  k \in DOMAIN e.records /\ f.stream[m] = RenderRecord(e.records[k])
  <2>1. \A m \in DOMAIN e.records : From(s, m) \in DOMAIN a /\ f.stream[m] = a[From(s, m)]
    BY <1>2, <1>5 DEF Placed, Moves
  <2>2. \A m : From(s, m) = IF m = n THEN n + 1 ELSE IF m = n + 1 THEN n ELSE m
    BY <1>4 DEF From, n
  <2> QED
    BY <1>3, <2>1, <2>2
<1>8. \A k \in DOMAIN e.records : Accepted(RenderRecord(e.records[k]))
  <2> SUFFICES ASSUME NEW k \in DOMAIN e.records PROVE \E m \in DOMAIN e.records : f.stream[m] = RenderRecord(e.records[k])
    BY <1>6
  <2>1. CASE k = n
    BY <1>2, <1>4, <1>7, <2>1
  <2>2. CASE k = n + 1
    BY <1>2, <1>4, <1>7, <2>2
  <2>3. CASE k # n /\ k # n + 1
    BY <1>7, <2>3
  <2> QED
    BY <2>1, <2>2, <2>3
<1>9. \A k \in DOMAIN e.records :
        ParsedRecord(RenderRecord(e.records[k])) = Spelled(e.records[k]) /\ Intact(e.records[k])
  BY <1>1, <1>8, LineHeard
<1>10. /\ rs[n] = Spelled(e.records[n + 1]) /\ rs[n + 1] = Spelled(e.records[n])
       /\ \A m \in DOMAIN e.records : m # n /\ m # n + 1 => rs[m] = Spelled(e.records[m])
  BY <1>2, <1>4, <1>6, <1>7, <1>9
<1>11. rs[n].record = e.records[n + 1].record /\ rs[n + 1].record = e.records[n].record
  <2>1. \A k \in DOMAIN e.records : Spelled(e.records[k]).record = e.records[k].record
    BY <1>3, <1>9, ReadKind
  <2> QED
    BY <1>2, <1>10, <2>1
<1>12. \A m \in DOMAIN e.records : e.sidecar[m].t # "none" => rs[m].record = e.records[m].record
  <2> SUFFICES ASSUME NEW m \in DOMAIN e.records, e.sidecar[m].t # "none", rs[m].record # e.records[m].record
               PROVE  FALSE
    OBVIOUS
  <2> DEFINE line == RenderEntry(e.sidecar[m])
  <2>1. "t" \in Keys(line) /\ Get(line, "t") = Value("string", e.sidecar[m].t)
    BY EntryValues
  <2>2. line.json = "object"
    BY DEF RenderEntry
  <2>3. e.sidecar[m].t = e.records[m].record
    BY <1>3 DEF Names
  <2> HIDE DEF line
  <2>4. Get(line, "t").t = "string" /\ Get(line, "t").v # rs[m].record
    BY <2>1, <2>3, ValueIs
  <2>5. ~Passes(line, m, rs)
    BY <1>6, <2>1, <2>2, <2>4, OddKind
  <2> QED
    BY <1>6, <2>5 DEF line
<1>13. \/ e.records[n].record = e.records[n + 1].record
       \/ e.sidecar[n].t = "none" /\ e.sidecar[n + 1].t = "none"
  BY <1>2, <1>11, <1>12
<1>14. rs = Swapped(Spellings(e), n)
  <2> DEFINE g == Spellings(e)
             h == Swapped(g, n)
  <2>1. DOMAIN g = DOMAIN e.records /\ \A m \in DOMAIN e.records : g[m] = Spelled(e.records[m])
    BY DEF Spellings
  <2> HIDE DEF g
  <2>2. /\ DOMAIN h = DOMAIN g /\ h = [m \in DOMAIN h |-> h[m]]
        /\ h[n] = g[n + 1] /\ h[n + 1] = g[n]
        /\ \A m \in DOMAIN g : m # n /\ m # n + 1 => h[m] = g[m]
    <3> DEFINE x == g[n]
               y == g[n + 1]
               i == n + 1
               j == [g EXCEPT ![n] = y, ![i] = x]
    <3>1. h = j
      BY DEF Swapped
    <3>2. n \in DOMAIN g /\ i \in DOMAIN g /\ i # n
      BY <1>2, <1>4, <2>1
    <3> HIDE DEF x, y, i
    <3>3. /\ DOMAIN j = DOMAIN g /\ j = [m \in DOMAIN j |-> j[m]] /\ j[n] = y /\ j[i] = x
          /\ \A m \in DOMAIN g : m # n /\ m # i => j[m] = g[m]
      BY <3>2
    <3> HIDE DEF j, h
    <3> QED
      BY <3>1, <3>3 DEF x, y, i
  <2> HIDE DEF h
  <2>3. DOMAIN h = DOMAIN rs /\ \A m \in DOMAIN rs : rs[m] = h[m]
    BY <1>2, <1>6, <1>10, <2>1, <2>2
  <2>4. rs = h
    BY <1>6, <2>2, <2>3, SameSequence
  <2> QED
    BY <2>4 DEF h, g
<1> QED
  BY <1>9, <1>13, <1>14 DEF n

\* An entry that became another, or says less: everything else is as it was.
LEMMA SidecarSlipped ==
  ASSUME NEW f, NEW e, NEW s, Lying(f, e, s), NEW rs, NEW es, AllRead(f, rs, es),
         s.file = "sidecar", s.how \notin Moves
  PROVE  LET n == s.line
         IN  \/ es = e.sidecar
             \/ /\ \/ s.how \in {"handle", "expanded", "other"} /\ s.key # "i"
                   \/ s.how = "keyless" /\ s.key \in {"t", "x", "d"}
                /\ es = [e.sidecar EXCEPT ![n][s.key] = es[n][s.key]]
<1> DEFINE b == RenderSidecar(e.sidecar)
           n == s.line
           x == e.sidecar[n]
           way == <<s.how, s.key>>
           new == Changed(RenderEntry(x), way[1], way[2])
<1>1. WellFormed(e)
  BY DEF Lying
<1>2. /\ Placed(b, f.sidecar, s) /\ n \in DOMAIN e.records /\ way \in EntryWays(b, n)
      /\ f.stream = RenderStream(e.records)
  BY LyingIs DEF Untouched
<1>3. /\ DOMAIN b = DOMAIN e.records /\ DOMAIN e.sidecar = DOMAIN e.records /\ DOMAIN e.records = 1..Len(e.records)
      /\ Len(e.records) \in Nat /\ IsSequence(e.sidecar) /\ DOMAIN RenderStream(e.records) = DOMAIN e.records
      /\ \A m \in DOMAIN e.records :
           /\ RenderStream(e.records)[m] = RenderRecord(e.records[m]) /\ b[m] = RenderEntry(e.sidecar[m])
           /\ e.records[m].record \in Kinds /\ IsEntry(e.sidecar[m]) /\ Names(e.sidecar[m], m, e.records[m])
  BY <1>1, WrittenAre
<1>4. way[1] = s.how /\ way[2] = s.key
  OBVIOUS
<1>5. /\ DOMAIN f.sidecar = DOMAIN e.records
      /\ \A m \in DOMAIN e.records : f.sidecar[m] = IF m = n THEN new ELSE RenderEntry(e.sidecar[m])
  <2>1. Len(f.sidecar) = Len(b) /\ IsSequence(f.sidecar) /\ IsSequence(b)
    BY <1>1, <1>2, Rendered DEF Placed, Moves
  <2>2. DOMAIN f.sidecar = DOMAIN b
    BY <2>1, Sequences_
  <2>3. \A m : From(s, m) = m
    BY DEF From, Moves
  <2>4. new = Changed(RenderEntry(x), s.how, s.key)
    BY <1>4
  <2> HIDE DEF b, n, x, new
  <2> QED
    BY <1>2, <1>3, <2>2, <2>3, <2>4 DEF Placed, n, x
<1>6. /\ IsSequence(es) /\ DOMAIN es = DOMAIN e.records /\ DOMAIN rs = DOMAIN e.records
      /\ \A m \in DOMAIN es : Passes(f.sidecar[m], m, rs) /\ es[m] = ParsedEntry(f.sidecar[m])
      /\ rs[n] = ParsedRecord(RenderRecord(e.records[n]))
  <2> HIDE DEF n, b
  <2> QED
    BY <1>2, <1>3, <1>5 DEF AllRead
<1> HIDE DEF b, way, x, n, new
<1>7. Passes(new, n, rs) /\ es[n] = ParsedEntry(new)
  BY <1>2, <1>5, <1>6
<1>8. \A m \in DOMAIN e.records : m # n => es[m] = e.sidecar[m]
  <2> SUFFICES ASSUME NEW m \in DOMAIN e.records, m # n PROVE es[m] = e.sidecar[m]
    OBVIOUS
  <2>1. es[m] = ParsedEntry(RenderEntry(e.sidecar[m])) /\ IsEntry(e.sidecar[m])
    BY <1>3, <1>5, <1>6
  <2> QED
    BY <2>1, EntryRead
<1>9. way \in SidecarWays(RenderEntry(x)) \/ way \in SidecarSlips(RenderEntry(x))
  BY <1>2, <1>3 DEF EntryWays, x
<1>10. IsEntry(x) /\ x.i = n - 1 /\ n \in Nat
  BY <1>2, <1>3 DEF Names, x
<1>11. CASE way \in SidecarWays(RenderEntry(x))
  <2>1. n \in DOMAIN rs /\ rs[n].record \in Kinds
    BY <1>2, <1>3, <1>6, ReadKind
  <2>2. new = RenderEntry(x)
    BY <1>7, <1>10, <1>11, <2>1, SpoiledEntry DEF new
  <2>3. es[n] = e.sidecar[n]
    BY <1>7, <1>10, <2>2, EntryRead DEF x
  <2>4. \A m \in DOMAIN es : es[m] = e.sidecar[m]
    BY <1>6, <1>8, <2>3
  <2>5. e.sidecar = [m \in DOMAIN e.sidecar |-> e.sidecar[m]]
    BY <1>3, SequenceIs
  <2>6. es = e.sidecar
    BY <1>3, <1>6, <2>4, <2>5, SameSequence
  <2> QED
    BY <2>6
<1>12. CASE way \in SidecarSlips(RenderEntry(x))
  <2>1. /\ es[n] = [x EXCEPT ![way[2]] = es[n][way[2]]]
        /\ \/ way[1] \in {"handle", "expanded", "other"} /\ way[2] # "i"
           \/ way[1] = "keyless" /\ way[2] \in {"t", "x", "d"}
    <3> DEFINE heard == ParsedEntry(Changed(RenderEntry(x), way[1], way[2]))
    <3>1. /\ heard = [x EXCEPT ![way[2]] = heard[way[2]]]
          /\ \/ way[1] \in {"handle", "expanded", "other"} /\ way[2] # "i"
             \/ way[1] = "keyless" /\ way[2] \in {"t", "x", "d"}
      BY <1>10, <1>12, SlippedEntryHeard
    <3>2. heard = es[n]
      BY <1>7 DEF new
    <3> HIDE DEF heard
    <3> QED
      BY <3>1, <3>2
  <2>2. /\ es[n] = [x EXCEPT ![s.key] = es[n][s.key]]
        /\ \/ s.how \in {"handle", "expanded", "other"} /\ s.key # "i"
           \/ s.how = "keyless" /\ s.key \in {"t", "x", "d"}
    BY <1>4, <2>1
  <2> DEFINE g == e.sidecar
             v == es[n][s.key]
             h == [g EXCEPT ![n][s.key] = v]
  <2>3. DOMAIN g = DOMAIN e.records
    BY <1>3
  <2> HIDE DEF g, v
  <2>4. /\ DOMAIN h = DOMAIN e.records /\ h = [m \in DOMAIN h |-> h[m]] /\ h[n] = [g[n] EXCEPT ![s.key] = v]
        /\ \A m \in DOMAIN e.records : m # n => h[m] = g[m]
    BY <1>2, <2>3
  <2> HIDE DEF h
  <2>5. h[n] = es[n]
    BY <2>2, <2>4 DEF v, x, g
  <2>6. DOMAIN h = DOMAIN es /\ \A m \in DOMAIN es : es[m] = h[m]
    BY <1>6, <1>8, <2>4, <2>5 DEF g
  <2>7. es = h
    BY <1>6, <2>4, <2>6, SameSequence
  <2> QED
    BY <2>2, <2>7 DEF h, g, v, n
<1> QED
  BY <1>9, <1>11, <1>12

\* Two entries in each other's place: neither passes.
LEMMA SidecarSwapped ==
  ASSUME NEW f, NEW e, NEW s, Lying(f, e, s), NEW rs, NEW es, AllRead(f, rs, es),
         s.file = "sidecar", s.how = "swapped"
  PROVE  FALSE
<1> DEFINE b == RenderSidecar(e.sidecar)
           n == s.line
<1>1. Placed(b, f.sidecar, s) /\ n \in DOMAIN e.records /\ n + 1 \in DOMAIN e.records /\ WellFormed(e)
  <2>1. s # Untouched /\ s.file # "stream"
    BY DEF Untouched
  <2>2. WellFormed(e)
    BY DEF Lying
  <2> QED
    BY <2>1, <2>2, LyingIs
<1>2. /\ DOMAIN b = DOMAIN e.records /\ DOMAIN e.records = 1..Len(e.records) /\ Len(e.records) \in Nat
      /\ \A m \in DOMAIN e.records : b[m] = RenderEntry(e.sidecar[m]) /\ e.sidecar[m].i = m - 1
  BY <1>1, WrittenAre DEF Names
<1>3. DOMAIN f.sidecar = DOMAIN b
  <2>1. Len(f.sidecar) = Len(b) /\ IsSequence(f.sidecar) /\ IsSequence(b)
    BY <1>1, Rendered DEF Placed
  <2> QED
    BY <2>1, Sequences_
<1> HIDE DEF b, n
<1>4. f.sidecar[n] = RenderEntry(e.sidecar[n + 1])
  <2>1. From(s, n) = n + 1 /\ f.sidecar[n] = b[From(s, n)]
    BY <1>1, <1>2, <1>3 DEF Placed, Moves, From, n
  <2> QED
    BY <1>1, <1>2, <2>1
<1>5. Passes(f.sidecar[n], n, rs)
  BY <1>1, <1>2, <1>3 DEF AllRead
<1>6. e.sidecar[n + 1].i # n - 1
  BY <1>1, <1>2
<1> QED
  BY <1>4, <1>5, <1>6, Misplaced

\* Both files read to the end: nothing was done to them, or what no reader of
\* them could notice.
LEMMA ReadShown == ReadInv => ReadIsEmitted
<1> SUFFICES ASSUME ReadInv, state = "read" PROVE ReadIsEmitted
  BY DEF ReadIsEmitted
<1> DEFINE rs == parsed.records
           es == parsed.entries
           e == emission
           f == files
           s == spoiled
           n == s.line
           written == [stream |-> Spellings(e), sidecar |-> e.sidecar]
           heard == [stream |-> rs, sidecar |-> es]
           Goal ==
             /\ \/ heard = written
                \/ Slipped /\ heard = [written EXCEPT ![s.file][n][s.key] = heard[s.file][n][s.key]]
                \/ s.how = "swapped" /\ s.file = "stream" /\ Alike(n) /\ heard = [written EXCEPT !.stream = Swapped(@, n)]
             /\ \A m \in DOMAIN e.records : Intact(e.records[m]) \/ (Slipped /\ s.file = "stream" /\ m = n)
<1>1. /\ Lying(f, e, s) /\ LinesRead(parsed, f) /\ EntriesRead(parsed, f)
      /\ Len(es) = Len(f.sidecar) /\ Len(es) = Len(rs)
  BY DEF ReadInv
<1>2. IsSequence(f.stream) /\ IsSequence(f.sidecar)
  BY <1>1, LyingIs
<1>3. AllRead(f, rs, es)
  <2>1. /\ IsSequence(rs) /\ IsSequence(es) /\ Len(rs) = Len(f.stream)
        /\ (\A m \in DOMAIN rs : Accepted(f.stream[m]) /\ rs[m] = ParsedRecord(f.stream[m]))
        /\ (\A m \in DOMAIN es : Passes(f.sidecar[m], m, rs) /\ es[m] = ParsedEntry(f.sidecar[m]))
    BY <1>1 DEF LinesRead, EntriesRead
  <2> HIDE DEF rs, es, f
  <2>2. DOMAIN rs = DOMAIN f.stream /\ DOMAIN es = DOMAIN f.sidecar
    <3>1. /\ DOMAIN rs = 1..Len(rs) /\ DOMAIN es = 1..Len(es) /\ DOMAIN f.stream = 1..Len(f.stream)
          /\ DOMAIN f.sidecar = 1..Len(f.sidecar)
      BY <1>2, <2>1, Sequences_
    <3> QED
      BY <1>1, <2>1, <3>1
  <2> QED
    BY <1>1, <2>1, <2>2 DEF AllRead
<1>4. Goal => ReadIsEmitted
  BY DEF ReadIsEmitted, Spellings
<1>5. WellFormed(e) /\ \A m \in DOMAIN e.records : ~Unwritable(e.records[m])
  BY <1>1 DEF Lying
<1>6. /\ f.stream = RenderStream(e.records) => rs = Spellings(e) /\ \A m \in DOMAIN e.records : Intact(e.records[m])
      /\ f.sidecar = RenderSidecar(e.sidecar) => es = e.sidecar
  <2> HIDE DEF rs, es, f, e
  <2> QED
    BY <1>3, <1>5, StreamHeard, SidecarHeard
<1>7. s = Untouched \/ s.how \notin {"lost", "doubled"}
  BY <1>1, <1>3, GoneIsUneven DEF AllRead
<1>8. /\ Slipped <=> \/ s.how \in {"other", "handle", "expanded"} /\ s.key # "i"
                     \/ s.how = "shorter" /\ e.records[n].record # "polyline"
                     \/ s.how = "keyless" /\ s.file = "sidecar" /\ s.key \in {"t", "x", "d"}
      /\ Alike(n) <=> \/ e.records[n].record = e.records[n + 1].record
                      \/ e.sidecar[n].t = "none" /\ e.sidecar[n + 1].t = "none"
  BY DEF Slipped, Alike
<1>9. \/ s = Untouched /\ f.stream = RenderStream(e.records) /\ f.sidecar = RenderSidecar(e.sidecar)
      \/ s.file = "stream" /\ f.sidecar = RenderSidecar(e.sidecar)
      \/ s.file = "sidecar" /\ f.stream = RenderStream(e.records)
  BY <1>1, LyingIs
<1> HIDE DEF rs, es, e, f, s
<1>10. CASE f.stream = RenderStream(e.records) /\ es = e.sidecar
  BY <1>4, <1>6, <1>10
<1>11. CASE s.file = "stream" /\ f.sidecar = RenderSidecar(e.sidecar) /\ s # Untouched
  <2>1. CASE s.how \notin Moves
    <3>1. /\ Slipped
          /\ rs = [Spellings(e) EXCEPT ![n][s.key] = rs[n][s.key]]
          /\ \A m \in DOMAIN e.records : m # n => Intact(e.records[m])
      <4>1. /\ s.how = "other" \/ (s.how = "shorter" /\ e.records[s.line].record # "polyline")
            /\ rs = [Spellings(e) EXCEPT ![s.line][s.key] = rs[s.line][s.key]]
            /\ \A m \in DOMAIN e.records : m # s.line => Intact(e.records[m])
            /\ s.key # "i"
        BY <1>1, <1>3, <1>11, <2>1, StreamSlipped
      <4> QED
        BY <1>8, <4>1
    <3>2. es = e.sidecar
      BY <1>6, <1>11
    <3> DEFINE g == Spellings(e)
               more == [g EXCEPT ![n][s.key] = rs[n][s.key]]
    <3> HIDE DEF g, n, Goal
    <3>3. [[stream |-> g, sidecar |-> es] EXCEPT !["stream"][n][s.key] = rs[n][s.key]] = [stream |-> more, sidecar |-> es]
      OBVIOUS
    <3>4. heard = [written EXCEPT ![s.file][n][s.key] = heard[s.file][n][s.key]]
      BY <1>11, <3>1, <3>2, <3>3 DEF g
    <3> QED
      BY <1>4, <1>11, <3>1, <3>4 DEF Goal, n
  <2>2. CASE s.how = "swapped"
    <3>1. /\ Alike(n) /\ rs = Swapped(Spellings(e), n)
          /\ \A m \in DOMAIN e.records : Intact(e.records[m])
      BY <1>1, <1>3, <1>8, <1>11, <2>2, StreamSwapped
    <3>2. es = e.sidecar
      BY <1>6, <1>11
    <3> DEFINE g == Swapped(Spellings(e), n)
    <3>3. [written EXCEPT !.stream = Swapped(@, n)] = [stream |-> g, sidecar |-> e.sidecar]
      OBVIOUS
    <3>4. heard = [written EXCEPT !.stream = Swapped(@, n)]
      BY <3>1, <3>2, <3>3
    <3> HIDE DEF heard, written
    <3> QED
      BY <1>4, <1>11, <2>2, <3>1, <3>4
  <2> QED
    BY <1>7, <1>11, <2>1, <2>2 DEF Moves
<1>12. CASE s.file = "sidecar" /\ f.stream = RenderStream(e.records) /\ es # e.sidecar /\ s # Untouched
  <2>1. s.how # "swapped"
    BY <1>1, <1>3, <1>12, SidecarSwapped
  <2>2. s.how \notin Moves
    BY <1>7, <1>12, <2>1 DEF Moves
  <2>3. Slipped /\ es = [e.sidecar EXCEPT ![n][s.key] = es[n][s.key]]
    BY <1>1, <1>3, <1>8, <1>12, <2>2, SidecarSlipped
  <2>4. rs = Spellings(e) /\ \A m \in DOMAIN e.records : Intact(e.records[m])
    BY <1>6, <1>12
  <2> DEFINE g == e.sidecar
             more == [g EXCEPT ![n][s.key] = es[n][s.key]]
  <2> HIDE DEF g, n, Goal
  <2>5. [[stream |-> rs, sidecar |-> g] EXCEPT !["sidecar"][n][s.key] = es[n][s.key]] = [stream |-> rs, sidecar |-> more]
    OBVIOUS
  <2>6. heard = [written EXCEPT ![s.file][n][s.key] = heard[s.file][n][s.key]]
    BY <1>12, <2>3, <2>4, <2>5 DEF g
  <2> QED
    BY <1>4, <2>3, <2>4, <2>6 DEF Goal, n
<1> QED
  <2>1. Untouched.file # "stream" /\ Untouched.file # "sidecar"
    BY DEF Untouched
  <2> QED
    BY <1>6, <1>9, <1>10, <1>11, <1>12, <2>1

LEMMA ReadStarts == MainInit => ReadInv
BY DEF MainInit, StreamInit, ReadInv, BothParts

\* Where the reading is not touched it stays, and the emission, once there, is
\* the emission.
LEMMA ReadStays ==
  ASSUME ReadInv, UNCHANGED <<files, spoiled, parsed>>, Finished => emission' = emission,
         state' = state \/ state' = "unwritten"
  PROVE  ReadInv'
<1>1. CASE state' = "unwritten"
  BY <1>1 DEF ReadInv, BothParts
<1>2. CASE state' = state
  BY <1>2 DEF ReadInv, BothParts, BothFiles, Finished
<1> QED
  BY <1>1, <1>2

LEMMA ReadStep == ReadInv /\ (Finished => WellFormed(emission)) /\ [MainNext]_mainVars => ReadInv'
<1> SUFFICES ASSUME ReadInv, Finished => WellFormed(emission), [MainNext]_mainVars PROVE ReadInv'
  OBVIOUS
<1>1. CASE RefuseToRead
  BY <1>1, ReadStays DEF RefuseToRead, emitVars
<1>2. CASE Extract
  <2>1. UNCHANGED <<files, spoiled, parsed, state>>
    BY <1>2 DEF Extract, Walk, MapWire, streamVars
  <2>2. Finished => emission' = emission
    BY <1>2, EmissionStays DEF Extract, Walk, MapWire
  <2> QED
    BY <2>1, <2>2, ReadStays
<1>3. CASE RenderModel1
  BY <1>3, ReadStays DEF RenderModel1, emitVars, streamVars
<1>4. CASE GiveUp
  BY <1>4, ReadStays DEF GiveUp, emitVars
<1>5. CASE WriteEmission
  BY <1>5, WriteStep DEF WriteEmission
<1>6. CASE ReadEmission
  BY <1>6, OpenStep, LineStep, EntryStep DEF ReadEmission
<1>7. CASE ReadModel1
  BY <1>7, ReadStays DEF ReadModel1, emitVars, streamVars
<1>8. CASE Settled
  BY <1>8, ReadStays DEF Settled, emitVars, streamVars
<1>9. CASE UNCHANGED mainVars
  BY <1>9, ReadStays DEF mainVars, emitVars, streamVars
<1> QED
  BY <1>1, <1>2, <1>3, <1>4, <1>5, <1>6, <1>7, <1>8, <1>9 DEF MainNext

\* Lists put one after the other, as they grow: h[i] is the first i of them.
Grows(h, seqs) ==
  /\ h[0] = <<>> /\ h[Len(seqs)] = FlattenSeq(seqs)
  /\ \A i \in DOMAIN seqs : h[i] = h[i - 1] \o seqs[i]

LEMMA FlatGrows ==
  ASSUME NEW seqs, IsSequence(seqs), NEW W, \A n \in DOMAIN seqs : seqs[n] \in Seq(W)
  PROVE  \E h : Grows(h, seqs) /\ \A i \in 0..Len(seqs) : h[i] \in Seq(W)
<1> DEFINE n == Len(seqs)
           Made(f) == f = [i \in 1..n |-> IF i = 1 THEN seqs[i] ELSE f[i - 1] \o seqs[i]]
           flatten == CHOOSE f : Made(f)
<1>1. n \in Nat /\ DOMAIN seqs = 1..n
  BY Sequences_
<1>2. FlattenSeq(seqs) = IF n = 0 THEN seqs ELSE flatten[n]
  BY Zenon DEF FlattenSeq
<1>3. CASE n = 0
  <2>1. seqs \in Seq(Values(seqs))
    BY DEF Values, IsSequence
  <2>2. seqs = <<>>
    BY <1>3, <2>1, EmptySeq
  <2> DEFINE h == [i \in 0..0 |-> <<>>]
  <2>3. h[0] = <<>> /\ h[n] = FlattenSeq(seqs) /\ \A i \in 0..n : h[i] = <<>>
    BY <1>2, <1>3, <2>2
  <2>4. DOMAIN seqs = {} /\ <<>> \in Seq(W)
    BY <1>1, <1>3
  <2> HIDE DEF h
  <2>5. Grows(h, seqs) /\ \A i \in 0..n : h[i] \in Seq(W)
    BY <2>3, <2>4 DEF Grows
  <2> QED
    BY <2>5
<1>4. CASE n # 0
  <2> DEFINE step == [p \in Seq(W) \X (1..n) |-> IF p[2] = 1 THEN seqs[p[2]] ELSE p[1] \o seqs[p[2]]]
  <2>0. <<>> \in Seq(W)
    OBVIOUS
  <2>1. \A d \in Seq(W), i \in 1..n : step[<<d, i>>] = (IF i = 1 THEN seqs[i] ELSE d \o seqs[i])
    OBVIOUS
  <2> HIDE DEF step, n
  <2>2. ASSUME NEW d \in Seq(W), NEW i \in 1..n
        PROVE  step[<<d, i>>] \in Seq(W)
    <3>1. seqs[i] \in Seq(W)
      BY <1>1
    <3>2. d \o seqs[i] \in Seq(W)
      BY <3>1
    <3> QED
      BY Zenon, <2>1, <3>1, <3>2
  <2>3. PICK f : Steps(f, n, <<>>, step)
    BY <1>1, Rolled
  <2>4. f[0] = <<>> /\ \A i \in 1..n : i - 1 \in 0..n /\ f[i] = step[<<f[i - 1], i>>]
    BY <1>1, <2>3 DEF Steps
  <2>5. \A i \in 0..n : f[i] \in Seq(W)
    BY Zenon, <1>1, <2>0, <2>2, <2>4, Throughout
  <2> DEFINE g == [i \in 1..n |-> f[i]]
  <2>6. ASSUME NEW i \in 1..n
        PROVE  g[i] = IF i = 1 THEN seqs[i] ELSE g[i - 1] \o seqs[i]
    <3>1. f[i] = IF i = 1 THEN seqs[i] ELSE f[i - 1] \o seqs[i]
      BY Zenon, <2>1, <2>4, <2>5
    <3>2. i # 1 => i - 1 \in 1..n
      BY <1>1
    <3> QED
      BY <3>1, <3>2
  <2>7. g = [i \in 1..n |-> g[i]]
    OBVIOUS
  <2> HIDE DEF g
  <2>8. Made(g)
    BY Zenon, <2>6, <2>7
  <2> HIDE DEF Made
  <2>9. Made(flatten)
    BY <2>8
  <2> HIDE DEF flatten
  <2>9a. \A i \in 1..n : flatten[i] = IF i = 1 THEN seqs[i] ELSE flatten[i - 1] \o seqs[i]
    BY Zenon, <2>9 DEF Made
  <2>10. flatten[1] = seqs[1] /\ \A i \in 1..n : i # 1 => flatten[i] = flatten[i - 1] \o seqs[i]
    <3>1. 1 \in 1..n
      BY <1>1, <1>4
    <3>2. flatten[1] = seqs[1]
      BY <2>9a, <3>1
    <3>3. ASSUME NEW i \in 1..n, i # 1
          PROVE  flatten[i] = flatten[i - 1] \o seqs[i]
      BY Zenon, <2>9a, <3>3
    <3> QED
      BY Zenon, <3>2, <3>3
  <2> DEFINE h == [i \in 0..n |-> IF i = 0 THEN <<>> ELSE flatten[i]]
  <2>11. h[0] \in Seq(W)
    BY <1>1, <2>0
  <2>12. ASSUME NEW i \in 1..n, h[i - 1] \in Seq(W)
         PROVE  h[i] \in Seq(W)
    <3>1. h[i] = flatten[i] /\ seqs[i] \in Seq(W)
      BY <1>1
    <3>2. CASE i = 1
      BY <2>10, <3>1, <3>2
    <3>3. CASE i # 1
      <4>1. h[i - 1] = flatten[i - 1] /\ flatten[i] = flatten[i - 1] \o seqs[i]
        BY <1>1, <2>10, <3>3
      <4> HIDE DEF h
      <4> QED
        BY <2>12, <3>1, <4>1
    <3> QED
      BY <3>2, <3>3
  <2> HIDE DEF h
  <2>12a. \A i \in 1..n : h[i - 1] \in Seq(W) => h[i] \in Seq(W)
    BY <2>12
  <2>12b. \A i \in 0..n : h[i] \in Seq(W)
    BY Zenon, <1>1, <2>11, <2>12a, Throughout
  <2>13. n \in 0..n /\ n # 0
    BY <1>1, <1>4
  <2>14. h[0] = <<>> /\ h[n] = FlattenSeq(seqs)
    BY <1>1, <1>2, <1>4, <2>13 DEF h
  <2>15. ASSUME NEW i \in 1..n
         PROVE  h[i] = h[i - 1] \o seqs[i]
    <3>1. i \in 0..n /\ i - 1 \in 0..n /\ h[i] = flatten[i] /\ (i # 1 => h[i - 1] = flatten[i - 1])
      BY <1>1 DEF h
    <3>2. CASE i = 1
      <4>1. h[i - 1] = <<>> /\ h[i] = seqs[i] /\ seqs[i] \in Seq(W)
        BY <1>1, <2>10, <2>14, <3>1, <3>2
      <4>2. <<>> \o seqs[i] = seqs[i]
        BY <4>1, ConcatEmptySeq
      <4> QED
        BY <4>1, <4>2
    <3>3. CASE i # 1
      BY <2>10, <3>1, <3>3
    <3> QED
      BY <3>2, <3>3
  <2>16. Grows(h, seqs)
    BY <1>1, <2>14, <2>15 DEF Grows, n
  <2> QED
    BY <2>12b, <2>16 DEF n
<1> QED
  BY <1>3, <1>4

LEMMA FlatIs ==
  ASSUME NEW seqs, IsSequence(seqs), NEW W, \A n \in DOMAIN seqs : seqs[n] \in Seq(W)
  PROVE  FlattenSeq(seqs) \in Seq(W)
<1>1. PICK h : Grows(h, seqs) /\ \A i \in 0..Len(seqs) : h[i] \in Seq(W)
  BY FlatGrows
<1>2. Len(seqs) \in Nat
  BY Sequences_
<1> QED
  BY <1>1, <1>2 DEF Grows
-----------------------------------------------------------------------------
(* What the walk over the library's views becomes. *)

LEMMA InOrderIs ==
  ASSUME NEW walks, IsSequence(walks), \A n \in DOMAIN walks : walks[n].index \in Nat
  PROVE  /\ IsSequence(InOrder(walks)) /\ DOMAIN InOrder(walks) = DOMAIN walks
         /\ \A n \in DOMAIN walks : \E m \in DOMAIN walks : InOrder(walks)[n] = walks[m]
<1> DEFINE n == Len(walks)
           ranks == [i \in DOMAIN walks |-> walks[i].index]
           At(k) == CHOOSE i \in DOMAIN ranks : Place(ranks, i) = k
           sorted == [k \in DOMAIN ranks |-> walks[At(k)]]
           By(r) == [k \in DOMAIN r |-> walks[CHOOSE i \in DOMAIN r : Place(r, i) = k]]
           all == {By(r) : r \in {ranks}}
<1>1. n \in Nat /\ DOMAIN walks = 1..n
  BY Sequences_
<1>2. InOrder(walks) = Only(all)
  BY DEF InOrder, SortedBy, Place, NotAfter
<1>2a. By(ranks) = sorted
  OBVIOUS
<1>2b. Only(all) = sorted
  <2> HIDE DEF By
  <2>1. all = {By(ranks)}
    OBVIOUS
  <2> HIDE DEF all
  <2> QED
    BY Zenon, <1>2a, <2>1, OnlyOne
<1> HIDE DEF all, By
<1>3. ranks \in [1..n -> Int]
  BY <1>1
<1>4. DOMAIN ranks = DOMAIN walks
  OBVIOUS
<1> HIDE DEF ranks, n
<1>5. \A k \in 1..n : At(k) \in DOMAIN walks
  BY Zenon, <1>1, <1>3, <1>4, PlacesAreTaken
<1> HIDE DEF At
<1>6. IsSequence(sorted) /\ DOMAIN sorted = DOMAIN walks
  BY <1>4, SameLength
<1>7. \A k \in DOMAIN walks : sorted[k] = walks[At(k)]
  BY <1>4
<1> HIDE DEF sorted
<1> QED
  BY <1>1, <1>2, <1>2b, <1>5, <1>6, <1>7

LEMMA WireRecordProper ==
  ASSUME NEW v, NEW p, p.kind \in Mapped, Lists(p, {"points"}),
         p.kind = "polyline" => Lists(p, {"bulges"}),
         p.kind = "spline" => Lists(p, {"knots", "weights"})
  PROVE  Proper(WireRecord(v, p))
<1> DEFINE x == WireRecord(v, p)
<1>1. IsSequence(p.points)
  BY DEF Lists
<1>2. CASE p.kind = "line"
  <2>1. x.record = "line"
    BY <1>2 DEF WireRecord, LineRecord
  <2> QED
    BY <2>1, KindsAre, ProperPlain
<1>3. CASE p.kind = "polyline"
  <2> DEFINE local == [i \in DOMAIN p.points |-> ToOcs(p.normal, p.points[i])]
             flat == [i \in DOMAIN local |-> 0]
             bulges == IF Len(p.bulges) = Len(local) THEN p.bulges ELSE flat
             r == [record |-> "polyline", view |-> v, closed |-> p.closed, normal |-> p.normal, points |-> local,
                   bulges |-> bulges]
  <2>1. x = r
    BY <1>3 DEF WireRecord
  <2>2. IsSequence(local)
    BY <1>1, SameLength
  <2> HIDE DEF local
  <2>3. IsSequence(flat) /\ Len(flat) = Len(local)
    BY <2>2, SameLength
  <2> HIDE DEF flat
  <2>4. IsSequence(p.bulges)
    BY <1>3 DEF Lists
  <2>5. IsSequence(bulges) /\ Len(local) = Len(bulges)
    BY <2>3, <2>4
  <2> HIDE DEF bulges
  <2>6. r.record = "polyline" /\ r.points = local /\ r.bulges = bulges
    OBVIOUS
  <2> HIDE DEF r
  <2> QED
    BY <2>1, <2>2, <2>5, <2>6, ProperPolyline
<1>4. CASE p.kind = "polygon"
  <2>1. x.record = "polygon" /\ x.points = p.points
    BY <1>4 DEF WireRecord
  <2> HIDE DEF x
  <2> QED
    BY <1>1, <2>1, ProperPolygon DEF x
<1>5. CASE p.kind = "circle"
  <2>1. x.record = "circle"
    BY <1>5 DEF WireRecord
  <2> QED
    BY <2>1, KindsAre, ProperPlain
<1>6. CASE p.kind = "arc"
  <2>1. x.record = "arc"
    BY <1>6 DEF WireRecord
  <2> QED
    BY <2>1, KindsAre, ProperPlain
<1>7. CASE p.kind = "ellipse"
  <2>1. x.record = "ellipse"
    BY <1>7 DEF WireRecord
  <2> QED
    BY <2>1, KindsAre, ProperPlain
<1>8. CASE p.kind = "spline"
  <2> DEFINE weights == IF p.rational THEN p.weights ELSE <<>>
             none == <<>>
             r == [record |-> "spline", view |-> v, degree |-> 3, closed |-> p.closed, periodic |-> FALSE,
                   control_points |-> p.points, knots |-> p.knots, weights |-> weights, fit_points |-> none]
  <2>1. x = r
    BY <1>8 DEF WireRecord
  <2>2. IsSequence(p.knots) /\ IsSequence(p.weights)
    BY <1>8 DEF Lists
  <2>3. IsSequence(weights) /\ IsSequence(none)
    BY <2>2, EmptySequence
  <2> HIDE DEF weights, none
  <2>4. /\ r.record = "spline" /\ r.control_points = p.points /\ r.knots = p.knots
        /\ r.weights = weights /\ r.fit_points = none
    OBVIOUS
  <2> HIDE DEF r
  <2> QED
    BY <1>1, <2>1, <2>2, <2>3, <2>4, ProperSpline
<1>9. CASE p.kind = "text"
  <2>1. x.record = "text"
    BY <1>9 DEF WireRecord
  <2> QED
    BY <2>1, KindsAre, ProperPlain
<1> HIDE DEF x
<1> QED
  BY <1>2, <1>3, <1>4, <1>5, <1>6, <1>7, <1>8, <1>9 DEF Mapped, x

\* What stands in lists put one after the other stood in one of them.
LEMMA FlatFrom ==
  ASSUME NEW seqs, IsSequence(seqs), \A n \in DOMAIN seqs : IsSequence(seqs[n])
  PROVE  LET flat == FlattenSeq(seqs)
         IN  /\ IsSequence(flat)
             /\ \A k \in DOMAIN flat : \E n \in DOMAIN seqs : \E m \in DOMAIN seqs[n] : flat[k] = seqs[n][m]
<1> DEFINE W == UNION {Values(seqs[n]) : n \in DOMAIN seqs}
           flat == FlattenSeq(seqs)
<1>1. \A n \in DOMAIN seqs : seqs[n] \in Seq(Values(seqs[n])) /\ Values(seqs[n]) \subseteq W
  BY DEF IsSequence, Values
<1>2. \A x \in W : \E n \in DOMAIN seqs : \E m \in DOMAIN seqs[n] : x = seqs[n][m]
  BY DEF Values
<1> HIDE DEF W
<1>3. \A n \in DOMAIN seqs : seqs[n] \in Seq(W)
  BY <1>1, SeqMonotonic
<1>4. flat \in Seq(W)
  BY <1>3, FlatIs
<1> HIDE DEF flat
<1>5. IsSequence(flat) /\ \A n \in DOMAIN flat : flat[n] \in W
  BY <1>4, SequenceOf
<1>6. \A k \in DOMAIN flat : \E n \in DOMAIN seqs : \E m \in DOMAIN seqs[n] : flat[k] = seqs[n][m]
  BY <1>2, <1>5
<1> QED
  BY <1>5, <1>6 DEF flat

\* Rows that came with a handle.
Handled(rows) == \A n \in DOMAIN rows : rows[n].handle \in Nat

LEMMA JoinedHandled ==
  ASSUME NEW s, Carrying(s), Handled(s), NEW t, Carrying(t), Handled(t)
  PROVE  Carrying(s \o t) /\ Handled(s \o t)
<1>1. IsSequence(s) /\ IsSequence(t)
  BY DEF Carrying
<1> DEFINE j == s \o t
<1>2. \A n \in DOMAIN j : \/ n \in DOMAIN s /\ j[n] = s[n]
                          \/ n - Len(s) \in DOMAIN t /\ j[n] = t[n - Len(s)]
  BY <1>1, Joined
<1> HIDE DEF j
<1>3. Handled(j)
  BY <1>2 DEF Handled
<1> QED
  BY <1>3, JoinedCarrying DEF j

LEMMA FlatCarries ==
  ASSUME NEW seqs, IsSequence(seqs), \A n \in DOMAIN seqs : Carrying(seqs[n]) /\ Handled(seqs[n])
  PROVE  Carrying(FlattenSeq(seqs)) /\ Handled(FlattenSeq(seqs))
<1> DEFINE flat == FlattenSeq(seqs)
<1>1. /\ IsSequence(flat)
      /\ \A k \in DOMAIN flat : \E n \in DOMAIN seqs : \E m \in DOMAIN seqs[n] : flat[k] = seqs[n][m]
  BY FlatFrom DEF Carrying
<1> HIDE DEF flat
<1>2. \A n \in DOMAIN seqs : \A m \in DOMAIN seqs[n] : Proper(seqs[n][m].record) /\ seqs[n][m].handle \in Nat
  BY DEF Carrying, Handled
<1>3. Carrying(flat) /\ Handled(flat)
  BY <1>1, <1>2 DEF Carrying, Handled
<1> QED
  BY <1>3 DEF flat

LEMMA OneHandled ==
  ASSUME NEW x, Proper(x.record), x.handle \in Nat
  PROVE  Carrying(<<x>>) /\ Handled(<<x>>)
BY OneCarried, OneElement DEF Handled

\* The warnings of the wire are among those it sorts.
Alarms == Values(WireWarnings)

Alarming(ws) == IsSequence(ws) /\ \A n \in DOMAIN ws : ws[n].warning \in Alarms /\ ws[n].handle \in Nat

LEMMA UnknownIsSaid ==
  LET odd == Told("unknown", NoType, "wire_record", 0)
  IN  odd.warning \in Alarms /\ odd.handle \in Nat
<1>1. WireWarnings[6] = <<"unknown", NoType, "wire_record">> /\ 6 \in DOMAIN WireWarnings
  BY DEF WireWarnings
<1>2. Told("unknown", NoType, "wire_record", 0).warning = WireWarnings[6]
  BY <1>1 DEF Told, Warn
<1>3. Told("unknown", NoType, "wire_record", 0).handle \in Nat
  BY DEF Told
<1> QED
  BY <1>1, <1>2, <1>3 DEF Alarms, Values

LEMMA AlarmRank ==
  ASSUME NEW said, said.warning \in Alarms
  PROVE  WireRank(said) \in Int
<1>1. DOMAIN WireWarnings = 1..9
  BY DEF WireWarnings
<1>2. \E n \in DOMAIN WireWarnings : WireWarnings[n] = said.warning
  BY DEF Alarms, Values
<1>3. WireRank(said) \in DOMAIN WireWarnings
  BY <1>2 DEF WireRank
<1> QED
  BY <1>1, <1>3

LEMMA BodyCarries ==
  ASSUME NEW v, NEW items, IsSequence(items), \A n \in DOMAIN items : IsItem(items[n])
  PROVE  Carrying(BodyOf(v, items)) /\ Handled(BodyOf(v, items))
<1> DEFINE each == [n \in DOMAIN items |->
                      IF items[n].item = "primitive" THEN <<PrimitiveRow(v, items[n])>> ELSE <<>>]
<1>1. BodyOf(v, items) = FlattenSeq(each)
  BY DEF BodyOf
<1>2. IsSequence(each) /\ DOMAIN each = DOMAIN items
  BY SameLength
<1>3. \A n \in DOMAIN items : each[n] = IF items[n].item = "primitive" THEN <<PrimitiveRow(v, items[n])>> ELSE <<>>
  OBVIOUS
<1> HIDE DEF each
<1>4. ASSUME NEW n \in DOMAIN items
      PROVE  Carrying(each[n]) /\ Handled(each[n])
  <2>1. CASE items[n].item = "primitive"
    <3> DEFINE p == items[n]
               row == PrimitiveRow(v, p)
    <3>1. /\ Lists(p, {"points"}) /\ (p.kind = "polyline" => Lists(p, {"bulges"}))
          /\ (p.kind = "spline" => Lists(p, {"knots", "weights"})) /\ p.handle \in Nat
      BY <2>1 DEF IsItem
    <3>2. each[n] = <<row>>
      BY Zenon, <1>3, <2>1
    <3> HIDE DEF p
    <3>2a. row.handle \in Nat
      BY <3>1 DEF PrimitiveRow, Row
    <3>3. CASE p.kind \in Mapped
      <4>1. row.record = WireRecord(v, p)
        BY <3>3 DEF PrimitiveRow, Row
      <4> HIDE DEF row
      <4> QED
        BY <3>1, <3>2, <3>2a, <3>3, <4>1, WireRecordProper, OneHandled
    <3>4. CASE p.kind \notin Mapped
      <4>1. row.record.record = "warning"
        BY <3>4 DEF PrimitiveRow, Row, WarningRecord
      <4> HIDE DEF row
      <4> QED
        BY <3>2, <3>2a, <4>1, KindsAre, ProperPlain, OneHandled
    <3> QED
      BY <3>3, <3>4
  <2>2. CASE items[n].item # "primitive"
    <3>1. each[n] = <<>>
      BY Zenon, <1>3, <2>2
    <3> QED
      BY <3>1, NoneCarried, EmptySequence DEF Handled
  <2> QED
    BY <2>1, <2>2
<1> QED
  BY <1>1, <1>2, <1>4, FlatCarries

LEMMA WarnedIs ==
  ASSUME NEW items, IsSequence(items), \A n \in DOMAIN items : IsItem(items[n])
  PROVE  Alarming(WarningsOf(items))
<1> DEFINE odd == Told("unknown", NoType, "wire_record", 0)
           each == [n \in DOMAIN items |->
                      CASE items[n].item = "warning" -> <<WireWarning(items[n])>>
                        [] items[n].item = "unknown" -> <<odd>>
                        [] OTHER -> <<>>]
           flat == FlattenSeq(each)
<1>1. WarningsOf(items) = flat
  BY DEF WarningsOf
<1>2. IsSequence(each) /\ DOMAIN each = DOMAIN items
  BY SameLength
<1>3. ASSUME NEW n \in DOMAIN items
      PROVE  Alarming(each[n])
  <2> DEFINE own == WireWarning(items[n])
  <2>1. \/ items[n].item = "warning" /\ each[n] = <<own>>
        \/ each[n] = <<odd>>
        \/ each[n] = <<>>
    BY Zenon
  <2> HIDE DEF each
  <2>2. items[n].item = "warning" => own.warning \in Alarms /\ own.handle \in Nat
    <3> SUFFICES ASSUME items[n].item = "warning" PROVE own.warning \in Alarms /\ own.handle \in Nat
      OBVIOUS
    <3>1. own.handle = items[n].handle
      BY DEF WireWarning, Told
    <3> QED
      BY <3>1 DEF IsItem, Alarms, Values
  <2>3. odd.warning \in Alarms /\ odd.handle \in Nat
    BY UnknownIsSaid
  <2> HIDE DEF odd, own
  <2>4. \A x : x.warning \in Alarms /\ x.handle \in Nat => Alarming(<<x>>)
    BY OneElement DEF Alarming
  <2>5. Alarming(<<>>)
    BY EmptySequence DEF Alarming
  <2> QED
    BY Zenon, <2>1, <2>2, <2>3, <2>4, <2>5
<1> HIDE DEF each
<1>4. /\ IsSequence(flat)
      /\ \A k \in DOMAIN flat : \E n \in DOMAIN each : \E m \in DOMAIN each[n] : flat[k] = each[n][m]
  BY <1>2, <1>3, FlatFrom DEF Alarming
<1> HIDE DEF flat
<1>5. Alarming(flat)
  BY <1>2, <1>3, <1>4 DEF Alarming
<1> QED
  BY <1>1, <1>5

WarningsOfAll(views) == FlattenSeq([v \in DOMAIN views |-> WarningsOf(views[v].items)])

LEMMA AllWarnedIs ==
  ASSUME NEW views, IsSequence(views),
         \A v \in DOMAIN views :
           IsSequence(views[v].items) /\ \A i \in DOMAIN views[v].items : IsItem(views[v].items[i])
  PROVE  Alarming(WarningsOfAll(views))
<1> DEFINE each == [v \in DOMAIN views |-> WarningsOf(views[v].items)]
           flat == FlattenSeq(each)
<1>1. IsSequence(each) /\ DOMAIN each = DOMAIN views
  BY SameLength
<1>2. \A v \in DOMAIN views : Alarming(each[v])
  BY WarnedIs
<1>3. WarningsOfAll(views) = flat
  BY DEF WarningsOfAll
<1> HIDE DEF each
<1>4. /\ IsSequence(flat)
      /\ \A k \in DOMAIN flat : \E n \in DOMAIN each : \E m \in DOMAIN each[n] : flat[k] = each[n][m]
  BY <1>1, <1>2, FlatFrom DEF Alarming
<1> HIDE DEF flat
<1>5. Alarming(flat)
  BY <1>1, <1>2, <1>4 DEF Alarming
<1> QED
  BY <1>3, <1>5

LEMMA WalkRowsCarry ==
  ASSUME NEW version, NEW ordered, IsSequence(ordered),
         \A n \in DOMAIN ordered :
           IsSequence(ordered[n].items) /\ \A i \in DOMAIN ordered[n].items : IsItem(ordered[n].items[i])
  PROVE  Carrying(WalkRows(version, ordered)) /\ Handled(WalkRows(version, ordered))
<1> DEFINE document == [record |-> "document", format |-> "dwg", acad_version |-> VersionName(version),
                        maintenance_version |-> 0]
           Kind(v) == IF ordered[v].kind \in {"model", "layout"} THEN ordered[v].kind ELSE "unknown"
           Header(v) == Row([record |-> "view", index |-> v - 1, name |-> ordered[v].name, kind |-> Kind(v)], 0, "none")
           heads == [v \in DOMAIN ordered |-> Header(v)]
           bodies == [v \in DOMAIN ordered |-> BodyOf(v - 1, ordered[v].items)]
           each == [v \in DOMAIN ordered |-> WarningsOf(ordered[v].items)]
           warned == FlattenSeq(each)
           sorted == SortedBy(warned, WireRank)
           Closing(s) == [n \in DOMAIN s |->
                         Row(WarningRecord(s[n].warning[1], s[n].warning[2], s[n].warning[3]), s[n].handle, "none")]
           first == <<Row(document, 0, "none")>>
           body == FlattenSeq(bodies)
           all == {Closing(s) : s \in {SortedBy(said, WireRank) : said \in {warned}}}
<1>1. WalkRows(version, ordered) = first \o heads \o body \o Only(all)
  BY DEF WalkRows
<1>2. Carrying(first) /\ Handled(first)
  <2> DEFINE row == Row(document, 0, "none")
  <2>1. row.record.record = "document" /\ row.handle \in Nat
    BY DEF Row
  <2> HIDE DEF row
  <2>2. Carrying(<<row>>) /\ Handled(<<row>>)
    BY <2>1, KindsAre, ProperPlain, OneHandled
  <2> QED
    BY <2>2 DEF row
<1>3. Carrying(heads) /\ Handled(heads)
  <2>1. IsSequence(heads) /\ DOMAIN heads = DOMAIN ordered
    BY SameLength
  <2>2. \A v \in DOMAIN ordered : heads[v].record.record = "view" /\ heads[v].handle \in Nat
    BY DEF Row
  <2> HIDE DEF heads
  <2> QED
    BY <2>1, <2>2, KindsAre, ProperPlain DEF Carrying, Handled
<1>4. Carrying(body) /\ Handled(body)
  <2>1. IsSequence(bodies) /\ DOMAIN bodies = DOMAIN ordered
    BY SameLength
  <2>2. \A v \in DOMAIN ordered : Carrying(bodies[v]) /\ Handled(bodies[v])
    BY BodyCarries
  <2> HIDE DEF bodies
  <2> QED
    BY <2>1, <2>2, FlatCarries
<1>5. Alarming(warned)
  BY AllWarnedIs DEF WarningsOfAll
<1> HIDE DEF first, heads, body, warned
<1>6. Alarming(sorted)
  <2> DEFINE ranks == [i \in DOMAIN warned |-> WireRank(warned[i])]
             By(r) == [k \in DOMAIN r |-> warned[Held(r, k)]]
             few == {By(r) : r \in {ranks}}
  <2>1. sorted = Only(few)
    BY DEF SortedBy, Held, Place, NotAfter
  <2>2. ranks \in [DOMAIN warned -> Int]
    BY <1>5, AlarmRank DEF Alarming
  <2> HIDE DEF ranks
  <2>3. DOMAIN ranks = DOMAIN warned /\ \A k \in DOMAIN warned : Held(ranks, k) \in DOMAIN warned
    BY <1>5, <2>2, EachIsHeld DEF Alarming
  <2> DEFINE put == By(ranks)
  <2>4. /\ put = [k \in DOMAIN warned |-> put[k]]
        /\ \A k \in DOMAIN warned : put[k] = warned[Held(ranks, k)]
    BY <2>3
  <2> HIDE DEF put
  <2>5. IsSequence(put) /\ DOMAIN put = DOMAIN warned
    BY <1>5, <2>4, SameLength DEF Alarming
  <2>6. Alarming(put)
    BY <1>5, <2>3, <2>4, <2>5 DEF Alarming
  <2> USE DEF put
  <2> HIDE DEF By
  <2>7. few = {By(ranks)}
    OBVIOUS
  <2> HIDE DEF few
  <2> QED
    BY Zenon, <2>1, <2>6, <2>7, OnlyOne
<1>7. all = {Closing(sorted)}
  <2> HIDE DEF Closing
  <2> QED
    OBVIOUS
<1> HIDE DEF sorted, all
<1>8. Carrying(Closing(sorted)) /\ Handled(Closing(sorted))
  <2>1. IsSequence(Closing(sorted)) /\ DOMAIN Closing(sorted) = DOMAIN sorted
    BY <1>6, SameLength DEF Alarming
  <2>2. \A n \in DOMAIN sorted : /\ Closing(sorted)[n].record.record = "warning"
                                /\ Closing(sorted)[n].handle = sorted[n].handle
    BY DEF Row, WarningRecord
  <2> HIDE DEF Closing
  <2> QED
    BY <1>6, <2>1, <2>2, KindsAre, ProperPlain DEF Carrying, Handled, Alarming
<1> HIDE DEF Closing
<1>9. Only(all) = Closing(sorted)
  BY <1>7, OnlyOne
<1> DEFINE upper == first \o heads \o body
           rows == upper \o Closing(sorted)
<1>10. Carrying(upper) /\ Handled(upper)
  BY <1>2, <1>3, <1>4, JoinedHandled
<1> HIDE DEF upper
<1>11. Carrying(rows) /\ Handled(rows)
  BY <1>8, <1>10, JoinedHandled
<1>12. WalkRows(version, ordered) = rows
  BY <1>1, <1>9 DEF upper
<1> HIDE DEF rows
<1> QED
  BY <1>11, <1>12

LEMMA MapWalkFormed ==
  ASSUME NEW version, NEW w, IsWalk(w)
  PROVE  WellFormed(MapWalk(version, w.views))
<1> DEFINE ordered == InOrder(w.views)
           rows == WalkRows(version, ordered)
           Sidecar(r) == [n \in DOMAIN r |->
                            [i |-> n - 1, h |-> <<r[n].handle>>, t |-> "none", x |-> r[n].x, d |-> "none"]]
           Of(r) == [records |-> [n \in DOMAIN r |-> r[n].record], sidecar |-> Sidecar(r)]
           all == {Of(r) : r \in {WalkRows(version, o) : o \in {InOrder(w.views)}}}
<1>1. MapWalk(version, w.views) = Only(all)
  BY DEF MapWalk
<1>2. /\ IsSequence(w.views)
      /\ \A n \in DOMAIN w.views :
           /\ w.views[n].index \in Nat /\ IsSequence(w.views[n].items)
           /\ \A i \in DOMAIN w.views[n].items : IsItem(w.views[n].items[i])
  BY DEF IsWalk, Lists
<1>3. /\ IsSequence(ordered)
      /\ \A n \in DOMAIN ordered :
           IsSequence(ordered[n].items) /\ \A i \in DOMAIN ordered[n].items : IsItem(ordered[n].items[i])
  BY <1>2, InOrderIs
<1>4. all = {Of(rows)}
  <2> HIDE DEF Of
  <2> QED
    OBVIOUS
<1> HIDE DEF all, ordered
<1>5. Carrying(rows) /\ Handled(rows)
  BY <1>3, WalkRowsCarry
<1> HIDE DEF rows
<1> DEFINE sidecar == Sidecar(rows)
<1>6. sidecar = [n \in DOMAIN rows |-> sidecar[n]]
  OBVIOUS
<1>7. \A n \in DOMAIN rows : IsEntry(sidecar[n]) /\ Names(sidecar[n], n, rows[n].record)
  <2> SUFFICES ASSUME NEW n \in DOMAIN rows
               PROVE  IsEntry(sidecar[n]) /\ Names(sidecar[n], n, rows[n].record)
    OBVIOUS
  <2> DEFINE x == sidecar[n]
             h == rows[n].handle
  <2>1. x.i = n - 1 /\ x.h = <<h>> /\ x.t = "none" /\ IsEntry(x)
    BY DEF IsEntry
  <2>2. h \in Nat
    BY <1>5 DEF Handled
  <2> HIDE DEF x, h
  <2>3. <<h>> \in Paths /\ <<h>> # <<>>
    BY <2>2 DEF Paths
  <2>4. Names(x, n, rows[n].record)
    BY <2>1, <2>3 DEF Names
  <2> QED
    BY <2>1, <2>4 DEF x
<1> HIDE DEF sidecar
<1>8. WellFormed(Of(rows))
  BY <1>5, <1>6, <1>7, Emitted DEF sidecar
<1> HIDE DEF Of
<1> QED
  BY <1>1, <1>4, <1>8, OnlyOne

\* What the run has in hand, and what it has emitted.
EmitInv ==
  /\ IsDrawing(drawing) /\ IsWalk(wire) /\ Opened(frames) /\ at \in Paths
  /\ ~Finished => InHand
  /\ Finished => WellFormed(emission)

LEMMA EmitStarts == MainInit => EmitInv
<1> SUFFICES ASSUME MainInit PROVE EmitInv
  OBVIOUS
<1>1. IsDrawing(drawing) /\ IsWalk(wire) /\ Started
  BY InputsAssumption DEF MainInit, StreamInit
<1>2. ~Finished
  BY <1>1 DEF Started, Finished
<1> QED
  BY <1>1, <1>2, HandStarts DEF EmitInv, InHand

LEMMA EmitStays ==
  ASSUME EmitInv, UNCHANGED <<drawing, wire, frames, at, head, sink, warnings, emission>>
  PROVE  EmitInv'
BY DEF EmitInv, InHand, Finished, Opened

LEMMA WalkKeeps ==
  ASSUME EmitInv, EmitNext, wire' = wire
  PROVE  EmitInv'
<1>1. drawing' = drawing
  BY Zenon DEF EmitNext, BeginView, SkipInvisible, DrawLeaf, RefuseInsert, EnterInsert, ReadDimension,
         ReadTable, NextCell, LeaveBlock, LeaveView, Finish
<1>2. Opened(frames') /\ at' \in Paths
  BY OpenedStep DEF EmitInv
<1>3. CASE Finished
  <2>1. emission' = emission
    BY <1>3, EmissionStays
  <2> QED
    BY <1>1, <1>2, <1>3, <2>1 DEF EmitInv, Finished, Opened
<1>4. CASE ~Finished
  <2>1. InHand /\ Opened(frames) /\ IsDrawing(drawing)
    BY <1>4 DEF EmitInv
  <2>2. InHand'
    BY <2>1, HandStep
  <2>3. CASE Finish
    <3>1. WellFormed(emission')
      BY <2>1, <2>3, FinishedFormed
    <3> QED
      BY <1>1, <1>2, <2>2, <3>1 DEF EmitInv, Opened
  <2>4. CASE ~Finish
    <3>1. emission' = emission
      BY Zenon, <2>4 DEF EmitNext, BeginView, SkipInvisible, DrawLeaf, RefuseInsert, EnterInsert, ReadDimension,
                  ReadTable, NextCell, LeaveBlock, LeaveView
    <3> QED
      BY <1>1, <1>2, <1>4, <2>2, <3>1 DEF EmitInv, Finished, Opened
  <2> QED
    BY <2>3, <2>4
<1> QED
  BY <1>3, <1>4

LEMMA MappingKeeps == ASSUME EmitInv, MapWire PROVE EmitInv'
<1>1. /\ emission' = MapWalk(wire.version, wire.views) /\ ~Finished
      /\ UNCHANGED <<drawing, frames, at, head, sink, warnings, wire>>
  BY DEF MapWire, streamVars
<1>2. WellFormed(emission')
  BY <1>1, MapWalkFormed DEF EmitInv
<1> QED
  BY <1>1, <1>2 DEF EmitInv, InHand, Opened

LEMMA WritingKeeps == ASSUME EmitInv, Write PROVE EmitInv'
<1>1. Finished /\ emission' = emission /\ UNCHANGED <<drawing, frames, at, wire>>
  BY DEF Write
<1> QED
  BY <1>1 DEF EmitInv, Finished, Opened

LEMMA EmitStep == EmitInv /\ [MainNext]_mainVars => EmitInv'
<1> SUFFICES ASSUME EmitInv, [MainNext]_mainVars PROVE EmitInv'
  OBVIOUS
<1>1. CASE RefuseToRead
  BY <1>1, EmitStays DEF RefuseToRead, emitVars
<1>2. CASE Extract
  BY <1>2, WalkKeeps, MappingKeeps DEF Extract, Walk, streamVars
<1>3. CASE RenderModel1
  BY <1>3, EmitStays DEF RenderModel1, emitVars, streamVars
<1>4. CASE GiveUp
  BY <1>4, EmitStays DEF GiveUp, emitVars
<1>5. CASE WriteEmission
  BY <1>5, WritingKeeps DEF WriteEmission
<1>6. CASE ReadEmission
  BY Zenon, <1>6, EmitStays DEF ReadEmission, Spoil, Open, ReadLine, ReadEntry, emitVars
<1>7. CASE ReadModel1
  BY <1>7, EmitStays DEF ReadModel1, emitVars, streamVars
<1>8. CASE Settled
  BY <1>8, EmitStays DEF Settled, emitVars, streamVars
<1>9. CASE UNCHANGED mainVars
  BY <1>9, EmitStays DEF mainVars, emitVars, streamVars
<1> QED
  BY <1>1, <1>2, <1>3, <1>4, <1>5, <1>6, <1>7, <1>8, <1>9 DEF MainNext

\* Whatever drawing or walk a run is given, and whatever one thing happens to
\* the two files between the emitter and its reader: a reading that comes to
\* its end has the engine's own records, each as it was emitted but for the
\* spelling of zero, and the engine's own sidecar, entry for entry - but for
\* the one value that became another the schema allows, or for two neighbouring
\* records in each other's place whose entries name no two kinds.  Every other
\* line that is altered, lost, repeated or moved is noticed, and no number that
\* is not finite is among what is read.
THEOREM ReadIsEmittedInARun == MainSpec => []ReadIsEmitted
<1>1. MainSpec => []EmitInv
  BY EmitStarts, EmitStep, PTL DEF MainSpec, mainVars
<1>2. EmitInv => (Finished => WellFormed(emission))
  BY DEF EmitInv
<1>3. EmitInv /\ ReadInv /\ [MainNext]_mainVars => ReadInv'
  BY <1>2, ReadStep
<1>4. MainSpec => []ReadInv
  BY <1>1, <1>3, ReadStarts, PTL DEF MainSpec, mainVars
<1> QED
  BY <1>4, ReadShown, PTL
-----------------------------------------------------------------------------
(* What a refusal leads to. *)

\* A line of the stream that is taken for a record is taken for one of the kind
\* that was written there.
LEMMA StreamKinds ==
  ASSUME NEW f, NEW e, NEW s, Lying(f, e, s), NEW m \in DOMAIN f.stream, Accepted(f.stream[m])
  PROVE  LET k == IF s.file = "stream" THEN From(s, m) ELSE m
         IN  k \in DOMAIN e.records /\ ParsedRecord(f.stream[m]).record = e.records[k].record
<1> DEFINE a == RenderStream(e.records)
           new == f.stream
<1>1. /\ DOMAIN a = DOMAIN e.records
      /\ \A k \in DOMAIN e.records :
           a[k] = RenderRecord(e.records[k]) /\ Proper(e.records[k]) /\ e.records[k].record \in Kinds
  BY WrittenAre DEF Lying
<1>2. \/ s.file # "stream" /\ new = a
      \/ s.file = "stream" /\ Placed(a, new, s) /\ (s.how \in Moves \/ <<s.how, s.key>> \in LineWays(a, s.line))
  <2>1. Untouched.file = "neither"
    BY DEF Untouched
  <2> QED
    BY <2>1, LyingIs
<1> HIDE DEF a
<1>3. ASSUME NEW k \in DOMAIN e.records, new[m] = a[k]
      PROVE  ParsedRecord(new[m]).record = e.records[k].record
  BY <1>1, <1>3, ReadKind
<1>4. CASE s.file # "stream" /\ new = a
  <2>1. m \in DOMAIN e.records /\ new[m] = a[m]
    BY <1>1, <1>4
  <2>2. ParsedRecord(new[m]).record = e.records[m].record
    BY <1>3, <2>1
  <2> QED
    BY <1>4, <2>1, <2>2
<1>5. CASE s.file = "stream" /\ Placed(a, new, s) /\ (s.how \in Moves \/ m # s.line)
  <2>1. From(s, m) \in DOMAIN e.records /\ new[m] = a[From(s, m)]
    BY <1>1, <1>5 DEF Placed
  <2>2. ParsedRecord(new[m]).record = e.records[From(s, m)].record
    BY <1>3, <2>1
  <2> QED
    BY <1>5, <2>1, <2>2
<1>6. CASE /\ s.file = "stream" /\ Placed(a, new, s) /\ s.how \notin Moves /\ m = s.line
           /\ <<s.how, s.key>> \in LineWays(a, s.line)
  <2> DEFINE r == e.records[m]
             way == <<s.how, s.key>>
             last == m = Len(a)
  <2>1. From(s, m) = m
    BY <1>6 DEF From, Moves
  <2>2. m \in DOMAIN e.records /\ new[m] = Changed(a[m], s.how, s.key)
    BY <1>1, <1>6 DEF Placed
  <2>3. a[m] = RenderRecord(r) /\ Proper(r)
    BY <1>1, <2>2
  <2>4. way[1] = s.how /\ way[2] = s.key
    OBVIOUS
  <2>5. way \in StreamWays(RenderRecord(r), last) \cup StreamSlips(RenderRecord(r))
    BY <1>6, <2>3 DEF LineWays
  <2> HIDE DEF r, way, last
  <2>6. new[m] = Changed(RenderRecord(r), way[1], way[2])
    BY <2>2, <2>3, <2>4
  <2>7. way \notin StreamWays(RenderRecord(r), last)
    BY <2>3, <2>6, SpoiledIsRefused
  <2>8. PICK k \in DOMAIN Schema[r.record] : way[1] \in {"other", "shorter"} /\ way[2] = Schema[r.record][k][1]
    BY <2>3, <2>5, <2>7, SlipsAre
  <2>9. ParsedRecord(Changed(RenderRecord(r), way[1], Schema[r.record][k][1])).record = r.record
    BY <2>3, <2>8, SlippedHeard DEF HeardBut
  <2>10. ParsedRecord(new[m]).record = r.record
    BY <2>6, <2>8, <2>9
  <2> QED
    BY <1>6, <2>1, <2>2, <2>10 DEF r
<1> QED
  BY <1>2, <1>4, <1>5, <1>6

\* A line of the stream that is refused is the altered one, or that of a record
\* no line of which is accepted.
LEMMA LineRefused ==
  ASSUME ReadInv, ReadLine, state' = "refused"
  PROVE  RefusalLeadsToTheDamage'
<1> DEFINE n == Len(parsed.records) + 1
           line == files.stream[n]
           fault == LineFault(line)
           e == emission
           s == spoiled
           a == RenderStream(e.records)
<1>1. state = "stream" /\ UNCHANGED <<emission, files, spoiled>>
  BY Zenon DEF ReadLine, emitVars
<1>2. /\ ~(n > Len(files.stream)) /\ ~Accepted(line)
      /\ refusal' = [file |-> "stream", line |-> n, fault |-> fault]
  <2>1. IF n > Len(files.stream) THEN GoOn("sidecar")
        ELSE IF ~Accepted(line) THEN Refuse("stream", n, fault)
        ELSE Accept("records", ParsedRecord(line))
    BY Zenon DEF ReadLine, Accepted
  <2> HIDE DEF n, line, fault
  <2>2. ~GoOn("sidecar")
    BY DEF GoOn
  <2>3. ~Accept("records", ParsedRecord(line))
    BY <1>1 DEF Accept
  <2>4. ~(n > Len(files.stream)) /\ ~Accepted(line) /\ Refuse("stream", n, fault)
    BY <2>1, <2>2, <2>3
  <2> QED
    BY <2>4 DEF Refuse
<1>3. Lying(files, e, s) /\ LinesRead(parsed, files)
  BY <1>1 DEF ReadInv
<1>4. n \in DOMAIN files.stream
  <2>1. IsSequence(files.stream) /\ IsSequence(parsed.records)
    BY <1>3, LyingIs DEF LinesRead
  <2>2. Len(files.stream) \in Nat /\ DOMAIN files.stream = 1..Len(files.stream) /\ Len(parsed.records) \in Nat
    BY <2>1, Sequences_
  <2> QED
    BY <1>2, <2>2
<1> HIDE DEF fault
<1>5. refusal'.file = "stream" /\ refusal'.line = n
  BY <1>2
<1>6. /\ DOMAIN a = DOMAIN e.records
      /\ \A k \in DOMAIN e.records : a[k] = RenderRecord(e.records[k]) /\ Proper(e.records[k])
  BY <1>3, WrittenAre DEF Lying
<1>7. \/ files.stream = a
      \/ s.file = "stream" /\ Placed(a, files.stream, s)
  BY <1>3, LyingIs
<1> HIDE DEF n, a
<1>8. \/ \E m \in DOMAIN e.records : line = RenderRecord(e.records[m])
      \/ s.file = "stream" /\ s.how \notin Moves /\ n = s.line
  <2>1. CASE files.stream = a
    BY <1>4, <1>6, <2>1
  <2>2. CASE s.file = "stream" /\ Placed(a, files.stream, s)
    BY <1>4, <1>6, <2>2 DEF Placed
  <2> QED
    BY <1>7, <2>1, <2>2
<1>9. CASE \E m \in DOMAIN e.records : line = RenderRecord(e.records[m])
  <2>1. PICK m \in DOMAIN e.records : line = RenderRecord(e.records[m])
    BY <1>9
  <2>2. ~Intact(e.records[m])
    BY <1>2, <1>6, <2>1, IntactAccepted
  <2> QED
    BY <1>1, <1>5, <2>1, <2>2 DEF RefusalLeadsToTheDamage
<1>10. CASE s.file = "stream" /\ s.how \notin Moves /\ n = s.line
  <2>1. s # Untouched
    BY <1>10 DEF Untouched
  <2> QED
    BY <1>1, <1>5, <1>10, <2>1 DEF RefusalLeadsToTheDamage, Moves
<1> QED
  BY <1>8, <1>9, <1>10

\* Where the line of the sidecar that is refused lies, or 0 for its length.
PointsAt(e, s, line) ==
  /\ s # Untouched
  /\ \/ s.file = "stream" /\ s.how = "swapped" /\ line \in {s.line, s.line + 1}
     \/ s.file = "stream" /\ s.how \in {"lost", "doubled"} /\ (line = 0 \/ line >= s.line)
     \/ s.file = "sidecar" /\ s.how = "lost" /\ s.line = Len(e.sidecar) /\ line = 0
     \/ s.file = "sidecar" /\ s.how = "doubled" /\ line = s.line + 1
     \/ /\ s.file = "sidecar" /\ s.how # "doubled" /\ ~(s.how = "lost" /\ s.line = Len(e.sidecar))
        /\ line = s.line

\* The first entry that does not pass, or an end that comes too early or too
\* late, leads to what was done.
LEMMA EntryLeads ==
  ASSUME NEW f, NEW e, NEW s, Lying(f, e, s),
         NEW rs, DOMAIN rs = DOMAIN f.stream,
         \A m \in DOMAIN rs : Accepted(f.stream[m]) /\ rs[m] = ParsedRecord(f.stream[m]),
         NEW n \in Nat, n # 0,
         \A m \in DOMAIN f.sidecar : m < n => Passes(f.sidecar[m], m, rs),
         NEW line,
         \/ n \in DOMAIN f.sidecar /\ ~Passes(f.sidecar[n], n, rs) /\ line = n
         \/ n = Len(f.sidecar) + 1 /\ Len(f.sidecar) # Len(f.stream) /\ line = 0
  PROVE  PointsAt(e, s, line)
<1> DEFINE a == RenderStream(e.records)
           b == RenderSidecar(e.sidecar)
           L == Len(e.records)
           h == f.sidecar
           g == f.stream
<1>1. /\ L \in Nat /\ DOMAIN e.records = 1..L /\ Len(e.sidecar) = L /\ Len(a) = L /\ Len(b) = L
      /\ DOMAIN b = 1..L
      /\ \A m \in 1..L : b[m] = RenderEntry(e.sidecar[m]) /\ Names(e.sidecar[m], m, e.records[m])
  BY WrittenAre DEF Lying
<1>2. /\ IsSequence(g) /\ IsSequence(h)
      /\ \/ s = Untouched /\ g = a /\ h = b
         \/ s.file = "stream" /\ Placed(a, g, s) /\ h = b /\ s.line \in 1..L
         \/ s.file = "sidecar" /\ Placed(b, h, s) /\ g = a /\ s.line \in 1..L
      /\ s # Untouched /\ s.how = "swapped" => s.line + 1 \in 1..L
  BY <1>1, LyingIs DEF Untouched
<1>3. DOMAIN h = 1..Len(h) /\ Len(h) \in Nat
  BY <1>2, Sequences_
<1>4. ASSUME NEW m \in DOMAIN rs
      PROVE  (s.file = "stream" => From(s, m) = m) => rs[m].record = e.records[m].record
  <2>1. m \in DOMAIN f.stream /\ Accepted(f.stream[m]) /\ rs[m] = ParsedRecord(f.stream[m])
    OBVIOUS
  <2> QED
    BY <2>1, StreamKinds
<1>5. ASSUME NEW m \in 1..L, h[m] = b[m], s.file = "stream" => From(s, m) = m
      PROVE  Passes(h[m], m, rs)
  <2>1. Names(e.sidecar[m], m, e.records[m]) /\ h[m] = RenderEntry(e.sidecar[m])
    BY <1>1, <1>5
  <2>2. m \in DOMAIN rs => rs[m].record = e.records[m].record
    BY <1>4, <1>5
  <2> QED
    BY <2>1, <2>2, WrittenPasses
<1>6. ASSUME NEW m \in DOMAIN h, NEW k \in 1..L, k # m, h[m] = b[k] PROVE ~Passes(h[m], m, rs)
  <2>1. e.sidecar[k].i = k - 1 /\ h[m] = RenderEntry(e.sidecar[k])
    BY <1>1, <1>6 DEF Names
  <2>2. k - 1 # m - 1
    BY <1>3, <1>6
  <2> QED
    BY <2>1, <2>2, Misplaced
<1>7. /\ \A m \in DOMAIN h : m < n => Passes(h[m], m, rs)
      /\ \/ n \in DOMAIN h /\ ~Passes(h[n], n, rs) /\ line = n
         \/ n = Len(h) + 1 /\ Len(h) # Len(g) /\ line = 0
  OBVIOUS
<1> HIDE DEF a, b, L, h, g
<1>8. CASE s = Untouched /\ g = a /\ h = b
  <2>1. \A m \in 1..L : Passes(h[m], m, rs)
    BY <1>5, <1>8 DEF Untouched
  <2> QED
    BY <1>1, <1>7, <1>8, <2>1
<1>9. CASE s.file = "stream" /\ Placed(a, g, s) /\ h = b /\ s.line \in 1..L
  <2>1. s # Untouched
    BY <1>9 DEF Untouched
  <2>2. ASSUME n \in 1..L, From(s, n) = n PROVE line = 0
    BY <1>5, <1>7, <1>9, <2>2
  <2>3. s.how \notin {"lost", "doubled"} => Len(g) = Len(h)
    BY <1>1, <1>9 DEF Placed
  <2>4. DOMAIN h = 1..L /\ s.line \in Int /\ Len(h) = L
    BY <1>1, <1>9
  <2>5. CASE s.how \notin Moves
    <3>1. From(s, n) = n
      BY <2>5 DEF From, Moves
    <3>2. Len(g) = Len(h)
      BY <2>3, <2>5 DEF Moves
    <3> QED
      BY <1>7, <2>2, <2>4, <3>1, <3>2
  <2>6. CASE s.how = "swapped"
    <3>1. n \in 1..L /\ line = n
      BY <1>7, <2>3, <2>4, <2>6
    <3>2. n # s.line /\ n # s.line + 1 => From(s, n) = n
      BY <2>6 DEF From
    <3>3. n # 0
      OBVIOUS
    <3>4. n = s.line \/ n = s.line + 1
      BY <2>2, <3>1, <3>2, <3>3
    <3> QED
      BY <1>9, <2>1, <2>6, <3>1, <3>4 DEF PointsAt
  <2>7. CASE s.how \in {"lost", "doubled"}
    <3>1. n < s.line => From(s, n) = n
      BY <2>4, <2>7 DEF From
    <3>2. line = 0 \/ line >= s.line
      BY <1>7, <2>2, <2>4, <3>1
    <3> QED
      BY <1>9, <2>1, <2>7, <3>2 DEF PointsAt
  <2> QED
    BY <2>5, <2>6, <2>7 DEF Moves
<1>10. CASE s.file = "sidecar" /\ Placed(b, h, s) /\ g = a /\ s.line \in 1..L
  <2>1. s # Untouched
    BY <1>10 DEF Untouched
  <2>2. Len(h) = IF s.how = "lost" THEN L - 1 ELSE IF s.how = "doubled" THEN L + 1 ELSE L
    BY <1>1, <1>10 DEF Placed
  <2>3. \A m \in DOMAIN h : s.how \in Moves \/ m # s.line => From(s, m) \in 1..L /\ h[m] = b[From(s, m)]
    BY <1>1, <1>10 DEF Placed
  <2>4. Len(g) = L /\ Len(e.sidecar) = L /\ s.line \in Int
    BY <1>1, <1>10
  <2>5. ASSUME n \in DOMAIN h, From(s, n) = n, s.how \in Moves \/ n # s.line PROVE FALSE
    <3>1. Passes(h[n], n, rs)
      BY <1>5, <1>10, <2>3, <2>5
    <3>2. ~(n = Len(h) + 1)
      BY <1>3, <2>5
    <3> QED
      BY <1>7, <3>1, <3>2
  <2>6. ASSUME NEW m \in DOMAIN h, From(s, m) # m, s.how \in Moves PROVE ~(m < n)
    BY <1>6, <1>7, <2>3, <2>6
  <2>7. n \in 1..(Len(h) + 1)
    BY <1>3, <1>7
  <2>8. CASE s.how \notin Moves
    <3>1. From(s, n) = n /\ s.how # "lost" /\ s.how # "doubled"
      BY <2>8 DEF From, Moves
    <3>2. n \in DOMAIN h /\ line = n
      BY <1>7, <2>2, <2>4, <3>1
    <3>3. n = s.line
      BY <2>5, <3>1, <3>2
    <3> QED
      BY <1>10, <2>1, <3>1, <3>2, <3>3 DEF PointsAt
  <2>9. CASE s.how = "swapped"
    <3>1. s.line + 1 \in 1..L /\ s.how # "lost" /\ s.how # "doubled" /\ s.how \in Moves
      BY <1>2, <2>1, <2>9 DEF Moves
    <3>2. n \in DOMAIN h /\ line = n /\ s.line \in DOMAIN h
      BY <1>3, <1>7, <1>10, <2>2, <2>4, <3>1
    <3>3. From(s, s.line) # s.line
      BY <2>4, <2>9 DEF From
    <3>4. ~(s.line < n)
      BY <2>6, <3>1, <3>2, <3>3
    <3>5. n < s.line => From(s, n) = n
      BY <2>4, <2>9 DEF From
    <3>6. n = s.line
      BY <2>4, <2>5, <3>1, <3>2, <3>4, <3>5
    <3> QED
      BY <1>10, <2>1, <3>1, <3>2, <3>6 DEF PointsAt
  <2>10. CASE s.how = "lost"
    <3>1. s.how \in Moves /\ Len(h) = L - 1
      BY <2>2, <2>10 DEF Moves
    <3>2. n < s.line => From(s, n) = n
      BY <2>4, <2>10 DEF From
    <3>3. From(s, s.line) # s.line
      BY <2>4, <2>10 DEF From
    <3>4. CASE s.line = L
      <4>1. n \notin DOMAIN h
        BY <1>1, <1>3, <2>5, <3>1, <3>2, <3>4
      <4> QED
        BY <1>7, <1>10, <2>1, <2>4, <2>10, <3>4, <4>1 DEF PointsAt
    <3>5. CASE s.line # L
      <4>1. s.line \in DOMAIN h
        BY <1>1, <1>3, <1>10, <3>1, <3>5
      <4>2. ~(s.line < n)
        BY <2>6, <3>1, <3>3, <4>1
      <4>3. n \in DOMAIN h
        BY <1>3, <2>4, <2>7, <4>1, <4>2
      <4>4. n = s.line
        BY <2>4, <2>5, <3>1, <3>2, <4>2, <4>3
      <4>5. line = n
        BY <1>3, <1>7, <4>3
      <4> QED
        BY <1>10, <2>1, <2>4, <2>10, <3>5, <4>4, <4>5 DEF PointsAt
    <3> QED
      BY <3>4, <3>5
  <2>11. CASE s.how = "doubled"
    <3>1. s.how \in Moves /\ Len(h) = L + 1
      BY <2>2, <2>11 DEF Moves
    <3>2. n <= s.line => From(s, n) = n
      BY <2>4, <2>11 DEF From
    <3>3. From(s, s.line + 1) # s.line + 1
      BY <2>4, <2>11 DEF From
    <3>4. s.line + 1 \in DOMAIN h
      BY <1>1, <1>3, <1>10, <3>1
    <3>5. ~(s.line + 1 < n)
      <4> DEFINE m == s.line + 1
      <4>1. m \in DOMAIN h /\ From(s, m) # m
        BY <3>3, <3>4
      <4> HIDE DEF m
      <4>2. ~(m < n)
        BY <2>6, <3>1, <4>1
      <4> QED
        BY <4>2 DEF m
    <3>6. n \in DOMAIN h
      BY <1>3, <2>4, <2>7, <3>4, <3>5
    <3>7. n = s.line + 1
      BY <2>4, <2>5, <3>1, <3>2, <3>5, <3>6
    <3>8. line = n
      BY <1>3, <1>7, <3>6
    <3> QED
      BY <1>10, <2>1, <2>11, <3>7, <3>8 DEF PointsAt
  <2> QED
    BY <2>8, <2>9, <2>10, <2>11 DEF Moves
<1> QED
  BY <1>2, <1>8, <1>9, <1>10

LEMMA EntryRefused ==
  ASSUME ReadInv, ReadEntry, state' = "refused"
  PROVE  RefusalLeadsToTheDamage'
<1> DEFINE n == Len(parsed.entries) + 1
           line == files.sidecar[n]
           fault == EntryFault(line, n, parsed.records)
           f == files
           e == emission
           s == spoiled
           at_ == refusal'.line
<1>1. state = "sidecar" /\ UNCHANGED <<emission, files, spoiled>>
  BY Zenon DEF ReadEntry, emitVars
<1>2. /\ \/ n > Len(f.sidecar) /\ Len(parsed.entries) # Len(parsed.records) /\ at_ = 0
         \/ ~(n > Len(f.sidecar)) /\ ~Passes(line, n, parsed.records) /\ at_ = n
      /\ refusal'.file = "sidecar"
  <2>1. IF n > Len(files.sidecar)
        THEN IF Len(parsed.entries) = Len(parsed.records) THEN GoOn("read")
             ELSE Refuse("sidecar", 0, "CountMismatch")
        ELSE IF ~Passes(line, n, parsed.records) THEN Refuse("sidecar", n, fault)
        ELSE Accept("entries", ParsedEntry(line))
    BY Zenon DEF ReadEntry, Passes
  <2> HIDE DEF n, line, fault
  <2>2. ~GoOn("read")
    BY DEF GoOn
  <2>3. ~Accept("entries", ParsedEntry(line))
    BY <1>1 DEF Accept
  <2>4. \A where, why : Refuse("sidecar", where, why) => refusal'.file = "sidecar" /\ refusal'.line = where
    BY DEF Refuse
  <2> QED
    BY <2>1, <2>2, <2>3, <2>4
<1>3. Lying(f, e, s) /\ LinesRead(parsed, f) /\ EntriesRead(parsed, f)
  BY <1>1 DEF ReadInv
<1>4. /\ IsSequence(f.stream) /\ IsSequence(f.sidecar) /\ IsSequence(parsed.records) /\ IsSequence(parsed.entries)
      /\ Len(parsed.records) = Len(f.stream) /\ Len(parsed.entries) <= Len(f.sidecar)
      /\ (\A m \in DOMAIN parsed.records :
            Accepted(f.stream[m]) /\ parsed.records[m] = ParsedRecord(f.stream[m]))
      /\ \A m \in DOMAIN parsed.entries : Passes(f.sidecar[m], m, parsed.records)
  BY <1>3, LyingIs DEF LinesRead, EntriesRead
<1>5. /\ Len(f.stream) \in Nat /\ DOMAIN f.stream = 1..Len(f.stream)
      /\ Len(f.sidecar) \in Nat /\ DOMAIN f.sidecar = 1..Len(f.sidecar)
      /\ Len(parsed.entries) \in Nat /\ DOMAIN parsed.entries = 1..Len(parsed.entries)
      /\ DOMAIN parsed.records = DOMAIN f.stream
  BY <1>4, Sequences_
<1>6. n \in Nat /\ n # 0
  BY <1>5
<1>7. \A m \in DOMAIN f.sidecar : m < n => Passes(f.sidecar[m], m, parsed.records)
  BY <1>4, <1>5
<1>8. \/ n \in DOMAIN f.sidecar /\ ~Passes(f.sidecar[n], n, parsed.records) /\ at_ = n
      \/ n = Len(f.sidecar) + 1 /\ Len(f.sidecar) # Len(f.stream) /\ at_ = 0
  BY <1>2, <1>4, <1>5, <1>6
<1> HIDE DEF n, f, e, s, at_, line
<1>9. PointsAt(e, s, at_)
  BY <1>3, <1>4, <1>5, <1>6, <1>7, <1>8, EntryLeads
<1>10. refusal'.file = "sidecar" /\ refusal'.line = at_ /\ emission' = e /\ spoiled' = s
  BY <1>1, <1>2 DEF at_, e, s
<1>11. Shows' = IF s.how = "lost" /\ s.line = Len(e.sidecar) THEN 0
                ELSE IF s.how = "doubled" THEN s.line + 1 ELSE s.line
  BY <1>10 DEF Shows
<1>12. CASE s.file = "sidecar"
  <2>1. s # Untouched /\ at_ = Shows'
    BY <1>9, <1>11, <1>12 DEF PointsAt
  <2> QED
    BY <1>10, <1>12, <2>1 DEF RefusalLeadsToTheDamage
<1>13. CASE s.file = "stream"
  BY <1>9, <1>10, <1>13 DEF PointsAt, RefusalLeadsToTheDamage
<1> QED
  BY <1>9, <1>12, <1>13 DEF PointsAt

LEMMA RefusalStarts == MainInit => RefusalLeadsToTheDamage
BY DEF MainInit, StreamInit, RefusalLeadsToTheDamage

\* Where the reading is not touched a refusal stays what it was.
LEMMA RefusalStays ==
  ASSUME ReadInv, RefusalLeadsToTheDamage, UNCHANGED <<files, spoiled, refusal>>,
         Finished => emission' = emission, state' = state \/ state' # "refused"
  PROVE  RefusalLeadsToTheDamage'
<1>1. CASE state' # "refused"
  BY <1>1 DEF RefusalLeadsToTheDamage
<1>2. CASE state' = state /\ state = "refused"
  <2>1. emission' = emission
    BY <1>2 DEF ReadInv
  <2> QED
    BY <1>2, <2>1 DEF RefusalLeadsToTheDamage, Shows
<1> QED
  BY <1>1, <1>2

LEMMA RefusalStep ==
  ReadInv /\ RefusalLeadsToTheDamage /\ [MainNext]_mainVars => RefusalLeadsToTheDamage'
<1> SUFFICES ASSUME ReadInv, RefusalLeadsToTheDamage, [MainNext]_mainVars PROVE RefusalLeadsToTheDamage'
  OBVIOUS
<1>0. ASSUME state' # "refused" PROVE RefusalLeadsToTheDamage'
  BY <1>0 DEF RefusalLeadsToTheDamage
<1>1. CASE RefuseToRead
  BY <1>1, RefusalStays DEF RefuseToRead, emitVars
<1>2. CASE Extract
  <2>1. UNCHANGED <<files, spoiled, refusal, state>>
    BY <1>2 DEF Extract, Walk, MapWire, streamVars
  <2>2. Finished => emission' = emission
    BY <1>2, EmissionStays DEF Extract, Walk, MapWire
  <2> QED
    BY <2>1, <2>2, RefusalStays
<1>3. CASE RenderModel1
  BY <1>3, RefusalStays DEF RenderModel1, emitVars, streamVars
<1>4. CASE GiveUp
  BY <1>4, RefusalStays DEF GiveUp, emitVars
<1>5. CASE WriteEmission
  <2>1. state' \in {"unwritten", "written"}
    BY Zenon, <1>5 DEF WriteEmission, Write
  <2> QED
    BY <1>0, <2>1
<1>6. CASE Open \/ Spoil
  <2>1. state' = "stream"
    BY <1>6 DEF Open, Spoil
  <2> QED
    BY <1>0, <2>1
<1>7. CASE ReadLine
  BY <1>0, <1>7, LineRefused
<1>8. CASE ReadEntry
  BY <1>0, <1>8, EntryRefused
<1>9. CASE ReadModel1
  BY <1>9, RefusalStays DEF ReadModel1, emitVars, streamVars
<1>10. CASE Settled
  BY <1>10, RefusalStays DEF Settled, emitVars, streamVars
<1>11. CASE UNCHANGED mainVars
  BY <1>11, RefusalStays DEF mainVars, emitVars, streamVars
<1> QED
  BY <1>1, <1>2, <1>3, <1>4, <1>5, <1>6, <1>7, <1>8, <1>9, <1>10, <1>11 DEF MainNext, ReadEmission

\* Whatever a run is given and whatever one thing happens to the two files: a
\* refusal is of the line of the stream that was altered; of the line of the
\* sidecar that shows what was done to it, or of its length where none does; of
\* one of the two entries whose records changed places; or, where a line of the
\* stream came or went, of the sidecar, in a line not before that one or in its
\* length.  Or it is of the line of a record the engine itself wrote with a
\* return in a text.  What else the engine writes is never refused, so no false
\* alarm stops the comparison.
THEOREM RefusalLeadsToTheDamageInARun == MainSpec => []RefusalLeadsToTheDamage
<1>1. MainSpec => []EmitInv
  BY EmitStarts, EmitStep, PTL DEF MainSpec, mainVars
<1>2. EmitInv => (Finished => WellFormed(emission))
  BY DEF EmitInv
<1>3. EmitInv /\ ReadInv /\ [MainNext]_mainVars => ReadInv'
  BY <1>2, ReadStep
<1>4. MainSpec => []ReadInv
  BY <1>1, <1>3, ReadStarts, PTL DEF MainSpec, mainVars
<1> QED
  BY <1>4, RefusalStarts, RefusalStep, PTL DEF MainSpec, mainVars
-----------------------------------------------------------------------------
(* What becomes of the items of a native walk. *)

\* Two lists side by side, each two in one place a pair of R.
Beside(s, t, R) ==
  /\ IsSequence(s) /\ IsSequence(t) /\ Len(s) = Len(t)
  /\ \A k \in DOMAIN s : <<s[k], t[k]>> \in R

LEMMA BesideNothing == ASSUME NEW R PROVE Beside(<<>>, <<>>, R)
BY EmptySequence DEF Beside

LEMMA BesideOne == ASSUME NEW x, NEW y, NEW R, <<x, y>> \in R PROVE Beside(<<x>>, <<y>>, R)
<1>1. IsSequence(<<x>>) /\ IsSequence(<<y>>) /\ DOMAIN <<x>> = {1} /\ <<x>>[1] = x /\ <<y>>[1] = y
  BY OneElement
<1> QED
  BY <1>1 DEF Beside

LEMMA BesideJoined ==
  ASSUME NEW R, NEW s, NEW t, Beside(s, t, R), NEW a, NEW b, Beside(a, b, R)
  PROVE  Beside(s \o a, t \o b, R)
<1> DEFINE left == s \o a
           right == t \o b
<1>1. /\ IsSequence(s) /\ IsSequence(t) /\ IsSequence(a) /\ IsSequence(b)
      /\ Len(s) = Len(t) /\ Len(a) = Len(b) /\ Len(s) \in Nat /\ Len(a) \in Nat
      /\ DOMAIN s = 1..Len(s) /\ DOMAIN a = 1..Len(a)
  BY Sequences_ DEF Beside
<1>2. /\ IsSequence(left) /\ Len(left) = Len(s) + Len(a) /\ DOMAIN left = 1..(Len(s) + Len(a))
      /\ \A k \in DOMAIN left : \/ k \in DOMAIN s /\ left[k] = s[k]
                                \/ k - Len(s) \in DOMAIN a /\ left[k] = a[k - Len(s)]
  BY <1>1, Joined
<1>3. /\ IsSequence(right) /\ Len(right) = Len(s) + Len(a)
      /\ \A k \in DOMAIN s : right[k] = t[k]
      /\ \A k \in DOMAIN a : right[Len(s) + k] = b[k]
  <2>1. DOMAIN t = DOMAIN s /\ DOMAIN b = DOMAIN a
    BY <1>1, Sequences_
  <2>2. \A k \in DOMAIN b : right[Len(t) + k] = b[k]
    BY <1>1, JoinedRight
  <2> HIDE DEF right
  <2> QED
    BY <1>1, <2>1, <2>2, Joined DEF right
<1> HIDE DEF left, right
<1>4. ASSUME NEW k \in DOMAIN left
      PROVE  <<left[k], right[k]>> \in R
  <2>1. CASE k \in DOMAIN s /\ left[k] = s[k]
    BY <1>3, <2>1 DEF Beside
  <2>2. CASE k - Len(s) \in DOMAIN a /\ left[k] = a[k - Len(s)]
    <3>1. k = Len(s) + (k - Len(s))
      BY <1>1, <1>2
    <3>2. right[k] = b[k - Len(s)]
      BY <1>3, <2>2, <3>1
    <3> QED
      BY <2>2, <3>2 DEF Beside
  <2> QED
    BY <1>2, <2>1, <2>2
<1> QED
  BY <1>2, <1>3, <1>4 DEF Beside, left, right

\* Lists side by side, one list after the other.
LEMMA FlatBeside ==
  ASSUME NEW R, NEW s, IsSequence(s), NEW t, IsSequence(t), DOMAIN s = DOMAIN t,
         \A n \in DOMAIN s : Beside(s[n], t[n], R)
  PROVE  Beside(FlattenSeq(s), FlattenSeq(t), R)
<1> DEFINE n == Len(s)
           S == UNION {Values(s[i]) : i \in DOMAIN s}
           T == UNION {Values(t[i]) : i \in DOMAIN t}
<1>1. n \in Nat /\ DOMAIN s = 1..n /\ Len(t) = n
  BY Sequences_
<1>2. /\ \A i \in DOMAIN s : s[i] \in Seq(Values(s[i])) /\ Values(s[i]) \subseteq S
      /\ \A i \in DOMAIN t : t[i] \in Seq(Values(t[i])) /\ Values(t[i]) \subseteq T
  BY DEF Beside, IsSequence, Values
<1> HIDE DEF n, S, T
<1>3. /\ \A i \in DOMAIN s : s[i] \in Seq(S)
      /\ \A i \in DOMAIN t : t[i] \in Seq(T)
  BY <1>2, SeqMonotonic
<1>4. PICK h : Grows(h, s)
  BY <1>3, FlatGrows
<1>5. PICK g : Grows(g, t)
  BY <1>3, FlatGrows
<1> DEFINE D == {i \in 0..n : Beside(h[i], g[i], R)}
           f == [i \in 0..n |-> i]
<1>6. h[0] = <<>> /\ g[0] = <<>>
  BY <1>4, <1>5 DEF Grows
<1>7. f[0] \in D
  BY <1>1, <1>6, BesideNothing
<1>8. ASSUME NEW i \in 1..n, f[i - 1] \in D
      PROVE  f[i] \in D
  <2>1. i - 1 \in 0..n /\ i \in 0..n
    BY <1>1
  <2>2. h[i] = h[i - 1] \o s[i] /\ g[i] = g[i - 1] \o t[i]
    BY <1>1, <1>4, <1>5 DEF Grows
  <2>3. Beside(h[i - 1], g[i - 1], R)
    BY <1>8, <2>1
  <2>4. Beside(h[i], g[i], R)
    BY <1>1, <2>2, <2>3, BesideJoined
  <2> QED
    BY <2>1, <2>4
<1> HIDE DEF D, f
<1>9. \A i \in 0..n : f[i] \in D
  BY Zenon, <1>1, <1>7, <1>8, Throughout
<1>10. Beside(h[n], g[n], R)
  <2>1. n \in 0..n /\ f[n] = n
    BY <1>1 DEF f
  <2>2. n \in D
    BY <1>9, <2>1
  <2> QED
    BY <2>2 DEF D
<1> QED
  BY <1>1, <1>4, <1>5, <1>10 DEF Grows, n

LEMMA ItemsBeside ==
  ASSUME NEW views, IsSequence(views), \A v \in DOMAIN views : IsSequence(views[v].items), NEW kinds, NEW R,
         NEW each, DOMAIN each = DOMAIN views,
         \A v \in DOMAIN views :
           /\ IsSequence(each[v]) /\ DOMAIN each[v] = DOMAIN views[v].items
           /\ \A n \in DOMAIN views[v].items :
                IF views[v].items[n].item \in kinds THEN Beside(<<views[v].items[n]>>, each[v][n], R)
                ELSE each[v][n] = <<>>
  PROVE  Beside(ItemsOf(views, kinds), FlattenSeq([v \in DOMAIN views |-> FlattenSeq(each[v])]), R)
<1> DEFINE Of(v) == [n \in DOMAIN views[v].items |->
                      IF views[v].items[n].item \in kinds THEN <<views[v].items[n]>> ELSE <<>>]
           s == [v \in DOMAIN views |-> FlattenSeq(Of(v))]
           t == [v \in DOMAIN views |-> FlattenSeq(each[v])]
<1>1. ASSUME NEW v \in DOMAIN views
      PROVE  Beside(FlattenSeq(Of(v)), FlattenSeq(each[v]), R)
  <2> DEFINE items == views[v].items
             own == Of(v)
  <2>1. own = [n \in DOMAIN items |-> own[n]]
    OBVIOUS
  <2>2. \A n \in DOMAIN items : own[n] = IF items[n].item \in kinds THEN <<items[n]>> ELSE <<>>
    OBVIOUS
  <2> HIDE DEF own
  <2>3. IsSequence(own) /\ DOMAIN own = DOMAIN items
    BY <2>1, SameLength
  <2>4. ASSUME NEW n \in DOMAIN items
        PROVE  Beside(own[n], each[v][n], R)
    <3>1. CASE items[n].item \in kinds
      <4>1. own[n] = <<items[n]>>
        BY Zenon, <2>2, <3>1
      <4> QED
        BY Zenon, <3>1, <4>1
    <3>2. CASE items[n].item \notin kinds
      <4>1. own[n] = <<>> /\ each[v][n] = <<>>
        BY Zenon, <2>2, <3>2
      <4> QED
        BY Zenon, <4>1, BesideNothing
    <3> QED
      BY <3>1, <3>2
  <2>5. Beside(FlattenSeq(own), FlattenSeq(each[v]), R)
    BY <2>3, <2>4, FlatBeside
  <2> QED
    BY <2>5 DEF own
<1> HIDE DEF Of
<1>2. ItemsOf(views, kinds) = FlattenSeq(s)
  BY Zenon DEF ItemsOf, Of
<1>3. IsSequence(s) /\ IsSequence(t) /\ DOMAIN s = DOMAIN views /\ DOMAIN t = DOMAIN views
  BY SameLength
<1>4. \A v \in DOMAIN views : Beside(s[v], t[v], R)
  BY <1>1
<1> HIDE DEF s
<1> QED
  <2> HIDE DEF t
  <2>1. Beside(FlattenSeq(s), FlattenSeq(t), R)
    BY <1>3, <1>4, FlatBeside
  <2> QED
    BY <1>2, <2>1 DEF t

BodyOfAll(views) == FlattenSeq([v \in DOMAIN views |-> BodyOf(v - 1, views[v].items)])

\* A primitive and its row in the body, in the view the primitive is in.
PrimitiveRows(views) ==
  UNION {{<<p, PrimitiveRow(v - 1, p)>> : p \in Values(views[v].items)} : v \in DOMAIN views}

LEMMA BodyBeside ==
  ASSUME NEW views, IsSequence(views), \A v \in DOMAIN views : IsSequence(views[v].items)
  PROVE  Beside(ItemsOf(views, {"primitive"}),
                BodyOfAll(views), PrimitiveRows(views))
<1> DEFINE Of(v) == [n \in DOMAIN views[v].items |->
                      IF views[v].items[n].item = "primitive" THEN <<PrimitiveRow(v - 1, views[v].items[n])>> ELSE <<>>]
           each == [v \in DOMAIN views |-> Of(v)]
           R == PrimitiveRows(views)
<1>1. \A v \in DOMAIN views : BodyOf(v - 1, views[v].items) = FlattenSeq(Of(v))
  BY DEF BodyOf
<1>2. ASSUME NEW v \in DOMAIN views
      PROVE  /\ IsSequence(Of(v)) /\ DOMAIN Of(v) = DOMAIN views[v].items
             /\ \A n \in DOMAIN views[v].items :
                  IF views[v].items[n].item \in {"primitive"} THEN Beside(<<views[v].items[n]>>, Of(v)[n], R)
                  ELSE Of(v)[n] = <<>>
  <2> DEFINE items == views[v].items
             own == Of(v)
  <2>1. own = [n \in DOMAIN items |-> own[n]]
    OBVIOUS
  <2>2. \A n \in DOMAIN items : own[n] = IF items[n].item = "primitive" THEN <<PrimitiveRow(v - 1, items[n])>> ELSE <<>>
    OBVIOUS
  <2> HIDE DEF own
  <2>3. IsSequence(own) /\ DOMAIN own = DOMAIN items
    BY <2>1, SameLength
  <2>4. ASSUME NEW n \in DOMAIN items, items[n].item = "primitive"
        PROVE  Beside(<<items[n]>>, own[n], R)
    <3>1. own[n] = <<PrimitiveRow(v - 1, items[n])>>
      BY Zenon, <2>2, <2>4
    <3>2. <<items[n], PrimitiveRow(v - 1, items[n])>> \in R
      BY DEF PrimitiveRows, Values
    <3> HIDE DEF R
    <3> QED
      BY <3>1, <3>2, BesideOne
  <2>5. \A n \in DOMAIN items : items[n].item \notin {"primitive"} => own[n] = <<>>
    BY Zenon, <2>2
  <2>6. \A n \in DOMAIN items : items[n].item \in {"primitive"} => items[n].item = "primitive"
    OBVIOUS
  <2> HIDE DEF R
  <2>7. \A n \in DOMAIN items :
          IF items[n].item \in {"primitive"} THEN Beside(<<items[n]>>, own[n], R) ELSE own[n] = <<>>
    BY Zenon, <2>4, <2>5, <2>6
  <2> QED
    BY Zenon, <2>3, <2>7 DEF own
<1> HIDE DEF Of, R
<1>3. DOMAIN each = DOMAIN views /\ \A v \in DOMAIN views : each[v] = Of(v)
  OBVIOUS
<1> HIDE DEF each
<1>4. Beside(ItemsOf(views, {"primitive"}), FlattenSeq([v \in DOMAIN views |-> FlattenSeq(each[v])]), R)
  <2> DEFINE kinds == {"primitive"}
  <2>1. \A v \in DOMAIN views :
          /\ IsSequence(each[v]) /\ DOMAIN each[v] = DOMAIN views[v].items
          /\ \A n \in DOMAIN views[v].items :
               IF views[v].items[n].item \in kinds THEN Beside(<<views[v].items[n]>>, each[v][n], R)
               ELSE each[v][n] = <<>>
    BY Zenon, <1>2, <1>3
  <2> HIDE DEF kinds
  <2>2. Beside(ItemsOf(views, kinds), FlattenSeq([v \in DOMAIN views |-> FlattenSeq(each[v])]), R)
    BY <1>3, <2>1, ItemsBeside
  <2> QED
    BY <2>2 DEF kinds
<1>5. [v \in DOMAIN views |-> FlattenSeq(each[v])] = [v \in DOMAIN views |-> BodyOf(v - 1, views[v].items)]
  BY <1>1, <1>3
<1> QED
  BY Zenon, <1>4, <1>5 DEF R, BodyOfAll

\* The handle a warning is said under: a record this suite does not know has
\* none.
HandleOf(item) == IF item.item = "unknown" THEN 0 ELSE item.handle

LEMMA WarnedBeside ==
  ASSUME NEW views, IsSequence(views), \A v \in DOMAIN views : IsSequence(views[v].items)
  PROVE  \E R : /\ Beside(ItemsOf(views, {"warning", "unknown"}), WarningsOfAll(views), R)
                /\ \A x, y : <<x, y>> \in R => y.handle = HandleOf(x)
<1> DEFINE odd == Told("unknown", NoType, "wire_record", 0)
           Said_(item) == IF item.item = "warning" THEN WireWarning(item) ELSE odd
           Of(v) == [n \in DOMAIN views[v].items |->
                      CASE views[v].items[n].item = "warning" -> <<WireWarning(views[v].items[n])>>
                        [] views[v].items[n].item = "unknown" -> <<odd>>
                        [] OTHER -> <<>>]
           each == [v \in DOMAIN views |-> Of(v)]
           R == UNION {{<<p, Said_(p)>> : p \in {x \in Values(views[v].items) : x.item \in {"warning", "unknown"}}} :
                         v \in DOMAIN views}
<1>1. \A v \in DOMAIN views : WarningsOf(views[v].items) = FlattenSeq(Of(v))
  BY DEF WarningsOf
<1>2. ASSUME NEW x, NEW y, <<x, y>> \in R
      PROVE  y.handle = HandleOf(x)
  <2>1. x.item \in {"warning", "unknown"} /\ y = Said_(x)
    BY <1>2
  <2>2. CASE x.item = "warning"
    <3>1. y = WireWarning(x)
      BY <2>1, <2>2
    <3>2. WireWarning(x).handle = x.handle
      BY DEF WireWarning, Told
    <3>3. x.item # "unknown"
      BY <2>2
    <3> QED
      BY Zenon, <3>1, <3>2, <3>3 DEF HandleOf
  <2>3. CASE x.item = "unknown"
    <3>1. y = odd /\ odd.handle = 0
      BY <2>1, <2>3 DEF Told
    <3> QED
      BY <2>3, <3>1 DEF HandleOf
  <2> QED
    BY <2>1, <2>2, <2>3
<1>3. ASSUME NEW v \in DOMAIN views
      PROVE  /\ IsSequence(Of(v)) /\ DOMAIN Of(v) = DOMAIN views[v].items
             /\ \A n \in DOMAIN views[v].items :
                  IF views[v].items[n].item \in {"warning", "unknown"}
                  THEN Beside(<<views[v].items[n]>>, Of(v)[n], R) ELSE Of(v)[n] = <<>>
  <2> DEFINE items == views[v].items
             own == Of(v)
  <2>1. own = [n \in DOMAIN items |-> own[n]]
    OBVIOUS
  <2>2. \A n \in DOMAIN items :
          own[n] = CASE items[n].item = "warning" -> <<WireWarning(items[n])>>
                     [] items[n].item = "unknown" -> <<odd>>
                     [] OTHER -> <<>>
    OBVIOUS
  <2> HIDE DEF own
  <2>3. IsSequence(own) /\ DOMAIN own = DOMAIN items
    BY <2>1, SameLength
  <2>4. ASSUME NEW n \in DOMAIN items, items[n].item \in {"warning", "unknown"}
        PROVE  Beside(<<items[n]>>, own[n], R)
    <3>1. own[n] = <<Said_(items[n])>>
      <4>1. CASE items[n].item = "warning"
        BY <2>2, <4>1
      <4>2. CASE items[n].item = "unknown"
        <5>1. items[n].item # "warning"
          BY <4>2
        <5> QED
          BY <2>2, <4>2, <5>1
      <4> QED
        BY <2>4, <4>1, <4>2
    <3>2. <<items[n], Said_(items[n])>> \in R
      BY <2>4 DEF Values
    <3> HIDE DEF R, Said_
    <3> QED
      BY <3>1, <3>2, BesideOne
  <2>5. ASSUME NEW n \in DOMAIN items, items[n].item \notin {"warning", "unknown"}
        PROVE  own[n] = <<>>
    <3>1. items[n].item # "warning" /\ items[n].item # "unknown"
      BY <2>5
    <3> QED
      BY <2>2, <3>1
  <2> HIDE DEF R
  <2>6. \A n \in DOMAIN items :
          IF items[n].item \in {"warning", "unknown"} THEN Beside(<<items[n]>>, own[n], R) ELSE own[n] = <<>>
    BY Zenon, <2>4, <2>5
  <2> QED
    BY Zenon, <2>3, <2>6 DEF own
<1> HIDE DEF Of, R, odd, Said_
<1>4. DOMAIN each = DOMAIN views /\ \A v \in DOMAIN views : each[v] = Of(v)
  OBVIOUS
<1> HIDE DEF each
<1>5. Beside(ItemsOf(views, {"warning", "unknown"}), FlattenSeq([v \in DOMAIN views |-> FlattenSeq(each[v])]), R)
  <2> DEFINE kinds == {"warning", "unknown"}
  <2>1. \A v \in DOMAIN views :
          /\ IsSequence(each[v]) /\ DOMAIN each[v] = DOMAIN views[v].items
          /\ \A n \in DOMAIN views[v].items :
               IF views[v].items[n].item \in kinds THEN Beside(<<views[v].items[n]>>, each[v][n], R)
               ELSE each[v][n] = <<>>
    BY Zenon, <1>3, <1>4
  <2> HIDE DEF kinds
  <2>2. Beside(ItemsOf(views, kinds), FlattenSeq([v \in DOMAIN views |-> FlattenSeq(each[v])]), R)
    BY <1>4, <2>1, ItemsBeside
  <2> QED
    BY <2>2 DEF kinds
<1>6. [v \in DOMAIN views |-> FlattenSeq(each[v])] = [v \in DOMAIN views |-> WarningsOf(views[v].items)]
  BY <1>1, <1>4
<1>7. Beside(ItemsOf(views, {"warning", "unknown"}), WarningsOfAll(views), R)
  BY Zenon, <1>5, <1>6 DEF WarningsOfAll
<1> QED
  BY Zenon, <1>2, <1>7

\* The rows of a walk, from one end to the other: what frames the body, the
\* body, and each warning once, in some order.
LaidOut(rows, body, warned, front) ==
  /\ IsSequence(rows) /\ Len(rows) = front + Len(body) + Len(warned)
  /\ \A n \in DOMAIN body : rows[front + n] = body[n]
  /\ \E held \in [DOMAIN warned -> DOMAIN warned] :
       /\ \A j, k \in DOMAIN warned : held[j] = held[k] => j = k
       /\ \A i \in DOMAIN warned : \E k \in DOMAIN warned : held[k] = i
       /\ \A n \in DOMAIN warned :
            /\ rows[front + Len(body) + n].record.record = "warning"
            /\ rows[front + Len(body) + n].handle = warned[held[n]].handle

LEMMA WalkRowsAre ==
  ASSUME NEW version, NEW ordered, IsSequence(ordered),
         \A v \in DOMAIN ordered :
           IsSequence(ordered[v].items) /\ \A i \in DOMAIN ordered[v].items : IsItem(ordered[v].items[i])
  PROVE  LaidOut(WalkRows(version, ordered), BodyOfAll(ordered), WarningsOfAll(ordered), 1 + Len(ordered))
<1> DEFINE document == [record |-> "document", format |-> "dwg", acad_version |-> VersionName(version),
                        maintenance_version |-> 0]
           Kind(v) == IF ordered[v].kind \in {"model", "layout"} THEN ordered[v].kind ELSE "unknown"
           Header(v) == Row([record |-> "view", index |-> v - 1, name |-> ordered[v].name, kind |-> Kind(v)], 0, "none")
           heads == [v \in DOMAIN ordered |-> Header(v)]
           bodies == [v \in DOMAIN ordered |-> BodyOf(v - 1, ordered[v].items)]
           warned == WarningsOfAll(ordered)
           Closing(s) == [n \in DOMAIN s |->
                         Row(WarningRecord(s[n].warning[1], s[n].warning[2], s[n].warning[3]), s[n].handle, "none")]
           first == <<Row(document, 0, "none")>>
           body == FlattenSeq(bodies)
           all == {Closing(s) : s \in {SortedBy(said, WireRank) : said \in {warned}}}
           ranks == [i \in DOMAIN warned |-> WireRank(warned[i])]
           By(r) == [k \in DOMAIN r |-> warned[Held(r, k)]]
           few == {By(r) : r \in {ranks}}
           put == By(ranks)
           front == 1 + Len(ordered)
<1>1. WalkRows(version, ordered) = first \o heads \o body \o Only(all)
  BY DEF WalkRows, WarningsOfAll
<1>2. Alarming(warned)
  BY AllWarnedIs
<1>3. SortedBy(warned, WireRank) = put
  <2>1. SortedBy(warned, WireRank) = Only(few)
    BY DEF SortedBy, Held, Place, NotAfter
  <2>2. few = {By(ranks)}
    <3> HIDE DEF By
    <3> QED
      OBVIOUS
  <2> HIDE DEF few, By
  <2> QED
    BY Zenon, <2>1, <2>2, OnlyOne
<1>4. Only(all) = Closing(put)
  <2>1. all = {Closing(put)}
    <3> HIDE DEF Closing, put, warned
    <3> QED
      BY <1>3
  <2> HIDE DEF all, Closing, put
  <2> QED
    BY Zenon, <2>1, OnlyOne
<1>5. IsSequence(first) /\ Len(first) = 1
  <2> DEFINE row == Row(document, 0, "none")
  <2> HIDE DEF row
  <2>1. IsSequence(<<row>>) /\ Len(<<row>>) = 1
    BY OneElement
  <2> QED
    BY <2>1 DEF row
<1>6. IsSequence(heads) /\ Len(heads) = Len(ordered) /\ Len(ordered) \in Nat
  BY SameLength, Sequences_
<1>7. IsSequence(body)
  <2>1. IsSequence(bodies) /\ DOMAIN bodies = DOMAIN ordered
    BY SameLength
  <2>2. \A v \in DOMAIN ordered : Carrying(bodies[v]) /\ Handled(bodies[v])
    BY BodyCarries
  <2> HIDE DEF bodies
  <2> QED
    BY <2>1, <2>2, FlatCarries DEF Carrying
<1> HIDE DEF first, heads, body, warned
<1>8. /\ ranks \in [DOMAIN warned -> Int] /\ DOMAIN ranks = DOMAIN warned
      /\ IsSequence(warned) /\ Len(warned) \in Nat /\ DOMAIN warned = 1..Len(warned)
  BY <1>2, AlarmRank, Sequences_ DEF Alarming
<1> HIDE DEF ranks
<1>9. /\ \A k \in DOMAIN warned : Held(ranks, k) \in DOMAIN warned
      /\ \A j, k \in DOMAIN warned : Held(ranks, j) = Held(ranks, k) => j = k
      /\ \A i \in DOMAIN warned : \E k \in DOMAIN warned : Held(ranks, k) = i
  <2> DEFINE n == Len(warned)
  <2>1. n \in Nat /\ ranks \in [1..n -> Int] /\ DOMAIN warned = 1..n
    BY <1>8
  <2> HIDE DEF n
  <2> QED
    BY <2>1, HeldOnce
<1> DEFINE held == [k \in DOMAIN warned |-> Held(ranks, k)]
           closing == Closing(put)
<1>10. DOMAIN put = DOMAIN warned /\ \A k \in DOMAIN warned : put[k] = warned[held[k]]
  BY <1>8
<1>11. /\ held \in [DOMAIN warned -> DOMAIN warned]
       /\ \A j, k \in DOMAIN warned : held[j] = held[k] => j = k
       /\ \A i \in DOMAIN warned : \E k \in DOMAIN warned : held[k] = i
  BY <1>9
<1> HIDE DEF held, put
<1>12. /\ closing = [k \in DOMAIN warned |-> closing[k]]
       /\ \A k \in DOMAIN warned : /\ closing[k].record.record = "warning"
                                   /\ closing[k].handle = warned[held[k]].handle
  BY <1>10 DEF Row, WarningRecord
<1> HIDE DEF Closing, closing
<1>13. IsSequence(closing) /\ Len(closing) = Len(warned) /\ DOMAIN closing = DOMAIN warned
  BY <1>8, <1>12, SameLength
<1> DEFINE upper == first \o heads
           middle == upper \o body
           rows == middle \o closing
<1>14. IsSequence(upper) /\ Len(upper) = front
  <2>1. IsSequence(upper) /\ Len(upper) = Len(first) + Len(heads)
    BY <1>5, <1>6, Joined
  <2> HIDE DEF upper
  <2> QED
    BY <1>5, <1>6, <2>1
<1> HIDE DEF upper, front
<1>15. IsSequence(middle) /\ Len(middle) = front + Len(body) /\ \A n \in DOMAIN body : middle[front + n] = body[n]
  <2>1. IsSequence(middle) /\ Len(middle) = Len(upper) + Len(body)
    BY <1>7, <1>14, Joined
  <2>2. ASSUME NEW n \in DOMAIN body PROVE middle[Len(upper) + n] = body[n]
    BY <1>7, <1>14, JoinedRight
  <2> HIDE DEF middle
  <2> QED
    BY <1>14, <2>1, <2>2
<1>16. DOMAIN middle = 1..Len(middle) /\ DOMAIN body = 1..Len(body) /\ Len(body) \in Nat /\ front \in Nat
  BY <1>6, <1>7, <1>15, Sequences_ DEF front
<1> HIDE DEF middle
<1>17. /\ IsSequence(rows) /\ Len(rows) = front + Len(body) + Len(warned)
       /\ \A n \in DOMAIN middle : rows[n] = middle[n]
       /\ \A n \in DOMAIN closing : rows[front + Len(body) + n] = closing[n]
  <2>1. /\ IsSequence(rows) /\ Len(rows) = Len(middle) + Len(closing)
        /\ \A n \in DOMAIN middle : rows[n] = middle[n]
    BY <1>13, <1>15, Joined
  <2>2. ASSUME NEW n \in DOMAIN closing PROVE rows[Len(middle) + n] = closing[n]
    BY <1>13, <1>15, JoinedRight
  <2> HIDE DEF rows
  <2> QED
    BY <1>13, <1>15, <2>1, <2>2
<1>18. \A n \in DOMAIN body : front + n \in DOMAIN middle
  BY <1>15, <1>16
<1>19. WalkRows(version, ordered) = rows
  BY <1>1, <1>4 DEF rows, middle, upper, closing
<1> HIDE DEF rows
<1>20. \A n \in DOMAIN body : rows[front + n] = body[n]
  BY <1>15, <1>17, <1>18
<1>21. \A n \in DOMAIN warned :
         /\ rows[front + Len(body) + n].record.record = "warning"
         /\ rows[front + Len(body) + n].handle = warned[held[n]].handle
  BY <1>12, <1>13, <1>17
<1>22. LaidOut(rows, body, warned, front)
  BY Zenon, <1>11, <1>17, <1>20, <1>21 DEF LaidOut
<1> QED
  BY Zenon, <1>19, <1>22 DEF body, front, warned, BodyOfAll

LEMMA WireRecordIs ==
  ASSUME NEW v, NEW p, p.kind \in Mapped
  PROVE  WireRecord(v, p).record = p.kind /\ WireRecord(v, p).view = v
<1>1. CASE p.kind = "line"
  BY <1>1 DEF WireRecord, LineRecord
<1>2. CASE p.kind = "polyline"
  BY <1>2 DEF WireRecord
<1>3. CASE p.kind = "polygon"
  BY <1>3 DEF WireRecord
<1>4. CASE p.kind = "circle"
  BY <1>4 DEF WireRecord
<1>5. CASE p.kind = "arc"
  BY <1>5 DEF WireRecord
<1>6. CASE p.kind = "ellipse"
  BY <1>6 DEF WireRecord
<1>7. CASE p.kind = "spline"
  BY <1>7 DEF WireRecord
<1>8. CASE p.kind = "text"
  BY <1>8 DEF WireRecord
<1> QED
  BY <1>1, <1>2, <1>3, <1>4, <1>5, <1>6, <1>7, <1>8 DEF Mapped

LEMMA PrimitiveRowIs ==
  ASSUME NEW views, IsSequence(views), NEW p, NEW row, <<p, row>> \in PrimitiveRows(views)
  PROVE  /\ row.handle = p.handle
         /\ row.record.record \in {p.kind, "warning"}
         /\ row.record.record # "warning" => p \in ToSet(views[row.record.view + 1].items)
<1>1. PICK v \in DOMAIN views : p \in Values(views[v].items) /\ row = PrimitiveRow(v - 1, p)
  BY DEF PrimitiveRows
<1>2. v \in Int /\ v - 1 + 1 = v
  BY Sequences_
<1>3. row.handle = p.handle
  BY <1>1 DEF PrimitiveRow, Row
<1>4. CASE p.kind \in Mapped
  <2>1. row.record = WireRecord(v - 1, p)
    BY <1>1, <1>4 DEF PrimitiveRow, Row
  <2>2. row.record.record = p.kind /\ row.record.view = v - 1
    BY <1>4, <2>1, WireRecordIs
  <2>3. row.record.view + 1 = v
    BY <1>2, <2>2
  <2>4. p \in ToSet(views[v].items)
    BY <1>1 DEF Values, ToSet
  <2> QED
    BY <1>3, <2>2, <2>3, <2>4
<1>5. CASE p.kind \notin Mapped
  <2>1. row.record.record = "warning"
    BY <1>1, <1>5 DEF PrimitiveRow, Row, WarningRecord
  <2> QED
    BY <1>3, <2>1
<1> QED
  BY <1>4, <1>5

LEMMA MapWalkIs ==
  ASSUME NEW version, NEW w, NEW rows, rows = WalkRows(version, InOrder(w.views)), NEW e, e = MapWalk(version, w.views)
  PROVE  /\ DOMAIN e.records = DOMAIN rows
         /\ e.records = [n \in DOMAIN rows |-> e.records[n]]
         /\ \A n \in DOMAIN rows : e.records[n] = rows[n].record /\ e.sidecar[n].h = <<rows[n].handle>>
<1> DEFINE Of(r) == [records |-> [n \in DOMAIN r |-> r[n].record],
                     sidecar |-> [n \in DOMAIN r |->
                       [i |-> n - 1, h |-> <<r[n].handle>>, t |-> "none", x |-> r[n].x, d |-> "none"]]]
           all == {Of(r) : r \in {WalkRows(version, o) : o \in {InOrder(w.views)}}}
<1>1. MapWalk(version, w.views) = Only(all)
  BY DEF MapWalk
<1>2. all = {Of(rows)}
  <2> HIDE DEF Of
  <2> QED
    OBVIOUS
<1>3. e = Of(rows)
  <2> HIDE DEF all, Of
  <2> QED
    BY <1>1, <1>2, OnlyOne
<1> QED
  BY <1>3

\* Nothing of a walk is dropped by its mapping.
LEMMA MappedIsKept ==
  ASSUME IsWalk(wire), emission = MapWalk(wire.version, wire.views)
  PROVE  WireIsKept
<1> DEFINE ordered == InOrder(wire.views)
           rows == WalkRows(wire.version, ordered)
           body == BodyOfAll(ordered)
           warned == WarningsOfAll(ordered)
           prims == ItemsOf(ordered, {"primitive"})
           said == ItemsOf(ordered, {"warning", "unknown"})
           first == 1 + Len(ordered)
           last == first + Len(prims)
<1>1. /\ IsSequence(wire.views)
      /\ \A n \in DOMAIN wire.views :
           /\ wire.views[n].index \in Nat /\ IsSequence(wire.views[n].items)
           /\ \A i \in DOMAIN wire.views[n].items : IsItem(wire.views[n].items[i])
  BY DEF IsWalk, Lists
<1>2. /\ IsSequence(ordered)
      /\ \A n \in DOMAIN ordered :
           IsSequence(ordered[n].items) /\ \A i \in DOMAIN ordered[n].items : IsItem(ordered[n].items[i])
  BY <1>1, InOrderIs
<1>3. /\ DOMAIN emission.records = DOMAIN rows
      /\ emission.records = [n \in DOMAIN rows |-> emission.records[n]]
      /\ \A n \in DOMAIN rows : emission.records[n] = rows[n].record /\ emission.sidecar[n].h = <<rows[n].handle>>
  BY MapWalkIs
<1> HIDE DEF ordered
<1>5. LaidOut(rows, body, warned, first)
  BY <1>2, WalkRowsAre
<1>6. Beside(prims, body, PrimitiveRows(ordered))
  BY <1>2, BodyBeside
<1>7. PICK R : Beside(said, warned, R) /\ \A x, y : <<x, y>> \in R => y.handle = HandleOf(x)
  BY <1>2, WarnedBeside
<1> HIDE DEF rows, body, warned, prims, said
<1>4. PICK held \in [DOMAIN warned -> DOMAIN warned] :
        /\ \A j, k \in DOMAIN warned : held[j] = held[k] => j = k
        /\ \A i \in DOMAIN warned : \E k \in DOMAIN warned : held[k] = i
        /\ \A n \in DOMAIN warned :
             /\ rows[first + Len(body) + n].record.record = "warning"
             /\ rows[first + Len(body) + n].handle = warned[held[n]].handle
  BY <1>5 DEF LaidOut
<1>8. /\ Len(ordered) \in Nat /\ Len(body) = Len(prims) /\ Len(warned) = Len(said)
      /\ Len(prims) \in Nat /\ Len(said) \in Nat
      /\ DOMAIN prims = 1..Len(prims) /\ DOMAIN body = 1..Len(prims)
      /\ DOMAIN said = 1..Len(said) /\ DOMAIN warned = 1..Len(said)
  BY <1>2, <1>6, <1>7, Sequences_ DEF Beside
<1>9. /\ first \in Nat /\ last \in Nat /\ Len(rows) = last + Len(said) /\ last = first + Len(body)
      /\ DOMAIN rows = 1..(last + Len(said))
  BY <1>5, <1>8, Sequences_ DEF LaidOut
<1>10. Len(emission.records) = last + Len(said)
  BY <1>3, <1>5, <1>9, SameLength DEF LaidOut
<1> HIDE DEF first
<1>11. ASSUME NEW n \in DOMAIN prims
       PROVE  /\ emission.sidecar[first + n].h = <<prims[n].handle>>
              /\ emission.records[first + n].record \in {prims[n].kind, "warning"}
              /\ emission.records[first + n].record # "warning" =>
                   prims[n] \in ToSet(ordered[emission.records[first + n].view + 1].items)
  <2>1. first + n \in DOMAIN rows /\ n \in DOMAIN body
    BY <1>8, <1>9
  <2>2. rows[first + n] = body[n] /\ <<prims[n], body[n]>> \in PrimitiveRows(ordered)
    BY <1>5, <1>6, <2>1 DEF Beside, LaidOut
  <2>3. /\ body[n].handle = prims[n].handle
        /\ body[n].record.record \in {prims[n].kind, "warning"}
        /\ body[n].record.record # "warning" => prims[n] \in ToSet(ordered[body[n].record.view + 1].items)
    BY <1>2, <2>2, PrimitiveRowIs
  <2>4. emission.records[first + n] = body[n].record /\ emission.sidecar[first + n].h = <<body[n].handle>>
    BY <1>3, <2>1, <2>2
  <2> QED
    BY <2>3, <2>4
<1> HIDE DEF last
<1>12. ASSUME NEW n \in DOMAIN said
       PROVE  /\ last + n \in DOMAIN rows
              /\ emission.records[last + n].record = "warning"
              /\ held[n] \in DOMAIN said /\ emission.sidecar[last + n].h = <<HandleOf(said[held[n]])>>
  <2>1. last + n \in DOMAIN rows /\ n \in DOMAIN warned /\ held[n] \in DOMAIN said
    BY <1>8, <1>9
  <2>2. rows[last + n].record.record = "warning" /\ rows[last + n].handle = warned[held[n]].handle
    BY <1>4, <1>9, <2>1
  <2>3. warned[held[n]].handle = HandleOf(said[held[n]])
    BY <1>7, <2>1 DEF Beside
  <2> QED
    BY <1>3, <2>1, <2>2, <2>3
<1>13. ASSUME NEW n \in (last + 1)..(last + Len(said))
       PROVE  n - last \in DOMAIN said /\ n = last + (n - last)
  BY <1>8, <1>9
<1>14. \A n \in (last + 1)..Len(emission.records) : emission.records[n].record = "warning"
  BY <1>10, <1>12, <1>13
<1>15. ASSUME NEW h
       PROVE  Cardinality({n \in DOMAIN said : HandleOf(said[n]) = h})
                = Cardinality({n \in (last + 1)..Len(emission.records) : emission.sidecar[n].h = <<h>>})
  <2> DEFINE all == 1..(last + Len(said))
             T == {n \in DOMAIN said : HandleOf(said[n]) = h}
             S == {n \in (last + 1)..(last + Len(said)) : emission.sidecar[n].h = <<h>>}
             f == [n \in S |-> held[n - last]]
  <2>1. ASSUME NEW n \in (last + 1)..(last + Len(said))
        PROVE  held[n - last] \in DOMAIN said /\ (n \in S <=> held[n - last] \in T)
    <3>1. held[n - last] \in DOMAIN said /\ emission.sidecar[n].h = <<HandleOf(said[held[n - last]])>>
      BY <1>12, <1>13
    <3> QED
      BY <3>1
  <2>2. f \in [S -> T]
    BY <2>1
  <2>3. ASSUME NEW x \in S, NEW y \in S, f[x] = f[y]
        PROVE  x = y
    <3>1. x - last \in DOMAIN warned /\ y - last \in DOMAIN warned /\ held[x - last] = held[y - last]
      BY <1>8, <1>13, <2>3
    <3>2. x - last = y - last
      BY <1>4, <3>1
    <3> QED
      BY <1>9, <3>2
  <2>4. ASSUME NEW y \in T
        PROVE  \E x \in S : f[x] = y
    <3>1. PICK k \in DOMAIN warned : held[k] = y
      BY <1>4, <1>8
    <3>2. last + k \in (last + 1)..(last + Len(said)) /\ (last + k) - last = k
      BY <1>8, <1>9
    <3>3. last + k \in S
      BY <2>1, <3>1, <3>2
    <3>4. f[last + k] = y
      BY <3>1, <3>2, <3>3
    <3> QED
      BY <3>3, <3>4
  <2>5. last + Len(said) \in Nat /\ S \in SUBSET all
    BY <1>8, <1>9
  <2> HIDE DEF S, T, f
  <2>6. Number(S) = Number(T)
    BY <2>2, <2>3, <2>4, <2>5, AsMany
  <2>7. Cardinality(S) = Number(S) /\ Cardinality(T) = Number(T)
    BY Zenon DEF Cardinality, Number
  <2> QED
    BY <1>10, <2>6, <2>7 DEF S, T
<1> QED
  BY <1>10, <1>11, <1>14, <1>15 DEF WireIsKept, first, last, prims, said, ordered, HandleOf

\* What a native walk was mapped to stays what it was mapped to.
KeptInv ==
  /\ state = "written" => Finished
  /\ wire # NoWire /\ Finished => emission = MapWalk(wire.version, wire.views)

LEMMA KeptStays ==
  ASSUME KeptInv, UNCHANGED <<wire, emission>>, state' = "written" => state = "written" \/ Finished
  PROVE  KeptInv'
BY DEF KeptInv, Finished

LEMMA KeptStep == KeptInv /\ [MainNext]_mainVars => KeptInv'
<1> SUFFICES ASSUME KeptInv, [MainNext]_mainVars PROVE KeptInv'
  OBVIOUS
<1>1. CASE RefuseToRead
  BY <1>1, KeptStays DEF RefuseToRead, emitVars
<1>2. CASE Extract
  <2>1. state' = state /\ wire' = wire
    BY <1>2 DEF Extract, Walk, MapWire, streamVars
  <2>2. CASE wire = NoWire
    <3>1. Finished => emission' = emission
      BY <1>2, EmissionStays DEF Extract, Walk, MapWire
    <3> QED
      BY <2>1, <2>2, <3>1 DEF KeptInv, Finished
  <2>3. CASE wire # NoWire
    <3>1. ~Finished /\ emission' = MapWalk(wire.version, wire.views)
      BY <1>2, <2>3 DEF Extract, Walk, MapWire
    <3> QED
      BY <2>1, <3>1 DEF KeptInv
  <2> QED
    BY <2>2, <2>3
<1>3. CASE RenderModel1
  BY <1>3, KeptStays DEF RenderModel1, emitVars, streamVars
<1>4. CASE GiveUp
  BY <1>4, KeptStays DEF GiveUp, emitVars
<1>5. CASE WriteEmission
  BY <1>5, KeptStays DEF WriteEmission, Write
<1>6. CASE ReadEmission
  <2>1. UNCHANGED <<wire, emission>> /\ state' # "written"
    <3>1. CASE Spoil
      BY Zenon, <3>1 DEF Spoil, emitVars
    <3>2. CASE Open
      BY <3>2 DEF Open, emitVars
    <3>3. CASE ReadLine
      <4>1. state = "stream" /\ UNCHANGED <<wire, emission>>
        BY Zenon, <3>3 DEF ReadLine, emitVars
      <4>2. state' \in {"stream", "sidecar", "refused"}
        BY <3>3, <4>1, LineTaken
      <4> QED
        BY <4>1, <4>2
    <3>4. CASE ReadEntry
      <4>1. state = "sidecar" /\ UNCHANGED <<wire, emission>>
        BY Zenon, <3>4 DEF ReadEntry, emitVars
      <4>2. state' \in {"sidecar", "read", "refused"}
        BY <3>4, <4>1, EntryTaken
      <4> QED
        BY <4>1, <4>2
    <3> QED
      BY <1>6, <3>1, <3>2, <3>3, <3>4 DEF ReadEmission
  <2> QED
    BY <2>1, KeptStays
<1>7. CASE ReadModel1
  BY <1>7, KeptStays DEF ReadModel1, emitVars, streamVars
<1>8. CASE Settled
  BY <1>8, KeptStays DEF Settled, emitVars, streamVars
<1>9. CASE UNCHANGED mainVars
  BY <1>9, KeptStays DEF mainVars, emitVars, streamVars
<1> QED
  BY <1>1, <1>2, <1>3, <1>4, <1>5, <1>6, <1>7, <1>8, <1>9 DEF MainNext

\* Whatever walk of the native library a run is given: each primitive of each
\* view has its record in the written stream, in the order of the views, or is
\* said not to have one; and under every handle there are as many warnings as
\* the library gave, together with what this suite does not know.
THEOREM WireIsKeptInARun == MainSpec => []WireIsKept
<1>1. MainSpec => []EmitInv
  BY EmitStarts, EmitStep, PTL DEF MainSpec, mainVars
<1>2. MainInit => KeptInv
  <2> SUFFICES ASSUME MainInit PROVE KeptInv
    OBVIOUS
  <2>1. emission = <<>> /\ state = "emitting"
    BY DEF MainInit, StreamInit, Started
  <2> QED
    BY <2>1 DEF KeptInv, Finished
<1>3. MainSpec => []KeptInv
  BY <1>2, KeptStep, PTL DEF MainSpec, mainVars
<1>4. EmitInv /\ KeptInv => WireIsKept
  <2> SUFFICES ASSUME EmitInv, KeptInv PROVE WireIsKept
    OBVIOUS
  <2>1. CASE wire # NoWire /\ state = "written"
    BY <2>1, MappedIsKept DEF EmitInv, KeptInv
  <2>2. CASE ~(wire # NoWire /\ state = "written")
    BY Zenon, <2>2 DEF WireIsKept
  <2> QED
    BY <2>1, <2>2
<1> QED
  BY <1>1, <1>3, <1>4, PTL

-----------------------------------------------------------------------------
(* The records of a document, and the stream they are written to.           *)

LEMMA SameOperators ==
  /\ \A s : M1!FlattenSeq(s) = FlattenSeq(s)
  /\ \A S : M1!Cardinality(S) = Number(S)
  /\ \A kind, path : M1!Under(kind, path) = Under(kind, path)
  /\ M1!NoPath = NoPath
  /\ \A node : M1!OwnerPath(node) = OwnerPath(node)
  /\ \A d : M1!LayoutsOf(d) = LayoutsOf(d)
<1>1. \A s : M1!FlattenSeq(s) = FlattenSeq(s)
  BY Zenon DEF FlattenSeq, M1!FlattenSeq
<1>2. \A S : M1!Cardinality(S) = Number(S)
  BY Zenon DEF Number, M1!Cardinality
<1>3. \A kind, path : M1!Under(kind, path) = Under(kind, path)
  BY DEF Under, M1!Under
<1>4. M1!NoPath = NoPath
  BY Zenon DEF NoPath, M1!NoPath
<1>5. \A node : M1!OwnerPath(node) = OwnerPath(node)
  BY Zenon, <1>3, <1>4 DEF OwnerPath, M1!OwnerPath
<1>6. \A d : M1!LayoutsOf(d) = LayoutsOf(d)
  BY DEF LayoutsOf, M1!LayoutsOf
<1> QED
  BY <1>1, <1>2, <1>3, <1>4, <1>5, <1>6

LEMMA SameOrder == \A s, texts : M1!InTextOrder(s, texts) = InTextOrder(s, texts)
<1>1. \A a, b : M1!Before(a, b) <=> Before(a, b)
  BY DEF Before, Rank, M1!Before, M1!Rank
<1>2. \A texts, i : M1!TextPlace(texts, i) = TextPlace(texts, i)
  <2> TAKE texts, i
  <2> DEFINE A == {j \in DOMAIN texts : M1!Before(texts[j], texts[i]) \/ (texts[j] = texts[i] /\ j <= i)}
             B == {j \in DOMAIN texts : Before(texts[j], texts[i]) \/ (texts[j] = texts[i] /\ j <= i)}
  <2>1. A = B
    BY <1>1
  <2>2. M1!TextPlace(texts, i) = M1!Cardinality(A) /\ TextPlace(texts, i) = Number(B)
    BY Zenon, TextPlaceNumber DEF M1!TextPlace
  <2> HIDE DEF A, B
  <2> QED
    BY <2>1, <2>2, SameOperators
<1>3. \A texts, n : M1!CameFrom(texts, n) = CameFrom(texts, n)
  BY Zenon, <1>2 DEF CameFrom, M1!CameFrom
<1> QED
  BY <1>3 DEF InTextOrder, M1!InTextOrder

\* Whatever stands in one of the lists stands in the list of them all.
LEMMA FlatHas ==
  ASSUME NEW seqs, IsSequence(seqs), \A n \in DOMAIN seqs : IsSequence(seqs[n]),
         NEW n \in DOMAIN seqs, NEW m \in DOMAIN seqs[n]
  PROVE  \E k \in DOMAIN FlattenSeq(seqs) : FlattenSeq(seqs)[k] = seqs[n][m]
<1> DEFINE W == UNION {Values(seqs[i]) : i \in DOMAIN seqs}
           x == seqs[n][m]
           S == {t \in Seq(W) : \E k \in DOMAIN t : t[k] = x}
           last == Len(seqs)
<1>1. \A i \in DOMAIN seqs : seqs[i] \in Seq(Values(seqs[i])) /\ Values(seqs[i]) \subseteq W
  BY DEF IsSequence, Values
<1> HIDE DEF W
<1>2. \A i \in DOMAIN seqs : seqs[i] \in Seq(W)
  BY <1>1, SeqMonotonic
<1>3. PICK h : Grows(h, seqs) /\ \A i \in 0..last : h[i] \in Seq(W)
  BY <1>2, FlatGrows
<1>4. last \in Nat /\ DOMAIN seqs = 1..last /\ n \in 1..last
  BY Sequences_
<1>5. h[last] = FlattenSeq(seqs) /\ \A i \in 1..last : h[i] = h[i - 1] \o seqs[i]
  BY <1>3, <1>4 DEF Grows
<1> HIDE DEF last
<1>6. ASSUME NEW i \in 1..last
      PROVE  i \in 0..last /\ i - 1 \in 0..last /\ h[i] \in Seq(W) /\ IsSequence(h[i - 1]) /\ IsSequence(seqs[i])
  <2>1. i \in 0..last /\ i - 1 \in 0..last
    BY <1>4
  <2>2. h[i] \in Seq(W) /\ h[i - 1] \in Seq(W)
    BY <1>3, <2>1 DEF last
  <2> QED
    BY <1>4, <2>1, <2>2, SequenceOf
<1>7. h[n] \in S
  <2>1. m \in DOMAIN seqs[n] /\ IsSequence(h[n - 1]) /\ IsSequence(seqs[n])
    BY <1>4, <1>6
  <2>2. Len(h[n - 1]) \in Nat
    BY <2>1, Sequences_
  <2>3. DOMAIN seqs[n] = 1..Len(seqs[n]) /\ Len(seqs[n]) \in Nat
    BY <2>1, Sequences_
  <2>4. PICK k : k = Len(h[n - 1]) + m
    OBVIOUS
  <2>7. (h[n - 1] \o seqs[n])[k] = x
    <3>1. ASSUME NEW s, NEW t, s = h[n - 1], t = seqs[n] PROVE (s \o t)[k] = t[m]
      <4>1. IsSequence(s) /\ IsSequence(t)
        BY <2>1, <3>1
      <4>2. m \in DOMAIN t
        BY <2>1, <3>1
      <4>3. k = Len(s) + m
        BY <2>4, <3>1
      <4> QED
        BY <4>1, <4>2, <4>3, JoinedRight
    <3> QED
      BY <3>1
  <2>5. DOMAIN (h[n - 1] \o seqs[n]) = 1..(Len(h[n - 1]) + Len(seqs[n]))
    BY <2>1, Joined
  <2>6. k \in DOMAIN (h[n - 1] \o seqs[n])
    BY <2>1, <2>2, <2>3, <2>4, <2>5
  <2> HIDE DEF x
  <2> QED
    BY <1>4, <1>5, <1>6, <2>6, <2>7
<1>8. ASSUME NEW i \in 1..last, h[i - 1] \in S
      PROVE  h[i] \in S
  <2>1. PICK k \in DOMAIN h[i - 1] : h[i - 1][k] = x
    BY <1>8
  <2>2. IsSequence(h[i - 1]) /\ IsSequence(seqs[i]) /\ h[i] \in Seq(W) /\ h[i] = h[i - 1] \o seqs[i]
    BY <1>5, <1>6
  <2>3. /\ DOMAIN (h[i - 1] \o seqs[i]) = 1..(Len(h[i - 1]) + Len(seqs[i]))
        /\ \A j \in DOMAIN h[i - 1] : (h[i - 1] \o seqs[i])[j] = h[i - 1][j]
    BY <2>2, Joined
  <2>4. /\ Len(h[i - 1]) \in Nat /\ DOMAIN h[i - 1] = 1..Len(h[i - 1])
        /\ Len(seqs[i]) \in Nat /\ DOMAIN seqs[i] = 1..Len(seqs[i])
    BY <2>2, Sequences_
  <2>5. k \in DOMAIN (h[i - 1] \o seqs[i])
    <3>1. \A a, b \in Nat : \A j \in 1..a : j \in 1..(a + b)
      OBVIOUS
    <3> QED
      BY Zenon, <2>1, <2>3, <2>4, <3>1
  <2> HIDE DEF x
  <2> QED
    BY <2>1, <2>2, <2>3, <2>5
<1> DEFINE g == [i \in 0..(last - n) |-> h[n + i]]
           d == last - n
<1> HIDE DEF S
<1>9. d \in Nat /\ g[0] \in S
  BY <1>4, <1>7
<1>10. \A i \in 1..d : g[i - 1] \in S => g[i] \in S
  <2> SUFFICES ASSUME NEW i \in 1..d, g[i - 1] \in S PROVE g[i] \in S
    OBVIOUS
  <2>0. g[i - 1] \in S
    OBVIOUS
  <2>1. n + i \in 1..last /\ n + i - 1 = n + (i - 1) /\ i \in 0..d /\ i - 1 \in 0..d
    BY <1>4
  <2>2. g[i] = h[n + i] /\ g[i - 1] = h[n + i - 1]
    BY <2>1
  <2> HIDE DEF g
  <2>3. PICK j : j = n + i
    OBVIOUS
  <2>4. j \in 1..last /\ g[i] = h[j]
    BY <2>1, <2>2, <2>3
  <2>5. h[j - 1] \in S
    <3>1. j - 1 = n + i - 1
      BY <1>4, <2>3
    <3> QED
      BY Zenon, <2>0, <2>2, <3>1
  <2> QED
    BY <1>8, <2>4, <2>5
<1> HIDE DEF g
<1>11. \A i \in 0..d : g[i] \in S
  BY Zenon, <1>9, <1>10, Throughout
<1>12. g[d] = h[last]
  BY <1>4 DEF g
<1>13. h[last] \in S
  BY <1>4, <1>11, <1>12
<1> QED
  BY <1>5, <1>13 DEF S

\* In the order of its texts a list has the elements it had.
LEMMA OrderKeeps ==
  ASSUME NEW s, IsSequence(s), NEW texts, AllTexts(texts), DOMAIN texts = DOMAIN s
  PROVE  /\ IsSequence(InTextOrder(s, texts))
         /\ \A k \in DOMAIN InTextOrder(s, texts) : \E i \in DOMAIN s : InTextOrder(s, texts)[k] = s[i]
         /\ \A i \in DOMAIN s : \E k \in DOMAIN InTextOrder(s, texts) : InTextOrder(s, texts)[k] = s[i]
<1>1. /\ IsSequence(InTextOrder(s, texts)) /\ DOMAIN InTextOrder(s, texts) = DOMAIN s
      /\ \A k \in DOMAIN s : CameFrom(texts, k) \in DOMAIN s /\ InTextOrder(s, texts)[k] = s[CameFrom(texts, k)]
      /\ \A i \in DOMAIN s : \E k \in DOMAIN s : CameFrom(texts, k) = i
  BY InTextOrderIs
<1> QED
  BY <1>1

\* Records of one kind, with names that are texts.
Keyed(records, kind) ==
  IsSequence(records) /\ \A n \in DOMAIN records : records[n].kind = kind /\ IsText(records[n].name)

LEMMA RecordIs ==
  ASSUME NEW kind, NEW name, NEW values
  PROVE  LET r == M1!Record(kind, name, values)
         IN  r.kind = kind /\ r.name = name /\ r.values = values
BY DEF M1!Record

LEMMA KeyedList ==
  ASSUME NEW s, IsSequence(s), NEW f, f = [n \in DOMAIN s |-> f[n]], NEW kind,
         \A n \in DOMAIN s : f[n].kind = kind /\ IsText(f[n].name)
  PROVE  Keyed(f, kind) /\ DOMAIN f = DOMAIN s
<1>1. IsSequence(f) /\ DOMAIN f = DOMAIN s
  BY SameLength
<1> QED
  BY <1>1 DEF Keyed

\* By kind, what is made a record of and what record it becomes.
LEMMA RecordsAre ==
  /\ M1!Records("layer") = [n \in DOMAIN doc.layers |-> M1!LayerOf(doc.layers[n])]
  /\ M1!Records("linetype") = [n \in DOMAIN doc.linetypes |-> M1!LinetypeOf(doc.linetypes[n])]
  /\ M1!Records("textstyle") =
       [n \in DOMAIN M1!Named(doc.textstyles) |-> M1!TextstyleOf(M1!Named(doc.textstyles)[n])]
  /\ M1!Records("dimstyle") =
       [n \in DOMAIN M1!Named(doc.dimstyles) |-> M1!DimstyleOf(M1!Named(doc.dimstyles)[n])]
  /\ M1!Records("block_record") = [n \in DOMAIN doc.blocks |-> M1!BlockOf(doc.blocks[n])]
  /\ M1!Records("layout") = [n \in DOMAIN M1!Layouts |-> M1!LayoutOf(M1!Layouts[n])]
  /\ M1!Records("dictionary") = [n \in DOMAIN tree.dictionaries |-> M1!DictionaryOf(tree.dictionaries[n])]
  /\ M1!Records("xdata") = M1!XData
  /\ M1!Records("xrecord") = [n \in DOMAIN tree.xrecords |-> M1!XRecordOf(tree.xrecords[n])]
<1>1. M1!Records("layer") = [n \in DOMAIN doc.layers |-> M1!LayerOf(doc.layers[n])]
  BY Zenon DEF M1!Records, M1!All
<1>2. M1!Records("linetype") = [n \in DOMAIN doc.linetypes |-> M1!LinetypeOf(doc.linetypes[n])]
  BY Zenon DEF M1!Records, M1!All
<1>3. M1!Records("textstyle") =
        [n \in DOMAIN M1!Named(doc.textstyles) |-> M1!TextstyleOf(M1!Named(doc.textstyles)[n])]
  BY Zenon DEF M1!Records, M1!All
<1>4. M1!Records("dimstyle") =
        [n \in DOMAIN M1!Named(doc.dimstyles) |-> M1!DimstyleOf(M1!Named(doc.dimstyles)[n])]
  BY Zenon DEF M1!Records, M1!All
<1>5. M1!Records("block_record") = [n \in DOMAIN doc.blocks |-> M1!BlockOf(doc.blocks[n])]
  BY Zenon DEF M1!Records, M1!All
<1>6. M1!Records("layout") = [n \in DOMAIN M1!Layouts |-> M1!LayoutOf(M1!Layouts[n])]
  BY Zenon DEF M1!Records, M1!All
<1>7. M1!Records("dictionary") = [n \in DOMAIN tree.dictionaries |-> M1!DictionaryOf(tree.dictionaries[n])]
  BY Zenon DEF M1!Records, M1!All
<1>8. M1!Records("xdata") = M1!XData
  BY Zenon DEF M1!Records, M1!All
<1>9. M1!Records("xrecord") = [n \in DOMAIN tree.xrecords |-> M1!XRecordOf(tree.xrecords[n])]
  BY Zenon DEF M1!Records, M1!All
<1> QED
  BY <1>1, <1>2, <1>3, <1>4, <1>5, <1>6, <1>7, <1>8, <1>9

LEMMA HeaderKeyed == Keyed(M1!Records("header"), "header")
<1> DEFINE s == M1!HeaderNames
           f == M1!Records("header")
<1>1. s = HeaderNames
  BY DEF HeaderNames, M1!HeaderNames
<1>2. IsSequence(HeaderNames)
  BY Tuple8 DEF HeaderNames
<1>3. f = [n \in DOMAIN s |-> M1!Record("header", <<s[n]>>, [value |-> M1!HeaderValue(s[n])])]
  BY Zenon DEF M1!Records
<1> HIDE DEF s, f
<1>4. f = [n \in DOMAIN s |-> f[n]]
  BY <1>3
<1>5. ASSUME NEW n \in DOMAIN s PROVE f[n].kind = "header" /\ IsText(f[n].name)
  <2>1. f[n].kind = "header" /\ f[n].name = <<s[n]>>
    BY <1>3, RecordIs
  <2>2. s[n] \in Pieces
    BY <1>1, AlphabetAssumption
  <2> QED
    BY <2>1, <2>2, OnePiece
<1>6. IsSequence(s)
  BY <1>1, <1>2
<1>7. Keyed(f, "header")
  BY <1>4, <1>5, <1>6, KeyedList
<1> QED
  BY <1>7 DEF f

LEMMA NamesAre ==
  /\ \A l : M1!LayerOf(l).kind = "layer" /\ M1!LayerOf(l).name = l.name
  /\ \A l : M1!LinetypeOf(l).kind = "linetype" /\ M1!LinetypeOf(l).name = l.name
  /\ \A t : M1!TextstyleOf(t).kind = "textstyle" /\ M1!TextstyleOf(t).name = t.name
  /\ \A d : M1!DimstyleOf(d).kind = "dimstyle" /\ M1!DimstyleOf(d).name = d.name
  /\ \A b : M1!BlockOf(b).kind = "block_record" /\ M1!BlockOf(b).name = b.name
  /\ \A l : M1!LayoutOf(l).kind = "layout" /\ M1!LayoutOf(l).name = l.name
  /\ \A d : M1!DictionaryOf(d).kind = "dictionary" /\ M1!DictionaryOf(d).name = d.path
  /\ \A x : M1!XRecordOf(x).kind = "xrecord" /\ M1!XRecordOf(x).name = x.path
<1>1. \A l : M1!LayerOf(l).kind = "layer" /\ M1!LayerOf(l).name = l.name
  BY RecordIs DEF M1!LayerOf
<1>2. \A l : M1!LinetypeOf(l).kind = "linetype" /\ M1!LinetypeOf(l).name = l.name
  BY RecordIs DEF M1!LinetypeOf
<1>3. \A t : M1!TextstyleOf(t).kind = "textstyle" /\ M1!TextstyleOf(t).name = t.name
  BY RecordIs DEF M1!TextstyleOf
<1>4. \A d : M1!DimstyleOf(d).kind = "dimstyle" /\ M1!DimstyleOf(d).name = d.name
  <2>1. \A d : \E values : M1!DimstyleOf(d) = M1!Record("dimstyle", d.name, values)
    BY Zenon DEF M1!DimstyleOf
  <2> QED
    BY <2>1, RecordIs
<1>5. \A b : M1!BlockOf(b).kind = "block_record" /\ M1!BlockOf(b).name = b.name
  BY RecordIs DEF M1!BlockOf
<1>6. \A l : M1!LayoutOf(l).kind = "layout" /\ M1!LayoutOf(l).name = l.name
  BY RecordIs DEF M1!LayoutOf
<1>7. \A d : M1!DictionaryOf(d).kind = "dictionary" /\ M1!DictionaryOf(d).name = d.path
  <2>1. \A d : \E values : M1!DictionaryOf(d) = M1!Record("dictionary", d.path, values)
    BY Zenon DEF M1!DictionaryOf
  <2> QED
    BY <2>1, RecordIs
<1>8. \A x : M1!XRecordOf(x).kind = "xrecord" /\ M1!XRecordOf(x).name = x.path
  <2>1. \A x : \E values : M1!XRecordOf(x) = M1!Record("xrecord", x.path, values)
    BY Zenon DEF M1!XRecordOf
  <2> QED
    BY <2>1, RecordIs
<1> QED
  BY <1>1, <1>2, <1>3, <1>4, <1>5, <1>6, <1>7, <1>8

\* Those of a table's entries that have a name.
LEMMA NamedIs ==
  ASSUME NEW rows, IsSequence(rows)
  PROVE  /\ IsSequence(M1!Named(rows))
         /\ \A k \in DOMAIN M1!Named(rows) : \E n \in DOMAIN rows : M1!Named(rows)[k] = rows[n]
         /\ \A n \in DOMAIN rows : rows[n].name # <<>> =>
              \E k \in DOMAIN M1!Named(rows) : M1!Named(rows)[k] = rows[n]
<1> DEFINE parts == [n \in DOMAIN rows |-> IF rows[n].name = <<>> THEN <<>> ELSE <<rows[n]>>]
           flat == FlattenSeq(parts)
<1>1. M1!Named(rows) = flat
  BY Zenon, SameOperators DEF M1!Named
<1>2. parts = [n \in DOMAIN rows |-> parts[n]]
  OBVIOUS
<1>3. /\ \A n \in DOMAIN rows : rows[n].name = <<>> => parts[n] = <<>>
      /\ \A n \in DOMAIN rows : rows[n].name # <<>> => parts[n] = <<rows[n]>>
  OBVIOUS
<1> HIDE DEF parts
<1>4. IsSequence(parts) /\ DOMAIN parts = DOMAIN rows
  BY <1>2, SameLength
<1>5. \A x : IsSequence(<<x>>) /\ DOMAIN <<x>> = {1} /\ <<x>>[1] = x
  <2> TAKE x
  <2>1. <<x>> \in Seq({x})
    OBVIOUS
  <2>2. IsSequence(<<x>>)
    BY Zenon, <2>1, SequenceOf
  <2> QED
    BY <2>2
<1>6. \A n \in DOMAIN parts : IsSequence(parts[n])
  BY <1>3, <1>4, <1>5, EmptySequence
<1>7. /\ IsSequence(flat)
      /\ \A k \in DOMAIN flat : \E n \in DOMAIN parts : \E m \in DOMAIN parts[n] : flat[k] = parts[n][m]
  BY <1>4, <1>6, FlatFrom
<1>8. ASSUME NEW k \in DOMAIN flat PROVE \E n \in DOMAIN rows : flat[k] = rows[n]
  <2>1. PICK n \in DOMAIN parts : \E m \in DOMAIN parts[n] : flat[k] = parts[n][m]
    BY <1>7
  <2>2. parts[n] = <<rows[n]>>
    BY <1>3, <1>4, <2>1, EmptySequence
  <2> QED
    BY <1>4, <1>5, <2>1, <2>2
<1>9. ASSUME NEW n \in DOMAIN rows, rows[n].name # <<>> PROVE \E k \in DOMAIN flat : flat[k] = rows[n]
  <2>1. n \in DOMAIN parts /\ 1 \in DOMAIN parts[n] /\ parts[n][1] = rows[n]
    BY <1>3, <1>4, <1>5, <1>9
  <2>2. \E k \in DOMAIN flat : flat[k] = parts[n][1]
    BY <1>4, <1>6, <2>1, FlatHas
  <2> QED
    BY <2>1, <2>2
<1> HIDE DEF flat
<1> QED
  BY <1>1, <1>7, <1>8, <1>9

\* The layouts are the objects that are one.
LEMMA LayoutsAre ==
  ASSUME IsDocument(doc)
  PROVE  /\ IsSequence(M1!Layouts)
         /\ \A n \in DOMAIN M1!Layouts : \E h \in LayoutsOf(doc) : M1!Layouts[n] = doc.objects[h]
         /\ \A h \in LayoutsOf(doc) : \E n \in DOMAIN M1!Layouts : M1!Layouts[n] = doc.objects[h]
<1> DEFINE S == LayoutsOf(doc)
           list == Listing(S)
           made == [n \in DOMAIN list |-> doc.objects[list[n]]]
<1>2. M1!SetToSeq(S) = list
  <2>1. \A f : M1!IsInjective(f) <=> \A x, y \in DOMAIN f : f[x] = f[y] => x = y
    BY DEF M1!IsInjective
  <2> QED
    BY Zenon, <2>1, SameOperators DEF M1!SetToSeq, Listing
<1>3. M1!Layouts = made
  BY Zenon, <1>2, SameOperators DEF M1!Layouts
<1>4. /\ IsSequence(list) /\ \A n \in DOMAIN list : list[n] \in S
      /\ \A x \in S : \E n \in DOMAIN list : list[n] = x
  BY LayoutsListed
<1> HIDE DEF S, list
<1>5. made = [n \in DOMAIN list |-> made[n]] /\ \A n \in DOMAIN list : made[n] = doc.objects[list[n]]
  OBVIOUS
<1> HIDE DEF made
<1>6. IsSequence(made) /\ DOMAIN made = DOMAIN list
  BY <1>4, <1>5, SameLength
<1> QED
  BY <1>3, <1>4, <1>5, <1>6 DEF S

LEMMA StrIs == \A v : M1!Str(v).v = v
BY DEF M1!Str, M1!C!Value

XDataName(owner, appid) == owner \o <<"|">> \o appid

LEMMA XDataIs ==
  \A owner, appid, values :
    /\ M1!XDataOf(owner, appid, values).kind = "xdata"
    /\ M1!XDataOf(owner, appid, values).name = XDataName(owner, appid)
    /\ M1!XDataOf(owner, appid, values).values.owner.v = owner
<1> SUFFICES ASSUME NEW owner, NEW appid, NEW values
             PROVE  /\ M1!XDataOf(owner, appid, values).kind = "xdata"
                    /\ M1!XDataOf(owner, appid, values).name = XDataName(owner, appid)
                    /\ M1!XDataOf(owner, appid, values).values.owner.v = owner
  OBVIOUS
<1>1. PICK x : M1!XDataOf(owner, appid, values) =
        M1!Record("xdata", owner \o <<"|">> \o appid,
                  [owner |-> M1!Str(owner), appid |-> M1!Str(appid), values |-> x])
  BY Zenon DEF M1!XDataOf
<1> DEFINE held == [owner |-> M1!Str(owner), appid |-> M1!Str(appid), values |-> x]
<1>2. held.owner.v = owner
  BY StrIs
<1> HIDE DEF held
<1>3. M1!XDataOf(owner, appid, values) = M1!Record("xdata", XDataName(owner, appid), held)
  BY Zenon, <1>1 DEF held, XDataName
<1> QED
  BY <1>2, <1>3, RecordIs

\* The record of extended data: what it is named by, and what it is the data of.
XDataKeyed(r) ==
  /\ r.kind = "xdata" /\ IsText(r.name)
  /\ \/ \E text : r.values.owner.v = <<"entity", "/">> \o text /\ IsText(text)
     \/ \E n \in DOMAIN doc.xdata :
          r.values.owner.v = M1!OwnerOf(doc.xdata[n].node) /\ M1!OwnerOf(doc.xdata[n].node) # NoPath

LEMMA OwnerIsText ==
  ASSUME IsDocument(doc), TreeNamed(tree), NEW node, IsNode(doc, node), M1!OwnerOf(node) # NoPath
  PROVE  IsText(M1!OwnerOf(node))
<1>1. CASE node.of # "object"
  <2>1. M1!OwnerOf(node) = OwnerPath(node)
    BY Zenon, <1>1, SameOperators DEF M1!OwnerOf
  <2> QED
    BY <2>1, OwnerPathIs DEF IsPath
<1>2. CASE node.of = "object"
  <2>1. node.handle \in DOMAIN tree.owners /\ M1!OwnerOf(node) = tree.owners[node.handle]
    BY Zenon, <1>2, SameOperators DEF M1!OwnerOf
  <2>2. OwnerListed(tree, node.handle)
    BY <2>1 DEF TreeNamed
  <2>3. \A kind \in {"dictionary", "xrecord"} : \A path : IsText(path) => IsText(Under(kind, path))
    BY PathPieces, UnderIs
  <2> QED
    BY <2>1, <2>2, <2>3 DEF OwnerListed, TreeNamed
<1> QED
  BY <1>1, <1>2

LEMMA XDataNamed ==
  \A owner, appid, values :
    IsText(owner) /\ IsText(appid) =>
      /\ M1!XDataOf(owner, appid, values).kind = "xdata"
      /\ IsText(M1!XDataOf(owner, appid, values).name)
      /\ M1!XDataOf(owner, appid, values).values.owner.v = owner
<1> SUFFICES ASSUME NEW owner, NEW appid, NEW values, IsText(owner), IsText(appid)
             PROVE  /\ M1!XDataOf(owner, appid, values).kind = "xdata"
                    /\ IsText(M1!XDataOf(owner, appid, values).name)
                    /\ M1!XDataOf(owner, appid, values).values.owner.v = owner
  OBVIOUS
<1> DEFINE bar == <<"|">>
<1>1. IsText(bar)
  BY PathPieces, OnePiece
<1>2. XDataName(owner, appid) = (owner \o bar) \o appid
  BY Zenon DEF XDataName
<1> HIDE DEF bar
<1>3. IsText(owner \o bar)
  BY <1>1, TextsJoin
<1>4. IsText((owner \o bar) \o appid)
  BY <1>3, TextsJoin
<1>5. IsText(XDataName(owner, appid))
  BY <1>2, <1>4
<1>6. /\ M1!XDataOf(owner, appid, values).kind = "xdata"
      /\ M1!XDataOf(owner, appid, values).name = XDataName(owner, appid)
      /\ M1!XDataOf(owner, appid, values).values.owner.v = owner
  BY Zenon, XDataIs
<1> QED
  BY <1>5, <1>6

LEMMA XDataAre ==
  ASSUME IsDocument(doc), TreeNamed(tree)
  PROVE  IsSequence(M1!XData) /\ \A k \in DOMAIN M1!XData : XDataKeyed(M1!XData[k])
<1> DEFINE Of(n, i) == M1!XDataOf(<<"entity", "/">> \o doc.entities[n].handle, doc.entities[n].xdata[i].appid,
                                  doc.entities[n].xdata[i].values)
           At(n) == M1!XDataOf(M1!OwnerOf(doc.xdata[n].node), doc.xdata[n].appid, doc.xdata[n].values)
           first == [n \in DOMAIN doc.entities |-> [i \in DOMAIN doc.entities[n].xdata |-> Of(n, i)]]
           second == [n \in DOMAIN doc.xdata |->
                        IF M1!OwnerOf(doc.xdata[n].node) = M1!NoPath THEN <<>> ELSE <<At(n)>>]
<1>1. M1!XData = FlattenSeq(first) \o FlattenSeq(second)
  BY Zenon, SameOperators DEF M1!XData
<1>2. IsSequence(doc.entities) /\ IsSequence(doc.xdata)
  BY DEF IsDocument, Lists
<1>3. ASSUME NEW n \in DOMAIN doc.entities, NEW i \in DOMAIN doc.entities[n].xdata
      PROVE  XDataKeyed(Of(n, i))
  <2> DEFINE text == doc.entities[n].handle
             owner == <<"entity", "/">> \o text
             front == <<"entity", "/">>
  <2>1. IsText(text) /\ IsText(doc.entities[n].xdata[i].appid)
    BY DEF IsDocument
  <2>2. IsText(front)
    BY PathPieces DEF IsText
  <2>3. owner = front \o text
    OBVIOUS
  <2> HIDE DEF front, text, owner
  <2>4. IsText(owner)
    BY <2>1, <2>2, <2>3, TextsJoin
  <2>5. Of(n, i) = M1!XDataOf(owner, doc.entities[n].xdata[i].appid, doc.entities[n].xdata[i].values)
    BY Zenon DEF owner, text
  <2> HIDE DEF Of
  <2>6. Of(n, i).kind = "xdata" /\ IsText(Of(n, i).name) /\ Of(n, i).values.owner.v = owner
    BY <2>1, <2>4, <2>5, XDataNamed
  <2> QED
    BY Zenon, <2>1, <2>3, <2>6 DEF XDataKeyed, front
<1>4. ASSUME NEW n \in DOMAIN doc.xdata, M1!OwnerOf(doc.xdata[n].node) # NoPath
      PROVE  XDataKeyed(At(n))
  <2> DEFINE owner == M1!OwnerOf(doc.xdata[n].node)
  <2>1. IsNode(doc, doc.xdata[n].node) /\ IsText(doc.xdata[n].appid)
    BY DEF IsDocument
  <2>2. IsText(owner) /\ owner # NoPath
    BY <1>4, <2>1, OwnerIsText
  <2> HIDE DEF owner
  <2>3. At(n) = M1!XDataOf(owner, doc.xdata[n].appid, doc.xdata[n].values)
    BY Zenon DEF owner
  <2> HIDE DEF At
  <2>4. At(n).kind = "xdata" /\ IsText(At(n).name) /\ At(n).values.owner.v = owner
    BY <2>1, <2>2, <2>3, XDataNamed
  <2> QED
    BY Zenon, <2>2, <2>4 DEF XDataKeyed, owner
<1> HIDE DEF Of, At
<1>5. /\ IsSequence(first) /\ DOMAIN first = DOMAIN doc.entities
      /\ \A n \in DOMAIN first : IsSequence(first[n])
      /\ \A n \in DOMAIN first : \A i \in DOMAIN first[n] : XDataKeyed(first[n][i])
  <2>1. first = [n \in DOMAIN doc.entities |-> first[n]]
    OBVIOUS
  <2>2. \A n \in DOMAIN doc.entities : first[n] = [i \in DOMAIN doc.entities[n].xdata |-> Of(n, i)]
    OBVIOUS
  <2> HIDE DEF first
  <2>3. IsSequence(first) /\ DOMAIN first = DOMAIN doc.entities
    BY <1>2, <2>1, SameLength
  <2>4. ASSUME NEW n \in DOMAIN doc.entities
        PROVE  IsSequence(first[n]) /\ \A i \in DOMAIN first[n] : XDataKeyed(first[n][i])
    <3>1. IsSequence(doc.entities[n].xdata)
      BY DEF IsDocument
    <3> DEFINE f == first[n]
    <3>2. f = [i \in DOMAIN doc.entities[n].xdata |-> Of(n, i)]
      BY <2>2
    <3> HIDE DEF f
    <3>3. f = [i \in DOMAIN doc.entities[n].xdata |-> f[i]]
      BY <3>2
    <3>4. IsSequence(f) /\ DOMAIN f = DOMAIN doc.entities[n].xdata
      BY <3>1, <3>3, SameLength
    <3>5. \A i \in DOMAIN f : XDataKeyed(f[i])
      BY <1>3, <3>2
    <3> QED
      BY <3>4, <3>5 DEF f
  <2> QED
    BY <2>3, <2>4
<1>6. /\ IsSequence(second) /\ DOMAIN second = DOMAIN doc.xdata
      /\ \A n \in DOMAIN second : IsSequence(second[n])
      /\ \A n \in DOMAIN second : \A i \in DOMAIN second[n] : XDataKeyed(second[n][i])
  <2>1. second = [n \in DOMAIN doc.xdata |-> second[n]]
    OBVIOUS
  <2>2. \A n \in DOMAIN doc.xdata :
          \/ second[n] = <<>>
          \/ M1!OwnerOf(doc.xdata[n].node) # NoPath /\ second[n] = <<At(n)>>
    BY SameOperators
  <2> HIDE DEF second
  <2>3. IsSequence(second) /\ DOMAIN second = DOMAIN doc.xdata
    BY <1>2, <2>1, SameLength
  <2>4. \A x : IsSequence(<<x>>) /\ DOMAIN <<x>> = {1} /\ <<x>>[1] = x
    <3> TAKE x
    <3>1. <<x>> \in Seq({x})
      OBVIOUS
    <3>2. IsSequence(<<x>>)
      BY Zenon, <3>1, SequenceOf
    <3> QED
      BY <3>2
  <2>5. ASSUME NEW n \in DOMAIN doc.xdata
        PROVE  IsSequence(second[n]) /\ \A i \in DOMAIN second[n] : XDataKeyed(second[n][i])
    <3>1. CASE second[n] = <<>>
      BY <3>1, EmptySequence
    <3>2. CASE M1!OwnerOf(doc.xdata[n].node) # NoPath /\ second[n] = <<At(n)>>
      BY <1>4, <2>4, <3>2
    <3> QED
      BY <2>2, <3>1, <3>2
  <2> QED
    BY <2>3, <2>5
<1> HIDE DEF first, second
<1>7. /\ IsSequence(FlattenSeq(first))
      /\ \A k \in DOMAIN FlattenSeq(first) : \E n \in DOMAIN first : \E i \in DOMAIN first[n] :
           FlattenSeq(first)[k] = first[n][i]
  BY <1>5, FlatFrom
<1>8. /\ IsSequence(FlattenSeq(second))
      /\ \A k \in DOMAIN FlattenSeq(second) : \E n \in DOMAIN second : \E i \in DOMAIN second[n] :
           FlattenSeq(second)[k] = second[n][i]
  BY <1>6, FlatFrom
<1> DEFINE s == FlattenSeq(first)
           t == FlattenSeq(second)
<1>9. (\A k \in DOMAIN s : XDataKeyed(s[k])) /\ \A k \in DOMAIN t : XDataKeyed(t[k])
  BY <1>5, <1>6, <1>7, <1>8
<1>10. IsSequence(s) /\ IsSequence(t) /\ M1!XData = s \o t
  BY <1>1, <1>7, <1>8
<1> HIDE DEF s, t
<1>11. /\ IsSequence(s \o t)
       /\ \A n \in DOMAIN (s \o t) :
            \/ n \in DOMAIN s /\ (s \o t)[n] = s[n]
            \/ n - Len(s) \in DOMAIN t /\ (s \o t)[n] = t[n - Len(s)]
  BY <1>10, Joined
<1> QED
  BY <1>9, <1>10, <1>11

RecordKinds == {"header", "layer", "linetype", "textstyle", "dimstyle", "block_record", "layout", "dictionary",
                "xdata", "xrecord"}

LEMMA TableKeyed ==
  ASSUME IsDocument(doc), NEW kind \in DOMAIN TablesOf(doc)
  PROVE  Keyed(M1!Records(kind), kind)
<1>1. /\ IsSequence(doc.layers) /\ IsSequence(doc.linetypes) /\ IsSequence(doc.textstyles)
      /\ IsSequence(doc.dimstyles) /\ IsSequence(doc.blocks)
  BY DEF IsDocument, Lists
<1>2. /\ \A n \in DOMAIN doc.layers : IsText(doc.layers[n].name)
      /\ \A n \in DOMAIN doc.linetypes : IsText(doc.linetypes[n].name)
      /\ \A n \in DOMAIN doc.textstyles : IsText(doc.textstyles[n].name)
      /\ \A n \in DOMAIN doc.dimstyles : IsText(doc.dimstyles[n].name)
      /\ \A n \in DOMAIN doc.blocks : IsText(doc.blocks[n].name)
  <2>1. \A other \in DOMAIN TablesOf(doc) : \A n \in DOMAIN TablesOf(doc)[other] : IsText(TablesOf(doc)[other][n].name)
    BY DEF IsDocument
  <2> QED
    BY <2>1 DEF TablesOf
<1> DEFINE f == M1!Records(kind)
<1>3. CASE kind = "layer"
  <2> DEFINE s == doc.layers
  <2>1. f = [n \in DOMAIN s |-> M1!LayerOf(s[n])]
    BY <1>3, RecordsAre
  <2> HIDE DEF f
  <2>2. f = [n \in DOMAIN s |-> f[n]] /\ \A n \in DOMAIN s : f[n].kind = kind /\ IsText(f[n].name)
    BY <1>2, <1>3, <2>1, NamesAre
  <2>3. Keyed(f, kind)
    BY <1>1, <2>2, KeyedList
  <2> QED
    BY <2>3 DEF f
<1>4. CASE kind = "linetype"
  <2> DEFINE s == doc.linetypes
  <2>1. f = [n \in DOMAIN s |-> M1!LinetypeOf(s[n])]
    BY <1>4, RecordsAre
  <2> HIDE DEF f
  <2>2. f = [n \in DOMAIN s |-> f[n]] /\ \A n \in DOMAIN s : f[n].kind = kind /\ IsText(f[n].name)
    BY <1>2, <1>4, <2>1, NamesAre
  <2>3. Keyed(f, kind)
    BY <1>1, <2>2, KeyedList
  <2> QED
    BY <2>3 DEF f
<1>5. CASE kind = "block_record"
  <2> DEFINE s == doc.blocks
  <2>1. f = [n \in DOMAIN s |-> M1!BlockOf(s[n])]
    BY <1>5, RecordsAre
  <2> HIDE DEF f
  <2>2. f = [n \in DOMAIN s |-> f[n]] /\ \A n \in DOMAIN s : f[n].kind = kind /\ IsText(f[n].name)
    BY <1>2, <1>5, <2>1, NamesAre
  <2>3. Keyed(f, kind)
    BY <1>1, <2>2, KeyedList
  <2> QED
    BY <2>3 DEF f
<1>6. CASE kind = "textstyle"
  <2> DEFINE s == M1!Named(doc.textstyles)
  <2>0. IsSequence(s) /\ \A k \in DOMAIN s : \E n \in DOMAIN doc.textstyles : s[k] = doc.textstyles[n]
    BY <1>1, NamedIs
  <2>1. f = [n \in DOMAIN s |-> M1!TextstyleOf(s[n])]
    BY <1>6, RecordsAre
  <2> HIDE DEF f, s
  <2>1a. \A n \in DOMAIN s : IsText(s[n].name)
    BY <1>2, <2>0
  <2>2. f = [n \in DOMAIN s |-> f[n]] /\ \A n \in DOMAIN s : f[n].kind = kind /\ IsText(f[n].name)
    BY <1>6, <2>1, <2>1a, NamesAre
  <2>3. Keyed(f, kind)
    BY <2>0, <2>2, KeyedList
  <2> QED
    BY <2>3 DEF f
<1>7. CASE kind = "dimstyle"
  <2> DEFINE s == M1!Named(doc.dimstyles)
  <2>0. IsSequence(s) /\ \A k \in DOMAIN s : \E n \in DOMAIN doc.dimstyles : s[k] = doc.dimstyles[n]
    BY <1>1, NamedIs
  <2>1. f = [n \in DOMAIN s |-> M1!DimstyleOf(s[n])]
    BY <1>7, RecordsAre
  <2> HIDE DEF f, s
  <2>1a. \A n \in DOMAIN s : IsText(s[n].name)
    BY <1>2, <2>0
  <2>2. f = [n \in DOMAIN s |-> f[n]] /\ \A n \in DOMAIN s : f[n].kind = kind /\ IsText(f[n].name)
    BY <1>7, <2>1, <2>1a, NamesAre
  <2>3. Keyed(f, kind)
    BY <2>0, <2>2, KeyedList
  <2> QED
    BY <2>3 DEF f
<1> QED
  BY <1>3, <1>4, <1>5, <1>6, <1>7 DEF TablesOf

LEMMA ObjectsKeyed ==
  ASSUME IsDocument(doc), IsTree, TreeNamed(tree)
  PROVE  /\ Keyed(M1!Records("layout"), "layout")
         /\ Keyed(M1!Records("dictionary"), "dictionary")
         /\ Keyed(M1!Records("xrecord"), "xrecord")
<1>1. Keyed(M1!Records("layout"), "layout")
  <2> DEFINE s == M1!Layouts
             f == M1!Records("layout")
  <2>0. IsSequence(s) /\ \A n \in DOMAIN s : \E h \in LayoutsOf(doc) : s[n] = doc.objects[h]
    BY LayoutsAre
  <2>1. f = [n \in DOMAIN s |-> M1!LayoutOf(s[n])]
    BY RecordsAre
  <2> HIDE DEF f, s
  <2>2. \A h \in LayoutsOf(doc) : IsText(doc.objects[h].name)
    BY DEF IsDocument
  <2>2a. \A n \in DOMAIN s : IsText(s[n].name)
    BY <2>0, <2>2
  <2>3. f = [n \in DOMAIN s |-> f[n]] /\ \A n \in DOMAIN s : f[n].kind = "layout" /\ IsText(f[n].name)
    BY <2>1, <2>2a, NamesAre
  <2>4. Keyed(f, "layout")
    BY <2>0, <2>3, KeyedList
  <2> QED
    BY <2>4 DEF f
<1>2. Keyed(M1!Records("dictionary"), "dictionary")
  <2> DEFINE s == tree.dictionaries
             f == M1!Records("dictionary")
  <2>1. f = [n \in DOMAIN s |-> M1!DictionaryOf(s[n])]
    BY RecordsAre
  <2> HIDE DEF f
  <2>2. IsSequence(s) /\ \A n \in DOMAIN s : IsText(s[n].path)
    BY DEF IsTree, TreeNamed
  <2>3. f = [n \in DOMAIN s |-> f[n]] /\ \A n \in DOMAIN s : f[n].kind = "dictionary" /\ IsText(f[n].name)
    BY <2>1, <2>2, NamesAre
  <2>4. Keyed(f, "dictionary")
    BY <2>2, <2>3, KeyedList
  <2> QED
    BY <2>4 DEF f
<1>3. Keyed(M1!Records("xrecord"), "xrecord")
  <2> DEFINE s == tree.xrecords
             f == M1!Records("xrecord")
  <2>1. f = [n \in DOMAIN s |-> M1!XRecordOf(s[n])]
    BY RecordsAre
  <2> HIDE DEF f
  <2>2. IsSequence(s) /\ \A n \in DOMAIN s : IsText(s[n].path)
    BY DEF IsTree, TreeNamed
  <2>3. f = [n \in DOMAIN s |-> f[n]] /\ \A n \in DOMAIN s : f[n].kind = "xrecord" /\ IsText(f[n].name)
    BY <2>1, <2>2, NamesAre
  <2>4. Keyed(f, "xrecord")
    BY <2>2, <2>3, KeyedList
  <2> QED
    BY <2>4 DEF f
<1> QED
  BY <1>1, <1>2, <1>3

LEMMA RecordsKeyed ==
  ASSUME IsDocument(doc), IsTree, TreeNamed(tree), NEW kind \in RecordKinds
  PROVE  Keyed(M1!Records(kind), kind)
<1>1. CASE kind \in DOMAIN TablesOf(doc)
  BY <1>1, TableKeyed
<1>2. CASE kind = "header"
  BY <1>2, HeaderKeyed
<1>3. CASE kind = "xdata"
  BY <1>3, XDataAre, RecordsAre DEF Keyed, XDataKeyed
<1>4. CASE kind \in {"layout", "dictionary", "xrecord"}
  BY <1>4, ObjectsKeyed
<1>5. DOMAIN TablesOf(doc) = {"layer", "linetype", "textstyle", "dimstyle", "block_record"}
  BY DEF TablesOf
<1> QED
  BY <1>1, <1>2, <1>3, <1>4, <1>5 DEF RecordKinds

LEMMA KindOrder ==
  /\ IsSequence(M1!KIND_ORDER)
  /\ \A n \in DOMAIN M1!KIND_ORDER : M1!KIND_ORDER[n] \in RecordKinds
  /\ \A kind \in RecordKinds : \E n \in DOMAIN M1!KIND_ORDER : M1!KIND_ORDER[n] = kind
<1> DEFINE order == M1!KIND_ORDER
<1>1. order = <<"header", "layer", "linetype", "textstyle", "dimstyle", "block_record", "layout",
                "dictionary", "xdata", "xrecord">>
  BY DEF M1!KIND_ORDER
<1> HIDE DEF order
<1>2. order \in Seq(RecordKinds)
  BY <1>1 DEF RecordKinds
<1>3. IsSequence(order)
  BY Zenon, <1>2, SequenceOf
<1>4. DOMAIN order = 1..10
  BY <1>1
<1>5. \A n \in DOMAIN order : order[n] \in RecordKinds
  BY <1>2
<1>6. /\ order[1] = "header" /\ order[2] = "layer" /\ order[3] = "linetype" /\ order[4] = "textstyle"
      /\ order[5] = "dimstyle" /\ order[6] = "block_record" /\ order[7] = "layout"
      /\ order[8] = "dictionary" /\ order[9] = "xdata" /\ order[10] = "xrecord"
  BY <1>1
<1>7. \A kind \in RecordKinds : \E n \in DOMAIN order : order[n] = kind
  BY <1>4, <1>6 DEF RecordKinds
<1> QED
  BY <1>3, <1>5, <1>7 DEF order

\* The stream has the records of every kind and no others.
LEMMA SortedIs ==
  ASSUME \A kind \in RecordKinds : Keyed(M1!Records(kind), kind)
  PROVE  /\ IsSequence(M1!Sorted)
         /\ \A k \in DOMAIN M1!Sorted : \E kind \in RecordKinds : \E n \in DOMAIN M1!Records(kind) :
              M1!Sorted[k] = M1!Records(kind)[n]
         /\ \A kind \in RecordKinds : \A n \in DOMAIN M1!Records(kind) : \E k \in DOMAIN M1!Sorted :
              M1!Sorted[k] = M1!Records(kind)[n]
<1> DEFINE order == M1!KIND_ORDER
           parts == [n \in DOMAIN order |-> M1!InNameOrder(M1!Records(order[n]))]
           stream == FlattenSeq(parts)
<1>1. M1!Sorted = stream
  BY Zenon, SameOperators DEF M1!Sorted
<1>2. /\ IsSequence(order) /\ \A n \in DOMAIN order : order[n] \in RecordKinds
      /\ \A kind \in RecordKinds : \E n \in DOMAIN order : order[n] = kind
  BY KindOrder
<1>3. ASSUME NEW kind \in RecordKinds
      PROVE  LET s == M1!InNameOrder(M1!Records(kind))
             IN  /\ IsSequence(s)
                 /\ \A k \in DOMAIN s : \E n \in DOMAIN M1!Records(kind) : s[k] = M1!Records(kind)[n]
                 /\ \A n \in DOMAIN M1!Records(kind) : \E k \in DOMAIN s : s[k] = M1!Records(kind)[n]
  <2> DEFINE s == M1!Records(kind)
             texts == [n \in DOMAIN s |-> s[n].name]
  <2>1. M1!InNameOrder(s) = InTextOrder(s, texts)
    BY Zenon, SameOrder DEF M1!InNameOrder
  <2>2. IsSequence(s) /\ \A n \in DOMAIN s : IsText(s[n].name)
    BY DEF Keyed
  <2> HIDE DEF s
  <2>3. texts = [n \in DOMAIN s |-> texts[n]] /\ \A n \in DOMAIN s : texts[n] = s[n].name
    OBVIOUS
  <2> HIDE DEF texts
  <2>4. IsSequence(texts) /\ DOMAIN texts = DOMAIN s
    BY <2>2, <2>3, SameLength
  <2>5. AllTexts(texts)
    BY <2>2, <2>3, <2>4 DEF AllTexts
  <2>6. /\ IsSequence(InTextOrder(s, texts))
        /\ \A k \in DOMAIN InTextOrder(s, texts) : \E i \in DOMAIN s : InTextOrder(s, texts)[k] = s[i]
        /\ \A i \in DOMAIN s : \E k \in DOMAIN InTextOrder(s, texts) : InTextOrder(s, texts)[k] = s[i]
    BY <2>2, <2>4, <2>5, OrderKeeps
  <2> QED
    BY <2>1, <2>6 DEF s
<1>4. parts = [n \in DOMAIN order |-> parts[n]] /\ \A n \in DOMAIN order : parts[n] = M1!InNameOrder(M1!Records(order[n]))
  OBVIOUS
<1> HIDE DEF parts, order
<1>5. IsSequence(parts) /\ DOMAIN parts = DOMAIN order
  BY <1>2, <1>4, SameLength
<1>6. \A n \in DOMAIN parts : IsSequence(parts[n])
  BY <1>2, <1>3, <1>4, <1>5
<1>7. /\ IsSequence(stream)
      /\ \A k \in DOMAIN stream : \E n \in DOMAIN parts : \E m \in DOMAIN parts[n] : stream[k] = parts[n][m]
  BY <1>5, <1>6, FlatFrom
<1>8. \A n \in DOMAIN parts : \A m \in DOMAIN parts[n] : \E k \in DOMAIN stream : stream[k] = parts[n][m]
  BY <1>5, <1>6, FlatHas
<1> HIDE DEF stream
<1>9. ASSUME NEW k \in DOMAIN stream
      PROVE  \E kind \in RecordKinds : \E n \in DOMAIN M1!Records(kind) : stream[k] = M1!Records(kind)[n]
  <2>1. PICK n \in DOMAIN parts : \E m \in DOMAIN parts[n] : stream[k] = parts[n][m]
    BY <1>7
  <2>2. order[n] \in RecordKinds /\ parts[n] = M1!InNameOrder(M1!Records(order[n]))
    BY <1>2, <1>4, <1>5, <2>1
  <2>3. \E i \in DOMAIN M1!Records(order[n]) : stream[k] = M1!Records(order[n])[i]
    BY <1>3, <2>1, <2>2
  <2> QED
    BY <2>2, <2>3
<1>10. ASSUME NEW kind \in RecordKinds, NEW n \in DOMAIN M1!Records(kind)
       PROVE  \E k \in DOMAIN stream : stream[k] = M1!Records(kind)[n]
  <2>1. PICK i \in DOMAIN order : order[i] = kind
    BY <1>2
  <2>2. parts[i] = M1!InNameOrder(M1!Records(kind)) /\ i \in DOMAIN parts
    BY <1>4, <1>5, <2>1
  <2>3. \E m \in DOMAIN parts[i] : parts[i][m] = M1!Records(kind)[n]
    BY <1>3, <2>2
  <2> QED
    BY <1>8, <2>2, <2>3
<1> QED
  BY <1>1, <1>7, <1>9, <1>10

\* What the stream has to say of the document: everything is what it should be.
AllKeyed ==
  /\ IsDocument(doc) /\ IsTree /\ TreeNamed(tree)
  /\ \A kind \in RecordKinds : Keyed(M1!Records(kind), kind)

InStream(kind, name) == \E n \in DOMAIN M1!Sorted : M1!Sorted[n].kind = kind /\ M1!Sorted[n].name = name

LEMMA RecordIn ==
  ASSUME AllKeyed, NEW kind \in RecordKinds, NEW n \in DOMAIN M1!Records(kind)
  PROVE  InStream(kind, M1!Records(kind)[n].name)
<1>1. \E k \in DOMAIN M1!Sorted : M1!Sorted[k] = M1!Records(kind)[n]
  BY SortedIs DEF AllKeyed
<1>2. M1!Records(kind)[n].kind = kind
  BY DEF AllKeyed, Keyed
<1> QED
  BY <1>1, <1>2 DEF InStream

LEMMA DictionaryIn ==
  ASSUME AllKeyed, NEW n \in DOMAIN tree.dictionaries
  PROVE  InStream("dictionary", tree.dictionaries[n].path)
<1> DEFINE f == M1!Records("dictionary")
<1>1. f = [m \in DOMAIN tree.dictionaries |-> M1!DictionaryOf(tree.dictionaries[m])]
  BY RecordsAre
<1>2. "dictionary" \in RecordKinds
  BY DEF RecordKinds
<1> HIDE DEF f
<1>3. n \in DOMAIN f /\ f[n].name = tree.dictionaries[n].path
  BY <1>1, NamesAre
<1>4. \A m \in DOMAIN f : InStream("dictionary", f[m].name)
  BY <1>2, RecordIn DEF f
<1> QED
  BY <1>3, <1>4

LEMMA XRecordIn ==
  ASSUME AllKeyed, NEW n \in DOMAIN tree.xrecords
  PROVE  InStream("xrecord", tree.xrecords[n].path)
<1> DEFINE f == M1!Records("xrecord")
<1>1. f = [m \in DOMAIN tree.xrecords |-> M1!XRecordOf(tree.xrecords[m])]
  BY RecordsAre
<1>2. "xrecord" \in RecordKinds
  BY DEF RecordKinds
<1> HIDE DEF f
<1>3. n \in DOMAIN f /\ f[n].name = tree.xrecords[n].path
  BY <1>1, NamesAre
<1>4. \A m \in DOMAIN f : InStream("xrecord", f[m].name)
  BY <1>2, RecordIn DEF f
<1> QED
  BY <1>3, <1>4

LEMMA LayoutIn ==
  ASSUME AllKeyed, NEW h \in LayoutsOf(doc)
  PROVE  InStream("layout", doc.objects[h].name)
<1> DEFINE f == M1!Records("layout")
           s == M1!Layouts
<1>1. f = [m \in DOMAIN s |-> M1!LayoutOf(s[m])]
  BY RecordsAre
<1>2. "layout" \in RecordKinds
  BY DEF RecordKinds
<1>3. \E n \in DOMAIN s : s[n] = doc.objects[h]
  BY LayoutsAre DEF AllKeyed
<1> HIDE DEF f, s
<1>4. \E n \in DOMAIN f : f[n].name = doc.objects[h].name
  <2>1. PICK n \in DOMAIN s : s[n] = doc.objects[h]
    BY <1>3
  <2>2. n \in DOMAIN f /\ f[n] = M1!LayoutOf(doc.objects[h])
    BY <1>1, <2>1
  <2> QED
    BY <2>2, NamesAre
<1>5. \A m \in DOMAIN f : InStream("layout", f[m].name)
  BY <1>2, RecordIn DEF f
<1> QED
  BY <1>4, <1>5

\* An entry of a table that has records has one, if it has a name.
LEMMA EntryIn ==
  ASSUME AllKeyed, NEW kind \in DOMAIN TablesOf(doc), NEW n \in DOMAIN TablesOf(doc)[kind],
         TablesOf(doc)[kind][n].name # <<>>
  PROVE  InStream(kind, TablesOf(doc)[kind][n].name)
<1> DEFINE f == M1!Records(kind)
           rows == TablesOf(doc)[kind]
<1>1. DOMAIN TablesOf(doc) = {"layer", "linetype", "textstyle", "dimstyle", "block_record"}
  BY DEF TablesOf
<1>2. kind \in RecordKinds
  BY <1>1 DEF RecordKinds
<1>3. IsSequence(doc.textstyles) /\ IsSequence(doc.dimstyles)
  BY DEF AllKeyed, IsDocument, Lists
<1>4. \E k \in DOMAIN f : f[k].name = rows[n].name
  <2>1. CASE kind = "layer"
    <3>1. f = [m \in DOMAIN doc.layers |-> M1!LayerOf(doc.layers[m])]
      BY <2>1, RecordsAre
    <3>2. rows = doc.layers
      BY <2>1 DEF TablesOf
    <3> HIDE DEF f, rows
    <3>3. n \in DOMAIN f /\ f[n] = M1!LayerOf(rows[n])
      BY <3>1, <3>2 DEF rows
    <3> QED
      BY <3>3, NamesAre
  <2>2. CASE kind = "linetype"
    <3>1. f = [m \in DOMAIN doc.linetypes |-> M1!LinetypeOf(doc.linetypes[m])]
      BY <2>2, RecordsAre
    <3>2. rows = doc.linetypes
      BY <2>2 DEF TablesOf
    <3> HIDE DEF f, rows
    <3>3. n \in DOMAIN f /\ f[n] = M1!LinetypeOf(rows[n])
      BY <3>1, <3>2 DEF rows
    <3> QED
      BY <3>3, NamesAre
  <2>3. CASE kind = "block_record"
    <3>1. f = [m \in DOMAIN doc.blocks |-> M1!BlockOf(doc.blocks[m])]
      BY <2>3, RecordsAre
    <3>2. rows = doc.blocks
      BY <2>3 DEF TablesOf
    <3> HIDE DEF f, rows
    <3>3. n \in DOMAIN f /\ f[n] = M1!BlockOf(rows[n])
      BY <3>1, <3>2 DEF rows
    <3> QED
      BY <3>3, NamesAre
  <2>4. CASE kind = "textstyle"
    <3> DEFINE s == M1!Named(doc.textstyles)
    <3>1. f = [m \in DOMAIN s |-> M1!TextstyleOf(s[m])]
      BY <2>4, RecordsAre
    <3>2. rows = doc.textstyles
      BY <2>4 DEF TablesOf
    <3>3. \A m \in DOMAIN doc.textstyles : doc.textstyles[m].name # <<>> => \E k \in DOMAIN s : s[k] = doc.textstyles[m]
      BY <1>3, NamedIs
    <3>4. rows[n].name # <<>> /\ n \in DOMAIN rows
      OBVIOUS
    <3> HIDE DEF f, s, rows
    <3>5. \E k \in DOMAIN s : s[k] = rows[n]
      BY <3>2, <3>3, <3>4
    <3> QED
      BY Zenon, <3>1, <3>5, NamesAre
  <2>5. CASE kind = "dimstyle"
    <3> DEFINE s == M1!Named(doc.dimstyles)
    <3>1. f = [m \in DOMAIN s |-> M1!DimstyleOf(s[m])]
      BY <2>5, RecordsAre
    <3>2. rows = doc.dimstyles
      BY <2>5 DEF TablesOf
    <3>3. \A m \in DOMAIN doc.dimstyles : doc.dimstyles[m].name # <<>> => \E k \in DOMAIN s : s[k] = doc.dimstyles[m]
      BY <1>3, NamedIs
    <3>4. rows[n].name # <<>> /\ n \in DOMAIN rows
      OBVIOUS
    <3> HIDE DEF f, s, rows
    <3>5. \E k \in DOMAIN s : s[k] = rows[n]
      BY <3>2, <3>3, <3>4
    <3> QED
      BY Zenon, <3>1, <3>5, NamesAre
  <2> QED
    BY <1>1, <2>1, <2>2, <2>3, <2>4, <2>5
<1>5. \A k \in DOMAIN f : InStream(kind, f[k].name)
  BY <1>2, RecordIn
<1> HIDE DEF f
<1> QED
  BY <1>4, <1>5

\* Whoever a path names is in the stream, where its kind has records.
OwnedIn(text) ==
  CASE text[1] \in {"dictionary", "xrecord", "layout"} -> InStream(text[1], SubSeq(text, 3, Len(text)))
    [] text[1] = "table" -> text[3] \in {"appid", "view", "vport", "ucs"} \/ Len(text) = 4
                            \/ InStream(text[3], SubSeq(text, 5, Len(text)))
    [] OTHER -> TRUE

LEMMA UnderIn ==
  ASSUME NEW kind \in {"dictionary", "xrecord", "layout"}, NEW path, IsText(path), InStream(kind, path)
  PROVE  OwnedIn(Under(kind, path))
<1> DEFINE text == Under(kind, path)
<1>1. text[1] = kind /\ SubSeq(text, 3, Len(text)) = path
  <2>1. kind \in Pieces
    BY PathPieces
  <2> QED
    BY <2>1, UnderIs
<1> HIDE DEF text
<1>2. OwnedIn(text)
  BY Zenon, <1>1 DEF OwnedIn
<1> QED
  BY <1>2 DEF text

LEMMA EntityIn ==
  ASSUME NEW handle, IsText(handle), NEW text, text = <<"entity", "/">> \o handle
  PROVE  OwnedIn(text)
<1> DEFINE front == <<"entity", "/">>
<1>1. IsText(front)
  BY PathPieces DEF IsText
<1>2. Len(front) = 2 /\ front[1] = "entity" /\ text = front \o handle
  OBVIOUS
<1> HIDE DEF front
<1>3. \A n \in 1..Len(front) : (front \o handle)[n] = front[n]
  BY <1>1, TextsJoin
<1>4. text[1] = "entity"
  BY <1>2, <1>3
<1> QED
  BY Zenon, <1>4 DEF OwnedIn

LEMMA TableOwnerIn ==
  ASSUME AllKeyed, NEW node, IsNode(doc, node), node.of = "table", node.kind # "vx"
  PROVE  OwnedIn(OwnerPath(node))
<1> DEFINE text == OwnerPath(node)
           kind == node.kind
           name == node.name
<1>1. /\ kind \in TableKinds /\ IsText(name)
      /\ kind \in DOMAIN TablesOf(doc) => \E n \in DOMAIN TablesOf(doc)[kind] : TablesOf(doc)[kind][n].name = name
  BY Zenon DEF IsNode
<1>2. text = <<"table", "/", kind, "/">> \o name
  BY Zenon DEF OwnerPath
<1> HIDE DEF text, kind, name
<1>3. Len(text) = Len(name) + 4 /\ text[1] = "table" /\ text[3] = kind /\ SubSeq(text, 5, Len(text)) = name
  BY <1>1, <1>2, TableIs
<1>4. DOMAIN TablesOf(doc) = {"layer", "linetype", "textstyle", "dimstyle", "block_record"}
  BY DEF TablesOf
<1>5. kind \in {"appid", "view", "vport", "ucs"} \/ Len(text) = 4 \/ InStream(kind, name)
  <2>1. CASE name = <<>>
    BY <1>3, <2>1
  <2>2. CASE name # <<>> /\ kind \in DOMAIN TablesOf(doc)
    BY <1>1, <2>2, EntryIn
  <2>3. CASE kind \notin DOMAIN TablesOf(doc)
    BY <1>1, <1>4, <2>3 DEF TableKinds, kind
  <2> QED
    BY <2>1, <2>2, <2>3
<1>6. OwnedIn(text)
  BY Zenon, <1>3, <1>5 DEF OwnedIn
<1> QED
  BY <1>6 DEF text

LEMMA OwnerIn ==
  ASSUME AllKeyed, NEW node, IsNode(doc, node), M1!OwnerOf(node) # NoPath
  PROVE  OwnedIn(M1!OwnerOf(node))
<1>1. CASE node.of # "object"
  <2>1. M1!OwnerOf(node) = OwnerPath(node)
    BY Zenon, <1>1, SameOperators DEF M1!OwnerOf
  <2>2. CASE node.of = "layout"
    <3>1. PICK h \in LayoutsOf(doc) : doc.objects[h].name = node.name
      BY Zenon, <2>2 DEF IsNode
    <3>2. OwnerPath(node) = Under("layout", node.name)
      BY Zenon, <2>2 DEF OwnerPath
    <3>3. IsText(node.name) /\ InStream("layout", node.name)
      BY <3>1, LayoutIn DEF AllKeyed, IsDocument
    <3> QED
      BY <2>1, <3>2, <3>3, UnderIn
  <2>3. CASE node.of = "table" /\ node.kind # "vx"
    BY <2>1, <2>3, TableOwnerIn
  <2>4. CASE ~(node.of = "layout") /\ ~(node.of = "table" /\ node.kind # "vx")
    <3>1. OwnerPath(node) = NoPath
      BY Zenon, <2>4 DEF OwnerPath
    <3> QED
      BY <2>1, <3>1
  <2> QED
    BY <2>2, <2>3, <2>4
<1>2. CASE node.of = "object"
  <2>1. node.handle \in DOMAIN tree.owners /\ M1!OwnerOf(node) = tree.owners[node.handle]
    BY Zenon, <1>2, SameOperators DEF M1!OwnerOf
  <2>2. OwnerListed(tree, node.handle)
    BY <2>1 DEF AllKeyed, TreeNamed
  <2>3. ASSUME NEW n \in DOMAIN tree.dictionaries,
               tree.owners[node.handle] = Under("dictionary", tree.dictionaries[n].path)
        PROVE  OwnedIn(M1!OwnerOf(node))
    <3>1. IsText(tree.dictionaries[n].path) /\ InStream("dictionary", tree.dictionaries[n].path)
      BY DictionaryIn DEF AllKeyed, TreeNamed
    <3> QED
      BY <2>1, <2>3, <3>1, UnderIn
  <2>4. ASSUME NEW n \in DOMAIN tree.xrecords,
               tree.owners[node.handle] = Under("xrecord", tree.xrecords[n].path)
        PROVE  OwnedIn(M1!OwnerOf(node))
    <3>1. IsText(tree.xrecords[n].path) /\ InStream("xrecord", tree.xrecords[n].path)
      BY XRecordIn DEF AllKeyed, TreeNamed
    <3> QED
      BY <2>1, <2>4, <3>1, UnderIn
  <2> QED
    BY <2>2, <2>3, <2>4 DEF OwnerListed
<1> QED
  BY <1>1, <1>2

\* What a reference says: nothing, or the name of a record.
RefersTo(kind, name) == name = <<>> \/ InStream(kind, name)

LEMMA NameInIs ==
  ASSUME NEW rows, IsSequence(rows), NEW h
  PROVE  M1!NameIn(rows, h) = <<>> \/ \E n \in DOMAIN rows : M1!NameIn(rows, h) = rows[n].name
<1> DEFINE found == {n \in DOMAIN rows : rows[n].handle = h}
           least == CHOOSE n \in found : \A m \in found : n <= m
<1>1. M1!NameIn(rows, h) = IF found = {} THEN <<>> ELSE rows[least].name
  BY Zenon DEF M1!NameIn
<1>2. found \in SUBSET Nat /\ found \subseteq DOMAIN rows
  <2>1. DOMAIN rows = 1..Len(rows) /\ Len(rows) \in Nat
    BY Sequences_
  <2> QED
    BY <2>1
<1> HIDE DEF found
<1>3. CASE found = {}
  BY <1>1, <1>3
<1>4. CASE found # {}
  <2>1. \E n \in found : \A m \in found : n <= m
    BY <1>2, <1>4, LeastNumber
  <2>2. least \in found
    BY Zenon, <2>1
  <2> HIDE DEF least
  <2>3. least \in DOMAIN rows /\ M1!NameIn(rows, h) = rows[least].name
    BY <1>1, <1>2, <1>4, <2>2
  <2> QED
    BY <2>3
<1> QED
  BY <1>3, <1>4

LEMMA EntryNamed ==
  ASSUME AllKeyed, NEW kind \in DOMAIN TablesOf(doc), NEW h
  PROVE  RefersTo(kind, M1!NameIn(TablesOf(doc)[kind], h))
<1> DEFINE rows == TablesOf(doc)[kind]
           name == M1!NameIn(rows, h)
<1>1. IsSequence(rows)
  <2>1. /\ IsSequence(doc.layers) /\ IsSequence(doc.linetypes) /\ IsSequence(doc.textstyles)
        /\ IsSequence(doc.dimstyles) /\ IsSequence(doc.blocks)
    BY DEF AllKeyed, IsDocument, Lists
  <2>2. rows \in {doc.layers, doc.linetypes, doc.textstyles, doc.dimstyles, doc.blocks}
    BY DEF TablesOf
  <2> HIDE DEF rows
  <2> QED
    BY <2>1, <2>2
<1>2. \A n \in DOMAIN rows : rows[n].name # <<>> => InStream(kind, rows[n].name)
  BY EntryIn
<1> HIDE DEF rows
<1>3. name = <<>> \/ \E n \in DOMAIN rows : name = rows[n].name
  BY <1>1, NameInIs
<1> HIDE DEF name
<1>4. name = <<>> \/ InStream(kind, name)
  BY <1>2, <1>3
<1> QED
  BY <1>4 DEF RefersTo, name, rows

LEMMA LayoutRefers ==
  ASSUME AllKeyed, NEW l
  PROVE  RefersTo("block_record", M1!LayoutOf(l).values.block_record.v)
<1> DEFINE name == IF l.block = 0 THEN <<>> ELSE M1!NameIn(doc.blocks, l.block)
<1>1. RefersTo("block_record", M1!NameIn(doc.blocks, l.block))
  <2>1. "block_record" \in DOMAIN TablesOf(doc) /\ TablesOf(doc)["block_record"] = doc.blocks
    BY DEF TablesOf
  <2> QED
    BY <2>1, EntryNamed
<1>2. RefersTo("block_record", name)
  BY <1>1 DEF RefersTo
<1>3. M1!LayoutOf(l).values.block_record = M1!Str(name)
  BY RecordIs DEF M1!LayoutOf
<1> HIDE DEF name
<1> QED
  BY <1>2, <1>3, StrIs

LEMMA BlockRefers ==
  ASSUME AllKeyed, NEW b
  PROVE  RefersTo("layout", M1!BlockOf(b).values.layout.v)
<1> DEFINE name == IF b.layout # 0 /\ b.layout \in LayoutsOf(doc) THEN doc.objects[b.layout].name ELSE <<>>
<1>1. RefersTo("layout", name)
  BY LayoutIn DEF RefersTo
<1>2. M1!BlockOf(b).values.layout = M1!Str(name)
  BY RecordIs, SameOperators DEF M1!BlockOf
<1> HIDE DEF name
<1> QED
  BY <1>1, <1>2, StrIs

DimstyleKeys == M1!Names(M1!Schema.dimstyle)

LEMMA DimstyleHas == "$DIMLDRBLK" \in DimstyleKeys /\ "$DIMLTYPE" \in DimstyleKeys
<1> DEFINE fields == <<<<"$DIMPOST", "string">>, <<"$DIMSCALE", "double">>, <<"$DIMCLRD", "int">>,
                       <<"$DIMLDRBLK", "string">>, <<"$DIMLTYPE", "string">>, <<"annotative", "bool">>>>
<1>1. M1!Schema.dimstyle = fields
  BY DEF M1!Schema
<1>2. 4 \in DOMAIN fields /\ 5 \in DOMAIN fields
  OBVIOUS
<1>3. fields[4][1] = "$DIMLDRBLK" /\ fields[5][1] = "$DIMLTYPE"
  OBVIOUS
<1> HIDE DEF fields
<1>4. DimstyleKeys = {fields[n][1] : n \in DOMAIN fields}
  BY Zenon, <1>1 DEF DimstyleKeys, M1!Names
<1> QED
  BY <1>2, <1>3, <1>4

LEMMA DimstyleRefers ==
  ASSUME AllKeyed, NEW d
  PROVE  /\ RefersTo("block_record", M1!DimstyleOf(d).values["$DIMLDRBLK"].v)
         /\ RefersTo("linetype", M1!DimstyleOf(d).values["$DIMLTYPE"].v)
<1> DEFINE held == [key \in DimstyleKeys |->
                      CASE key = "$DIMPOST" -> M1!Str(d.post)
                        [] key = "$DIMSCALE" -> M1!Double(d.scale)
                        [] key = "$DIMCLRD" -> M1!Whole(M1!Color(d.color))
                        [] key = "$DIMLDRBLK" -> M1!Str(M1!NameIn(doc.blocks, d.block))
                        [] key = "$DIMLTYPE" -> M1!Str(M1!NameIn(doc.linetypes, d.linetype))
                        [] key = "annotative" -> M1!Bool(d.annotative)]
<1>1. M1!DimstyleOf(d) = M1!Record("dimstyle", d.name, held)
  BY Zenon DEF M1!DimstyleOf, DimstyleKeys
<1>2. held["$DIMLDRBLK"] = M1!Str(M1!NameIn(doc.blocks, d.block))
  BY Zenon, DimstyleHas
<1>3. held["$DIMLTYPE"] = M1!Str(M1!NameIn(doc.linetypes, d.linetype))
  BY Zenon, DimstyleHas
<1> HIDE DEF held
<1>4. M1!DimstyleOf(d).values = held
  BY <1>1, RecordIs
<1>5. /\ "block_record" \in DOMAIN TablesOf(doc) /\ TablesOf(doc)["block_record"] = doc.blocks
      /\ "linetype" \in DOMAIN TablesOf(doc) /\ TablesOf(doc)["linetype"] = doc.linetypes
  BY DEF TablesOf
<1>6. RefersTo("block_record", M1!NameIn(doc.blocks, d.block))
  BY <1>5, EntryNamed
<1>7. RefersTo("linetype", M1!NameIn(doc.linetypes, d.linetype))
  BY <1>5, EntryNamed
<1> QED
  BY <1>2, <1>3, <1>4, <1>6, <1>7, StrIs

LEMMA XDataRefers ==
  ASSUME AllKeyed, NEW r, XDataKeyed(r)
  PROVE  OwnedIn(r.values.owner.v)
<1> DEFINE owner == r.values.owner.v
<1>1. CASE \E text : owner = <<"entity", "/">> \o text /\ IsText(text)
  BY <1>1, EntityIn
<1>2. CASE \E n \in DOMAIN doc.xdata :
             owner = M1!OwnerOf(doc.xdata[n].node) /\ M1!OwnerOf(doc.xdata[n].node) # NoPath
  <2>1. PICK n \in DOMAIN doc.xdata :
          owner = M1!OwnerOf(doc.xdata[n].node) /\ M1!OwnerOf(doc.xdata[n].node) # NoPath
    BY <1>2
  <2>2. IsNode(doc, doc.xdata[n].node)
    BY DEF AllKeyed, IsDocument
  <2> QED
    BY <2>1, <2>2, OwnerIn
<1> QED
  BY Zenon, <1>1, <1>2 DEF XDataKeyed

\* What a record says of others, by its kind.
Refers(r) ==
  /\ r.kind = "xdata" => OwnedIn(r.values.owner.v)
  /\ r.kind = "layout" => RefersTo("block_record", r.values.block_record.v)
  /\ r.kind = "block_record" => RefersTo("layout", r.values.layout.v)
  /\ r.kind = "dimstyle" => RefersTo("block_record", r.values["$DIMLDRBLK"].v)
                            /\ RefersTo("linetype", r.values["$DIMLTYPE"].v)

LEMMA RecordRefers ==
  ASSUME AllKeyed, NEW kind \in RecordKinds, NEW n \in DOMAIN M1!Records(kind)
  PROVE  Refers(M1!Records(kind)[n])
<1> DEFINE r == M1!Records(kind)[n]
<1>1. r.kind = kind
  BY DEF AllKeyed, Keyed
<1>2. CASE kind = "xdata"
  <2>1. XDataKeyed(r)
    BY <1>2, RecordsAre, XDataAre DEF AllKeyed
  <2> HIDE DEF r
  <2>2. OwnedIn(r.values.owner.v)
    BY <2>1, XDataRefers
  <2> QED
    BY <1>1, <1>2, <2>2 DEF Refers, r
<1>3. CASE kind = "layout"
  <2>1. \E l : r = M1!LayoutOf(l)
    BY <1>3, RecordsAre
  <2> HIDE DEF r
  <2>2. RefersTo("block_record", r.values.block_record.v)
    BY <2>1, LayoutRefers
  <2> QED
    BY <1>1, <1>3, <2>2 DEF Refers, r
<1>4. CASE kind = "block_record"
  <2>1. \E b : r = M1!BlockOf(b)
    BY <1>4, RecordsAre
  <2> HIDE DEF r
  <2>2. RefersTo("layout", r.values.layout.v)
    BY <2>1, BlockRefers
  <2> QED
    BY <1>1, <1>4, <2>2 DEF Refers, r
<1>5. CASE kind = "dimstyle"
  <2>1. \E d : r = M1!DimstyleOf(d)
    BY <1>5, RecordsAre
  <2> HIDE DEF r
  <2>2. /\ RefersTo("block_record", r.values["$DIMLDRBLK"].v)
        /\ RefersTo("linetype", r.values["$DIMLTYPE"].v)
    BY <2>1, DimstyleRefers
  <2> QED
    BY <1>1, <1>5, <2>2 DEF Refers, r
<1> HIDE DEF r
<1>6. CASE kind \notin {"xdata", "layout", "block_record", "dimstyle"}
  <2>1. r.kind # "xdata" /\ r.kind # "layout" /\ r.kind # "block_record" /\ r.kind # "dimstyle"
    BY Zenon, <1>1, <1>6
  <2> QED
    BY Zenon, <2>1 DEF Refers, r
<1>7. Refers(r)
  BY <1>2, <1>3, <1>4, <1>5, <1>6 DEF r
<1> QED
  BY <1>7 DEF r

LEMMA StreamRefers ==
  ASSUME IsDocument(doc), IsTree, TreeNamed(tree)
  PROVE  \A k \in DOMAIN M1!Sorted : Refers(M1!Sorted[k])
<1>1. AllKeyed
  BY RecordsKeyed DEF AllKeyed
<1>2. \A k \in DOMAIN M1!Sorted : \E kind \in RecordKinds : \E n \in DOMAIN M1!Records(kind) :
        M1!Sorted[k] = M1!Records(kind)[n]
  BY <1>1, SortedIs DEF AllKeyed
<1> QED
  BY <1>1, <1>2, RecordRefers

LEMMA ClosedShown == ASSUME IsDocument(doc), IsTree, TreeNamed(tree) PROVE StreamIsClosed
<1>1. \A k \in DOMAIN M1!Sorted : Refers(M1!Sorted[k])
  BY StreamRefers
<1> DEFINE Closed(stream) ==
      LET Is(kind, name) == \E n \in DOMAIN stream : stream[n].kind = kind /\ stream[n].name = name
          Named_(kind, value) == value.v = <<>> \/ Is(kind, value.v)
          Owned(text) ==
            CASE text[1] \in {"dictionary", "xrecord", "layout"} -> Is(text[1], SubSeq(text, 3, Len(text)))
              [] text[1] = "table" -> text[3] \in {"appid", "view", "vport", "ucs"} \/ Len(text) = 4
                                      \/ Is(text[3], SubSeq(text, 5, Len(text)))
              [] OTHER -> TRUE
      IN  \A n \in DOMAIN stream :
            LET r == stream[n]
            IN  /\ r.kind = "xdata" => Owned(r.values.owner.v)
                /\ r.kind = "layout" => Named_("block_record", r.values.block_record)
                /\ r.kind = "block_record" => Named_("layout", r.values.layout)
                /\ r.kind = "dimstyle" => Named_("block_record", r.values["$DIMLDRBLK"])
                                          /\ Named_("linetype", r.values["$DIMLTYPE"])
<1>2. Closed(M1!Sorted)
  BY Zenon, <1>1 DEF Refers, OwnedIn, RefersTo, InStream
<1>3. M1!StreamIsClosed <=> (phase = "written" => \A stream \in {M1!Sorted} : Closed(stream))
  BY Zenon DEF M1!StreamIsClosed
<1> HIDE DEF Closed
<1>4. M1!StreamIsClosed
  BY <1>2, <1>3
<1> QED
  BY <1>4 DEF StreamIsClosed

\* Every record that names another, a layout its block, a block its layout, a
\* dimension style its arrow block and its line type, and extended data its
\* owner by path, names one that is in the stream, whatever the document.
THEOREM StreamIsClosedInARun == MainSpec => []StreamIsClosed
<1> DEFINE Inv == WalkInv /\ NamesInv
<1>1. MainInit => Inv
  BY DictionariesStart, InitWalkInv, NamesStart
<1>2. Inv /\ [MainNext]_mainVars => Inv'
  BY DictionariesStep, NextWalkInv, NamesStep
<1>3. Inv => StreamIsClosed
  <2> SUFFICES ASSUME Inv PROVE StreamIsClosed
    OBVIOUS
  <2>1. IsDocument(doc)
    BY DocsAssumption DEF NamesInv
  <2>2. IsTree /\ TreeNamed(tree)
    BY DEF WalkInv, NamesInv
  <2> QED
    BY <2>1, <2>2, ClosedShown
<1> QED
  BY <1>1, <1>2, <1>3, PTL DEF MainSpec, mainVars

\* What the stream is made of does not depend on what has happened to the file.
LEMMA SortedStays == ASSUME doc' = doc, tree' = tree PROVE M1!Sorted' = M1!Sorted
<1>1. \A e : (M1!SegmentOf(e))' = M1!SegmentOf(e)
  BY DEF M1!SegmentOf
<1>2. \A l : (M1!LinetypeOf(l))' = M1!LinetypeOf(l)
  BY <1>1 DEF M1!LinetypeOf
<1>3. \A d : (M1!DimstyleOf(d))' = M1!DimstyleOf(d)
  BY DEF M1!DimstyleOf
<1>4. \A b : (M1!BlockOf(b))' = M1!BlockOf(b)
  BY DEF M1!BlockOf
<1>5. \A l : (M1!LayoutOf(l))' = M1!LayoutOf(l)
  BY DEF M1!LayoutOf
<1>6. \A d : (M1!DictionaryOf(d))' = M1!DictionaryOf(d)
  BY DEF M1!DictionaryOf
<1>7. \A x : (M1!XRecordOf(x))' = M1!XRecordOf(x)
  BY DEF M1!XRecordOf
<1>8. M1!Layouts' = M1!Layouts
  BY DEF M1!Layouts
<1>9. \A node : (M1!OwnerOf(node))' = M1!OwnerOf(node)
  BY DEF M1!OwnerOf
<1>10. M1!XData' = M1!XData
  BY <1>9 DEF M1!XData
<1>11. \A name : (M1!HeaderValue(name))' = M1!HeaderValue(name)
  BY DEF M1!HeaderValue
<1>12. \A kind : (M1!Records(kind))' = M1!Records(kind)
  BY <1>2, <1>3, <1>4, <1>5, <1>6, <1>7, <1>8, <1>10, <1>11 DEF M1!Records, M1!All
<1> QED
  BY <1>12 DEF M1!Sorted

-----------------------------------------------------------------------------
(* Records of one key. *)

\* Where each element of a joined list stood: in which list, and where in it.
Scattered(flat, seqs, last, out, ins) ==
  /\ \A k \in DOMAIN flat :
       out[k] \in 1..last /\ ins[k] \in DOMAIN seqs[out[k]] /\ flat[k] = seqs[out[k]][ins[k]]
  /\ \A j, k \in DOMAIN flat : out[j] = out[k] /\ ins[j] = ins[k] => j = k

LEMMA OneMoreList ==
  ASSUME NEW seqs, NEW flat, IsSequence(flat), NEW i \in Nat, i > 0, NEW list, list = seqs[i], IsSequence(list),
         NEW out, NEW ins, Scattered(flat, seqs, i - 1, out, ins)
  PROVE  \E out2, ins2 : Scattered(flat \o list, seqs, i, out2, ins2)
<1> DEFINE whole == flat \o list
           out2 == [k \in DOMAIN whole |-> IF k \in DOMAIN flat THEN out[k] ELSE i]
           ins2 == [k \in DOMAIN whole |-> IF k \in DOMAIN flat THEN ins[k] ELSE k - Len(flat)]
<1>1. \A k \in DOMAIN whole :
        \/ k \in DOMAIN flat /\ whole[k] = flat[k]
        \/ k \notin DOMAIN flat /\ k - Len(flat) \in DOMAIN list /\ whole[k] = list[k - Len(flat)]
  <2>1. /\ DOMAIN flat = 1..Len(flat) /\ Len(flat) \in Nat
        /\ DOMAIN list = 1..Len(list) /\ Len(list) \in Nat
    BY Sequences_
  <2>2. \A k \in DOMAIN whole :
          \/ k \in DOMAIN flat /\ whole[k] = flat[k]
          \/ k - Len(flat) \in DOMAIN list /\ whole[k] = list[k - Len(flat)]
    BY Joined
  <2> HIDE DEF whole
  <2>3. DOMAIN whole = 1..(Len(flat) + Len(list))
    BY Joined DEF whole
  <2>4. \A k \in DOMAIN whole : k - Len(flat) \in DOMAIN list => k \notin DOMAIN flat
    BY <2>1, <2>3
  <2> QED
    BY <2>2, <2>4
<1>2. \A k \in DOMAIN whole : k \in Int
  BY Joined, Sequences_
<1>3. Len(flat) \in Nat
  BY Sequences_
<1> HIDE DEF whole
<1>4. \A k \in DOMAIN whole : k \in DOMAIN flat => out2[k] = out[k] /\ ins2[k] = ins[k]
  OBVIOUS
<1>5. \A k \in DOMAIN whole : k \notin DOMAIN flat => out2[k] = i /\ ins2[k] = k - Len(flat)
  OBVIOUS
<1> HIDE DEF out2, ins2
<1>6. \A k \in DOMAIN flat :
        out[k] \in 1..(i - 1) /\ ins[k] \in DOMAIN seqs[out[k]] /\ flat[k] = seqs[out[k]][ins[k]]
  BY DEF Scattered
<1>7. \A n \in 1..(i - 1) : n \in 1..i /\ n # i
  OBVIOUS
<1>8. i \in 1..i
  OBVIOUS
<1>9. ASSUME NEW k \in DOMAIN whole
      PROVE  out2[k] \in 1..i /\ ins2[k] \in DOMAIN seqs[out2[k]] /\ whole[k] = seqs[out2[k]][ins2[k]]
  <2>1. CASE k \in DOMAIN flat
    BY <1>1, <1>4, <1>6, <1>7, <2>1
  <2>2. CASE k \notin DOMAIN flat
    BY <1>1, <1>5, <1>8, <2>2
  <2> QED
    BY <2>1, <2>2
<1>10. ASSUME NEW j \in DOMAIN whole, NEW k \in DOMAIN whole, out2[j] = out2[k], ins2[j] = ins2[k]
       PROVE  j = k
  <2>1. CASE j \in DOMAIN flat /\ k \in DOMAIN flat
    BY <1>4, <1>10, <2>1 DEF Scattered
  <2>2. CASE j \notin DOMAIN flat /\ k \notin DOMAIN flat
    BY <1>2, <1>3, <1>5, <1>10, <2>2
  <2>3. CASE j \in DOMAIN flat /\ k \notin DOMAIN flat
    BY <1>4, <1>5, <1>6, <1>7, <1>10, <2>3
  <2>4. CASE j \notin DOMAIN flat /\ k \in DOMAIN flat
    BY <1>4, <1>5, <1>6, <1>7, <1>10, <2>4
  <2> QED
    BY <2>1, <2>2, <2>3, <2>4
<1>11. Scattered(whole, seqs, i, out2, ins2)
  BY <1>9, <1>10 DEF Scattered
<1> QED
  BY <1>11 DEF whole

LEMMA FlatScatters ==
  ASSUME NEW seqs, IsSequence(seqs), \A n \in DOMAIN seqs : IsSequence(seqs[n])
  PROVE  \E out, ins : Scattered(FlattenSeq(seqs), seqs, Len(seqs), out, ins)
<1> DEFINE W == UNION {Values(seqs[i]) : i \in DOMAIN seqs}
           last == Len(seqs)
<1>1. \A i \in DOMAIN seqs : seqs[i] \in Seq(Values(seqs[i])) /\ Values(seqs[i]) \subseteq W
  BY DEF IsSequence, Values
<1> HIDE DEF W
<1>2. \A i \in DOMAIN seqs : seqs[i] \in Seq(W)
  BY <1>1, SeqMonotonic
<1>3. PICK h : Grows(h, seqs) /\ \A i \in 0..last : h[i] \in Seq(W)
  BY <1>2, FlatGrows
<1>4. last \in Nat /\ DOMAIN seqs = 1..last
  BY Sequences_
<1>5. h[0] = <<>> /\ h[last] = FlattenSeq(seqs) /\ \A i \in 1..last : h[i] = h[i - 1] \o seqs[i]
  BY <1>3, <1>4 DEF Grows
<1> HIDE DEF last
<1> DEFINE UpTo(i) == \E out, ins : Scattered(h[i], seqs, i, out, ins)
           f == [i \in 0..last |-> i]
           S == {i \in 0..last : UpTo(i)}
<1>6. f[0] \in S
  <2>1. 0 \in 0..last
    BY <1>4
  <2>2. DOMAIN h[0] = {}
    BY <1>5, EmptySequence
  <2>3. Scattered(h[0], seqs, 0, <<>>, <<>>)
    BY <2>2 DEF Scattered
  <2> QED
    BY <2>1, <2>3
<1>7. ASSUME NEW i \in 1..last, f[i - 1] \in S
      PROVE  f[i] \in S
  <2>1. i \in 0..last /\ i - 1 \in 0..last /\ i \in Nat /\ i > 0
    BY <1>4
  <2>2. f[i] = i /\ f[i - 1] = i - 1
    BY <2>1
  <2>3. UpTo(i - 1)
    BY <1>7, <2>2
  <2>4. h[i - 1] \in Seq(W) /\ IsSequence(seqs[i])
    BY <1>3, <1>4, <2>1 DEF last
  <2>5. IsSequence(h[i - 1])
    BY <2>4, SequenceOf
  <2>6. PICK out, ins : Scattered(h[i - 1], seqs, i - 1, out, ins)
    BY <2>3
  <2>7. \E out2, ins2 : Scattered(h[i - 1] \o seqs[i], seqs, i, out2, ins2)
    BY <2>1, <2>4, <2>5, <2>6, OneMoreList
  <2>8. UpTo(i)
    BY <1>5, <2>7
  <2> QED
    BY <2>1, <2>2, <2>8
<1> HIDE DEF S
<1>8. \A i \in 1..last : f[i - 1] \in S => f[i] \in S
  BY <1>7
<1> HIDE DEF f
<1>9. \A i \in 0..last : f[i] \in S
  BY Zenon, <1>4, <1>6, <1>8, Throughout
<1>10. last \in S
  BY <1>4, <1>9 DEF f
<1> QED
  BY <1>5, <1>10 DEF S, last

\* No two records of a list have one name.
Unlike(f) == \A j, k \in DOMAIN f : f[j].name = f[k].name => j = k

LEMMA NameOrderUnlike ==
  ASSUME NEW kind, NEW s, Keyed(s, kind), Unlike(s)
  PROVE  Keyed(M1!InNameOrder(s), kind) /\ Unlike(M1!InNameOrder(s))
<1> DEFINE texts == [n \in DOMAIN s |-> s[n].name]
           f == InTextOrder(s, texts)
<1>1. M1!InNameOrder(s) = f
  BY Zenon, SameOrder DEF M1!InNameOrder
<1>2. IsSequence(s) /\ \A n \in DOMAIN s : s[n].kind = kind /\ IsText(s[n].name)
  BY DEF Keyed
<1>3. texts = [n \in DOMAIN s |-> texts[n]] /\ \A n \in DOMAIN s : texts[n] = s[n].name
  OBVIOUS
<1> HIDE DEF texts
<1>4. IsSequence(texts) /\ DOMAIN texts = DOMAIN s
  BY <1>2, <1>3, SameLength
<1>5. AllTexts(texts)
  BY <1>2, <1>3, <1>4 DEF AllTexts
<1>6. /\ IsSequence(f) /\ DOMAIN f = DOMAIN s
      /\ \A k \in DOMAIN s : CameFrom(texts, k) \in DOMAIN s /\ f[k] = s[CameFrom(texts, k)]
      /\ \A j, k \in DOMAIN s : CameFrom(texts, j) = CameFrom(texts, k) => j = k
  BY <1>2, <1>4, <1>5, InTextOrderIs
<1> HIDE DEF f
<1>7. Keyed(f, kind)
  BY <1>2, <1>6 DEF Keyed
<1>8. Unlike(f)
  BY <1>6 DEF Unlike
<1> QED
  BY <1>1, <1>7, <1>8

LEMMA KindsApart == \A m, n \in DOMAIN M1!KIND_ORDER : M1!KIND_ORDER[m] = M1!KIND_ORDER[n] => m = n
<1> DEFINE order == M1!KIND_ORDER
<1>1. order = <<"header", "layer", "linetype", "textstyle", "dimstyle", "block_record", "layout",
                "dictionary", "xdata", "xrecord">>
  BY DEF M1!KIND_ORDER
<1> HIDE DEF order
<1>2. DOMAIN order = 1..10
  BY <1>1
<1>3. /\ order[1] = "header" /\ order[2] = "layer" /\ order[3] = "linetype" /\ order[4] = "textstyle"
      /\ order[5] = "dimstyle" /\ order[6] = "block_record" /\ order[7] = "layout"
      /\ order[8] = "dictionary" /\ order[9] = "xdata" /\ order[10] = "xrecord"
  BY <1>1
<1>4. \A n \in 1..10 : n \in {1, 2, 3, 4, 5, 6, 7, 8, 9, 10}
  OBVIOUS
<1>5. \A m, n \in DOMAIN order : order[m] = order[n] => m = n
  BY <1>2, <1>3, <1>4
<1> QED
  BY <1>5 DEF order

\* No two records of the stream have one key, if none of a kind have one name.
LEMMA SortedApart ==
  ASSUME AllKeyed, \A kind \in RecordKinds : Unlike(M1!Records(kind))
  PROVE  /\ IsSequence(M1!Sorted)
         /\ \A j, k \in DOMAIN M1!Sorted : M1!SameKey(M1!Sorted[j], M1!Sorted[k]) => j = k
<1> DEFINE order == M1!KIND_ORDER
           parts == [n \in DOMAIN order |-> M1!InNameOrder(M1!Records(order[n]))]
           stream == FlattenSeq(parts)
<1>1. M1!Sorted = stream
  BY Zenon, SameOperators DEF M1!Sorted
<1>2. /\ IsSequence(order) /\ \A n \in DOMAIN order : order[n] \in RecordKinds
      /\ \A m, n \in DOMAIN order : order[m] = order[n] => m = n
  BY KindOrder, KindsApart
<1>3. ASSUME NEW kind \in RecordKinds
      PROVE  Keyed(M1!InNameOrder(M1!Records(kind)), kind) /\ Unlike(M1!InNameOrder(M1!Records(kind)))
  <2>1. Keyed(M1!Records(kind), kind) /\ Unlike(M1!Records(kind))
    BY DEF AllKeyed
  <2> QED
    BY <2>1, NameOrderUnlike
<1>4. parts = [n \in DOMAIN order |-> parts[n]] /\ \A n \in DOMAIN order : parts[n] = M1!InNameOrder(M1!Records(order[n]))
  OBVIOUS
<1> HIDE DEF parts, order
<1>5. IsSequence(parts) /\ DOMAIN parts = DOMAIN order
  BY <1>2, <1>4, SameLength
<1>6. \A n \in DOMAIN parts : Keyed(parts[n], order[n]) /\ Unlike(parts[n])
  BY <1>2, <1>3, <1>4, <1>5
<1>7. \A n \in DOMAIN parts : IsSequence(parts[n])
  BY <1>6 DEF Keyed
<1>8. IsSequence(stream)
  BY <1>5, <1>7, FlatFrom
<1>9. PICK out, ins : Scattered(stream, parts, Len(parts), out, ins)
  BY <1>5, <1>7, FlatScatters
<1>10. DOMAIN parts = 1..Len(parts)
  BY <1>5, Sequences_
<1> HIDE DEF stream
<1>11. \A k \in DOMAIN stream :
         out[k] \in DOMAIN parts /\ ins[k] \in DOMAIN parts[out[k]] /\ stream[k] = parts[out[k]][ins[k]]
  BY <1>9, <1>10 DEF Scattered
<1>12. ASSUME NEW j \in DOMAIN stream, NEW k \in DOMAIN stream, M1!SameKey(stream[j], stream[k])
       PROVE  j = k
  <2>1. stream[j].kind = stream[k].kind /\ stream[j].name = stream[k].name
    BY <1>12 DEF M1!SameKey
  <2>2. stream[j].kind = order[out[j]] /\ stream[k].kind = order[out[k]]
    BY <1>6, <1>11 DEF Keyed
  <2>3. out[j] = out[k]
    BY <1>2, <1>5, <1>11, <2>1, <2>2
  <2>4. ins[j] = ins[k]
    BY <1>6, <1>11, <2>1, <2>3 DEF Unlike
  <2> QED
    BY <1>9, <2>3, <2>4 DEF Scattered
<1> QED
  BY <1>1, <1>8, <1>12

LEMMA SamePlain ==
  /\ \A text : M1!PlainName(text) <=> PlainName(text)
  /\ \A names : M1!Apart(names) <=> Apart(names)
  /\ \A node : M1!PlainOwner(node) <=> PlainOwner(node)
  /\ M1!PlainKeys <=> PlainKeys
  /\ M1!PlainStarts <=> PlainStarts
  /\ \A node : M1!OwnerOf(node) = OwnedBy(node)
<1>1. \A text : M1!PlainName(text) <=> PlainName(text)
  BY DEF M1!PlainName, PlainName
<1>2. \A names : M1!Apart(names) <=> Apart(names)
  BY Zenon, <1>1 DEF M1!Apart, Apart
<1>3. \A node : M1!PlainOwner(node) <=> PlainOwner(node)
  BY Zenon, <1>1 DEF M1!PlainOwner, PlainOwner
<1>4. \A h : (M1!IsDictionary(h) <=> IsDictionary(h)) /\ M1!Entries(h) = Entries(h)
  BY DEF M1!IsDictionary, IsDictionary, M1!Entries, Entries
<1>5. M1!PlainKeys <=> PlainKeys
  BY Zenon, <1>2, <1>4 DEF M1!PlainKeys, PlainKeys
<1>6. M1!PlainStarts <=> PlainStarts
  BY Zenon, <1>3 DEF M1!PlainStarts, PlainStarts
<1>7. \A node : M1!OwnerOf(node) = OwnedBy(node)
  BY Zenon, SameOperators DEF M1!OwnerOf, OwnedBy
<1> QED
  BY <1>1, <1>2, <1>3, <1>5, <1>6, <1>7

NamesIn(rows) == [n \in DOMAIN rows |-> rows[n].name]

TablesApart ==
  /\ Apart(NamesIn(doc.layers)) /\ Apart(NamesIn(doc.linetypes)) /\ Apart(NamesIn(doc.textstyles))
  /\ Apart(NamesIn(doc.dimstyles)) /\ Apart(NamesIn(doc.blocks)) /\ Apart(NamesIn(M1!Layouts))

OwnersTidy ==
  \A m, n \in DOMAIN doc.xdata :
    /\ PlainOwner(doc.xdata[n].node)
    /\ doc.xdata[m].node = doc.xdata[n].node /\ doc.xdata[m].appid = doc.xdata[n].appid => m = n

EntitiesTidy ==
  /\ \A m, n \in DOMAIN doc.entities :
       PlainName(doc.entities[n].handle) /\ (doc.entities[m].handle = doc.entities[n].handle => m = n)
  /\ \A n \in DOMAIN doc.entities : \A i, j \in DOMAIN doc.entities[n].xdata :
       doc.entities[n].xdata[i].appid = doc.entities[n].xdata[j].appid => i = j

LEMMA PlainDocIs == ASSUME M1!PlainDoc PROVE Tidy /\ TablesApart /\ OwnersTidy /\ EntitiesTidy
<1>1. M1!PlainKeys /\ M1!PlainStarts
  BY Zenon DEF M1!PlainDoc
<1>2. Tidy
  BY Zenon, <1>1, SamePlain DEF Tidy
<1>3. \A rows \in {doc.layers, doc.linetypes, doc.textstyles, doc.dimstyles, doc.blocks, M1!Layouts} :
        M1!Apart(NamesIn(rows))
  BY Zenon DEF M1!PlainDoc, NamesIn
<1>4. TablesApart
  BY Zenon, <1>3, SamePlain DEF TablesApart
<1>5. OwnersTidy
  BY Zenon, SamePlain DEF M1!PlainDoc, OwnersTidy
<1>6. EntitiesTidy
  BY Zenon, SamePlain DEF M1!PlainDoc, EntitiesTidy
<1> QED
  BY <1>2, <1>4, <1>5, <1>6

LEMMA ApartIs ==
  ASSUME NEW rows, Apart(NamesIn(rows))
  PROVE  \A m, n \in DOMAIN rows : rows[m].name = rows[n].name => m = n
BY DEF Apart, NamesIn

\* A list made of another, name by name.
LEMMA UnlikeList ==
  ASSUME NEW s, NEW f, DOMAIN f = DOMAIN s, \A n \in DOMAIN s : f[n].name = s[n].name,
         \A m, n \in DOMAIN s : s[m].name = s[n].name => m = n
  PROVE  Unlike(f)
BY DEF Unlike

LEMMA NamedApart ==
  ASSUME NEW rows, IsSequence(rows), Apart(NamesIn(rows))
  PROVE  Apart(NamesIn(rows)) /\ \A j, k \in DOMAIN M1!Named(rows) :
           M1!Named(rows)[j].name = M1!Named(rows)[k].name => j = k
<1> DEFINE parts == [n \in DOMAIN rows |-> IF rows[n].name = <<>> THEN <<>> ELSE <<rows[n]>>]
           flat == FlattenSeq(parts)
<1>1. M1!Named(rows) = flat
  BY Zenon, SameOperators DEF M1!Named
<1>2. parts = [n \in DOMAIN rows |-> parts[n]]
  OBVIOUS
<1>3. /\ \A n \in DOMAIN rows : rows[n].name = <<>> => parts[n] = <<>>
      /\ \A n \in DOMAIN rows : rows[n].name # <<>> => parts[n] = <<rows[n]>>
  OBVIOUS
<1> HIDE DEF parts
<1>4. IsSequence(parts) /\ DOMAIN parts = DOMAIN rows
  BY <1>2, SameLength
<1>5. \A x : IsSequence(<<x>>) /\ DOMAIN <<x>> = {1} /\ <<x>>[1] = x
  <2> TAKE x
  <2>1. <<x>> \in Seq({x})
    OBVIOUS
  <2>2. IsSequence(<<x>>)
    BY Zenon, <2>1, SequenceOf
  <2> QED
    BY <2>2
<1>6. \A n \in DOMAIN parts : IsSequence(parts[n]) /\ \A i \in DOMAIN parts[n] : i = 1 /\ parts[n][i] = rows[n]
  <2> SUFFICES ASSUME NEW n \in DOMAIN rows
               PROVE  IsSequence(parts[n]) /\ \A i \in DOMAIN parts[n] : i = 1 /\ parts[n][i] = rows[n]
    BY <1>4
  <2>1. CASE rows[n].name = <<>>
    BY <1>3, <2>1, EmptySequence
  <2>2. CASE rows[n].name # <<>>
    <3>1. parts[n] = <<rows[n]>>
      BY <1>3, <2>2
    <3> QED
      BY <1>5, <3>1
  <2> QED
    BY <2>1, <2>2
<1>7. PICK out, ins : Scattered(flat, parts, Len(parts), out, ins)
  BY <1>4, <1>6, FlatScatters
<1>8. DOMAIN parts = 1..Len(parts)
  BY <1>4, Sequences_
<1> HIDE DEF flat
<1>9. \A k \in DOMAIN flat : out[k] \in DOMAIN rows /\ ins[k] = 1 /\ flat[k] = rows[out[k]]
  BY <1>4, <1>6, <1>7, <1>8 DEF Scattered
<1>10. \A m, n \in DOMAIN rows : rows[m].name = rows[n].name => m = n
  BY ApartIs
<1>11. ASSUME NEW j \in DOMAIN flat, NEW k \in DOMAIN flat, flat[j].name = flat[k].name PROVE j = k
  <2>1. out[j] = out[k] /\ ins[j] = ins[k]
    BY <1>9, <1>10, <1>11
  <2> QED
    BY <1>7, <2>1 DEF Scattered
<1> QED
  BY <1>1, <1>11

LEMMA TableUnlike ==
  ASSUME IsDocument(doc), TablesApart, NEW kind \in DOMAIN TablesOf(doc)
  PROVE  Unlike(M1!Records(kind))
<1>1. IsSequence(doc.textstyles) /\ IsSequence(doc.dimstyles)
  BY DEF IsDocument, Lists
<1> DEFINE f == M1!Records(kind)
<1>2. CASE kind = "layer"
  <2>1. f = [n \in DOMAIN doc.layers |-> M1!LayerOf(doc.layers[n])]
    BY <1>2, RecordsAre
  <2>2. \A m, n \in DOMAIN doc.layers : doc.layers[m].name = doc.layers[n].name => m = n
    BY ApartIs DEF TablesApart
  <2> HIDE DEF f
  <2>3. DOMAIN f = DOMAIN doc.layers /\ \A n \in DOMAIN doc.layers : f[n].name = doc.layers[n].name
    BY <2>1, NamesAre
  <2>4. Unlike(f)
    BY <2>2, <2>3, UnlikeList
  <2> QED
    BY <2>4 DEF f
<1>3. CASE kind = "linetype"
  <2>1. f = [n \in DOMAIN doc.linetypes |-> M1!LinetypeOf(doc.linetypes[n])]
    BY <1>3, RecordsAre
  <2>2. \A m, n \in DOMAIN doc.linetypes : doc.linetypes[m].name = doc.linetypes[n].name => m = n
    BY ApartIs DEF TablesApart
  <2> HIDE DEF f
  <2>3. DOMAIN f = DOMAIN doc.linetypes /\ \A n \in DOMAIN doc.linetypes : f[n].name = doc.linetypes[n].name
    BY <2>1, NamesAre
  <2>4. Unlike(f)
    BY <2>2, <2>3, UnlikeList
  <2> QED
    BY <2>4 DEF f
<1>4. CASE kind = "block_record"
  <2>1. f = [n \in DOMAIN doc.blocks |-> M1!BlockOf(doc.blocks[n])]
    BY <1>4, RecordsAre
  <2>2. \A m, n \in DOMAIN doc.blocks : doc.blocks[m].name = doc.blocks[n].name => m = n
    BY ApartIs DEF TablesApart
  <2> HIDE DEF f
  <2>3. DOMAIN f = DOMAIN doc.blocks /\ \A n \in DOMAIN doc.blocks : f[n].name = doc.blocks[n].name
    BY <2>1, NamesAre
  <2>4. Unlike(f)
    BY <2>2, <2>3, UnlikeList
  <2> QED
    BY <2>4 DEF f
<1>5. CASE kind = "textstyle"
  <2> DEFINE s == M1!Named(doc.textstyles)
  <2>1. f = [n \in DOMAIN s |-> M1!TextstyleOf(s[n])]
    BY <1>5, RecordsAre
  <2>2. \A m, n \in DOMAIN s : s[m].name = s[n].name => m = n
    BY <1>1, NamedApart DEF TablesApart
  <2> HIDE DEF f, s
  <2>3. DOMAIN f = DOMAIN s /\ \A n \in DOMAIN s : f[n].name = s[n].name
    BY <2>1, NamesAre
  <2>4. Unlike(f)
    BY <2>2, <2>3, UnlikeList
  <2> QED
    BY <2>4 DEF f
<1>6. CASE kind = "dimstyle"
  <2> DEFINE s == M1!Named(doc.dimstyles)
  <2>1. f = [n \in DOMAIN s |-> M1!DimstyleOf(s[n])]
    BY <1>6, RecordsAre
  <2>2. \A m, n \in DOMAIN s : s[m].name = s[n].name => m = n
    BY <1>1, NamedApart DEF TablesApart
  <2> HIDE DEF f, s
  <2>3. DOMAIN f = DOMAIN s /\ \A n \in DOMAIN s : f[n].name = s[n].name
    BY <2>1, NamesAre
  <2>4. Unlike(f)
    BY <2>2, <2>3, UnlikeList
  <2> QED
    BY <2>4 DEF f
<1>7. kind \in {"layer", "linetype", "textstyle", "dimstyle", "block_record"}
  BY DEF TablesOf
<1> QED
  BY <1>2, <1>3, <1>4, <1>5, <1>6, <1>7

LEMMA ObjectsUnlike ==
  ASSUME TablesApart, TreeApart(tree)
  PROVE  Unlike(M1!Records("layout")) /\ Unlike(M1!Records("dictionary")) /\ Unlike(M1!Records("xrecord"))
<1>1. Unlike(M1!Records("layout"))
  <2> DEFINE f == M1!Records("layout")
             s == M1!Layouts
  <2>1. f = [n \in DOMAIN s |-> M1!LayoutOf(s[n])]
    BY RecordsAre
  <2>2. \A m, n \in DOMAIN s : s[m].name = s[n].name => m = n
    BY ApartIs DEF TablesApart
  <2> HIDE DEF f, s
  <2>3. DOMAIN f = DOMAIN s /\ \A n \in DOMAIN s : f[n].name = s[n].name
    BY <2>1, NamesAre
  <2>4. Unlike(f)
    BY <2>2, <2>3, UnlikeList
  <2> QED
    BY <2>4 DEF f
<1>2. Unlike(M1!Records("dictionary"))
  <2> DEFINE f == M1!Records("dictionary")
  <2>1. f = [n \in DOMAIN tree.dictionaries |-> M1!DictionaryOf(tree.dictionaries[n])]
    BY RecordsAre
  <2> HIDE DEF f
  <2>2. DOMAIN f = DOMAIN tree.dictionaries /\ \A n \in DOMAIN f : f[n].name = tree.dictionaries[n].path
    BY <2>1, NamesAre
  <2>3. Unlike(f)
    BY <2>2 DEF Unlike, TreeApart, OncePathed
  <2> QED
    BY <2>3 DEF f
<1>3. Unlike(M1!Records("xrecord"))
  <2> DEFINE f == M1!Records("xrecord")
  <2>1. f = [n \in DOMAIN tree.xrecords |-> M1!XRecordOf(tree.xrecords[n])]
    BY RecordsAre
  <2> HIDE DEF f
  <2>2. DOMAIN f = DOMAIN tree.xrecords /\ \A n \in DOMAIN f : f[n].name = tree.xrecords[n].path
    BY <2>1, NamesAre
  <2>3. Unlike(f)
    BY <2>2 DEF Unlike, TreeApart, OncePathed
  <2> QED
    BY <2>3 DEF f
<1> QED
  BY <1>1, <1>2, <1>3

LEMMA HeaderUnlike == Unlike(M1!Records("header"))
<1> DEFINE s == M1!HeaderNames
           f == M1!Records("header")
<1>1. s = <<"$ANGBASE", "$AUNITS", "$BLIPMODE", "$CAMERADISPLAY", "$CECOLOR", "$CLAYER", "$EXTMAX", "$LIMMAX">>
  BY DEF M1!HeaderNames
<1>2. f = [n \in DOMAIN s |-> M1!Record("header", <<s[n]>>, [value |-> M1!HeaderValue(s[n])])]
  BY Zenon DEF M1!Records
<1> HIDE DEF s, f
<1>3. DOMAIN s = 1..8
  BY <1>1
<1>4. /\ s[1] = "$ANGBASE" /\ s[2] = "$AUNITS" /\ s[3] = "$BLIPMODE" /\ s[4] = "$CAMERADISPLAY"
      /\ s[5] = "$CECOLOR" /\ s[6] = "$CLAYER" /\ s[7] = "$EXTMAX" /\ s[8] = "$LIMMAX"
  BY <1>1
<1>5. \A n \in 1..8 : n \in {1, 2, 3, 4, 5, 6, 7, 8}
  OBVIOUS
<1>6. \A m, n \in DOMAIN s : s[m] = s[n] => m = n
  BY <1>3, <1>4, <1>5
<1>7. DOMAIN f = DOMAIN s /\ \A n \in DOMAIN f : f[n].name = <<s[n]>>
  BY <1>2, RecordIs
<1>8. \A x, y : <<x>> = <<y>> => x = y
  OBVIOUS
<1>9. Unlike(f)
  BY <1>6, <1>7, <1>8 DEF Unlike
<1> QED
  BY <1>9 DEF f

LEMMA UnlikeJoined ==
  ASSUME NEW s, IsSequence(s), NEW t, IsSequence(t), Unlike(s), Unlike(t),
         \A j \in DOMAIN s, k \in DOMAIN t : s[j].name # t[k].name
  PROVE  Unlike(s \o t)
<1> DEFINE f == s \o t
<1>1. \A n \in DOMAIN f :
        \/ n \in DOMAIN s /\ f[n] = s[n]
        \/ n - Len(s) \in DOMAIN t /\ f[n] = t[n - Len(s)]
  BY Joined
<1>2. (\A n \in DOMAIN f : n \in Int) /\ Len(s) \in Nat
  BY Joined, Sequences_
<1> HIDE DEF f
<1>3. ASSUME NEW j \in DOMAIN f, NEW k \in DOMAIN f, f[j].name = f[k].name PROVE j = k
  <2>1. CASE j \in DOMAIN s /\ f[j] = s[j]
    BY <1>1, <1>3, <2>1 DEF Unlike
  <2>2. CASE k \in DOMAIN s /\ f[k] = s[k]
    BY <1>1, <1>3, <2>2 DEF Unlike
  <2>3. CASE /\ j - Len(s) \in DOMAIN t /\ f[j] = t[j - Len(s)]
             /\ k - Len(s) \in DOMAIN t /\ f[k] = t[k - Len(s)]
    <3>1. j - Len(s) = k - Len(s)
      BY <1>3, <2>3 DEF Unlike
    <3> QED
      BY <1>2, <3>1
  <2> QED
    BY <1>1, <2>1, <2>2, <2>3
<1>4. Unlike(f)
  BY <1>3 DEF Unlike
<1> QED
  BY <1>4 DEF f

\* What an extended datum is keyed by: the owner and the application.
Tagged(r, owner, appid) == IsText(owner) /\ NoBar(owner) /\ IsText(appid) /\ r.name = Barred(owner, appid)

LEMMA TaggedApart ==
  ASSUME NEW q, NEW r, q.name = r.name, NEW x, NEW y, NEW a, NEW b, Tagged(q, x, a), Tagged(r, y, b)
  PROVE  x = y /\ a = b
<1>1. Barred(x, a) = Barred(y, b)
  BY DEF Tagged
<1>2. IsText(x) /\ NoBar(x) /\ IsText(y) /\ NoBar(y) /\ IsText(a) /\ IsText(b)
  BY DEF Tagged
<1> QED
  BY <1>1, <1>2, BarApart

LEMMA XDataTagged ==
  ASSUME NEW owner, IsText(owner), NoBar(owner), NEW appid, IsText(appid), NEW values
  PROVE  Tagged(M1!XDataOf(owner, appid, values), owner, appid)
<1>1. M1!XDataOf(owner, appid, values).name = XDataName(owner, appid)
  BY XDataIs
<1>2. XDataName(owner, appid) = Barred(owner, appid)
  BY Zenon DEF XDataName, Barred, Bar
<1> QED
  BY <1>1, <1>2 DEF Tagged

LEMMA EntityTagged ==
  ASSUME IsDocument(doc), EntitiesTidy, NEW n \in DOMAIN doc.entities, NEW i \in DOMAIN doc.entities[n].xdata,
         NEW values
  PROVE  /\ Tagged(M1!XDataOf(Under("entity", doc.entities[n].handle), doc.entities[n].xdata[i].appid, values),
                   Under("entity", doc.entities[n].handle), doc.entities[n].xdata[i].appid)
         /\ Under("entity", doc.entities[n].handle)[1] = "entity" /\ IsText(doc.entities[n].handle)
<1> DEFINE text == doc.entities[n].handle
           appid == doc.entities[n].xdata[i].appid
<1>1. IsText(text) /\ IsText(appid)
  BY DEF IsDocument
<1>2. NoBar(text)
  BY PlainIs DEF EntitiesTidy
<1>3. "entity" \in Pieces /\ "entity" # Bar
  BY PathPieces, PlainPieces
<1> HIDE DEF text, appid
<1>4. IsText(Under("entity", text)) /\ NoBar(Under("entity", text)) /\ Under("entity", text)[1] = "entity"
  BY <1>1, <1>2, <1>3, UnderNoBar
<1>5. Tagged(M1!XDataOf(Under("entity", text), appid, values), Under("entity", text), appid)
  BY <1>1, <1>4, XDataTagged
<1> QED
  BY <1>1, <1>4, <1>5 DEF text, appid

OfEntity(r) == \E n \in DOMAIN doc.entities : \E i \in DOMAIN doc.entities[n].xdata :
  Tagged(r, Under("entity", doc.entities[n].handle), doc.entities[n].xdata[i].appid)

OfOwner(r) == \E n \in DOMAIN doc.xdata :
  OwnedBy(doc.xdata[n].node) # NoPath /\ Tagged(r, OwnedBy(doc.xdata[n].node), doc.xdata[n].appid)

EntityLists ==
  [n \in DOMAIN doc.entities |-> [i \in DOMAIN doc.entities[n].xdata |->
     M1!XDataOf(Under("entity", doc.entities[n].handle), doc.entities[n].xdata[i].appid, doc.entities[n].xdata[i].values)]]

OwnerLists ==
  [n \in DOMAIN doc.xdata |->
     IF OwnedBy(doc.xdata[n].node) = NoPath THEN <<>>
     ELSE <<M1!XDataOf(OwnedBy(doc.xdata[n].node), doc.xdata[n].appid, doc.xdata[n].values)>>]

LEMMA XDataIsBoth == M1!XData = FlattenSeq(EntityLists) \o FlattenSeq(OwnerLists)
<1>1. \A handle : <<"entity", "/">> \o handle = Under("entity", handle)
  BY Zenon DEF Under
<1>2. EntityLists = [n \in DOMAIN doc.entities |-> [i \in DOMAIN doc.entities[n].xdata |->
                       M1!XDataOf(<<"entity", "/">> \o doc.entities[n].handle, doc.entities[n].xdata[i].appid,
                                  doc.entities[n].xdata[i].values)]]
  BY Zenon, <1>1 DEF EntityLists
<1>3. OwnerLists = [n \in DOMAIN doc.xdata |->
                      IF M1!OwnerOf(doc.xdata[n].node) = M1!NoPath THEN <<>>
                      ELSE <<M1!XDataOf(M1!OwnerOf(doc.xdata[n].node), doc.xdata[n].appid, doc.xdata[n].values)>>]
  BY Zenon, SamePlain, SameOperators DEF OwnerLists
<1> QED
  BY Zenon, <1>2, <1>3, SameOperators DEF M1!XData

LEMMA EntityRecords ==
  ASSUME IsDocument(doc), EntitiesTidy
  PROVE  /\ IsSequence(FlattenSeq(EntityLists)) /\ Unlike(FlattenSeq(EntityLists))
         /\ \A k \in DOMAIN FlattenSeq(EntityLists) : OfEntity(FlattenSeq(EntityLists)[k])
<1> DEFINE seqs == EntityLists
           flat == FlattenSeq(seqs)
           owner(n) == Under("entity", doc.entities[n].handle)
           appid(n, i) == doc.entities[n].xdata[i].appid
<1>1. IsSequence(doc.entities) /\ \A n \in DOMAIN doc.entities : IsSequence(doc.entities[n].xdata)
  BY DEF IsDocument, Lists
<1>2. seqs = [n \in DOMAIN doc.entities |-> seqs[n]]
  BY DEF EntityLists
<1>3. ASSUME NEW n \in DOMAIN doc.entities
      PROVE  /\ DOMAIN seqs[n] = DOMAIN doc.entities[n].xdata /\ seqs[n] = [i \in DOMAIN doc.entities[n].xdata |-> seqs[n][i]]
             /\ \A i \in DOMAIN doc.entities[n].xdata : Tagged(seqs[n][i], owner(n), appid(n, i))
  <2>1. seqs[n] = [i \in DOMAIN doc.entities[n].xdata |->
                     M1!XDataOf(owner(n), appid(n, i), doc.entities[n].xdata[i].values)]
    BY DEF EntityLists
  <2> DEFINE list == seqs[n]
             At(i) == M1!XDataOf(owner(n), appid(n, i), doc.entities[n].xdata[i].values)
  <2>2. \A i \in DOMAIN doc.entities[n].xdata : Tagged(At(i), owner(n), appid(n, i))
    BY EntityTagged
  <2>3. list = [i \in DOMAIN doc.entities[n].xdata |-> At(i)]
    BY <2>1
  <2> HIDE DEF list, At, seqs, owner, appid
  <2>4. /\ DOMAIN list = DOMAIN doc.entities[n].xdata /\ list = [i \in DOMAIN doc.entities[n].xdata |-> list[i]]
        /\ \A i \in DOMAIN doc.entities[n].xdata : Tagged(list[i], owner(n), appid(n, i))
    BY <2>2, <2>3
  <2> QED
    BY <2>4 DEF list
<1>4. \A m, n \in DOMAIN doc.entities : owner(m) = owner(n) => m = n
  <2> SUFFICES ASSUME NEW m \in DOMAIN doc.entities, NEW n \in DOMAIN doc.entities, owner(m) = owner(n) PROVE m = n
    OBVIOUS
  <2>1. IsText(doc.entities[m].handle) /\ IsText(doc.entities[n].handle) /\ "entity" \in Pieces
    BY PathPieces DEF IsDocument
  <2>2. doc.entities[m].handle = doc.entities[n].handle
    BY <2>1, UnderApart
  <2> QED
    BY <2>2 DEF EntitiesTidy
<1> HIDE DEF seqs, owner
<1>5. IsSequence(seqs) /\ DOMAIN seqs = DOMAIN doc.entities
  BY <1>1, <1>2, SameLength
<1>6. \A n \in DOMAIN seqs : IsSequence(seqs[n])
  <2> SUFFICES ASSUME NEW n \in DOMAIN seqs PROVE IsSequence(seqs[n])
    OBVIOUS
  <2>1. IsSequence(doc.entities[n].xdata)
    BY <1>1, <1>5
  <2>2. seqs[n] = [i \in DOMAIN doc.entities[n].xdata |-> seqs[n][i]]
    BY <1>3, <1>5
  <2> QED
    BY <2>1, <2>2, SameLength
<1>7. PICK out, ins : Scattered(flat, seqs, Len(seqs), out, ins)
  BY <1>5, <1>6, FlatScatters
<1>8. DOMAIN seqs = 1..Len(seqs)
  BY <1>5, Sequences_
<1>9. IsSequence(flat)
  BY <1>5, <1>6, FlatFrom
<1> HIDE DEF flat
<1>10. \A k \in DOMAIN flat :
         /\ out[k] \in DOMAIN doc.entities /\ ins[k] \in DOMAIN doc.entities[out[k]].xdata
         /\ Tagged(flat[k], owner(out[k]), appid(out[k], ins[k]))
  <2> SUFFICES ASSUME NEW k \in DOMAIN flat
               PROVE  /\ out[k] \in DOMAIN doc.entities /\ ins[k] \in DOMAIN doc.entities[out[k]].xdata
                      /\ Tagged(flat[k], owner(out[k]), appid(out[k], ins[k]))
    OBVIOUS
  <2>1. out[k] \in DOMAIN doc.entities /\ ins[k] \in DOMAIN seqs[out[k]] /\ flat[k] = seqs[out[k]][ins[k]]
    BY <1>5, <1>7, <1>8 DEF Scattered
  <2>2. ins[k] \in DOMAIN doc.entities[out[k]].xdata
    BY <1>3, <2>1
  <2>3. Tagged(seqs[out[k]][ins[k]], owner(out[k]), appid(out[k], ins[k]))
    BY <1>3, <2>1, <2>2
  <2> QED
    BY <2>1, <2>2, <2>3
<1>11. \A n \in DOMAIN doc.entities : \A i, j \in DOMAIN doc.entities[n].xdata : appid(n, i) = appid(n, j) => i = j
  BY DEF EntitiesTidy
<1> HIDE DEF appid
<1>12. ASSUME NEW j \in DOMAIN flat, NEW k \in DOMAIN flat, flat[j].name = flat[k].name
       PROVE  j = k
  <2>1. owner(out[j]) = owner(out[k]) /\ appid(out[j], ins[j]) = appid(out[k], ins[k])
    BY <1>10, <1>12, TaggedApart
  <2>2. out[j] = out[k]
    BY <1>4, <1>10, <2>1
  <2>3. ins[j] = ins[k]
    BY <1>10, <1>11, <2>1, <2>2
  <2> QED
    BY <1>7, <2>2, <2>3 DEF Scattered
<1>13. Unlike(flat)
  BY <1>12 DEF Unlike
<1>14. \A k \in DOMAIN flat : OfEntity(flat[k])
  BY <1>10 DEF OfEntity, owner, appid
<1> QED
  BY <1>9, <1>13, <1>14 DEF flat, seqs

LEMMA OwnerRecords ==
  ASSUME IsDocument(doc), OwnersTidy, TreeNamed(tree), TreeApart(tree)
  PROVE  /\ IsSequence(FlattenSeq(OwnerLists)) /\ Unlike(FlattenSeq(OwnerLists))
         /\ \A k \in DOMAIN FlattenSeq(OwnerLists) : OfOwner(FlattenSeq(OwnerLists)[k])
<1> DEFINE seqs == OwnerLists
           flat == FlattenSeq(seqs)
           owner(n) == OwnedBy(doc.xdata[n].node)
           appid(n) == doc.xdata[n].appid
           At(n) == M1!XDataOf(owner(n), appid(n), doc.xdata[n].values)
<1>1. IsSequence(doc.xdata)
  BY DEF IsDocument, Lists
<1>2. seqs = [n \in DOMAIN doc.xdata |-> seqs[n]]
  BY DEF OwnerLists
<1>3. \A n \in DOMAIN doc.xdata : (owner(n) = NoPath /\ seqs[n] = <<>>) \/ (owner(n) # NoPath /\ seqs[n] = <<At(n)>>)
  BY DEF OwnerLists
<1>4. ASSUME NEW n \in DOMAIN doc.xdata, owner(n) # NoPath
      PROVE  Tagged(At(n), owner(n), appid(n))
  <2>1. IsNode(doc, doc.xdata[n].node) /\ IsText(appid(n)) /\ PlainOwner(doc.xdata[n].node)
    BY DEF IsDocument, OwnersTidy
  <2>2. IsText(owner(n)) /\ NoBar(owner(n))
    BY <1>4, <2>1, OwnerKept
  <2> HIDE DEF owner, appid
  <2> QED
    BY <2>1, <2>2, XDataTagged
<1>5. ASSUME NEW m \in DOMAIN doc.xdata, NEW n \in DOMAIN doc.xdata, owner(m) # NoPath,
             owner(m) = owner(n), appid(m) = appid(n)
      PROVE  m = n
  <2>1. /\ IsNode(doc, doc.xdata[m].node) /\ PlainOwner(doc.xdata[m].node)
        /\ IsNode(doc, doc.xdata[n].node) /\ PlainOwner(doc.xdata[n].node)
    BY DEF IsDocument, OwnersTidy
  <2>2. doc.xdata[m].node = doc.xdata[n].node
    BY <1>5, <2>1, OwnedByOne
  <2> QED
    BY <1>5, <2>2 DEF OwnersTidy
<1> HIDE DEF seqs, owner, At
<1>6. IsSequence(seqs) /\ DOMAIN seqs = DOMAIN doc.xdata
  BY <1>1, <1>2, SameLength
<1>7. \A x : IsSequence(<<x>>) /\ DOMAIN <<x>> = {1} /\ <<x>>[1] = x
  <2> TAKE x
  <2>1. <<x>> \in Seq({x})
    OBVIOUS
  <2>2. IsSequence(<<x>>)
    BY Zenon, <2>1, SequenceOf
  <2> QED
    BY <2>2
<1>8. ASSUME NEW n \in DOMAIN seqs
      PROVE  IsSequence(seqs[n]) /\ \A i \in DOMAIN seqs[n] : owner(n) # NoPath /\ i = 1 /\ seqs[n][i] = At(n)
  <2>1. CASE seqs[n] = <<>>
    BY <2>1, EmptySequence
  <2>2. CASE owner(n) # NoPath /\ seqs[n] = <<At(n)>>
    <3> DEFINE x == At(n)
    <3>1. seqs[n] = <<x>> /\ owner(n) # NoPath
      BY <2>2
    <3> HIDE DEF x
    <3>2. IsSequence(seqs[n]) /\ \A i \in DOMAIN seqs[n] : owner(n) # NoPath /\ i = 1 /\ seqs[n][i] = x
      BY <1>7, <3>1
    <3> QED
      BY <3>2 DEF x
  <2> QED
    BY <1>3, <1>6, <2>1, <2>2
<1>9. PICK out, ins : Scattered(flat, seqs, Len(seqs), out, ins)
  BY <1>6, <1>8, FlatScatters
<1>10. DOMAIN seqs = 1..Len(seqs)
  BY <1>6, Sequences_
<1>11. IsSequence(flat)
  BY <1>6, <1>8, FlatFrom
<1> HIDE DEF flat, appid
<1>12. ASSUME NEW k \in DOMAIN flat
       PROVE  /\ out[k] \in DOMAIN doc.xdata /\ owner(out[k]) # NoPath /\ ins[k] = 1
              /\ Tagged(flat[k], owner(out[k]), appid(out[k]))
  <2>1. out[k] \in DOMAIN seqs /\ ins[k] \in DOMAIN seqs[out[k]] /\ flat[k] = seqs[out[k]][ins[k]]
    BY <1>9, <1>10 DEF Scattered
  <2>2. owner(out[k]) # NoPath /\ ins[k] = 1 /\ flat[k] = At(out[k])
    BY <1>8, <2>1
  <2> QED
    BY <1>4, <1>6, <2>1, <2>2
<1>13. ASSUME NEW j \in DOMAIN flat, NEW k \in DOMAIN flat, flat[j].name = flat[k].name
       PROVE  j = k
  <2>1. owner(out[j]) = owner(out[k]) /\ appid(out[j]) = appid(out[k])
    BY <1>12, <1>13, TaggedApart
  <2>2. out[j] = out[k]
    BY <1>5, <1>12, <2>1
  <2> QED
    BY <1>9, <1>12, <2>2 DEF Scattered
<1>14. Unlike(flat)
  BY <1>13 DEF Unlike
<1>15. \A k \in DOMAIN flat : OfOwner(flat[k])
  BY <1>12 DEF OfOwner, owner, appid
<1> QED
  BY <1>11, <1>14, <1>15 DEF flat, seqs

\* No two extended data of a document are keyed alike: an entity is not named
\* as any other owner is.
LEMMA XDataUnlike ==
  ASSUME IsDocument(doc), OwnersTidy, EntitiesTidy, TreeNamed(tree), TreeApart(tree)
  PROVE  Unlike(M1!Records("xdata"))
<1> DEFINE s == FlattenSeq(EntityLists)
           t == FlattenSeq(OwnerLists)
<1>1. IsSequence(s) /\ Unlike(s) /\ \A k \in DOMAIN s : OfEntity(s[k])
  BY EntityRecords
<1>2. IsSequence(t) /\ Unlike(t) /\ \A k \in DOMAIN t : OfOwner(t[k])
  BY OwnerRecords
<1>3. M1!Records("xdata") = s \o t
  BY XDataIsBoth, RecordsAre
<1> HIDE DEF s, t
<1>4. ASSUME NEW j \in DOMAIN s, NEW k \in DOMAIN t, s[j].name = t[k].name
      PROVE  FALSE
  <2>1. PICK n \in DOMAIN doc.entities : \E i \in DOMAIN doc.entities[n].xdata :
          Tagged(s[j], Under("entity", doc.entities[n].handle), doc.entities[n].xdata[i].appid)
    BY <1>1 DEF OfEntity
  <2>2. PICK m \in DOMAIN doc.xdata :
          OwnedBy(doc.xdata[m].node) # NoPath /\ Tagged(t[k], OwnedBy(doc.xdata[m].node), doc.xdata[m].appid)
    BY <1>2 DEF OfOwner
  <2>3. Under("entity", doc.entities[n].handle) = OwnedBy(doc.xdata[m].node)
    BY <1>4, <2>1, <2>2, TaggedApart
  <2>4. IsText(doc.entities[n].handle) /\ "entity" \in Pieces
    BY PathPieces DEF IsDocument
  <2>5. Under("entity", doc.entities[n].handle)[1] = "entity"
    BY <2>4, UnderIs
  <2>6. IsNode(doc, doc.xdata[m].node) /\ PlainOwner(doc.xdata[m].node)
    BY DEF IsDocument, OwnersTidy
  <2>7. OwnedBy(doc.xdata[m].node)[1] \in {"dictionary", "xrecord", "table", "layout"}
    BY <2>2, <2>6, OwnerKept
  <2> QED
    BY <2>3, <2>5, <2>7
<1>5. Unlike(s \o t)
  BY <1>1, <1>2, <1>4, UnlikeJoined
<1> QED
  BY <1>3, <1>5

LEMMA RecordsUnlike ==
  ASSUME IsDocument(doc), M1!PlainDoc, TreeNamed(tree), TreeApart(tree), NEW kind \in RecordKinds
  PROVE  Unlike(M1!Records(kind))
<1>1. TablesApart /\ OwnersTidy /\ EntitiesTidy
  BY PlainDocIs
<1>2. kind \in {"header", "layout", "dictionary", "xrecord", "xdata"} \/ kind \in DOMAIN TablesOf(doc)
  BY DEF RecordKinds, TablesOf
<1>3. CASE kind \in DOMAIN TablesOf(doc)
  BY <1>1, <1>3, TableUnlike
<1>4. CASE kind \in {"header", "layout", "dictionary", "xrecord", "xdata"}
  BY <1>1, <1>4, HeaderUnlike, ObjectsUnlike, XDataUnlike
<1> QED
  BY <1>2, <1>3, <1>4

\* Only the writer gives up on a stream, and then it stands still.
LEMMA PassedOver ==
  ASSUME [MainNext]_mainVars, phase' \in {"skipped", "failed"}
  PROVE  doc' = doc /\ tree' = tree /\ (phase' = phase \/ M1!Unwritable(M1!Sorted))
<1>1. CASE RefuseToRead
  BY <1>1 DEF RefuseToRead, M1!RefuseToRead
<1>2. CASE Extract
  BY <1>2 DEF Extract, model1Vars
<1>3. CASE RenderModel1
  <2>1. CASE M1!WalkStep
    BY <2>1 DEF M1!WalkStep
  <2>2. CASE M1!Write
    <3>1. doc' = doc /\ tree' = tree
      BY <2>2 DEF M1!Write, M1!walkVars
    <3>2. IF M1!Unwritable(M1!Sorted) THEN TRUE ELSE phase' = "written"
      BY Zenon, <2>2 DEF M1!Write
    <3> QED
      BY <3>1, <3>2
  <2> QED
    BY <1>3, <2>1, <2>2 DEF RenderModel1
<1>4. CASE GiveUp
  BY <1>4 DEF GiveUp, model1Vars
<1>5. CASE WriteEmission
  BY <1>5 DEF WriteEmission, model1Vars
<1>6. CASE ReadEmission
  BY <1>6 DEF ReadEmission, model1Vars
<1>7. CASE ReadModel1
  <2>1. CASE M1!Damage \/ M1!OpenFile \/ M1!EndOfFile
    BY <2>1 DEF M1!Damage, M1!OpenFile, M1!EndOfFile
  <2>2. CASE M1!ReadLine
    <3>1. phase = "reading" /\ (phase' = phase \/ phase' = "refused")
      BY Zenon, <2>2 DEF M1!ReadLine
    <3> QED
      BY <3>1
  <2>3. CASE M1!Thaw \/ M1!Judge
    BY Zenon, <2>3 DEF M1!Thaw, M1!Judge, M1!modelVars, M1!walkVars
  <2> QED
    BY <1>7, <2>1, <2>2, <2>3 DEF ReadModel1
<1>8. CASE Settled
  BY <1>8 DEF Settled, model1Vars
<1>9. CASE UNCHANGED mainVars
  BY <1>9 DEF mainVars, model1Vars
<1> QED
  BY <1>1, <1>2, <1>3, <1>4, <1>5, <1>6, <1>7, <1>8, <1>9 DEF MainNext

UnwritableInv == phase \in {"skipped", "failed"} => M1!Unwritable(M1!Sorted)

ClashInv == (Tidy => ApartInv) /\ UnwritableInv

LEMMA ClashStep == WalkInv /\ NamesInv /\ ClashInv /\ [MainNext]_mainVars => ClashInv'
<1> SUFFICES ASSUME WalkInv, NamesInv, ClashInv, [MainNext]_mainVars PROVE ClashInv'
  OBVIOUS
<1>1. [WalkNext]_<<doc, walkVars>>
  BY DictionariesStep
<1>2. doc' = doc
  BY <1>1, WalkKeepsDoc
<1>3. Tidy' <=> Tidy
  BY <1>2, TidyStays
<1>4. Tidy => ApartInv'
  BY <1>1, ApartStep DEF ClashInv
<1>5. ASSUME phase' \in {"skipped", "failed"} PROVE M1!Unwritable(M1!Sorted)'
  <2>1. doc' = doc /\ tree' = tree /\ (phase' = phase \/ M1!Unwritable(M1!Sorted))
    BY <1>5, PassedOver
  <2>2. M1!Unwritable(M1!Sorted)
    BY <1>5, <2>1 DEF ClashInv, UnwritableInv
  <2>3. M1!Sorted' = M1!Sorted
    BY <2>1, SortedStays
  <2> QED
    BY Zenon, <2>2, <2>3
<1> QED
  BY <1>3, <1>4, <1>5 DEF ClashInv, UnwritableInv

LEMMA ClashStart == MainInit => ClashInv
<1> SUFFICES ASSUME MainInit PROVE ClashInv
  OBVIOUS
<1>1. phase = "walking"
  BY DEF MainInit, M1!ModelInit
<1>2. Tidy => ApartInv
  BY DictionariesStart, ApartStart
<1> QED
  BY <1>1, <1>2 DEF ClashInv, UnwritableInv

\* A stream of a plain document that cannot be written has a number in it that
\* cannot be.
LEMMA OnlyForANumber ==
  ASSUME IsDocument(doc), IsTree, TreeNamed(tree), TreeApart(tree), M1!PlainDoc, M1!Unwritable(M1!Sorted)
  PROVE  \E n \in DOMAIN M1!Sorted : ~M1!WritableRecord(M1!Sorted[n])
<1> DEFINE stream == M1!Sorted
<1>1. AllKeyed
  BY RecordsKeyed DEF AllKeyed
<1>2. \A kind \in RecordKinds : Unlike(M1!Records(kind))
  BY RecordsUnlike
<1>3. IsSequence(stream) /\ \A j, k \in DOMAIN stream : M1!SameKey(stream[j], stream[k]) => j = k
  BY <1>1, <1>2, SortedApart
<1>4. \/ \E n \in 2..Len(stream) : M1!SameKey(stream[n - 1], stream[n])
      \/ \E n \in DOMAIN stream : ~M1!WritableRecord(stream[n])
  BY Zenon DEF M1!Unwritable
<1> HIDE DEF stream
<1>5. Len(stream) \in Nat /\ DOMAIN stream = 1..Len(stream)
  BY <1>3, Sequences_
<1>6. ASSUME NEW n \in 2..Len(stream), M1!SameKey(stream[n - 1], stream[n]) PROVE FALSE
  <2>1. n \in DOMAIN stream /\ n - 1 \in DOMAIN stream /\ n - 1 # n
    BY <1>5
  <2> QED
    BY <1>3, <1>6, <2>1
<1> QED
  BY <1>4, <1>6 DEF stream

\* However the dictionaries of a document are shared, nested or hung off its
\* tables: if its names are plain, its stream is refused for a number that is
\* not finite and for nothing else, since no two of its records come to one
\* key.
THEOREM RefusedOnlyForAClashInARun == MainSpec => []RefusedOnlyForAClash
<1> DEFINE Inv == WalkInv /\ NamesInv /\ ClashInv
<1>1. MainInit => Inv
  BY DictionariesStart, InitWalkInv, NamesStart, ClashStart
<1>2. Inv /\ [MainNext]_mainVars => Inv'
  BY DictionariesStep, NextWalkInv, NamesStep, ClashStep
<1>3. Inv => RefusedOnlyForAClash
  <2> SUFFICES ASSUME Inv, phase \in {"skipped", "failed"}, M1!PlainDoc
               PROVE  \E n \in DOMAIN M1!Sorted : ~M1!WritableRecord(M1!Sorted[n])
    BY Zenon DEF RefusedOnlyForAClash, M1!RefusedOnlyForAClash
  <2>1. IsDocument(doc)
    BY DocsAssumption DEF NamesInv
  <2>2. IsTree /\ TreeNamed(tree) /\ M1!Unwritable(M1!Sorted)
    BY DEF WalkInv, NamesInv, ClashInv, UnwritableInv
  <2>3. TreeApart(tree)
    BY PlainDocIs DEF ClashInv, ApartInv
  <2> QED
    BY <2>1, <2>2, <2>3, OnlyForANumber
<1> QED
  BY <1>1, <1>2, <1>3, PTL DEF MainSpec, mainVars
=============================================================================
