-------------------------- MODULE Regenerate_proofs ---------------------------
(***************************************************************************)
(* What holds of the frozen reference whatever the corpus, the versions    *)
(* and the number of edits and kills are.  The argument is that a row      *)
(* never names a version without the hashes of what that version reads     *)
(* beside it: the rows are written last and all together, so what a killed *)
(* run leaves behind is an old row over new files, which verify refuses.   *)
(***************************************************************************)
EXTENDS Regenerate, TLAPS

\* What has been written of an accepted run so far.
Written ==
  /\ pc \in {"write", "summary", "manifest"} =>
       \A n \in 1 .. Len(Artefacts) : n < at => disk[Artefacts[n]] = staged[Artefacts[n]]
  /\ pc \in {"summary", "manifest"} => at = Len(Artefacts) + 1
  /\ pc = "manifest" => summary = Counted(staged)

\* While nobody edited during a run: rows and the run at hand speak of versions
\* that read what they say.
Sound ==
  ~raced =>
    /\ \A x \in Artefact :
         rows.by[x.of] # Nothing => rows.hash[x] = Reads[rows.by[x.of].lock][x]
    /\ pc # "idle" => vetted /\ pins = [lock |-> lock, upstream |-> upstream]
    /\ pc \notin {"idle", "oracle"} => staged = Reads[lock]

IInv == TypeOK /\ Written /\ Sound

LEMMA Names ==
  /\ Len(Artefacts) \in Nat
  /\ \A n \in 1 .. Len(Artefacts) : Artefacts[n] \in Artefact
  /\ \A x \in Artefact : x.of \in Item /\ \E n \in 1 .. Len(Artefacts) : x = Artefacts[n]
  /\ Stream \subseteq Artefact
BY RegenerateAssumption DEF Artefact, Item, Stream

LEMMA CountedTypes == ASSUME NEW r \in Reading PROVE Counted(r) \in [Stream -> Content]
BY Names DEF Counted, Reading

LEMMA InitIInv == Init => IInv
<1> SUFFICES ASSUME Init PROVE IInv
  OBVIOUS
<1>1. Reads[lock] \in Reading /\ [lock |-> lock, upstream |-> upstream] \in Pins
  BY RegenerateAssumption DEF Init, Pins
<1>2. Counted(Reads[lock]) \in [Stream -> Content]
  BY <1>1, CountedTypes
<1>3. 1 \in 1 .. Len(Artefacts) + 1 /\ 0 \in 0 .. MaxEdits /\ 0 \in 0 .. MaxKills
  BY Names, RegenerateAssumption
<1>4. CASE disk = [x \in Artefact |-> Nothing] /\ summary = Nothing
           /\ rows = [hash |-> disk, by |-> [i \in Item |-> Nothing]]
  <2>1. disk \in [Artefact -> Content \cup {Nothing}]
    BY <1>4
  <2>2. rows.hash = disk /\ rows.by = [i \in Item |-> Nothing]
        /\ rows = [hash |-> rows.hash, by |-> rows.by]
    BY <1>4
  <2>3. rows.by \in [Item -> Pins \cup {Nothing}]
    BY <2>2
  <2>4. TypeOK
    BY <1>1, <1>4, <1>3, <2>1, <2>2, <2>3 DEF Init, TypeOK
  <2>5. Sound
    BY <1>4, Names DEF Init, Sound
  <2> QED
    BY <2>4, <2>5 DEF Init, IInv, Written
<1>5. CASE disk = Reads[lock] /\ summary = Counted(Reads[lock])
           /\ rows = [hash |-> Reads[lock],
                      by |-> [i \in Item |-> [lock |-> lock, upstream |-> upstream]]]
  <2>1. disk \in [Artefact -> Content \cup {Nothing}]
    BY <1>1, <1>5 DEF Reading
  <2>2. rows.hash = disk /\ rows.by = [i \in Item |-> [lock |-> lock, upstream |-> upstream]]
        /\ rows = [hash |-> rows.hash, by |-> rows.by]
    BY <1>5
  <2>3. rows.by \in [Item -> Pins \cup {Nothing}]
    BY <1>1, <2>2
  <2>4. TypeOK
    BY <1>1, <1>2, <1>5, <1>3, <2>1, <2>2, <2>3 DEF Init, TypeOK
  <2>5. Sound
    BY <1>5, Names DEF Init, Sound
  <2> QED
    BY <2>4, <2>5 DEF Init, IInv, Written
<1> QED
  BY <1>4, <1>5 DEF Init

-----------------------------------------------------------------------------
\* One lemma per action that writes something, and one for the rest.
LEMMA WriteArtefactStep == IInv /\ WriteArtefact => IInv'
<1> SUFFICES ASSUME IInv, WriteArtefact PROVE IInv'
  OBVIOUS
<1> USE DEF IInv
<1>1. /\ pc = "write" /\ at \in 1 .. Len(Artefacts)
      /\ UNCHANGED <<lock, upstream, vetted, summary, rows, cutShort, pc, accept, pins, staged, exit,
                     raced, edits, kills>>
  BY Names DEF WriteArtefact, TypeOK
<1>2. Artefacts[at] \in Artefact
  BY <1>1, Names
<1>3. staged[Artefacts[at]] \in Content
  BY <1>2 DEF TypeOK, Reading
<1>4. CASE half
  <2>1. disk' = [disk EXCEPT ![Artefacts[at]] = staged[Artefacts[at]]] /\ at' = at + 1 /\ half' = FALSE
    BY <1>4 DEF WriteArtefact
  <2>2. at' \in 1 .. Len(Artefacts) + 1
    BY <1>1, <2>1, Names
  <2>3. TypeOK'
    BY <1>1, <1>2, <1>3, <2>1, <2>2 DEF TypeOK
  <2>4. \A n \in 1 .. Len(Artefacts) : n < at + 1 => disk'[Artefacts[n]] = staged[Artefacts[n]]
    <3> SUFFICES ASSUME NEW n \in 1 .. Len(Artefacts), n < at + 1
                 PROVE  disk'[Artefacts[n]] = staged[Artefacts[n]]
      OBVIOUS
    <3>1. CASE n = at
      BY <1>2, <2>1, <3>1 DEF TypeOK
    <3>2. CASE n # at
      <4>1. n < at
        BY <1>1, <3>2
      <4>2. Artefacts[n] # Artefacts[at] /\ Artefacts[n] \in Artefact
        BY <1>1, <3>2, RegenerateAssumption, Names
      <4> QED
        BY <1>1, <2>1, <4>1, <4>2 DEF TypeOK, Written
    <3> QED
      BY <3>1, <3>2
  <2>5. Written'
    BY <1>1, <2>1, <2>4 DEF Written
  <2>6. Sound'
    BY <1>1 DEF Sound
  <2> QED
    BY <2>3, <2>5, <2>6
<1>5. CASE ~half
  <2>1. disk' = [disk EXCEPT ![Artefacts[at]] = Nothing] /\ at' = at /\ half' = TRUE
    BY <1>5 DEF WriteArtefact, TypeOK
  <2>2. TypeOK'
    BY <1>1, <1>2, <2>1 DEF TypeOK
  <2>3. \A n \in 1 .. Len(Artefacts) : n < at => disk'[Artefacts[n]] = staged[Artefacts[n]]
    <3> SUFFICES ASSUME NEW n \in 1 .. Len(Artefacts), n < at
                 PROVE  disk'[Artefacts[n]] = staged[Artefacts[n]]
      OBVIOUS
    <3>1. Artefacts[n] # Artefacts[at] /\ Artefacts[n] \in Artefact
      BY <1>1, RegenerateAssumption, Names
    <3> QED
      BY <1>1, <2>1, <3>1 DEF TypeOK, Written
  <2>4. Written'
    BY <1>1, <2>1, <2>3 DEF Written
  <2>5. Sound'
    BY <1>1 DEF Sound
  <2> QED
    BY <2>2, <2>4, <2>5
<1> QED
  BY <1>4, <1>5

LEMMA WriteSummaryStep == IInv /\ WriteSummary => IInv'
<1> SUFFICES ASSUME IInv, WriteSummary PROVE IInv'
  OBVIOUS
<1> USE DEF IInv
<1>1. Counted(staged) \in [Stream -> Content]
  BY CountedTypes DEF TypeOK
<1>2. TypeOK'
  BY <1>1 DEF TypeOK, WriteSummary
<1>3. Written'
  BY DEF Written, WriteSummary, Counted
<1>4. Sound'
  BY DEF Sound, WriteSummary
<1> QED
  BY <1>2, <1>3, <1>4

\* The rows are replaced by rows that are sound, or the manifest is cut short.
LEMMA WriteManifestStep == IInv /\ WriteManifest => IInv'
<1> SUFFICES ASSUME IInv, WriteManifest PROVE IInv'
  OBVIOUS
<1> USE DEF IInv
<1>1. CASE cutShort
  <2>1. /\ rows' = [hash |-> staged, by |-> [i \in Item |-> pins]] /\ pc' = "idle" /\ exit' = "accepted"
        /\ cutShort' = FALSE
        /\ UNCHANGED <<lock, upstream, vetted, disk, summary, accept, pins, staged, at, half, raced, edits, kills>>
    BY <1>1 DEF WriteManifest, Rewritten, End, TypeOK
  <2>2. TypeOK'
    BY <2>1 DEF TypeOK, Reading
  <2>3. Written'
    BY <2>1 DEF Written
  <2>4. ~raced => staged = Reads[lock] /\ pins.lock = lock
    BY DEF WriteManifest, Sound
  <2>5. Sound'
    BY <2>1, <2>4, Names DEF Sound
  <2> QED
    BY <2>2, <2>3, <2>5
<1>2. CASE ~cutShort
  <2>1. /\ cutShort' = TRUE
        /\ UNCHANGED <<rows, pc, exit, lock, upstream, vetted, disk, summary, accept, pins, staged, at, half,
                       raced, edits, kills>>
    BY <1>2 DEF WriteManifest, TypeOK
  <2> QED
    BY <2>1 DEF TypeOK, Written, Sound, Counted
<1> QED
  BY <1>1, <1>2

\* What leaves the frozen files alone.
LEMMA OtherSteps ==
  ASSUME IInv, Load \/ Oracle \/ OracleFails \/ Compare \/ Kill \/ Edit \/ Restore \/ UNCHANGED vars
  PROVE  IInv'
<1> USE DEF IInv
<1>1. CASE Load
  <2>1. TypeOK'
    BY <1>1 DEF Load, End, TypeOK, frozen, Pins
  <2>2. Written' /\ Sound'
    BY <1>1 DEF Load, End, Written, Sound, frozen
  <2> QED
    BY <2>1, <2>2
<1>2. CASE Oracle
  <2>1. staged' \in Reading
    BY <1>2, RegenerateAssumption DEF Oracle, TypeOK
  <2>2. TypeOK'
    BY <1>2, <2>1 DEF Oracle, TypeOK, frozen
  <2>3. Written' /\ Sound'
    BY <1>2 DEF Oracle, Written, Sound, frozen
  <2> QED
    BY <2>2, <2>3
<1>3. CASE OracleFails
  <2>1. TypeOK'
    BY <1>3 DEF OracleFails, End, TypeOK, frozen
  <2>2. Written' /\ Sound'
    BY <1>3 DEF OracleFails, End, Written, Sound, frozen
  <2> QED
    BY <2>1, <2>2
<1>4. CASE Compare
  <2>1. 1 \in 1 .. Len(Artefacts) + 1 /\ \A n \in 1 .. Len(Artefacts) : ~(n < 1)
    BY Names
  <2>2. pc = "compare" /\ pc' \in {"idle", "write"} /\ (pc' = "write" => at' = 1)
        /\ UNCHANGED <<lock, upstream, vetted, frozen, accept, pins, staged, raced, edits, kills>>
    BY <1>4 DEF Compare, End
  <2>3. TypeOK'
    BY <1>4, <2>1, <2>2 DEF Compare, End, TypeOK, frozen
  <2>4. Written'
    BY <2>1, <2>2 DEF Written, frozen
  <2>5. Sound'
    BY <2>2 DEF Sound, frozen
  <2> QED
    BY <2>3, <2>4, <2>5
<1>5. CASE Kill
  <2>1. kills' \in 0 .. MaxKills
    BY <1>5, RegenerateAssumption DEF Kill, TypeOK
  <2>2. TypeOK'
    BY <1>5, <2>1 DEF Kill, End, TypeOK, frozen
  <2>3. Written' /\ Sound'
    BY <1>5 DEF Kill, End, Written, Sound, frozen
  <2> QED
    BY <2>2, <2>3
<1>6. CASE Edit
  <2>1. edits' \in 0 .. MaxEdits
    BY <1>6, RegenerateAssumption DEF Edit, TypeOK
  <2>2. lock' \in Version /\ upstream' \in Commit /\ vetted' \in BOOLEAN /\ raced' \in BOOLEAN
    BY <1>6 DEF Edit, TypeOK
  <2>3. TypeOK'
    BY <1>6, <2>1, <2>2 DEF Edit, TypeOK, frozen, run
  <2>4. Written' /\ Sound'
    BY <1>6 DEF Edit, Written, Sound, Counted, frozen, run
  <2> QED
    BY <2>3, <2>4
<1>7. CASE Restore
  BY <1>7 DEF Restore, TypeOK, Written, Sound, Counted, run
<1>8. CASE UNCHANGED vars
  BY <1>8 DEF vars, frozen, run, TypeOK, Written, Sound, Counted
<1> QED
  BY <1>1, <1>2, <1>3, <1>4, <1>5, <1>6, <1>7, <1>8

LEMMA StepIInv == IInv /\ [Next]_vars => IInv'
BY WriteArtefactStep, WriteSummaryStep, WriteManifestStep, OtherSteps DEF Next

LEMMA Invariant == Spec => []IInv
BY InitIInv, StepIInv, PTL DEF Spec

-----------------------------------------------------------------------------
\* The frozen files, the manifest and the run keep their types for any corpus.
THEOREM RegenerateTypes == Spec => []TypeOK
<1>1. IInv => TypeOK
  BY DEF IInv
<1> QED
  BY <1>1, Invariant, PTL

\* Whatever was killed and whatever was edited between runs: where verify has
\* nothing to say, the artefacts are what the locked version reads.
THEOREM GreenIsPinned == Spec => []GreenMeansPinned
<1>1. IInv => GreenMeansPinned
  <2> SUFFICES ASSUME IInv, Verifies, ~raced
               PROVE  (\A x \in Artefact : disk[x] = Reads[lock][x]) /\ summary = Counted(Reads[lock])
    BY DEF GreenMeansPinned
  <2>1. \A x \in Artefact : disk[x] = Reads[lock][x]
    <3> SUFFICES ASSUME NEW x \in Artefact PROVE disk[x] = Reads[lock][x]
      OBVIOUS
    <3>1. rows.by[x.of] = [lock |-> lock, upstream |-> upstream] /\ x.of \in Item
      BY Names DEF Verifies
    <3>2. [lock |-> lock, upstream |-> upstream] \in Pins
      BY DEF IInv, TypeOK, Pins
    <3>3. rows.by[x.of] # Nothing
      BY <3>1, <3>2, RegenerateAssumption
    <3>4. rows.hash[x] = Reads[lock][x]
      BY <3>1, <3>3 DEF IInv, Sound
    <3> QED
      BY <3>4 DEF Verifies
  <2>2. Counted(disk) = Counted(Reads[lock])
    BY <2>1, Names DEF Counted
  <2> QED
    BY <2>1, <2>2 DEF Verifies
<1> QED
  BY <1>1, Invariant, PTL

LEMMA EndsWell ==
  ASSUME IInv, [Next]_vars, Ends, exit' \in {"same", "accepted"}
  PROVE  (Compare /\ ~Changed /\ exit' = "same") \/ (WriteManifest /\ cutShort /\ exit' = "accepted")
<1>1. ~(Load \/ Oracle \/ WriteArtefact \/ WriteSummary \/ Edit \/ Restore \/ UNCHANGED vars)
  BY DEF Ends, Load, Oracle, WriteArtefact, WriteSummary, Edit, Restore, vars, run
<1>2. ~OracleFails /\ ~Kill
  BY DEF OracleFails, Kill, End
<1>3. Compare => ~Changed /\ exit' = "same"
  BY DEF Compare, End, Ends
<1>4. WriteManifest => cutShort /\ exit' = "accepted"
  BY DEF WriteManifest, End, Ends
<1> QED
  BY <1>1, <1>2, <1>3, <1>4 DEF Next

\* At the end of the writes everything is there.
LEMMA AllWritten == ASSUME IInv, WriteManifest PROVE disk = staged /\ summary = Counted(staged)
<1>1. at = Len(Artefacts) + 1 /\ summary = Counted(staged)
  BY DEF IInv, Written, WriteManifest
<1>2. \A n \in 1 .. Len(Artefacts) : disk[Artefacts[n]] = staged[Artefacts[n]]
  BY <1>1, Names DEF IInv, Written, WriteManifest
<1>3. \A x \in Artefact : disk[x] = staged[x]
  BY <1>2, Names
<1> QED
  BY <1>1, <1>3 DEF IInv, TypeOK, Reading

\* A run that ends well, whether it wrote or not, leaves the artefacts of one
\* oracle and their summary: never a mixture with what a killed run wrote.
THEOREM EndsWithWholeArtefacts == Spec => WellMeansWhole
<1>1. IInv /\ [Next]_vars =>
        [Ends /\ exit' \in {"same", "accepted"} => disk' = staged /\ summary' = Counted(staged)]_vars
  <2> SUFFICES ASSUME IInv, [Next]_vars, Ends, exit' \in {"same", "accepted"}
               PROVE  disk' = staged /\ summary' = Counted(staged)
    OBVIOUS
  <2>1. CASE Compare /\ ~Changed
    BY <2>1 DEF Compare, Changed, frozen, IInv, TypeOK, Reading
  <2>2. CASE WriteManifest
    BY <2>2, AllWritten DEF WriteManifest
  <2> QED
    BY <2>1, <2>2, EndsWell
<1> QED
  BY <1>1, Invariant, PTL DEF Spec, WellMeansWhole

\* An accepted regeneration that nobody edits under ends in a corpus that verifies.
THEOREM AcceptedIsVerified == Spec => AcceptedMeansVerified
<1>1. IInv /\ [Next]_vars => [Ends /\ exit' = "accepted" => Verifies' \/ raced]_vars
  <2> SUFFICES ASSUME IInv, [Next]_vars, Ends, exit' = "accepted", ~raced
               PROVE  Verifies'
    OBVIOUS
  <2>1. WriteManifest /\ cutShort
    BY EndsWell
  <2>2. disk = staged /\ summary = Counted(staged)
    BY <2>1, AllWritten
  <2>3. vetted /\ pins = [lock |-> lock, upstream |-> upstream]
    BY <2>1 DEF IInv, Sound, WriteManifest
  <2>4. rows' = Rewritten /\ cutShort' = FALSE /\ UNCHANGED <<lock, upstream, vetted, disk, summary>>
    BY <2>1 DEF WriteManifest, IInv, TypeOK
  <2>5. \A x \in Artefact : disk'[x] \in Content /\ disk'[x] = rows'.hash[x]
    BY <2>2, <2>4 DEF Rewritten, IInv, TypeOK, Reading
  <2>6. \A i \in Item : rows'.by[i] = [lock |-> lock', upstream |-> upstream']
    BY <2>3, <2>4 DEF Rewritten
  <2>7. summary' = Counted(disk)'
    BY <2>2, <2>4 DEF Counted
  <2> QED
    BY <2>3, <2>4, <2>5, <2>6, <2>7 DEF Verifies
<1> QED
  BY <1>1, Invariant, PTL DEF Spec, AcceptedMeansVerified
=============================================================================
