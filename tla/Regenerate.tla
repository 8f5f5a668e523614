------------------------------ MODULE Regenerate ------------------------------
(***************************************************************************)
(* tools/regenerate_reference.py: run the pinned oracle over the corpus,   *)
(* compare what it says with the frozen artefacts, with --accept write     *)
(* artefacts, SUMMARY.md and the rows of the manifest; and verify, which   *)
(* holds the three to each other and to the pins.  People edit the pins    *)
(* and the drawings at any time, and a run may be killed between two of    *)
(* its file operations.                                                    *)
(*                                                                         *)
(* An artefact is a name of a fixture or a DXF input with its kind, and    *)
(* its content which of the possible readings it holds.  The census in     *)
(* SUMMARY.md stands for the streams it counts.                            *)
(***************************************************************************)
EXTENDS Naturals, Sequences

CONSTANTS
  Artefacts,   \* [of, kind] in the order they are written
  Version,     \* ACadSharp versions a lock file may pin
  Commit,      \* upstream commits the manifest may name
  Content,     \* readings of a drawing
  Reads,       \* what the oracle of a version makes of each drawing
  Strange,     \* what it makes of a drawing nobody vetted
  Nothing,     \* a file that is missing or cut short, a key that is missing
  MaxEdits, MaxKills     \* bounds

VARIABLES
  lock, upstream,   \* packages.lock.json; upstream.commit of the manifest
  vetted,           \* the drawings are the ones the manifest froze
  disk,             \* per artefact: its content, or Nothing whole is there
  summary,          \* the streams SUMMARY.md counts, or Nothing whole is there
  rows,             \* the manifest: frozen hashes, and what each row says made them
  cutShort,         \* the manifest was truncated and not written
  pc, accept,       \* the run of `regenerate`, and its --accept
  pins,             \* lock and upstream as the run read them
  staged,           \* what the oracle said
  at, half,         \* the artefact being written, and that it is truncated
  exit,             \* how the last run ended
  raced,            \* history: a pin or a drawing was edited during a run
  edits, kills

frozen == <<disk, summary, rows, cutShort>>
run == <<pc, accept, pins, staged, at, half, exit>>
vars == <<lock, upstream, vetted, frozen, run, raced, edits, kills>>

Artefact == {Artefacts[n] : n \in 1 .. Len(Artefacts)}
Item == {x.of : x \in Artefact}
Stream == {x \in Artefact : x.kind = "jsonl"}
Pins == [lock : Version, upstream : Commit]
Reading == [Artefact -> Content]

ASSUME RegenerateAssumption ==
  /\ Artefacts \in Seq([of : Item, kind : {"jsonl", "svg"}])
  /\ \A m, n \in 1 .. Len(Artefacts) : Artefacts[m] = Artefacts[n] => m = n
  /\ Reads \in [Version -> Reading] /\ Strange \in Reading
  /\ Nothing \notin Content \cup Pins /\ Nothing \notin [Stream -> Content]
  /\ MaxEdits \in Nat /\ MaxKills \in Nat

TypeOK ==
  /\ lock \in Version /\ upstream \in Commit /\ vetted \in BOOLEAN
  /\ disk \in [Artefact -> Content \cup {Nothing}]
  /\ summary \in [Stream -> Content] \cup {Nothing}
  /\ rows \in [hash : [Artefact -> Content \cup {Nothing}], by : [Item -> Pins \cup {Nothing}]]
  /\ cutShort \in BOOLEAN
  /\ pc \in {"idle", "oracle", "compare", "write", "summary", "manifest"}
  /\ accept \in BOOLEAN /\ pins \in Pins /\ staged \in Reading
  /\ at \in 1 .. Len(Artefacts) + 1 /\ half \in BOOLEAN
  /\ exit \in {"none", "refused", "same", "differs", "accepted"}
  /\ raced \in BOOLEAN /\ edits \in 0 .. MaxEdits /\ kills \in 0 .. MaxKills

Counted(reading) == [x \in Stream |-> reading[x]]

\* A corpus nobody has frozen yet, or one frozen whole by the locked version.
Init ==
  /\ lock \in Version /\ upstream \in Commit /\ vetted = TRUE
  /\ \/ /\ disk = [x \in Artefact |-> Nothing] /\ summary = Nothing
        /\ rows = [hash |-> disk, by |-> [i \in Item |-> Nothing]]
     \/ /\ disk = Reads[lock] /\ summary = Counted(Reads[lock])
        /\ rows = [hash |-> Reads[lock],
                   by |-> [i \in Item |-> [lock |-> lock, upstream |-> upstream]]]
  /\ cutShort = FALSE
  /\ pc = "idle" /\ accept = FALSE /\ pins = [lock |-> lock, upstream |-> upstream]
  /\ staged = Reads[lock] /\ at = 1 /\ half = FALSE /\ exit = "none"
  /\ raced = FALSE /\ edits = 0 /\ kills = 0

-----------------------------------------------------------------------------
\* Mutant: verify does not hold the rows to the lock.
VerifiesAnyVersion ==
  /\ ~cutShort /\ vetted
  /\ \A i \in Item : rows.by[i] # Nothing /\ rows.by[i].upstream = upstream
  /\ \A x \in Artefact : disk[x] \in Content /\ disk[x] = rows.hash[x]
  /\ summary = Counted(disk)

\* `verify` finds no problem.
Verifies ==
  /\ ~cutShort /\ vetted
  /\ \A i \in Item : rows.by[i] = [lock |-> lock, upstream |-> upstream]
  /\ \A x \in Artefact : disk[x] \in Content /\ disk[x] = rows.hash[x]
  /\ summary = Counted(disk)

End(how) == pc' = "idle" /\ exit' = how

\* The manifest is loaded, the drawings are held to it, the pins are read.
Load ==
  /\ pc = "idle"
  /\ accept' \in BOOLEAN
  /\ IF cutShort \/ ~vetted
     THEN End("refused") /\ UNCHANGED pins
     ELSE /\ pc' = "oracle" /\ exit' = "none"
          /\ pins' = [lock |-> lock, upstream |-> upstream]
  /\ UNCHANGED <<lock, upstream, vetted, frozen, staged, at, half, raced, edits, kills>>

\* Restore in locked mode, build, and run into a temporary directory: by what
\* the lock file says now, over the drawings that are there now.
Oracle ==
  /\ pc = "oracle"
  /\ staged' = IF vetted THEN Reads[lock] ELSE Strange
  /\ pc' = "compare"
  /\ UNCHANGED <<lock, upstream, vetted, frozen, accept, pins, at, half, exit, raced, edits, kills>>

\* Any of it fails, a refusal row is not refused, or a stream is refused.
OracleFails ==
  /\ pc \in {"oracle", "compare"}
  /\ End("refused")
  /\ UNCHANGED <<lock, upstream, vetted, frozen, accept, pins, staged, at, half, raced, edits, kills>>

\* Mutant: only the streams are compared.
StreamsChanged == (\E x \in Stream : disk[x] # staged[x]) \/ summary # Counted(staged)
Changed == (\E x \in Artefact : disk[x] # staged[x]) \/ summary # Counted(staged)

\* Committed artefacts and SUMMARY.md against the new ones.
Compare ==
  /\ pc = "compare"
  /\ IF ~Changed THEN End("same") /\ UNCHANGED <<at, half>>
     ELSE IF ~accept THEN End("differs") /\ UNCHANGED <<at, half>>
     ELSE pc' = "write" /\ at' = 1 /\ half' = FALSE /\ UNCHANGED exit
  /\ UNCHANGED <<lock, upstream, vetted, frozen, accept, pins, staged, raced, edits, kills>>

\* Path.write_bytes: the name is truncated, and then written.
WriteArtefact ==
  /\ pc = "write" /\ at <= Len(Artefacts)
  /\ disk' = [disk EXCEPT ![Artefacts[at]] = IF half THEN staged[Artefacts[at]] ELSE Nothing]
  /\ half' = ~half /\ at' = IF half THEN at + 1 ELSE at
  /\ UNCHANGED <<lock, upstream, vetted, summary, rows, cutShort, pc, accept, pins, staged, exit,
                 raced, edits, kills>>

WriteSummary ==
  /\ pc \in {"write", "summary"} /\ at = Len(Artefacts) + 1
  /\ IF pc = "write" THEN pc' = "summary" /\ summary' = Nothing
     ELSE pc' = "manifest" /\ summary' = Counted(staged)
  /\ UNCHANGED <<lock, upstream, vetted, disk, rows, cutShort, accept, pins, staged, at, half, exit,
                 raced, edits, kills>>

\* Mutant: the rows of the DXF inputs are left as they were.
RewrittenFixturesOnly ==
  LET drawn == {x.of : x \in Artefact \ Stream}
  IN [hash |-> [x \in Artefact |-> IF x.of \in drawn THEN staged[x] ELSE rows.hash[x]],
      by |-> [i \in Item |-> IF i \in drawn THEN pins ELSE rows.by[i]]]

\* rewrite_manifest(): the keys of every row, whether its artefact changed or not.
Rewritten == [hash |-> staged, by |-> [i \in Item |-> pins]]

\* MANIFEST.write_text, the last of the writes.
WriteManifest ==
  /\ pc = "manifest"
  /\ cutShort' = ~cutShort
  /\ IF cutShort THEN rows' = Rewritten /\ End("accepted") ELSE UNCHANGED <<rows, pc, exit>>
  /\ UNCHANGED <<lock, upstream, vetted, disk, summary, accept, pins, staged, at, half, raced, edits, kills>>

\* The run dies.  Its temporary directory is nobody's; the tree stays as it is.
Kill ==
  /\ pc # "idle" /\ kills < MaxKills /\ kills' = kills + 1
  /\ End("none")
  /\ UNCHANGED <<lock, upstream, vetted, frozen, accept, pins, staged, at, half, raced, edits>>

\* A person moves a pin, replaces the drawings, or takes the vetted ones back.
Edit ==
  /\ edits < MaxEdits /\ edits' = edits + 1
  /\ \/ lock' \in Version \ {lock} /\ UNCHANGED <<upstream, vetted>>
     \/ upstream' \in Commit \ {upstream} /\ UNCHANGED <<lock, vetted>>
     \/ vetted' = ~vetted /\ UNCHANGED <<lock, upstream>>
  /\ raced' = (raced \/ pc # "idle")
  /\ UNCHANGED <<frozen, run, kills>>

\* ... or takes a manifest that was cut short back from version control.
Restore ==
  /\ cutShort /\ pc = "idle"
  /\ cutShort' = FALSE
  /\ UNCHANGED <<lock, upstream, vetted, disk, summary, rows, run, raced, edits, kills>>

Next ==
  \/ Load \/ Oracle \/ OracleFails \/ Compare \/ WriteArtefact \/ WriteSummary
  \/ WriteManifest \/ Kill \/ Edit \/ Restore

Spec == Init /\ [][Next]_vars

-----------------------------------------------------------------------------
\* "The lock is the one that cannot be wrong about what ran": where `verify` has
\* nothing to say, every artefact is what the locked version reads from the
\* vetted drawings, whole, and SUMMARY.md is about those; after whatever
\* unfinished runs, moved pins and drawings taken back.
GreenMeansPinned ==
  Verifies /\ ~raced =>
    /\ \A x \in Artefact : disk[x] = Reads[lock][x]
    /\ summary = Counted(Reads[lock])

\* A run that ends well leaves whole artefacts of one oracle behind, whether it
\* found them so or wrote them: not the half of an earlier run that was killed.
Ends == pc # "idle" /\ pc' = "idle"
WellMeansWhole ==
  [][Ends /\ exit' \in {"same", "accepted"} =>
       disk' = staged /\ summary' = Counted(staged)]_vars

\* An upgrade is finished by one accepted regeneration that finds a difference:
\* `verify` agrees afterwards, with all rows, also those that did not differ.
AcceptedMeansVerified ==
  [][Ends /\ exit' = "accepted" => Verifies' \/ raced]_vars

\* src/fixtures.rs:212: "fixtures/manifest.toml records no .. Run regenerate
\* --accept to produce one": a run with --accept that ends well leaves a corpus
\* that verifies.
AcceptHeals ==
  [][Ends /\ accept /\ exit' \in {"same", "accepted"} => Verifies' \/ raced]_vars
=============================================================================
