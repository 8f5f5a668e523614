# acadsharp-rs-tests in TLA+

The repository compares readers of CAD drawings: the .NET reader ACadSharp (the
*oracle*, whose output is frozen in the tree), `acadsharp-rs` (its NativeAOT
build behind a Rust API), `acadrust` and `ezdxf`. Each reader's output becomes a
stream of canonical records; a comparator lines two streams up and compares them
field by field; tables say what is excluded or known to differ; what is left
becomes one word per fixture and pair; and a committed table of those words may
not move unnoticed. The modules here model the parts of that in which state,
order, concurrency and failure decide, and the algorithms whose promise is
subtle enough to be stated on its own: the way from a drawing to a stream and
back, the two comparators, and the rules they are judged by.

Paths below are the repository's; `src/compare.rs` is the Rust source file.

## Inventory

| component | its state | operations | what talks to it | where it is hard |
|---|---|---|---|---|
| native archive fetch, `tools/fetch_native.py` | a cache directory: archive, shared `.part`, extracted tree, staging directories | check the cached hash, download, rename, unpack in staging, place, check `LINKINFO.json`, answer | CI, `run-tests.sh`, developers, in parallel | two processes over one name, kills between file operations, an archive that rots |
| parity run, `tests/parity.rs` with `src/emit.rs` and the two `emit-*` binaries | an atomic counter, a mutex-guarded map, the output directory, verdicts, digest table | claim, decode, three writes, exit status, read back, insert, join, judge, digest | worker threads, child processes, the control test of the same binary | thread order, stale and torn files, failing writes, all-or-none publication |
| verdict table and gates, `src/verdict.rs`, `tests/parity.rs`, `tools/run-tests.sh` | rows (verdict, reason, issue) in the checkout and at the remote; the manifest; pinned and checked-out engines | `moved`, `refusals`, `PARITY_REGEN`, push through the gate, land by CI | people, the run, git | long legal edit sequences; three tables that may disagree |
| comparator, `src/compare.rs` | keys, anchors, leftovers, findings | key, align (prefix, suffix, middle), pair moved records, compare fields | the run, the fuzz target | a grid of 1e-3 against a relative tolerance; ties; asymmetry |
| exclusions and known divergences, `src/compare.rs`, `src/tables.rs`, `src/verdict.rs`, `src/parity_run.rs`, `src/invariance.rs` | findings with dispositions, stale rows, counts | exclude, apply known rows, known missing, count, judge, explain | the run | order of rows, rows that stop holding, two rows on one field |
| canonical schema 1, `src/canonical.rs` | two files, a stream and its sidecar, and the line a reader is at | write, parse, hold the two against each other | every emitter and reader | what one side writes and the other refuses; a line lost, repeated, moved or altered, perhaps to another legal value |
| adapters, `src/acadsharp_emit.rs`, `src/acadrust_emit.rs`, `src/ocs.rs` | the blocks open above an entity, the placement, the handle path, records and warnings so far | flatten layouts, blocks, inserts, tables, dimensions; place a curve; map the library's views | the emitter binaries | recursion over blocks that bring each other in, limits, mirrored and stretched curves |
| `model-1`, `src/acadrust_model1.rs`, `src/model1.rs`, `tests/parity_model1.rs` | dictionaries met and the path to each, records by key, reports by pair | walk, write, read back, compare by key under rules, find stale rules | its own lane of the run | dictionaries in cycles, keys that clash, patterns that take too much, rules that go stale |
| fixture corpus, `src/fixtures.rs`, `tools/fetch_acadsharp_fixtures.py`, `src/written.rs`, `src/codepage.rs` | manifest, files | load and verify, fetch, view | every test | files that change at rest, partial fetches |
| reference regeneration, `tools/regenerate_reference.py` | frozen artefacts, manifest rows, staging | verify, regenerate, accept | people | a crash between artefacts and manifest |
| round-trip and code page matrices, `tools/regenerate_written.py`, `tools/regenerate_codepage.py`, `tools/stage_two.py`, `tools/stage_two_reasons.py` | stored outputs, manifest rows, phases in a scratch directory | make, freeze, record, resume | people, nightly | resuming half-done phases |
| counterpart pin, `tools/counterpart.sh` | a pin, a clone beside the suite | check, lay down, refuse | CI, `cargo test` | a checkout that is dirty or moved |
| census and invariance, `src/census.rs`, `src/invariance.rs` | none | compare handle sets, exceptions | the run | exceptions nobody uses any more |
| upstream inventory, `src/parity.rs`, `tools/parity_inventory.py` | a snapshot | validate, diff | people | none of concurrency or failure |
| fuzz harness, `src/fuzz_harness.rs`, `fuzz/`, `examples/fuzz_seeds.rs` | an allocation counter | bodies of the fuzz targets | libFuzzer, Miri | allocation limits |
| oracle and generator, `reference/` | none (exporters) | export, generate | regeneration | geometry |
| native tests, cell scripts, CI | outside code and containers | run and compare | CI | the library is not in the repository |

Every component, with what is modelled of it, is in `PROJECT.json`; so are the
hazards, each at its line with the properties that would catch it.

What makes the main components correct, in a sentence each:

* **fetch**: only bytes that match the pin get the archive's name, and a directory
  answered is of them unless the archive changed after it was hashed; a tree that
  looks finished is whole; no state of the cache refuses
  every later run.
* **parity run**: each fixture is answered once, by this run's engines, and
  verdicts are published for all fixtures or for none.
* **gate**: nothing moves a verdict of the remote's table through the gate; what
  lands is what some run said; a reason is about the verdict beside it.
* **comparator**: the alignment is a longest common one, every record is paired
  once or reported, only streams that agree come out equal, and those that lie within
  a step of the key's grid do.
* **adapters**: the stream is the drawing, entity for entity in its order, each
  with the path that leads to it; a curve is where the entity's points are.
* **canonical schema**: what is written is read back as it was, but for a value that
  became another legal one, or refused where it is damaged.
* **`model-1`**: every dictionary that can be reached is named once, by a path that
  leads to it; a stream is refused only for a clash of keys; a pair's verdict is
  what its streams differ in, less what a rule names; a rule called stale is idle.
* **regeneration**: what `verify` accepts is what the pinned oracle reads of the
  vetted drawings, whatever runs died before; an accepted run verifies.
* **reconciliation**: nothing that is not listed is excused, counts are exact, a
  row that stopped holding shows, and the word is earned.

## Modules

| module | models | state and actions |
|---|---|---|
| `FetchNative` | `tools/fetch_native.py` `fetch()` and what it calls | `file`, `tree`: the names of one asset in the cache; per process a program counter, the file it writes (by where that file can be reached now, so that renames and unlinks under an open descriptor are right), blocks received; for whom the archive `changed` after they hashed it, because unpacking hashes nothing. One action per file operation, because a kill or another process can come between any two. |
| `RunPromise` | what a run of `tests/parity.rs` promises | per fixture an answer, then verdicts for all or none; no threads, processes or files |
| `ParityRun` | `compute()`, `emit()`/`finish()`, `write_emission()`, `digests()` | the counter, per thread where its loop or its child stands, the three files per fixture and engine with `torn` while they are being written, the map, phase, verdicts, digest rows. `Begin` starts another run over the same directory, perhaps of a build with another archive. `Promise` refines it into `RunPromise`. |
| `VerdictGate` | `Table::moved`, `refusals`, regeneration, `run-tests.sh`'s gate, CI | the checkout, the remote's tip, engines on disk; people edit, explain, regenerate, pin and check out in any order |
| `Align` | `key_of`, `Key::agrees`, `middle`, `align`, the moved pass, `Tolerance`, the comparison of one position and its flags | two streams of records; one step of the walk per action, then the comparison; `Chains`, every common subsequence there is, is the reference the result is held to |
| `BothWays` | the comparator of the fuzz target: `compare` on a pair of streams, then on the pair swapped | extends `Align`: the second call begins where the first has ended, with the streams swapped and nothing kept of the first but its answer (`answers`) |
| `Reconcile` | `ClassTable`'s rows, by index or by handle path (`Names`), `reconcile()`, counts, `judge()`, `judge_self()`, `row_for()` | records, findings with dispositions, rows of known divergences; one pass of the code per action |
| `Regenerate` | `tools/regenerate_reference.py`: `regenerate`, `--accept`, `verify` | the pins and drawings as they are now, the artefacts, `SUMMARY.md` and the manifest's rows on disk, and one run: what it read, what its oracle said, which file it is writing and whether that is truncated. One action per write; people edit pins and drawings between and during runs. |
| `Listed` | lists handed over by a library | no state: that a list is a sequence of what it holds |
| `Geometry` | the transform algebra of `src/acadrust_emit.rs`, the angle helpers of `src/ocs.rs` | no state: matrices, quarter turns, the axes of a stretched circle |
| `Emit` | `src/acadrust_emit.rs` | `frames`, `active`, `at`: the recursion over blocks as a stack, the names it holds open, the path a warning would carry; `head`, `sink`, `warnings`: what was written so far. One action per entity, and one at the end of a block, a view and the drawing. |
| `EmitReference` | | what `Emit` must come to, without its stack or matrices: the drawing as a tree of chains of placements, a curve as the set of its points |
| `WireMap` | `src/acadsharp_emit.rs` | the map from what a walk over the native library's views saw to an emission |
| `Canonical` | `src/canonical.rs` | no state: fields of each record, the writer and the reader of a line |
| `EmitStream` | `write_emission()`, `parse_stream()`, `Sidecar::parse()` | the two files' lines; one thing that may be wrong with one of them (a line altered to what the schema forbids or to another legal value, lost, doubled, or changed for its neighbour); the records and entries read so far; what was refused and where |
| `Dictionaries` | `dictionary_tree()` and `walk_dictionary()` of `src/acadrust_model1.rs` | `calls`: the recursion as a stack of dictionaries with the entries still to go; `seen`, `tree` |
| `Model1` | the rest of `src/acadrust_model1.rs`; records, writer and reader of `src/model1.rs` | the file's lines, one place of damage, the records read so far |
| `Model1Compare` | the comparator of `src/model1.rs`, the run of `tests/parity_model1.rs` over one twin | the frozen streams, the rules, the report of each pair |
| `EmitMain` | `src/bin/emit-acadrust.rs` and what reads its files | composes `EmitStream` and, through `Model1Compare`, `Dictionaries`: the model-1 file is written before the emission, and is read by one reader, the emission by the other |
| `ModelDocs` | | small documents, frozen streams and rules for TLC |
| `MC*` | | model values, tables of inputs and symmetry for TLC |
| `*_proofs` | | the theorems about the module they name |

`BothWays` runs the comparator twice; what `Regenerate` freezes is the oracle's side
of every comparison `ParityRun` makes; `ParityRun` implements `RunPromise`; the
outcome of `Align` is what `Reconcile` starts from (findings over records), and
its words are the `Word`s of `VerdictGate`; `ParityRun`'s verdict per fixture is
which engine's reading was compared, the comparison being `Align` and
`Reconcile`. `EmitMain` is what `ParityRun`'s child does between `decode` and its
last write, and what the parent does when it reads the files back: there a reader's
output is only whose it is, here it is what it says.

### What is abstracted

* A file of the fetch is a function from blocks to what each block holds; a hash
  is equality with the pinned blocks, of what was *received*, as in the code.
* A reader's output is named by the build that wrote it, because the properties
  ask whose it is, not what it says; a file half written is `torn`.
* Coordinates are small integers on a grid finer than the key's step, so that
  rounding, the one-step allowance of keys and the tolerance can disagree, as
  they do in floating point. The tolerance is absolute or relative, whichever is
  wider, as in `Tolerance`: a difference counts from `Tol` or from the `Far`-th part
  of the larger coordinate on, so that far from the origin it exceeds the key's step.
  An infinite coordinate is left out: the parser refuses it.
* What may be wrong with the two files of an emission is one thing in one place; the
  drawings and walks whose files it may befall are `Spoilable`, and the number a
  number turns into is `Elsewhere`.
* Texts of reasons are the verdict they were written for.
* Geometry is exact: points of the plane with integer coordinates, normals up and
  down, turns by a quarter, integer scales, ratios as pairs. This has every case
  the adapter distinguishes (mirrored, unequal, null scales; a circle that becomes
  an ellipse, with its major axis chosen by length) and none of the rounding.
* A line is its keys with their values in the order written; a value is its type and
  its content. JSON's syntax, and the spelling of numbers but for one that is not
  finite and the zero with a sign, are left out. Texts are sequences of pieces,
  among them the separators and stars that decide keys and patterns.
* Of the many fields of one type a model-1 record has, one is kept, and each field
  that is computed.
* An artefact of the frozen reference is which reading it holds; a version of the
  oracle is the function from drawings to readings it computes. The lock stands
  for the SDK pin as well, which is read and compared at the same places.

## Runs

Every run's bounds are in its `.cfg`; they are the smallest at which each hazard
can happen, plus one where a second occurrence could matter.

| run | shows | bounds and why |
|---|---|---|
| `fetch` | two processes over one cache, cold or with the verified archive, leave no part file and no half tree that looks finished, and until the archive rots answer whole trees only; one that runs alone, killed and run again over rot and spoiled downloads, renames only the pin, answers the pin unless the archive changed after it was hashed, and answers in the end | 2 blocks (the first written and the last missing can differ), up to two kills, two rots and two faults, three in all: one fault during the recovery from another. A second process joins only where there is an archive in the cache; `WarmAnswersAreWhole` has no bounds |
| `fetch_cut_removal` | finding | the smallest that has it |
| `runs` | files are not met half written, `RunPromise` is implemented, verdicts are this run's, and the digest table is where all files are of its archive, over what an earlier run, of another archive or killed, left; a run ends | two fixtures, two workers, two runs of one or two archives; one trouble in all: a write that fails, a kill, or the control test beside the pool |
| `run_stale_digest` | finding | |
| `gate` | nothing moves through the gate, the tip is explained and earned | two cells (one of the control pair), two engine versions, three words, two landings: edit sequences between landings are unbounded |
| `both_ways` | on short streams of records of one identity: a common subsequence, longest where the whole table is filled, nothing lost or used twice, no finding only for streams that agree, none for those that do and lie within a step, and for them it does not matter which is called a | streams of up to three records of five kinds across a rounding boundary, the whole table filled (nine cells); up to three of three kinds far out, where records two steps apart agree; up to four of two kinds, where the table is cut to its narrowest band |
| `both_ways_far` | finding | the same streams |
| `emit` | the stream is the drawing, but for what is left out on purpose and two kinds of entity that are dropped, and its curves the images of the entities; what is read is what was written but for one value that became another legal one, or is refused where it is damaged; the model-1 stream names every dictionary that can be reached, refers to nothing it lacks, and gets the verdict its differences earn | some nine hundred drawings (blocks that bring each other in and themselves, every shape under two placements, every kind of entity, layouts and notifications, odd numbers) and two hundred walks of the native library, each with a bare document; thirteen hundred documents with the least drawing: the two halves share the reader and the order of the writes and nothing else, so that their product would add no case. Depth 3 and 4 copies: one more than the nests need, so that both limits are met and not met. Every line of the spoilable emissions (neighbours of one kind and of two, entries with a type and without), and of one model-1 file, every way. |
| `emit_dropped` | finding | every kind of entity, brought in at its size, under a null scale and under a stretching one |
| `reconcile` | what is not listed stays, counts are exact, words are earned | tables of up to two rows over two records a side, perhaps of one handle path, two fields |
| `regenerate` | what `verify` accepts is what the pinned oracle reads; a run that ends well leaves whole artefacts; an accepted one verifies | two fixtures with SVG and one DXF, three versions (one redraws one SVG only), three edits and two kills: a kill while a first kill is repaired, under a moved pin |
| `regenerate_heals` | finding | one kill, no edit |

The runs of `ParityRun`, `BothWays` and `Reconcile` stop where their
work is done, so they say `CHECK_DEADLOCK FALSE`; the fetch, the gate and the regeneration go on
for ever and are checked for deadlock. An emission stops too, but `Settled` says in
which states it may, so its run is checked for deadlock and a walk or a reader that
gets stuck anywhere else is found.

Each property of a passing run has a mutant in `PROJECT.json`: a plausible bug in
one mapped definition under which the run finds the property violated.

### Fairness

Only `fetch` and `runs` have liveness properties. Their specifications take the
fairness of the two below to the steps the bounds allow.

* `FetchNative!FairSpec`: a running process takes its next step (the operating
  system schedules it), and a caller whose fetch was refused or killed runs the
  tool again (CI retries, the gate is run again). Faults are bounded: no progress
  is claimed against a server that always spoils the body.
* `ParityRun!FairSpec`: every thread and the main thread keep going. Nothing is
  assumed about the kill or about another run being started.

## Findings

Five runs are expected to end in a counterexample. Each checks a sentence of the
repository's own text; `PROJECT.json` quotes it.

| run | the sentence | what the run shows |
|---|---|---|
| `fetch_cut_removal` | the directory answered "holds lib/, include/ and metadata/" | a kill inside `rmtree` leaves a directory the next run reuses |
| `run_stale_digest` | the digest table is of "the archive and target that produced it" | streams of an earlier archive get rows, or the label |
| `both_ways_far` | "compare(a, b) and compare(b, a) disagree on equal-or-not" is asserted never to be | records that agree under the relative tolerance may have keys more than a step apart; which of two longest alignments is found then depends on the side |
| `emit_dropped` | "Every entity the extractor cannot represent produces one of these. Nothing is dropped silently" | a SOLID, TRACE or 3DFACE flattened by a placement, and a TABLE without a cache block, leave neither record nor warning |
| `regenerate_heals` | "records no .. Run `regenerate --accept` to produce one" | rows are not compared, so after a kill before the manifest is written `--accept` finds nothing to accept |

Met while modelling, and kept out of the runs by what the properties say of their
own scope:

* Two fetches of one asset at once write one `.part` file and each hashes what it
  received (`tools/fetch_native.py:210`); `OnlyAMatchIsRenamed` is for one process.
* `PARITY_REGEN` blanks the reason of a row whose verdict moved
  (`tests/parity.rs:1100`), where `tests/parity.rs:25-27` and
  `src/verdict.rs:192-194` say every row found keeps it. `TipIsExplained` needs
  the code's behaviour.
* The relative tolerance exceeds the key's step from 1000 on with `BOUNDED` (1e-6) and
  from 1e9 on with `BOUNDED_TIGHT` (1e-12). `MatchIsSame` and `MatchIsSymmetric` say
  what holds there: a match is never false, and what can be lost is a match between
  streams that agree by more than a step.
* Unpacking hashes nothing (`tools/fetch_native.py:237`): an archive that is replaced
  after line 201 has hashed it is unpacked, and its directory is answered once. The
  next fetch that hashes the archive finds out and removes the tree
  (`AnswersArePinned`), unless a kill interrupts the removal.
* The control test of `tests/parity.rs` emits one fixture into the directory the
  pool is filling (`tests/parity.rs:1193`), while the comment at
  `tests/parity.rs:1258-1259` keeps another run out of it because two "would read
  each other's half-written sidecars". `NoHalfWrittenRead` is stated for the pool;
  `runs`, where the control test may run beside the pool, shows that verdicts are
  not affected.
* Two known rows about one field of one record: the second overwrites the first's
  disposition (`src/compare.rs:1172`); `ListedRowsHold` says what is left of the
  first: it still holds, or shows.
* A row of the caller's list may explain the stale-row finding of a known row
  (`src/parity_run.rs:98`), which `tests/parity.rs:659` calls red: for a field listed
  by index, under the same values. That is the one row `UnlistedIsNotHidden` lets
  pass without a difference it is about.
* `by_key()` keeps the last of two rows with one key (`src/verdict.rs:214`);
  `--verdicts-base` reaches the container path only (`tools/run-tests.sh:324`); a
  killed fetch leaves its staging directory for good (`tools/fetch_native.py:234`);
  the cast of a coordinate to a key saturates beyond 9.2e15 (`src/compare.rs:831`).
* Emission: `StreamIsTheDrawing` names the two kinds of entity that are dropped
  (`Dropped`), beside what is left out on purpose (`LeftOut`). An empty version is
  written although the comment (`src/acadsharp_emit.rs:134-136`) says the parser
  refuses it; `string()` of `src/canonical.rs` refuses no empty text, so it is read
  back. A carriage return in a name or a style
  is escaped by the writer and refused by the reader, so that fixture ends as an
  error of the run. A TABLE that names a block that is gone is empty and silent. A
  key that stands twice in a line keeps its last value. A stream and a sidecar cut
  at the same line read as a shorter drawing: `ReadIsEmitted` is about one
  thing wrong with one of the two. A digit that changed, another handle, an entry
  without its type are legal and are read as they stand, and two neighbouring records
  of one kind may change places: nothing in the files would show it, and
  `ReadIsEmitted` says that this is all that gets through.
* `model-1`: text and dimension styles without a name have no record, but their
  extended data and dictionaries are keyed by the empty name, so two of them refuse
  the whole stream. Names that hold the separator, empty ones, and keys of the root
  that are called `table` or `layout` can clash with others; `RefusedOnlyForAClash`
  says that nothing else can. An exclusion of a field counts as used where both
  sides agree, where the comment at `tests/parity_model1.rs:340` says that such a
  claim is red. Whether a row is used does not look at its `pairs` and counts
  findings about absent records, so a stale row can stay hidden; only the first
  engine that needs it is recorded. A rule for `layer/*.color` also matches a layer
  called `x.color` as a whole. A lost line of a model-1 file, a value turned into
  null and a list that got shorter are not noticed by the reader:
  `Model1ReadIsWritten` is about the damage that is.

## Proofs

`tlapm` checks every theorem for all values of the constants, from the named
assumptions of the module: `RunAssumption`, `GateAssumption`, `FetchAssumption`,
`RegenerateAssumption`, `AlignAssumption`, `ReconcileAssumption` (findings arrive
open, in a finite set, and a table's rows come in the order of its stages),
`EmitAssumption` (the limits are numbers), `CanonicalAssumption` (the two zeros are
spelled differently), `AlphabetAssumption` (no piece of text is listed twice, and
those that paths and keys are put together with are among them), `DocsAssumption`
(`IsDocument`: lists come in an order, texts are texts, there are finitely many
objects, and what owns extended data or an extension dictionary is an entry of its
table or an object of the document, `IsNode`: what acadrust's types and its lookup by
handle give) and `InputsAssumption` (a file's document is one of
the documents; the lists of a drawing and of a walk are lists, `IsDrawing` and
`IsWalk`, entities and edges are of the kinds the reader has, views are numbered,
handles are not negative, notifications are of the library's types and a native
walk's warnings of its sort: what the types of the libraries say). TLC evaluates each
of them in a run.

* **`Align_proofs`**. `PairsAreACommonSubsequence` is inductive together with
  `TypeOK`, `Placed` (the anchors lie in the part that has been walked) and
  `MovedApart` (the moved pass takes records no pair holds). The lemma `Extends`
  is the one argument: appending a pair beyond the last anchor keeps the order.
  `NothingPairedTwice` follows. `EachRecordIsAnswered` adds `Searched`: the search
  for moved records leaves no two behind that it would have paired; and within the
  gaps, rank by rank, the order of the one side is the order of the other
  (`ReplacedInOrder`). `MatchIsExact` is for any grid and any tolerance, the
  relative one included. One way, whatever the tolerance is, without a finding the anchors and the pairs of the gaps take every record of both
  sides in order (`GapsKeepTheirSide`: two initial parts of one chain that are of
  equal size are the same part), and pairs that do so take each record with the one
  at its own index (`InOrderIsIdentity`, from the least counterexample). The other
  way, streams that agree and lie within a step, record by record (`Close`), are
  peeled to their last record (`SamePeels`), as two coordinates within a step lie in
  the same or in neighbouring cells (`NearIsNextCell`). That they are close is part of
  the property, not an assumption on the constants: records that agree further apart
  need not be compatible, which is the finding of `both_ways_far`. None of these looks into the table, so the band is covered.
  `AnchorsAreLongest` does: a cell of the table is at least the length of every
  common subsequence of the ends it is for (`NoLongerThanItsCell`, from the least
  cell that is not), the walk gives away nothing of what its first cell promises
  (`Counted`), and peeling an equal end costs nothing, because a longer chain of the
  whole streams would leave a longer one of what is between (`NoChainIsLonger`).
  `SidesDoNotMatter` is about the second call as much as the first
  (`BothCallsKeep`): the second begins as `Init` says, so each answer is exact
  (`MatchIsExact`), and neither whether the streams are the same nor whether they are
  close changes when they are swapped (`SameEitherWay`).
* **`ParityRun_proofs`**. `IInv` is `TypeOK`, `Pool`, `Phases` and `Words`. `Pool`
  is the argument about the counter: what lies below it is in the map or in
  exactly one worker's hands, what does not is in neither, so a claim is
  exclusive and a joined pool is complete. `Words` follows what an engine said
  from the child to the published verdict: a child that writes has opened its
  file; from its last file on the sidecar on disk is one of this run, which is
  why files of earlier runs cannot reach a verdict; what is held, in the map and
  published was told by this run's engines. `RunKeepsItsPromise` is the
  refinement: `Insert` is `Answer`, `Judge` is `Publish` or nothing, `Begin` and
  `Kill` are `Begin`, every other step is a stutter. `PoolReadsWholeFiles` is about
  the pool without the control test, which is its hypothesis: with exclusive claims
  a writer has its three names to itself, so what it has written stays whole
  (`OwnStream`, `OwnSidecar`) until its parent has read it, whatever torn files a
  killed run left under other names. `DigestsAreOfThisRun` has the control test
  running and rests on `Streamed`: a file once there stays, a child has its stream on
  disk from its first write on, a name of a build stands only on what that build
  opened, and the control test writes acadrust's names only; so what is in the map
  and what the directory holds are the same fixtures when the table is made.
* **`VerdictGate_proofs`**. `TipIsExplained` is not inductive: a row of the
  checkout may be blank. `TreeIsSound` says that a reason, where there is one, is
  about its verdict, and `PassesRefusals` that a sound row with nothing refused
  is the explained one. `GateMovesNothing` needs no invariant: both tables agree
  with one run.
* **`FetchNative_proofs`**. Types need `Descriptors` (a process has a file open
  exactly while it downloads, and a name it is reached by holds one) and
  `Staging`. `WarmAnswersAreWhole` says for any number of processes and kills
  that from a verified archive, until it rots, every answer is a whole tree.
  `LooksFinishedIsWhole` needs no more than that a tree gets its name by one rename
  and loses its entries in a removal only. `NoPartIsLeft` rests on `PartIsSeenTo`:
  while there is a part file, somebody was killed or some process is between opening
  and unlinking or renaming that name; it is the last of them that leaves none.
  The two `Lone` theorems are about a process that has run alone so far (`Alone`), in
  a system of any number: what it has received is what the part file holds, so the
  hash of the one is the hash of the other (`LoneFetchRenamesAMatch`). `Lone` follows
  that from the hash on: an archive it has passed holds the pin until it changes, which
  `changed` records, a tree unpacked from it is of the pin, and a tree that is not is
  removed after the next hash that differs, or its removal was `cut`
  (`LoneFetchAnswersThePin`). That the process is alone is needed, see Findings.
* **`Regenerate_proofs`**. `IInv` is `TypeOK`, `Written` (what of the staged
  artefacts is on disk at each point of the accepted run) and `Sound`: a row that
  names a version has the hashes of what that version reads. `Sound` is what a
  kill cannot break, because rows are written last and all together; so where
  `verify` finds rows that name the lock, their hashes pin the files
  (`GreenIsPinned`). `AcceptedIsVerified` and `EndsWithWholeArtefacts` follow from
  `Written` at the two steps that end a run well.

* **`Reconcile_proofs`**. `IInv` is `Reconciled`, `Held` and `Told`. `Reconciled` says
  where a run over the rows stands: what is still to do is the tail of the table
  (`Rowed`); each finding met is there once, changed in its disposition only
  (`Kept`), so findings and those met are in bijection and can be counted either
  way; a stray record is open exactly as long as no row looked at takes it
  (`Strays`), which is why the count a later row makes over open findings is the
  count the property speaks of; what is no longer open was taken by a row about it
  (`Excused`), and what a row should have marked it has (`Marked`). `Held` says that
  a row looked at still holds or shows, which is not obvious because later rows
  change what earlier ones marked. `Told` is about the two words.
  `JudgeSelfHidesNothing` is about the differences that were met, not about what the
  judge was given: each was excused by a row about it (`Excused`), or is still red and
  on the caller's list; and a row that met nothing left a stale-row finding
  (`RowsAreTried`), which is red unless the list has its very place and value
  (`StaleIsExplainedByItsSpot`).
* **`Walks_proofs`**, the two walks. `TreeIsWhatIsReachable` for any document, whether
  or not its names are plain: `WalkInv` says that whatever the starts reach is met, or is still to be met: from an
  entry of a dictionary that is open, or from a start that is left; that what was met
  is reachable, by a path that leads to it; and that nothing was met twice. At the end
  nothing is to go, so what was met is closed under reference, and that there is
  nothing else is the minimality of reachability (`NothingElse`). `NamesInv` goes with
  it: each name in the tree is a text, and what is listed has its record. From both,
  `NoPathTwice`: a shared XRECORD is written down once for each way to it, so the
  question is whether two ways can be spelled alike. `ApartInv` says that they are
  not, of the records there are and of those that each open dictionary and each start
  still promises (`StackApart`, `StartsApart`); without the promises it would not be
  inductive. Its base is that a path of plain keys can be taken apart again
  (`WaysApart`), and that no such path begins as an owner's does, which is the reason
  for `PlainKeys` to keep `table` and `layout` out of the root. The order of texts is
  total (`Before`, by `Alphabet`), so the sort of a list is a permutation of it.
  `OpenIsTheWay` for any drawing, any depth and any number of copies: the stack and the list of names
  agree, nothing is open twice, the path a warning carries is that of the innermost
  block, and what a block saved is put back when it ends. It also holds what an entity
  becomes, kind by kind: a record with the fields of its line in the schema, or a
  warning (`Sound`), under any placement.
* **`EmitMain_proofs`**, the two walks in one run and what is compared afterwards,
  for any set of inputs (`InputsAssumption`).
  `OpenIsTheWayInARun` and `TreeIsReachableInARun` carry the theorems of the two
  walks over to a run, in which each walk stands while the other and the readers
  move. `StaleRowsStayIdle`: the report of each engine is the comparator's answer for
  what was written and read (`ReportsHold`), so a row it calls stale is one no item
  that differs is under; each of the comparator's questions to the table (is this
  excluded, is it known, is it known missing) is asked of an item that differs, hence
  has the same answer without that row, key by key and kind by kind up to `Compare`
  (`StaleRowsDoNothing`). `ReadIsEmittedInARun` takes two invariants. That reading
  a line gives back the record it was written from is true only of records the schema
  has lines for, so `EmitInv` says that the engine has no others in hand: in the
  stack, in the head and the sink and at last in the emission, with an entry of the
  sidecar beside each record (`WellFormed`); it needs the inputs to be what the
  libraries hand over, and covers the map from the native walk (`MapWalkFormed`) as
  well as the walk. `ReadInv` says of the files that they are as written
  or have one thing done to one of them (`Lying`, which each disjunct of `Spoil` leads
  to: `SpoilDoes`), and of the reader that all it has read was accepted and is what the
  lines say. What can be done is told apart by what shows it. A line altered to what
  the schema forbids is refused (`LineRefused`, `EntryRefused`). A slip, to another
  legal value, is accepted, and the record or entry read is the written one but for
  that field (`SlippedHeard`). A line lost or doubled leaves files of different lengths
  (`GoneIsUneven`), and two entries of the sidecar that changed places have numbers
  that are not their own (`Misplaced`). Two records that changed places are refused by
  the kind beside them unless the entries name no two kinds (`StreamSwapped`), and are
  then read in the order they lie in. A reading that has come to its end has passed
  every line, so what is left is the files as written, a slip, or such a swap, and
  writing followed by reading is the identity but for the spelling of zero
  (`ReadShown`).
  `RefusalLeadsToTheDamageInARun` is the counterpart: not only is what was
  altered refused, nothing else is, and it is refused where it is. The line of an intact record is always accepted
  (`IntactAccepted`: its numbers, names and lists satisfy the reader's grammar), and an
  entry of the sidecar that stands beside its record always passes (`WrittenPasses`).
  Each line of a file is one that was written, or the altered one, and `From` says
  where it comes from (`Placed`); so the first entry to be refused is the first out of
  place (`EntryLeads`), no refusal comes before it, and where none is left to show
  that the last was lost the lengths differ, which is an error at line 0. The property
  is inductive together with `ReadInv`: a refusal stays as it is (`RefusalStays`), and
  the two steps that refuse are `RefusalStep`. `WireIsKeptInARun`: the items of a walk and
  the rows they become stand side by side, view by view (`Beside`, which holds of lists
  put one after the other: `FlatBeside`), and the order of the warnings gives each one
  place (`HeldOnce`), so that there are as many of each handle before it and after
  (`AsMany`); `KeptInv` says that what the walk was mapped to is what is written.
  `StreamIsClosedInARun`: a name a field is given is that of an entry of a table or
  empty, the entry has its record, and sorting loses none; a layout and a block name each other by handle, and either is
  found or the field is empty. An owner that is a dictionary or an XRECORD was met by
  the walk (`NamesInv`), one that is an entry of a table is one of the document's.
  `RefusedOnlyForAClashInARun`: `ClashInv` is `ApartInv` where the document is tidy,
  and that what was refused cannot be written. Kind by kind no two records are keyed
  alike (`RecordsUnlike`): entries of tables by their names, dictionaries and XRECORDs
  by `ApartInv`, extended data because its key is the owner's path, a bar and an
  application, the first bar is where the path ends (`BarApart`), and two owners have
  two paths (`OwnedByOne`). As the sort is a permutation, neighbours of the sorted stream are
  then of different keys, and only a number is left to refuse it for.

Only model-checked, with the reason:

* liveness (`EventuallyAnswered`, `RunEnds`), which needs fairness and ENABLED;
* what a drawing comes to (`StreamIsTheDrawing`, `RecordsAreImages`), which is
  compared with a reference that is recursive over the drawing, and
  `VerdictIsWhatDiffers`, with one that is over the pieces of a pattern;
* `Model1ReadIsWritten`, which has a disjunct for each way a file of the model-1
  stream can differ and needs each field of each kind of record to be parsed back; a
  proof has `ReadIsEmittedInARun` to follow and `RecordsUnlike` to start from.

## Plan

1. Done: fetch, parity run, gate, alignment, reconciliation, regeneration, emission
   and its files, model-1 and its comparator; the proofs listed above.
2. What is left, in this order: `Lanes` (the dxf lane's own pool and the
   round-trip lane of `tests/parity.rs`, whose rows are re-keyed into a cell's
   own), `Corpus` (load, fetch and view over files that change), `CounterpartPin`,
   `StageTwo` (resumable phases), `Fields` (angles and arc ends, lists inside a
   record), `Census`, `AllocCap`.
3. Abstract specifications worth stating: a corpus that is exactly its manifest;
   a lane's cells as a function of its inputs.
4. A proof to come: `Model1ReadIsWritten`, on the model of `ReadIsEmittedInARun`.

## Not modelled

Listed per component in `PROJECT.json`, with the reason:

* **Floating point**: rounding inside the geometry, `src/ocs.rs`'s arbitrary axis for
  slanted planes, angles and arc ends in the comparator. TLC has integers; the keys'
  grid and the tolerance, where rounding decides an outcome, are modelled on a finer
  grid.
* **Text formats without state**: JSON and TOML syntax, the spelling of numbers,
  summaries and reports.
* **Other drivers of the same calls**: the dxf and round-trip lanes, `tools/model1.py`
  and the pairs over saves of `model-1`, the written and code page matrices.
* **Checks of one document or directory** that keep nothing between steps: upstream
  inventory, census, comparison of cells.
* **Code outside the repository or around it**: the native library and its tests, the
  .NET oracle, containers and CI.
