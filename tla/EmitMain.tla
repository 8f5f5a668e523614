------------------------------ MODULE EmitMain ------------------------------
(***************************************************************************)
(* One run of an emitter.  src/bin/emit-acadrust.rs reads a drawing twice, *)
(* once for its emission and once for its model-1 stream, and writes the   *)
(* model-1 file before the emission: when it cannot, and the drawing is    *)
(* one that is compared, nothing more is written.  The other emitter has   *)
(* no model-1 stream.                                                      *)
(*                                                                         *)
(* What was written is then read by the run that started the emitter:      *)
(* tests/parity.rs reads the emission, tests/parity_model1.rs the model-1  *)
(* file.                                                                   *)
(***************************************************************************)
EXTENDS EmitStream, Dictionaries

CONSTANTS
  Inputs,      \* what a run may be given: the drawing and the document a file
               \* holds, or a walk over the library, and whether it came on stdin
  Comparable, Damaged, Trials

\* A file's document is one of the documents; a drawing and a walk are made
\* of lists.
ASSUME InputsAssumption ==
  \A input \in Inputs : input.doc \in Docs /\ IsDrawing(input.drawing) /\ IsWalk(input.wire)

VARIABLES stdin, phase, file, damage, read, frozen, rules, reports

M1 == INSTANCE Model1Compare

model1Vars == <<doc, owned, calls, seen, tree, stdin, phase, file, damage, read, frozen, rules, reports>>

MainInit ==
  /\ \E input \in Inputs :
       /\ drawing = input.drawing /\ wire = input.wire
       /\ doc = input.doc /\ stdin = input.stdin
  /\ StreamInit /\ M1!ModelInit /\ M1!JudgeInit

\* Both reads are by one reader, of the same bytes: it refuses the first.
RefuseToRead ==
  /\ wire = NoWire /\ M1!RefuseToRead
  /\ state' = "unwritten"
  /\ UNCHANGED <<frozen, rules, reports, emitVars, wire, files, spoiled, parsed, refusal>>

Extract == (wire # NoWire \/ doc.readable) /\ (Walk \/ MapWire) /\ UNCHANGED model1Vars

RenderModel1 ==
  /\ wire = NoWire /\ Finished /\ state = "emitting"
  /\ M1!WalkStep \/ M1!Write
  /\ UNCHANGED <<frozen, rules, reports, emitVars, streamVars>>

GiveUp ==
  /\ state = "emitting" /\ phase = "failed"
  /\ state' = "unwritten"
  /\ UNCHANGED <<model1Vars, emitVars, wire, files, spoiled, parsed, refusal>>

WriteEmission ==
  /\ wire # NoWire \/ phase \in {"written", "skipped"}
  /\ Write /\ UNCHANGED model1Vars

\* The one reader, or the other.
ReadEmission ==
  /\ phase \in {"walking", "written", "skipped"}
  /\ Spoil \/ Open \/ ReadLine \/ ReadEntry
  /\ UNCHANGED model1Vars

ReadModel1 ==
  /\ state \in {"written", "unwritten"}
  /\ \/ (M1!Damage \/ M1!OpenFile \/ M1!ReadLine \/ M1!EndOfFile) /\ UNCHANGED <<frozen, rules, reports>>
     \/ M1!Thaw \/ M1!Judge
  /\ UNCHANGED <<emitVars, streamVars>>

\* The places to stop.
Settled ==
  /\ \/ state \in {"read", "refused"}
     \/ state = "unwritten" /\ phase # "unread"
     \/ state = "unwritten" /\ phase = "unread" /\ (stdin \/ doc \notin Comparable)
     \/ phase = "refused" \/ M1!Judged
  /\ UNCHANGED <<model1Vars, emitVars, streamVars>>

MainNext ==
  RefuseToRead \/ Extract \/ RenderModel1 \/ GiveUp \/ WriteEmission \/ ReadEmission \/ ReadModel1 \/ Settled

MainSpec == MainInit /\ [][MainNext]_<<model1Vars, emitVars, streamVars>>

-----------------------------------------------------------------------------
(* The properties of the model-1 stream and of its comparison, here. *)

\* Plain names never come to one key.
RefusedOnlyForAClash == M1!RefusedOnlyForAClash

\* What a record refers to is a record.
StreamIsClosed == M1!StreamIsClosed

\* What is read from a model-1 file is what was written to it.
Model1ReadIsWritten == M1!Model1ReadIsWritten

\* A pair's verdict is where its streams disagree.
VerdictIsWhatDiffers == M1!VerdictIsWhatDiffers

\* A row called stale can be taken out.
StaleRowsAreIdle == M1!StaleRowsAreIdle
=============================================================================
