------------------------------ MODULE EmitStream ------------------------------
(***************************************************************************)
(* An emission on its way to the comparator: write_emission() renders it   *)
(* and its sidecar, the two files may be spoiled in one place while they   *)
(* lie there, and parse_stream() and Sidecar::parse() read them back, a    *)
(* line at a time.  What is written is acadrust's emission (Emit), or      *)
(* acadsharp-rs's (WireMap).                                               *)
(***************************************************************************)
EXTENDS EmitReference, Canonical, WireMap

CONSTANTS
  Spoilable,  \* the drawings and the walks whose files may be spoiled
  Elsewhere   \* the number a number may turn into

\* It is one the schema can write.
ASSUME ElsewhereAssumption == Elsewhere # NegZero

VARIABLES
  wire,       \* the walk, or NoWire when acadrust is the engine
  files,      \* the lines of the two files
  spoiled,    \* which file was spoiled, at which line and how
  parsed,     \* the records and the entries read so far
  refusal,    \* what the reader refused and where, or <<>>
  state       \* "emitting", "unwritten", "written", "stream", "sidecar",
              \* "read" or "refused"

streamVars == <<wire, files, spoiled, parsed, refusal, state>>

NoWire == [views |-> <<>>]

\* The native library keeps its drawing to itself.
NoDrawing == [format |-> "dwg", version |-> "", maintenance |-> 0, layouts |-> <<>>,
              blocks |-> <<>>, notifications |-> <<>>]

Untouched == [file |-> "neither", line |-> 0, how |-> "none", key |-> "none"]

\* The drawing or the walk is given.
StreamInit ==
  /\ Started
  /\ files = [stream |-> <<>>, sidecar |-> <<>>]
  /\ spoiled = Untouched
  /\ parsed = [records |-> <<>>, entries |-> <<>>]
  /\ refusal = <<>>
  /\ state = "emitting"

Walk == wire = NoWire /\ EmitNext /\ UNCHANGED streamVars

MapWire ==
  /\ wire # NoWire /\ ~Finished
  /\ emission' = MapWalk(wire.version, wire.views)
  /\ UNCHANGED <<drawing, view, frames, active, at, head, sink, warnings, streamVars>>

\* Everything is rendered before anything is written.  What the walk kept for
\* itself is gone with it.
Write ==
  /\ state = "emitting" /\ Finished
  /\ IF \E n \in DOMAIN emission.records : Unwritable(emission.records[n])
     THEN state' = "unwritten" /\ UNCHANGED files
     ELSE /\ state' = "written"
          /\ files' = [stream |-> RenderStream(emission.records),
                       sidecar |-> RenderSidecar(emission.sidecar)]
  /\ view' = 0 /\ head' = <<>> /\ sink' = <<>> /\ warnings' = <<>>
  /\ UNCHANGED <<drawing, frames, active, at, emission, wire, spoiled, parsed, refusal>>

-----------------------------------------------------------------------------
(* One thing wrong with a file: a line changed, lost, doubled, or two
   neighbours the other way round. *)

Without(s, n) == SubSeq(s, 1, n - 1) \o SubSeq(s, n + 1, Len(s))

Doubled(lines, n) == SubSeq(lines, 1, n) \o SubSeq(lines, n, Len(lines))

Swapped(s, n) == [s EXCEPT ![n] = s[n + 1], ![n + 1] = s[n]]

\* Another value of the same type.
Another(value) ==
  CASE value.t = "uint" -> Value("uint", value.v + 1)
    [] value.t = "bool" -> Value("bool", ~value.v)
    [] value.t = "real" -> Value("real", Elsewhere)
    [] value.t = "string" -> Value("string", "another")
    [] OTHER -> [value EXCEPT !.v[1] = Value("real", Elsewhere)]

\* What a value can become,
Became(how, value) ==
  CASE how = "retyped" -> [value EXCEPT !.t = "null"]
    [] how = "integer" -> [value EXCEPT !.t = "uint"]
    [] how = "negated" -> Value("real", NegZero)
    [] how = "return" -> Value("string", "two\rlines")
    [] how = "element" -> [value EXCEPT !.v = <<Value("uint", 0)>> \o @]
    [] how = "shorter" -> [value EXCEPT !.v = Tail(@)]
    [] how = "next" -> Value("uint", 2)
    [] how = "unknown" -> Value("string", "blob")
    [] how = "other" -> Another(value)
    [] how = "handle" -> [value EXCEPT !.v[1] = @ + 1]
    [] how = "expanded" -> Value("bool", "yes")
    [] OTHER -> value

\* and a line, key by key where a key is named.
Changed(line, how, key) ==
  LET kept == IF how = "keyless"
              THEN Without(line.keys, CHOOSE n \in DOMAIN line.keys : line.keys[n][1] = key)
              ELSE [n \in DOMAIN line.keys |->
                      IF line.keys[n][1] = key THEN <<key, Became(how, line.keys[n][2])>> ELSE line.keys[n]]
  IN  CASE how \in {"empty", "junk", "array", "overflowing", "nan"} -> [line EXCEPT !.json = how]
        [] how = "cr" -> [line EXCEPT !.cr = TRUE]
        [] how = "unended" -> [line EXCEPT !.ends = FALSE]
        [] how = "extra" -> [line EXCEPT !.keys = Append(@, <<"extra", Value("bool", TRUE)>>)]
        [] OTHER -> [line EXCEPT !.keys = kept]

\* What no field of a type allows, and what the keys the reader knows by name
\* do not.
NotAllowed(type) ==
  {"retyped"} \cup
  CASE type = "real" -> {"integer", "negated"}
    [] type = "string" -> {"return"}
    [] type = "array" -> {"element"}
    [] OTHER -> {}

NotForKey(key) ==
  CASE key = "schema" -> {"next"}
    [] key = "record" -> {"unknown"}
    [] OTHER -> {}

Ways(key, value) == {<<how, key>> : how \in {"keyless"} \cup NotAllowed(value.t) \cup NotForKey(key)}

\* What a field may well be and is not.  A field of its own is one the record
\* has besides what every line has.
Slips(key, value) ==
  CASE key \in {"schema", "record"} \/ (value.t = "array" /\ value.v = <<>>) -> {}
    [] OTHER -> {<<"other", key>>} \cup IF value.t = "array" THEN {<<"shorter", key>>} ELSE {}

\* The last line can also lose its end.
StreamWays(line, last) ==
  {<<how, "none">> : how \in {"empty", "junk", "array", "overflowing", "nan", "cr",
                          "extra"} \cup IF last THEN {"unended"} ELSE {}}
  \cup UNION {Ways(line.keys[n][1], line.keys[n][2]) : n \in DOMAIN line.keys}

StreamSlips(line) == UNION {Slips(line.keys[n][1], line.keys[n][2]) : n \in DOMAIN line.keys}

SidecarWays(line) ==
  {<<how, "none">> : how \in {"junk", "array", "extra"}}
  \cup {<<"retyped", line.keys[n][1]>> : n \in DOMAIN line.keys}
  \cup {<<"keyless", "i">>, <<"keyless", "h">>, <<"unknown", "t">>, <<"other", "i">>}

\* A path may be another, and t, x and d may be absent.
SidecarSlips(line) ==
  {<<"handle", "h">>} \cup
  {way \in {<<"keyless", "t">>, <<"keyless", "x">>, <<"keyless", "d">>, <<"expanded", "x">>, <<"other", "d">>} :
     way[2] \in Keys(line)}

Spoil ==
  /\ state = "written"
  /\ drawing \in Spoilable \/ wire \in Spoilable
  /\ \E file \in {"stream", "sidecar"} :
       LET lines == files[file]
       IN  \E n \in DOMAIN lines :
             \/ \E way \in IF file = "stream" THEN StreamWays(lines[n], n = Len(lines)) \cup StreamSlips(lines[n])
                           ELSE SidecarWays(lines[n]) \cup SidecarSlips(lines[n]) :
                  /\ files' = [files EXCEPT ![file][n] = Changed(lines[n], way[1], way[2])]
                  /\ spoiled' = [file |-> file, line |-> n, how |-> way[1], key |-> way[2]]
             \/ /\ files' = [files EXCEPT ![file] = Without(lines, n)]
                /\ spoiled' = [file |-> file, line |-> n, how |-> "lost", key |-> "none"]
             \/ /\ files' = [files EXCEPT ![file] = Doubled(lines, n)]
                /\ spoiled' = [file |-> file, line |-> n, how |-> "doubled", key |-> "none"]
             \/ /\ n < Len(lines)
                /\ files' = [files EXCEPT ![file] = Swapped(lines, n)]
                /\ spoiled' = [file |-> file, line |-> n, how |-> "swapped", key |-> "none"]
  /\ state' = "stream"
  /\ UNCHANGED <<emitVars, wire, parsed, refusal>>

-----------------------------------------------------------------------------

Open ==
  /\ state = "written" /\ state' = "stream"
  /\ UNCHANGED <<emitVars, wire, files, spoiled, parsed, refusal>>

Refuse(file, line, fault) ==
  /\ state' = "refused"
  /\ refusal' = [file |-> file, line |-> line, fault |-> fault]
  /\ UNCHANGED parsed

Accept(part, item) ==
  /\ parsed' = [parsed EXCEPT ![part] = Append(@, item)]
  /\ UNCHANGED <<state, refusal>>

GoOn(next) == state' = next /\ UNCHANGED <<parsed, refusal>>

ReadLine ==
  /\ state = "stream"
  /\ LET n == Len(parsed.records) + 1
         line == files.stream[n]
     IN  IF n > Len(files.stream) THEN GoOn("sidecar")
         ELSE IF LineFault(line) # "" THEN Refuse("stream", n, LineFault(line))
         ELSE Accept("records", ParsedRecord(line))
  /\ UNCHANGED <<emitVars, wire, files, spoiled>>

ReadEntry ==
  /\ state = "sidecar"
  /\ LET n == Len(parsed.entries) + 1
         line == files.sidecar[n]
         fault == EntryFault(line, n, parsed.records)
     IN  IF n > Len(files.sidecar)
         THEN IF Len(parsed.entries) = Len(parsed.records) THEN GoOn("read")
              ELSE Refuse("sidecar", 0, "CountMismatch")
         ELSE IF fault # "" THEN Refuse("sidecar", n, fault)
         ELSE Accept("entries", ParsedEntry(line))
  /\ UNCHANGED <<emitVars, wire, files, spoiled>>

-----------------------------------------------------------------------------

\* A record with its one spelling of zero.
Spelled(record) ==
  LET Zero(v) == IF v = NegZero THEN 0 ELSE v
      Each(f) == CASE f[2] = "real" -> Zero(record[f[1]])
                   [] f[2] = "array" -> [n \in DOMAIN record[f[1]] |-> Zero(record[f[1]][n])]
                   [] OTHER -> record[f[1]]
      fields == ToSet(Schema[record.record])
  IN  [name \in {f[1] : f \in fields} \cup {"record"} |->
         IF name = "record" THEN record.record ELSE Each(CHOOSE f \in fields : f[1] = name)]

Intact(record) == ~Unwritable(record) /\ ~\E f \in ToSet(Schema[record.record]) :
                                            f[2] = "string" /\ HasReturn(record[f[1]])

\* A damage that leaves the line one the schema allows: another value of the
\* same type, a point fewer where nothing else counts them, another path, or
\* what a sidecar need not say left out.
Slipped ==
  \/ spoiled.how \in {"other", "handle", "expanded"} /\ spoiled.key # "i"
  \/ spoiled.how = "shorter" /\ emission.records[spoiled.line].record # "polyline"
  \/ spoiled.how = "keyless" /\ spoiled.file = "sidecar" /\ spoiled.key \in {"t", "x", "d"}

\* Two neighbouring records that their entries do not tell apart.
Alike(n) ==
  \/ emission.records[n].record = emission.records[n + 1].record
  \/ emission.sidecar[n].t = "none" /\ emission.sidecar[n + 1].t = "none"

\* What is read is what the engine emitted, record for record and entry for
\* entry but for the spelling of zero, whatever one thing happened to the
\* files - with two exceptions, which no reader of them could notice.  A value
\* that became another legal one is read as that one, and everything else is
\* as it was; two neighbouring records are read in the order they lie in,
\* if their entries do not name two kinds.  So a line that is lost, repeated,
\* moved to another kind's place or not what the schema allows is never taken
\* for a drawing, and no number that is not finite gets through.
ReadIsEmitted ==
  state = "read" =>
    LET written == [stream |-> [n \in DOMAIN emission.records |-> Spelled(emission.records[n])],
                    sidecar |-> emission.sidecar]
        read == [stream |-> parsed.records, sidecar |-> parsed.entries]
        n == spoiled.line
    IN  /\ \/ read = written
           \/ /\ Slipped
              /\ read = [written EXCEPT ![spoiled.file][n][spoiled.key] = read[spoiled.file][n][spoiled.key]]
           \/ /\ spoiled.how = "swapped" /\ spoiled.file = "stream" /\ Alike(n)
              /\ read = [written EXCEPT !.stream = Swapped(@, n)]
        /\ \A m \in DOMAIN emission.records :
             Intact(emission.records[m]) \/ (Slipped /\ spoiled.file = "stream" /\ m = n)

\* The line of the sidecar that shows what was done to it; none is left to
\* show that the last was lost, and the error is of the file, as line 0.
Shows ==
  CASE spoiled.how = "lost" /\ spoiled.line = Len(emission.sidecar) -> 0
    [] spoiled.how = "doubled" -> spoiled.line + 1
    [] OTHER -> spoiled.line

\* A refusal leads to what is wrong.  Either the line is one the engine wrote,
\* of a record with a carriage return in one of its own texts; or a file was
\* touched, and the refusal is of the line that was altered, of the line of
\* the sidecar that is the first out of place, or, where a line of the stream
\* came, went or moved, of the sidecar: of a line not before that one, or of
\* its length.  Nothing else is ever refused, so what the engine wrote
\* otherwise is read.
RefusalLeadsToTheDamage ==
  state = "refused" =>
    \/ /\ refusal.file = "stream"
       /\ \E n \in DOMAIN emission.records :
            /\ ~Intact(emission.records[n])
            /\ files.stream[refusal.line] = RenderRecord(emission.records[n])
    \/ /\ spoiled # Untouched
       /\ CASE spoiled.file = "sidecar" -> refusal.file = "sidecar" /\ refusal.line = Shows
            [] spoiled.file = "stream" /\ spoiled.how = "swapped" ->
                 refusal.file = "sidecar" /\ refusal.line \in {spoiled.line, spoiled.line + 1}
            [] spoiled.file = "stream" /\ spoiled.how \in {"lost", "doubled"} ->
                 refusal.file = "sidecar" /\ (refusal.line = 0 \/ refusal.line >= spoiled.line)
            [] OTHER -> refusal.file = "stream" /\ refusal.line = spoiled.line

\* The items of some kinds that a walk saw, view by view.
ItemsOf(views, kinds) ==
  FlattenSeq([v \in DOMAIN views |->
    FlattenSeq([n \in DOMAIN views[v].items |->
      IF views[v].items[n].item \in kinds THEN <<views[v].items[n]>> ELSE <<>>])])

\* Nothing the library's walk saw is dropped on the way to the stream: the
\* primitives of each view in order, mapped or said, then each warning and
\* each record this suite does not know, under the handle they came with.
WireIsKept ==
  wire # NoWire /\ state = "written" =>
    LET ordered == InOrder(wire.views)
        Handle(item) == IF item.item = "unknown" THEN 0 ELSE item.handle
        prims == ItemsOf(ordered, {"primitive"})
        said == ItemsOf(ordered, {"warning", "unknown"})
        first == 1 + Len(ordered)
        last == first + Len(prims)
        Handles(n) == emission.sidecar[n].h
    IN  /\ Len(emission.records) = last + Len(said)
        /\ \A n \in DOMAIN prims :
             /\ Handles(first + n) = <<prims[n].handle>>
             /\ emission.records[first + n].record \in {prims[n].kind, "warning"}
             /\ emission.records[first + n].record # "warning" =>
                  prims[n] \in ToSet(ordered[emission.records[first + n].view + 1].items)
        /\ \A n \in (last + 1)..Len(emission.records) : emission.records[n].record = "warning"
        /\ \A h \in {Handle(said[n]) : n \in DOMAIN said} :
             Cardinality({n \in DOMAIN said : Handle(said[n]) = h})
               = Cardinality({n \in (last + 1)..Len(emission.records) : Handles(n) = <<h>>})
=============================================================================
