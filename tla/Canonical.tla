------------------------------ MODULE Canonical ------------------------------
(***************************************************************************)
(* The canonical schema 1 of src/canonical.rs: the fields of each record,  *)
(* the writer and the reader of a line of the stream, and of a line of the *)
(* sidecar.  A line is what JSON says is on it: an object is its keys with *)
(* their values in the order written, a value its type and content.  Three *)
(* numbers that the schema spells as three keys (x, y, z of a point) are   *)
(* one value here, as is a point in an array.                              *)
(***************************************************************************)
EXTENDS Integers, Sequences, FiniteSets, TLC

CONSTANTS
  NaN,       \* a number that is not finite
  NegZero    \* the zero with a sign

\* The two zeros have two spellings.
ASSUME CanonicalAssumption == NegZero # 0

Uint(name) == <<name, "uint">>
Bool(name) == <<name, "bool">>
Real(name) == <<name, "real">>
Text(name) == <<name, "string">>
List(name) == <<name, "array">>

View == Uint("view")

\* The fields of each record, in the order in which they are written and
\* asked for.
Schema ==
  [document |-> <<Text("format"), Text("acad_version"), Uint("maintenance_version")>>,
   view     |-> <<Uint("index"), Text("name"), Text("kind")>>,
   line     |-> <<View, Real("a"), Real("b")>>,
   polyline |-> <<View, Bool("closed"), Real("normal"), List("points"), List("bulges")>>,
   circle   |-> <<View, Real("center"), Real("radius"), Real("normal")>>,
   arc      |-> <<View, Real("center"), Real("radius"), Real("start"), Real("end"), Real("normal")>>,
   ellipse  |-> <<View, Real("center"), Real("major"), Real("ratio"), Real("start"), Real("end"),
                  Real("normal")>>,
   spline   |-> <<View, Uint("degree"), Bool("closed"), Bool("periodic"), List("control_points"),
                  List("knots"), List("weights"), List("fit_points")>>,
   polygon  |-> <<View, List("points")>>,
   point    |-> <<View, Real("at")>>,
   text     |-> <<View, Real("at"), Real("height"), Real("rotation"), Real("width_factor"),
                  Text("halign"), Text("valign"), Text("style"), Text("text")>>,
   warning  |-> <<Text("category"), Text("entity_type"), Text("detail")>>]

Kinds == DOMAIN Schema

HasReturn(text) == text = "two\rlines"

Value(type, v) == [t |-> type, v |-> v]

-----------------------------------------------------------------------------
(* The writer. *)

\* A zero has one spelling.
WriteReal(v) == Value("real", IF v = NegZero THEN 0 ELSE v)

WriteValue(type, v) ==
  CASE type = "real" -> WriteReal(v)
    [] type = "array" -> Value("array", [n \in DOMAIN v |-> WriteReal(v[n])])
    [] OTHER -> Value(type, v)

\* NaN and the infinities are the one thing that cannot be written.
Unwritable(record) ==
  \E n \in DOMAIN Schema[record.record] :
    LET f == Schema[record.record][n]
    IN  \/ f[2] = "real" /\ record[f[1]] = NaN
        \/ f[2] = "array" /\ \E m \in DOMAIN record[f[1]] : record[f[1]][m] = NaN

RenderRecord(record) ==
  [json |-> "object", cr |-> FALSE, ends |-> TRUE,
   keys |-> <<<<"schema", Value("uint", 1)>>, <<"record", Value("string", record.record)>>>> \o
            [n \in DOMAIN Schema[record.record] |->
               LET f == Schema[record.record][n] IN <<f[1], WriteValue(f[2], record[f[1]])>>]]

RenderStream(records) == [n \in DOMAIN records |-> RenderRecord(records[n])]

\* An engine that has no entity types or names leaves t and d out; x is only
\* written by the one that knows what came from an insert.
RenderEntry(entry) ==
  LET Given(key, type, v) == IF v = "none" THEN <<>> ELSE <<<<key, Value(type, v)>>>>
  IN  [json |-> "object",
       keys |-> <<<<"i", Value("uint", entry.i)>>, <<"h", Value("array", entry.h)>>>> \o
                Given("t", "string", entry.t) \o Given("x", "bool", entry.x) \o
                Given("d", "string", entry.d)]

RenderSidecar(entries) == [n \in DOMAIN entries |-> RenderEntry(entries[n])]

-----------------------------------------------------------------------------
(* The reader of a line of the stream. *)

Keys(line) == {line.keys[n][1] : n \in DOMAIN line.keys}

\* An object holds what its last entry for a key says.
Get(line, key) ==
  LET last == CHOOSE n \in DOMAIN line.keys :
                /\ line.keys[n][1] = key
                /\ \A m \in DOMAIN line.keys : line.keys[m][1] = key => m <= n
  IN  line.keys[last][2]

\* A number must be visibly a double, finite, and not the negative zero.
RealFault(value) ==
  CASE value.t # "real" -> "WrongType"
    [] value.t = "real" /\ value.v = NegZero -> "NegativeZero"
    [] OTHER -> ""

StringFault(value) ==
  CASE value.t # "string" -> "WrongType"
    [] value.t = "string" /\ HasReturn(value.v) -> "CarriageReturn"
    [] OTHER -> ""

PlainFault(type, value) == IF value.t # type THEN "WrongType" ELSE ""

\* What is wrong first in a row of faults, if anything.
FirstFault(faults) ==
  LET bad == {n \in DOMAIN faults : faults[n] # ""}
  IN  IF bad = {} THEN "" ELSE faults[CHOOSE n \in bad : \A m \in bad : n <= m]

ArrayFault(value) ==
  IF value.t # "array" THEN "WrongType"
  ELSE FirstFault([n \in DOMAIN value.v |-> RealFault(value.v[n])])

FieldFault(line, f) ==
  IF f[1] \notin Keys(line) THEN "MissingField"
  ELSE LET value == Get(line, f[1])
       IN  CASE f[2] = "real" -> RealFault(value)
             [] f[2] = "string" -> StringFault(value)
             [] f[2] = "array" -> ArrayFault(value)
             [] OTHER -> PlainFault(f[2], value)

\* Mutant: bulges need not be as many as points.
RecordFaultAnyLength(line, kind) ==
  LET fields == Schema[kind]
      asked == FirstFault([n \in DOMAIN fields |-> FieldFault(line, fields[n])])
      names == {fields[n][1] : n \in DOMAIN fields} \cup {"schema", "record"}
  IN  IF asked # "" THEN asked
      ELSE IF Keys(line) \subseteq names THEN "" ELSE "UnknownField"

RecordFault(line, kind) ==
  LET fields == Schema[kind]
      asked == FirstFault([n \in DOMAIN fields |-> FieldFault(line, fields[n])])
      names == {fields[n][1] : n \in DOMAIN fields} \cup {"schema", "record"}
  IN  CASE asked # "" -> asked
        [] kind = "polyline" /\ asked = "" /\
             Len(Get(line, "points").v) # Len(Get(line, "bulges").v) -> "LengthMismatch"
        [] OTHER -> IF Keys(line) \subseteq names THEN "" ELSE "UnknownField"

HeaderFault(line) ==
  LET schema == Get(line, "schema")
  IN  CASE "schema" \notin Keys(line) -> "MissingField"
        [] "schema" \in Keys(line) /\ schema # Value("uint", 1) -> "SchemaVersion"
        [] OTHER -> IF "record" \notin Keys(line) THEN "MissingField"
                    ELSE IF Get(line, "record").t # "string" THEN "WrongType"
                    ELSE IF Get(line, "record").v \notin Kinds THEN "UnknownRecord" ELSE ""

\* Text that is not JSON, by whether it is one of the numbers the schema
\* forbids.
JsonFault(line) ==
  CASE line.json \in {"overflowing", "nan"} -> "NonFinite"
    [] line.json = "junk" -> "NotJson"
    [] line.json = "array" -> "NotAnObject"
    [] OTHER -> ""

LineFault(line) ==
  CASE line.cr -> "CarriageReturn"
    [] ~line.cr /\ ~line.ends -> "MissingFinalNewline"
    [] ~line.cr /\ line.ends /\ line.json = "empty" -> "EmptyLine"
    [] OTHER -> IF JsonFault(line) # "" THEN JsonFault(line)
                ELSE IF HeaderFault(line) # "" THEN HeaderFault(line)
                ELSE RecordFault(line, Get(line, "record").v)

Content(value) ==
  IF value.t = "array" THEN [n \in DOMAIN value.v |-> value.v[n].v] ELSE value.v

ParsedRecord(line) ==
  LET kind == Get(line, "record").v
      names == {Schema[kind][n][1] : n \in DOMAIN Schema[kind]}
  IN  [f \in names \cup {"record"} |-> IF f = "record" THEN kind ELSE Content(Get(line, f))]

-----------------------------------------------------------------------------
(* The reader of a line of the sidecar, against the records it is for. *)

SidecarKeys == {"i", "h", "t", "x", "d"}

\* A handle that is not upper-case hex is a negative number here.
HandlesFault(value) ==
  CASE value.t # "array" -> "WrongType"
    [] value.t = "array" /\ (\E n \in DOMAIN value.v : value.v[n] < 0) -> "BadHandle"
    [] OTHER -> IF value.v = <<>> THEN "EmptyHandlePath" ELSE ""

Optional(line, key, type) ==
  IF key \in Keys(line) THEN PlainFault(type, Get(line, key)) ELSE ""

Required(line, key, Fault(_)) ==
  IF key \in Keys(line) THEN Fault(Get(line, key)) ELSE "MissingField"

\* Mutant: a line is held against the record before its own.
EntryFaultOneOff(line, n, records) ==
  LET named == "t" \in Keys(line) /\ n - 1 \in DOMAIN records
  IN  IF ~({"i", "h"} \subseteq Keys(line)) THEN "MissingField"
      ELSE IF named /\ Get(line, "t").v # records[n - 1].record THEN "TypeDisagrees" ELSE ""

\* n is the number of the line, from 1; i counts from 0 without a gap.
EntryFault(line, n, records) ==
  LET Index(value) == IF value.t # "uint" THEN "WrongType"
                      ELSE IF value.v # n - 1 THEN "IndexGap" ELSE ""
      named == "t" \in Keys(line) /\ n \in DOMAIN records
  IN  CASE line.json = "junk" -> "NotJson"
        [] line.json = "array" -> "NotAnObject"
        [] line.json = "object" /\ ~(Keys(line) \subseteq SidecarKeys) -> "UnknownField"
        [] OTHER -> FirstFault(
             <<Required(line, "i", Index), Required(line, "h", HandlesFault),
               Optional(line, "t", "string"), Optional(line, "x", "bool"),
               IF named /\ Get(line, "t").t = "string" /\ Get(line, "t").v # records[n].record
               THEN "TypeDisagrees" ELSE "",
               Optional(line, "d", "string")>>)

ParsedEntry(line) ==
  LET Given(key) == IF key \in Keys(line) THEN Get(line, key).v ELSE "none"
  IN  [i |-> Get(line, "i").v, h |-> Get(line, "h").v, t |-> Given("t"), x |-> Given("x"), d |-> Given("d")]
=============================================================================
