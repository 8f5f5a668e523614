------------------------------- MODULE Model1 -------------------------------
(***************************************************************************)
(* The model-1 stream: src/acadrust_model1.rs turns a document's header,   *)
(* tables and objects into records, keyed by what they are, and            *)
(* src/model1.rs writes them to a file and reads it back.  The file may be *)
(* damaged in one place while it lies there.                               *)
(*                                                                         *)
(* Of the many fields of one type that a kind of record has, one is kept   *)
(* here; a field that is computed is kept whatever its type.               *)
(***************************************************************************)
EXTENDS Dictionaries, SequencesExt

CONSTANTS
  Comparable, \* the documents of drawings with frozen truths
  Damaged,    \* the documents whose file may be damaged
  NaN,        \* a number that is not finite
  NegZero     \* the zero with a sign

C == INSTANCE Canonical

VARIABLES
  stdin,     \* the drawing is a writer's output, not a fixture
  phase,     \* "walking", "unread", "skipped", "failed", "written",
             \* "reading", "read" or "refused"
  file,      \* the lines of the file
  damage,    \* what happened to it
  read       \* the records read so far

modelVars == <<doc, walkVars, stdin, phase, file, damage, read>>

-----------------------------------------------------------------------------
(* Values and the fields of each kind. *)

Whole(v) == C!Value("int", v)
Str(v) == C!Value("string", v)
Double(v) == C!Value("double", v)
Bool(v) == C!Value("bool", v)
Flag(v) == Whole(IF v THEN 1 ELSE 0)
Absent == C!Value("null", 0)

Element ==
  [segment |-> <<<<"length", "double">>, <<"flags", "int">>, <<"shape_number", "int">>,
                 <<"offset", "point2">>, <<"text", "string">>, <<"style", "string">>>>,
   entry   |-> <<<<"key", "string">>, <<"class", "string">>>>,
   coded   |-> <<<<"code", "int">>, <<"value", "scalar">>>>]

Schema ==
  [layer        |-> <<<<"flags", "int">>, <<"color", "int">>, <<"true_color", "int">>,
                      <<"on", "bool">>, <<"linetype", "string">>>>,
   linetype     |-> <<<<"description", "string">>, <<"pattern_length", "double">>, <<"segments", "segment">>>>,
   textstyle    |-> <<<<"font_file", "string">>, <<"height", "double">>, <<"annotative", "bool">>>>,
   dimstyle     |-> <<<<"$DIMPOST", "string">>, <<"$DIMSCALE", "double">>, <<"$DIMCLRD", "int">>,
                      <<"$DIMLDRBLK", "string">>, <<"$DIMLTYPE", "string">>, <<"annotative", "bool">>>>,
   block_record |-> <<<<"flags", "int">>, <<"base_point", "point3">>, <<"xref_path", "string">>,
                      <<"entity_count", "int">>, <<"layout", "string">>>>,
   layout       |-> <<<<"tab_order", "int">>, <<"min_limits", "point2">>, <<"elevation", "double">>,
                      <<"block_record", "string">>>>,
   dictionary   |-> <<<<"hard_owner", "bool">>, <<"cloning", "int">>, <<"entries", "entry">>,
                      <<"entry_count", "int">>>>,
   xdata        |-> <<<<"owner", "string">>, <<"appid", "string">>, <<"values", "coded">>>>,
   xrecord      |-> <<<<"cloning", "int">>, <<"entries", "coded">>>>]

Names(fields) == {fields[n][1] : n \in DOMAIN fields}

KIND_ORDER == <<"header", "layer", "linetype", "textstyle", "dimstyle", "block_record", "layout",
                "dictionary", "xdata", "xrecord">>

Record(kind, name, values) == [kind |-> kind, name |-> name, values |-> values]

-----------------------------------------------------------------------------
(* The document as records. *)

\* A return, and the line feed after it if there is one, become a line feed.
Normal(text) ==
  FoldLeftDomain(LAMBDA done, n :
    IF text[n] = "\n" /\ n > 1 /\ text[IF n > 1 THEN n - 1 ELSE 1] = "\r" THEN done
    ELSE Append(done, IF text[n] = "\r" THEN "\n" ELSE text[n]), <<>>, text)

\* The index of a colour; a true colour has none.
Color(c) == IF c.rgb THEN -1 ELSE c.v

HeaderValue(name) ==
  LET h == doc.header
  IN  CASE name = "$ANGBASE" -> Double(h.real)
        [] name = "$AUNITS" -> Whole(h.whole)
        [] name = "$BLIPMODE" -> Flag(h.flag)
        [] name = "$CAMERADISPLAY" -> Bool(h.flag)
        [] name = "$CECOLOR" -> Whole(Color(h.color))
        [] name = "$CLAYER" -> Str(Normal(h.text))
        [] name = "$EXTMAX" -> C!Value("point3", h.corner)
        [] name = "$LIMMAX" -> C!Value("point2", h.limit)

\* Where a handle is resolved to the name it has in a table, if any.
NameIn(rows, h) ==
  LET found == {n \in DOMAIN rows : rows[n].handle = h}
  IN  IF found = {} THEN <<>> ELSE rows[CHOOSE n \in found : \A m \in found : n <= m].name

LayerOf(l) ==
  Record("layer", l.name,
    [flags |-> Whole((IF l.frozen THEN 1 ELSE 0) + (IF l.frozen_new THEN 2 ELSE 0) + (IF l.locked THEN 4 ELSE 0)),
     color |-> Whole(Color(l.color)),
     true_color |-> Whole(IF l.color.rgb THEN l.color.v ELSE -1),
     on |-> Bool(~l.off), linetype |-> Str(l.linetype)])

\* A segment's flags are rebuilt from what the reader holds: 1 for an absolute
\* rotation, 2 for a text, 4 for a shape.
SegmentOf(e) ==
  CASE e.complex = "none" ->
         [length |-> Double(e.length), flags |-> Whole(0), shape_number |-> Whole(0),
          offset |-> C!Value("point2", <<0, 0>>), text |-> Str(<<>>), style |-> Str(<<>>)]
    [] e.complex # "none" ->
         [length |-> Double(e.length),
          flags |-> Whole((IF e.complex = "shape" THEN 4 ELSE 2) + (IF e.absolute THEN 1 ELSE 0)),
          shape_number |-> Whole(IF e.complex = "shape" THEN e.number ELSE 0),
          offset |-> C!Value("point2", e.offset),
          text |-> Str(IF e.complex = "shape" THEN <<>> ELSE e.text),
          style |-> Str(NameIn(doc.textstyles, e.style))]

LinetypeOf(l) ==
  Record("linetype", l.name,
    [description |-> Str(l.description), pattern_length |-> Double(l.length),
     segments |-> C!Value("list", [n \in DOMAIN l.elements |-> SegmentOf(l.elements[n])])])

TextstyleOf(t) ==
  Record("textstyle", t.name,
    [font_file |-> Str(t.font), height |-> Double(t.height), annotative |-> Bool(t.annotative)])

DimstyleOf(d) ==
  Record("dimstyle", d.name,
    [key \in Names(Schema.dimstyle) |->
       CASE key = "$DIMPOST" -> Str(d.post)
         [] key = "$DIMSCALE" -> Double(d.scale)
         [] key = "$DIMCLRD" -> Whole(Color(d.color))
         [] key = "$DIMLDRBLK" -> Str(NameIn(doc.blocks, d.block))
         [] key = "$DIMLTYPE" -> Str(NameIn(doc.linetypes, d.linetype))
         [] key = "annotative" -> Bool(d.annotative)])

\* An entry with no name cannot be keyed: it has no record.
Named(rows) == FlattenSeq([n \in DOMAIN rows |-> IF rows[n].name = <<>> THEN <<>> ELSE <<rows[n]>>])

Layouts ==
  LET handles == SetToSeq(LayoutsOf(doc))
  IN  [n \in DOMAIN handles |-> doc.objects[handles[n]]]

BlockOf(b) ==
  Record("block_record", b.name,
    [flags |-> Whole((IF b.anonymous THEN 1 ELSE 0) + (IF b.attributes THEN 2 ELSE 0) + (IF b.xref THEN 4 ELSE 0)),
     base_point |-> C!Value("point3", b.base), xref_path |-> Str(Normal(b.path)),
     entity_count |-> Whole(Len(b.entities)),
     layout |-> Str(IF b.layout # 0 /\ b.layout \in LayoutsOf(doc) THEN doc.objects[b.layout].name ELSE <<>>)])

LayoutOf(l) ==
  Record("layout", l.name,
    [tab_order |-> Whole(l.tab), min_limits |-> C!Value("point2", l.limit), elevation |-> Double(l.elevation),
     block_record |-> Str(IF l.block = 0 THEN <<>> ELSE NameIn(doc.blocks, l.block))])

\* The entries whose handle names an object.
Resolved(entries, objects) == SelectSeq(entries, LAMBDA e : e.handle \in DOMAIN objects)

DictionaryOf(d) ==
  LET o == doc.objects[d.handle]
      found == Resolved(o.entries, doc.objects)
      listed == InTextOrder(found, [n \in DOMAIN found |-> found[n].key])
  IN  Record("dictionary", d.path,
        [hard_owner |-> Bool(o.hard_owner), cloning |-> Whole(o.cloning),
         entries |-> C!Value("list", [n \in DOMAIN listed |->
           [key |-> Str(listed[n].key), class |-> Str(<<doc.objects[listed[n].handle].class>>)]]),
         entry_count |-> Whole(Len(listed))])

\* A value beside its group code; a handle and bytes are written as digits, a
\* Boolean as a number.
CodedValue(x) ==
  [code |-> Whole(x.code),
   value |-> CASE x.form = "text" -> Str(Normal(x.text))
               [] x.form = "handle" -> Str(x.handle)
               [] x.form = "point" -> C!Value("point3", x.point)
               [] x.form = "real" -> Double(x.real)
               [] x.form = "flag" -> Flag(x.flag)
               [] x.form = "whole" -> Whole(x.whole)]

HandleCode(code) == code \in {5, 105, 1005} \cup 320..369 \cup 390..399 \cup 480..481

\* A group's handles are told by their codes, and are gone through last.
HandlesLast(values) ==
  SelectSeq(values, LAMBDA v : ~HandleCode(v.code)) \o SelectSeq(values, LAMBDA v : HandleCode(v.code))

XRecordOf(x) ==
  LET o == doc.objects[x.handle]
      last == HandlesLast(o.values)
  IN  Record("xrecord", x.path,
        [cloning |-> Whole(o.cloning), entries |-> C!Value("list", [n \in DOMAIN last |-> CodedValue(last[n])])])

XDataOf(owner, appid, values) ==
  Record("xdata", owner \o <<"|">> \o appid,
    [owner |-> Str(owner), appid |-> Str(appid),
     values |-> C!Value("list", [n \in DOMAIN values |-> CodedValue(values[n])])])

\* Who owns an object's or a table entry's extended data, if anyone: objects
\* by where the walk met them.
OwnerOf(node) ==
  IF node.of # "object" THEN OwnerPath(node)
  ELSE IF node.handle \in DOMAIN tree.owners THEN tree.owners[node.handle] ELSE NoPath

\* The entities' extended data, and that of what has an owner to be named by.
XData ==
  FlattenSeq([n \in DOMAIN doc.entities |->
    LET e == doc.entities[n]
    IN  [i \in DOMAIN e.xdata |-> XDataOf(<<"entity", "/">> \o e.handle, e.xdata[i].appid, e.xdata[i].values)]]) \o
  FlattenSeq([n \in DOMAIN doc.xdata |->
    LET x == doc.xdata[n]
    IN  IF OwnerOf(x.node) = NoPath THEN <<>> ELSE <<XDataOf(OwnerOf(x.node), x.appid, x.values)>>])

All(rows, Of(_)) == [n \in DOMAIN rows |-> Of(rows[n])]

\* By kind, in the order in which they are written.
Records(kind) ==
  CASE kind = "header" ->
         [n \in DOMAIN HeaderNames |-> Record("header", <<HeaderNames[n]>>, [value |-> HeaderValue(HeaderNames[n])])]
    [] kind = "layer" -> All(doc.layers, LayerOf)
    [] kind = "linetype" -> All(doc.linetypes, LinetypeOf)
    [] kind = "textstyle" -> All(Named(doc.textstyles), TextstyleOf)
    [] kind = "dimstyle" -> All(Named(doc.dimstyles), DimstyleOf)
    [] kind = "block_record" -> All(doc.blocks, BlockOf)
    [] kind = "layout" -> All(Layouts, LayoutOf)
    [] kind = "dictionary" -> All(tree.dictionaries, DictionaryOf)
    [] kind = "xdata" -> XData
    [] kind = "xrecord" -> All(tree.xrecords, XRecordOf)

-----------------------------------------------------------------------------
(* The writer. *)

RenderScalar(v) ==
  CASE v.t = "double" -> C!WriteReal(v.v)
    [] v.t \in {"point2", "point3"} -> C!Value("array", [n \in DOMAIN v.v |-> C!WriteReal(v.v[n])])
    [] OTHER -> v

RenderFields(fields, values) ==
  [n \in DOMAIN fields |-> <<fields[n][1], RenderScalar(values[fields[n][1]])>>]

RenderTyped(type, v) ==
  IF type \in DOMAIN Element
  THEN C!Value("list", [n \in DOMAIN v.v |-> RenderFields(Element[type], v.v[n])])
  ELSE RenderScalar(v)

Finite(v) == CASE v.t = "double" -> v.v # NaN
               [] v.t \in {"point2", "point3"} -> \A n \in DOMAIN v.v : v.v[n] # NaN
               [] OTHER -> TRUE

\* What the writer accepts for a field: nothing stored is accepted for all but
\* a list.
Writable(type, v) ==
  CASE type \in DOMAIN Element ->
         v.t = "list" /\ \A n \in DOMAIN v.v : \A m \in DOMAIN Element[type] :
                           Finite(v.v[n][Element[type][m][1]])
    [] type = "scalar" -> v.t \in {"null", "string", "int", "double", "point3"} /\ Finite(v)
    [] OTHER -> v.t \in {"null", type} /\ Finite(v)

WritableRecord(r) ==
  IF r.kind = "header" THEN Finite(r.values.value)
  ELSE \A n \in DOMAIN Schema[r.kind] : Writable(Schema[r.kind][n][2], r.values[Schema[r.kind][n][1]])

RenderRecord(r) ==
  [json |-> "object", cr |-> FALSE, ends |-> TRUE,
   keys |-> <<<<"model", Whole(1)>>, <<"record", Str(<<r.kind>>)>>, <<"name", Str(r.name)>>>> \o
     IF r.kind = "header"
     THEN <<<<"type", Str(<<r.values.value.t>>)>>, <<"value", RenderScalar(r.values.value)>>>>
     ELSE [n \in DOMAIN Schema[r.kind] |->
             LET f == Schema[r.kind][n] IN <<f[1], RenderTyped(f[2], r.values[f[1]])>>]]

\* By kind and then by key.
InNameOrder(records) == InTextOrder(records, [n \in DOMAIN records |-> records[n].name])

Sorted == FlattenSeq([n \in DOMAIN KIND_ORDER |-> InNameOrder(Records(KIND_ORDER[n]))])

SameKey(r, s) == r.kind = s.kind /\ r.name = s.name

\* Two records of one key, or a number that is not finite, and there is no
\* stream.
Unwritable(records) ==
  \/ \E n \in 2..Len(records) : SameKey(records[n - 1], records[n])
  \/ \E n \in DOMAIN records : ~WritableRecord(records[n])

-----------------------------------------------------------------------------
(* The reader. *)

Bad == C!Value("bad", 0)

IsBad(v) == v.t = "bad"

IsNumber(j) == j.t \in {"int", "real"}

Numbers(j, count) == j.t = "array" /\ Len(j.v) = count /\ \A n \in DOMAIN j.v : IsNumber(j.v[n])

Point(name, j) == C!Value(name, [n \in DOMAIN j.v |-> j.v[n].v])

ParseScalar(type, j) ==
  CASE j.t = "null" -> Absent
    [] type = "double" /\ IsNumber(j) -> Double(j.v)
    [] type = "point2" /\ Numbers(j, 2) -> Point("point2", j)
    [] type \in {"point3", "scalar"} /\ Numbers(j, 3) -> Point("point3", j)
    [] type = "scalar" /\ j.t = "real" -> Double(j.v)
    [] type \in {"string", "int", "bool"} /\ j.t = type -> j
    [] type = "scalar" /\ j.t \in {"string", "int"} -> j
    [] OTHER -> Bad

KeySet(keys) == {keys[n][1] : n \in DOMAIN keys}

ValueOf(keys, key) == C!Get([keys |-> keys], key)

TypeOf(fields, key) == fields[CHOOSE n \in DOMAIN fields : fields[n][1] = key][2]

ParseFields(fields, keys) ==
  [key \in Names(fields) |-> ParseScalar(TypeOf(fields, key), ValueOf(keys, key))]

\* A list holds objects of exactly its element's fields.
ParseTyped(type, j) ==
  CASE type \notin DOMAIN Element -> ParseScalar(type, j)
    [] type \in DOMAIN Element /\ j.t = "list" ->
         LET items == [n \in DOMAIN j.v |-> ParseFields(Element[type], j.v[n])]
         IN  IF \E n \in DOMAIN j.v : KeySet(j.v[n]) # Names(Element[type])
                                      \/ \E key \in Names(Element[type]) : IsBad(items[n][key])
             THEN Bad ELSE C!Value("list", items)
    [] OTHER -> Bad

NoRecord == Record("none", <<>>, <<>>)

HeaderTypes == {"string", "int", "double", "bool", "point2", "point3"}

ParsedHeader(line) ==
  LET value == ParseScalar(C!Get(line, "type").v[1], C!Get(line, "value"))
  IN  IF \/ C!Keys(line) # {"model", "record", "name", "type", "value"}
         \/ C!Get(line, "type").t # "string"
         \/ C!Get(line, "type").v \notin {<<type>> : type \in HeaderTypes}
      THEN NoRecord
      ELSE IF IsBad(value) THEN NoRecord
      ELSE Record("header", C!Get(line, "name").v, [value |-> value])

ParsedEntry(line, kind) ==
  LET fields == Schema[kind]
      values == [key \in Names(fields) |-> ParseTyped(TypeOf(fields, key), C!Get(line, key))]
  IN  IF C!Keys(line) # Names(fields) \cup {"model", "record", "name"} THEN NoRecord
      ELSE IF \E key \in Names(fields) : IsBad(values[key]) THEN NoRecord
      ELSE Record(kind, C!Get(line, "name").v, values)

Parsed(line) ==
  LET Has(key, type) == key \in C!Keys(line) /\ C!Get(line, key).t = type
      kind == IF Has("record", "string") THEN C!Get(line, "record").v[1] ELSE ""
  IN  CASE line.json # "object" \/ ~Has("model", "int") \/ ~Has("name", "string") -> NoRecord
        [] OTHER -> IF C!Get(line, "model").v # 1 THEN NoRecord
                    ELSE IF kind = "header" THEN ParsedHeader(line)
                    ELSE IF kind \in DOMAIN Schema THEN ParsedEntry(line, kind) ELSE NoRecord

KindIndex(kind) == CHOOSE n \in DOMAIN KIND_ORDER : KIND_ORDER[n] = kind

After(r, last) ==
  \/ KindIndex(r.kind) > KindIndex(last.kind)
  \/ r.kind = last.kind /\ Before(last.name, r.name)

\* Mutant: how the line is spelled is not checked.
AcceptedAnySpelling(line, before) ==
  LET r == Parsed(line)
  IN  r.kind # "none" /\ (before = <<>> \/ After(r, before[Len(before)])) /\ WritableRecord(r)

\* A line is accepted when it is what the writer would write for what it says,
\* and comes after the one before.
Accepted(line, before) ==
  LET r == Parsed(line)
  IN  /\ r.kind # "none"
      /\ before = <<>> \/ After(r, before[Len(before)])
      /\ WritableRecord(r)
      /\ RenderRecord(r).keys = line.keys

-----------------------------------------------------------------------------
(* The steps. *)

Untouched == [line |-> 0, how |-> "", key |-> ""]

\* The document is given, and how it came.
ModelInit ==
  /\ Begun
  /\ phase = "walking" /\ file = <<>> /\ damage = Untouched /\ read = <<>>

\* The reader refuses the drawing: nothing is written.
RefuseToRead ==
  /\ phase = "walking" /\ ~doc.readable
  /\ phase' = "unread"
  /\ UNCHANGED <<doc, walkVars, stdin, file, damage, read>>

WalkStep ==
  /\ phase = "walking" /\ doc.readable /\ WalkNext
  /\ UNCHANGED <<stdin, phase, file, damage, read>>

\* A stream that cannot be written is passed over, unless it is one that will
\* be compared.
Write ==
  /\ phase = "walking" /\ doc.readable /\ TreeIsWalked
  /\ \E sorted \in {Sorted} :
       IF Unwritable(sorted)
       THEN /\ phase' = IF stdin \/ doc \notin Comparable THEN "skipped" ELSE "failed"
            /\ UNCHANGED file
       ELSE /\ phase' = "written"
            /\ file' = [n \in DOMAIN sorted |-> RenderRecord(sorted[n])]
  /\ UNCHANGED <<doc, walkVars, stdin, damage, read>>

\* One thing that happens to a line, key by key where a key is named.
Became(value, how) ==
  CASE how = "null" -> Absent
    [] how = "integer" -> [value EXCEPT !.t = "int"]
    [] how = "negative zero" -> C!Value("real", NegZero)
    [] how = "shorter" -> [value EXCEPT !.v = Tail(@)]
    [] how = "next" -> Whole(2)
    [] how = "element" -> [value EXCEPT !.v[1] = Tail(@)]
    [] how = "swapped" -> [value EXCEPT !.v[1] = <<value.v[1][2], value.v[1][1]>> \o SubSeq(@, 3, Len(@))]

Altered(line, n, how) ==
  CASE how \in {"junk", "array"} -> [line EXCEPT !.json = how]
    [] how = "carriage return" -> [line EXCEPT !.cr = TRUE]
    [] how = "unended" -> [line EXCEPT !.ends = FALSE]
    [] how = "lost key" -> [line EXCEPT !.keys = SubSeq(@, 1, n - 1) \o SubSeq(@, n + 1, Len(@))]
    [] how = "keys swapped" -> [line EXCEPT !.keys[n] = line.keys[n + 1], !.keys[n + 1] = line.keys[n]]
    [] how = "key twice" -> [line EXCEPT !.keys = Append(@, line.keys[n])]
    [] OTHER -> [line EXCEPT !.keys[n][2] = Became(@, how)]

WaysOf(key, value) ==
  {"null", "lost key", "key twice"} \cup
  CASE value.t = "real" -> {"integer", "negative zero"}
    [] value.t = "array" -> {"shorter"}
    [] value.t = "list" -> IF value.v = <<>> THEN {} ELSE {"shorter", "element", "swapped"}
    [] OTHER -> IF key = "model" THEN {"next"} ELSE {}

Ways(line, last) ==
  {<<how, 1>> : how \in {"junk", "array", "carriage return"} \cup IF last THEN {"unended"} ELSE {}}
  \cup UNION {{<<how, n>> : how \in WaysOf(line.keys[n][1], line.keys[n][2])} : n \in DOMAIN line.keys}
  \cup {<<"keys swapped", n>> : n \in 1..(Len(line.keys) - 1)}

Damage ==
  /\ phase = "written" /\ ~stdin /\ doc \in Comparable \cap Damaged
  /\ \E n \in DOMAIN file :
       \/ \E way \in Ways(file[n], n = Len(file)) :
            /\ file' = [file EXCEPT ![n] = Altered(file[n], way[2], way[1])]
            /\ damage' = [line |-> n, how |-> way[1], key |-> file[n].keys[way[2]][1]]
       \/ /\ file' = SubSeq(file, 1, n - 1) \o SubSeq(file, n + 1, Len(file))
          /\ damage' = [line |-> n, how |-> "lost", key |-> ""]
       \/ /\ file' = SubSeq(file, 1, n) \o SubSeq(file, n, Len(file))
          /\ damage' = [line |-> n, how |-> "doubled", key |-> ""]
       \/ /\ n < Len(file)
          /\ file' = [file EXCEPT ![n] = file[n + 1], ![n + 1] = file[n]]
          /\ damage' = [line |-> n, how |-> "lines swapped", key |-> ""]
  /\ phase' = "reading"
  /\ UNCHANGED <<doc, walkVars, stdin, read>>

\* A carriage return anywhere, or no final line feed, is refused before the
\* first line is looked at.
OpenFile ==
  /\ phase = "written" /\ ~stdin /\ doc \in Comparable /\ phase' = "reading"
  /\ UNCHANGED <<doc, walkVars, stdin, file, damage, read>>

ReadLine ==
  /\ phase = "reading" /\ Len(read) < Len(file)
  /\ LET line == file[Len(read) + 1]
         whole == \A n \in DOMAIN file : ~file[n].cr /\ file[n].ends
     IN  IF whole /\ Accepted(line, read)
         THEN read' = Append(read, Parsed(line)) /\ UNCHANGED phase
         ELSE phase' = "refused" /\ UNCHANGED read
  /\ UNCHANGED <<doc, walkVars, stdin, file, damage>>

EndOfFile ==
  /\ phase = "reading" /\ Len(read) = Len(file) /\ phase' = "read"
  /\ UNCHANGED <<doc, walkVars, stdin, file, damage, read>>

ModelNext == RefuseToRead \/ WalkStep \/ Write \/ Damage \/ OpenFile \/ ReadLine \/ EndOfFile

-----------------------------------------------------------------------------

\* What a value is once it has been written and read: a zero has no sign.
Spelled(v) ==
  LET Zero(x) == IF x = NegZero THEN 0 ELSE x
  IN  CASE v.t = "double" -> [v EXCEPT !.v = Zero(@)]
        [] v.t \in {"point2", "point3"} -> [v EXCEPT !.v = [n \in DOMAIN @ |-> Zero(@[n])]]
        [] OTHER -> v

SpelledRecord(r) ==
  [r EXCEPT !.values = [key \in DOMAIN @ |->
     IF @[key].t = "list"
     THEN [@[key] EXCEPT !.v = [n \in DOMAIN @ |-> [f \in DOMAIN @[n] |-> Spelled(@[n][f])]]]
     ELSE Spelled(@[key])]]

\* What is read back is what was written, record for record: damage to a line
\* is refused or, where a value was blanked, read as not stored, and a file
\* that nothing happened to is accepted.  A line that is gone is not noticed:
\* the stream carries no count.
Model1ReadIsWritten ==
  /\ phase = "read" =>
       \A written \in {[n \in DOMAIN sorted |-> SpelledRecord(sorted[n])] : sorted \in {Sorted}} :
         LET OnlyThereIs(value) ==
               /\ Len(read) = Len(written)
               /\ \A n \in DOMAIN read \ {damage.line} : read[n] = written[n]
               /\ read[damage.line] = [written[damage.line] EXCEPT !.values[damage.key] = value]
         IN  CASE damage = Untouched -> read = written
               [] damage.how = "lost" ->
                    read = SubSeq(written, 1, damage.line - 1) \o SubSeq(written, damage.line + 1, Len(written))
               [] damage.how = "null" -> written[damage.line].kind # "header" /\ OnlyThereIs(Absent)
               [] damage.how = "shorter" ->
                    \E list \in {written[damage.line].values[damage.key]} :
                      list.t = "list" /\ OnlyThereIs([list EXCEPT !.v = Tail(@)])
               [] OTHER -> FALSE
  /\ phase = "refused" => damage # Untouched

\* Names that keep every record's key apart: none empty, none with a separator
\* in it, none twice in its table, its dictionary or on its owner.
PlainDoc ==
  LET NamesOf(rows) == [n \in DOMAIN rows |-> rows[n].name]
  IN  /\ PlainKeys /\ PlainStarts
      /\ \A rows \in {doc.layers, doc.linetypes, doc.textstyles, doc.dimstyles, doc.blocks, Layouts} :
           Apart(NamesOf(rows))
      /\ \A m, n \in DOMAIN doc.xdata :
           /\ PlainOwner(doc.xdata[n].node)
           /\ doc.xdata[m].node = doc.xdata[n].node /\ doc.xdata[m].appid = doc.xdata[n].appid => m = n
      /\ \A m, n \in DOMAIN doc.entities :
           PlainName(doc.entities[n].handle) /\ (doc.entities[m].handle = doc.entities[n].handle => m = n)
      /\ \A n \in DOMAIN doc.entities : \A i, j \in DOMAIN doc.entities[n].xdata :
           doc.entities[n].xdata[i].appid = doc.entities[n].xdata[j].appid => i = j

\* A document whose names are plain is refused for a number that is not
\* finite, and for nothing else: however its dictionaries are shared, nested
\* or hung off a table, no two of its records come to one key.
RefusedOnlyForAClash ==
  phase \in {"skipped", "failed"} =>
    ~PlainDoc \/ \E stream \in {Sorted} : \E n \in DOMAIN stream : ~WritableRecord(stream[n])

\* Whatever a record of the written stream refers to by name or by path is a
\* record of that stream, but for the tables that have none and the styles
\* that have no name.
StreamIsClosed ==
  phase = "written" =>
    \A stream \in {Sorted} :
      LET Is(kind, name) == \E n \in DOMAIN stream : stream[n].kind = kind /\ stream[n].name = name
          Named_(kind, value) == value.v = <<>> \/ Is(kind, value.v)
          Owned(text) ==
            CASE text[1] \in {"dictionary", "xrecord", "layout"} -> Is(text[1], SubSeq(text, 3, Len(text)))
              [] text[1] = "table" -> text[3] \in {"appid", "view", "vport", "ucs"} \/ Len(text) = 4
                                      \/ Is(text[3], SubSeq(text, 5, Len(text)))
              [] OTHER -> TRUE
      IN  \A n \in DOMAIN stream :
            LET r == stream[n]
            IN  /\ r.kind = "xdata" => Owned(r.values.owner.v)
                /\ r.kind = "layout" => Named_("block_record", r.values.block_record)
                /\ r.kind = "block_record" => Named_("layout", r.values.layout)
                /\ r.kind = "dimstyle" => Named_("block_record", r.values["$DIMLDRBLK"])
                                          /\ Named_("linetype", r.values["$DIMLTYPE"])
=============================================================================
