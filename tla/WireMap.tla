------------------------------- MODULE WireMap -------------------------------
(***************************************************************************)
(* The adapter of src/acadsharp_emit.rs: what a walk over the native       *)
(* library's views saw becomes an emission.  The wire is flat and in world *)
(* coordinates with the normal beside them; what it does not carry is      *)
(* written as the schema's default.                                        *)
(***************************************************************************)
EXTENDS Emit, SequencesExt

\* A walk's item: its kind, and for a primitive where it came from (handle 0
\* for an item without one, and whether from an expanded insert).
WireRecord(v, p) ==
  LET n == p.normal
      angles == Sweep(p.start, p.end, 0)
      local == [i \in DOMAIN p.points |-> ToOcs(n, p.points[i])]
      center == ToOcs(n, p.center)
  IN  CASE p.kind = "line" -> LineRecord(v, p.points[1], p.points[2])
        [] p.kind = "polyline" ->
             [record |-> "polyline", view |-> v, closed |-> p.closed, normal |-> n, points |-> local,
              bulges |-> IF Len(p.bulges) = Len(local) THEN p.bulges ELSE [i \in DOMAIN local |-> 0]]
        [] p.kind = "polygon" -> [record |-> "polygon", view |-> v, points |-> p.points]
        [] p.kind = "circle" ->
             [record |-> "circle", view |-> v, center |-> center, radius |-> p.radius, normal |-> n]
        [] p.kind = "arc" ->
             [record |-> "arc", view |-> v, center |-> center, radius |-> p.radius,
              start |-> angles[1], end |-> angles[2], normal |-> n]
        [] p.kind = "ellipse" ->
             [record |-> "ellipse", view |-> v, center |-> center, major |-> ToOcs(n, p.major),
              ratio |-> p.ratio, start |-> angles[1], end |-> angles[2], normal |-> n]
        [] p.kind = "spline" ->
             [record |-> "spline", view |-> v, degree |-> 3, closed |-> p.closed, periodic |-> FALSE,
              control_points |-> p.points, knots |-> p.knots,
              weights |-> IF p.rational THEN p.weights ELSE <<>>, fit_points |-> <<>>]
        [] p.kind = "text" ->
             [record |-> "text", view |-> v, at |-> p.points[1], height |-> p.height,
              rotation |-> NormalizeAngle(p.start), width_factor |-> 1, halign |-> "left",
              valign |-> "baseline", style |-> "Standard", text |-> WithoutReturns(p.text)]

WarningRecord(category, type, detail) ==
  [record |-> "warning", category |-> category, entity_type |-> type, detail |-> detail]

\* The codes of the wire by the names acadsharp-rs gives them; 109 has none.
Category(code) ==
  CASE code \in {"UNSUPPORTED_ENTITY", "109"} -> "unsupported_entity"
    [] code = "READER_NOTIFICATION" -> "reader_notification"
    [] code = "UNRESOLVED_BLOCK" -> "missing_reference"
    [] code = "NON_UNIFORM_BLOCK_SCALE" -> "malformed_geometry"
    [] code = "NON_FINITE_GEOMETRY" -> "invalid_entity"
    [] OTHER -> "unknown"

\* A warning and the handle it came with; it becomes a record when all are
\* there.
Told(category, type, detail, handle) == [warning |-> Warn(category, type, detail), handle |-> handle]

WireWarning(w) ==
  Told(Category(w.code), IF w.code = "UNSUPPORTED_ENTITY" THEN w.names ELSE NoType, w.code, w.handle)

Row(record, handle, fromInsert) == [record |-> record, handle |-> handle, x |-> fromInsert]

Mapped == {"line", "polyline", "polygon", "circle", "arc", "ellipse", "spline", "text"}

\* A primitive of a later library is said, not dropped.
PrimitiveRow(v, p) ==
  Row(IF p.kind \in Mapped THEN WireRecord(v, p)
      ELSE WarningRecord("unknown", NoType, "wire_primitive_not_mapped"), p.handle, p.x)

\* Mutant: what has no record is dropped.
BodyOfMapped(v, items) ==
  FlattenSeq([n \in DOMAIN items |->
    IF items[n].item = "primitive" /\ items[n].kind \in Mapped
    THEN <<PrimitiveRow(v, items[n])>> ELSE <<>>])

\* The rows a view's items add to the body, and to the warnings: framing and
\* the library's own probe add none.
BodyOf(v, items) ==
  FlattenSeq([n \in DOMAIN items |->
    IF items[n].item = "primitive" THEN <<PrimitiveRow(v, items[n])>> ELSE <<>>])

WarningsOf(items) ==
  FlattenSeq([n \in DOMAIN items |->
    CASE items[n].item = "warning" -> <<WireWarning(items[n])>>
      [] items[n].item = "unknown" -> <<Told("unknown", NoType, "wire_record", 0)>>
      [] OTHER -> <<>>])

\* Every warning of the wire, in the order of the sort.
WireWarnings == <<
  <<"invalid_entity", NoType, "NON_FINITE_GEOMETRY">>,
  <<"malformed_geometry", NoType, "NON_UNIFORM_BLOCK_SCALE">>,
  <<"missing_reference", NoType, "UNRESOLVED_BLOCK">>,
  <<"reader_notification", NoType, "READER_NOTIFICATION">>,
  <<"unknown", NoType, "LATER_CODE">>,
  <<"unknown", NoType, "wire_record">>,
  <<"unsupported_entity", NoType, "109">>,
  <<"unsupported_entity", "MLINE", "UNSUPPORTED_ENTITY">>,
  <<"unsupported_entity", "WIPEOUT", "UNSUPPORTED_ENTITY">> >>

WireRank(said) == CHOOSE n \in DOMAIN WireWarnings : WireWarnings[n] = said.warning

\* Views are numbered by the index they carry, whatever order they come in.
InOrder(walks) == SortedBy(walks, LAMBDA w : w.index)

\* An unknown version is the empty string.
VersionName(code) == IF code = 0 THEN "" ELSE "AC1032"

WalkRows(version, ordered) ==
  LET document == [record |-> "document", format |-> "dwg", acad_version |-> VersionName(version),
                   maintenance_version |-> 0]
      Kind(v) == IF ordered[v].kind \in {"model", "layout"} THEN ordered[v].kind ELSE "unknown"
      heads == [v \in DOMAIN ordered |->
                  Row([record |-> "view", index |-> v - 1, name |-> ordered[v].name,
                       kind |-> Kind(v)], 0, "none")]
      Warned == FlattenSeq([v \in DOMAIN ordered |-> WarningsOf(ordered[v].items)])
  IN  <<Row(document, 0, "none")>> \o heads
        \o FlattenSeq([v \in DOMAIN ordered |-> BodyOf(v - 1, ordered[v].items)])
        \o Only({[n \in DOMAIN sorted |->
                    Row(WarningRecord(sorted[n].warning[1], sorted[n].warning[2], sorted[n].warning[3]),
                        sorted[n].handle, "none")] :
                  sorted \in {SortedBy(said, WireRank) : said \in {Warned}}})

MapWalk(version, walks) ==
  Only({[records |-> [n \in DOMAIN rows |-> rows[n].record],
         sidecar |-> [n \in DOMAIN rows |->
           [i |-> n - 1, h |-> <<rows[n].handle>>, t |-> "none", x |-> rows[n].x, d |-> "none"]]] :
          rows \in {WalkRows(version, ordered) : ordered \in {InOrder(walks)}}})

-----------------------------------------------------------------------------
(* What the library hands over: its lists are lists, its handles are not
   negative and its warnings are among those of the sort. *)

IsItem(item) ==
  /\ item.item = "primitive" =>
       /\ Lists(item, {"points"})
       /\ item.kind = "polyline" => Lists(item, {"bulges"})
       /\ item.kind = "spline" => Lists(item, {"knots", "weights"})
       /\ item.handle \in Nat
  /\ item.item = "warning" =>
       /\ item.handle \in Nat
       /\ \E n \in DOMAIN WireWarnings : WireWarnings[n] = WireWarning(item).warning

\* The views are numbered.
IsWalk(w) ==
  /\ Lists(w, {"views"})
  /\ \A n \in DOMAIN w.views :
       /\ w.views[n].index \in Nat
       /\ Lists(w.views[n], {"items"})
       /\ \A i \in DOMAIN w.views[n].items : IsItem(w.views[n].items[i])
=============================================================================
