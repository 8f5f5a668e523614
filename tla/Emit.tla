-------------------------------- MODULE Emit --------------------------------
(***************************************************************************)
(* The adapter of src/acadrust_emit.rs: a drawing that acadrust has read   *)
(* becomes a stream of canonical records and, record for record, a sidecar *)
(* naming the entity each came from.  The recursion of extract() over the  *)
(* blocks that inserts, dimensions and tables bring in is a stack of       *)
(* frames; each action is what happens for one entity, or at the end of a  *)
(* block.  Geometry is exact in Geometry.tla.                              *)
(***************************************************************************)
EXTENDS Geometry, FiniteSets, Listed

CONSTANTS
  Drawings,    \* the documents the reader may hand over
  MaxDepth,    \* how deep blocks may nest
  MaxCopies    \* how many copies an array may expand to

ASSUME EmitAssumption == MaxDepth \in Nat /\ MaxCopies \in Nat \ {0}

VARIABLES
  drawing,     \* the document: layouts, blocks, notifications, version
  view,        \* the views begun so far
  frames,      \* the blocks being expanded, the view's own first
  active,      \* the names of the blocks on the path being expanded
  at,          \* the handle path a warning raised now would carry
  head,        \* the document and view records
  sink,        \* the entity records so far, each with its path
  warnings,    \* the warnings so far, each with its path
  emission     \* the finished stream and sidecar, or <<>>

emitVars == <<drawing, view, frames, active, at, head, sink, warnings, emission>>

-----------------------------------------------------------------------------
(* Warnings: every <<category, entity_type, detail>> the adapter raises, in
   the order of the sort. *)

\* The warnings that are about no one entity.
NoType == ""

AllWarnings == <<
  <<"invalid_entity", NoType, "reader_error">>,
  <<"invalid_entity", "Hatch", "boundary_path_without_edges">>,
  <<"invalid_entity", "Hatch", "no_boundary_paths">>,
  <<"invalid_entity", "HatchSpline", "no_control_points">>,
  <<"invalid_entity", "Polyline", "no_vertices">>,
  <<"invalid_entity", "Spline", "no_control_or_fit_points">>,
  <<"malformed_geometry", "Arc", "degenerate_after_transform">>,
  <<"malformed_geometry", "Circle", "degenerate_after_transform">>,
  <<"malformed_geometry", "Ellipse", "degenerate_after_transform">>,
  <<"malformed_geometry", "HatchArc", "degenerate_after_transform">>,
  <<"malformed_geometry", "HatchEllipse", "degenerate_after_transform">>,
  <<"malformed_geometry", "Insert", "array_too_large">>,
  <<"malformed_geometry", "Insert", "cyclic_block_reference">>,
  <<"malformed_geometry", "Insert", "recursion_limit">>,
  <<"malformed_geometry", "Polyline", "non_uniform_scaled_bulge">>,
  <<"malformed_geometry", "Text", "degenerate_after_transform">>,
  <<"missing_font", NoType, "reader_font_notification">>,
  <<"missing_reference", "DIMENSION", "dimension_block_missing">>,
  <<"missing_reference", "Insert", "block_record_missing">>,
  <<"missing_reference", "Layout", "layout_without_block_record">>,
  <<"reader_notification", NoType, "reader_warning">>,
  <<"unsupported_entity", NoType, "reader_not_implemented">>,
  <<"unsupported_entity", NoType, "reader_not_supported">>,
  <<"unsupported_entity", "MLINE", "unknown_entity">>,
  <<"unsupported_entity", "VIEWPORT", "no_canonical_mapping">> >>

Warn(category, type, detail) == <<category, type, detail>>

WarningRank(w) == CHOOSE i \in DOMAIN AllWarnings : AllWarnings[i] = w

\* A stable sort by a rank: each element goes after those of a smaller rank
\* and those of its own that came first.
SortedBy(s, Rank(_)) ==
  LET Place(i, ranks) ==
        Cardinality({j \in DOMAIN ranks : \/ ranks[j] < ranks[i]
                                          \/ ranks[j] = ranks[i] /\ j <= i})
  IN  Only({[n \in DOMAIN ranks |-> s[CHOOSE i \in DOMAIN ranks : Place(i, ranks) = n]] :
              ranks \in {[i \in DOMAIN s |-> Rank(s[i])]}})

\* What the reader itself reported, by what it says or how severe it is.
Notified(n) ==
  IF n.font THEN Warn("missing_font", NoType, "reader_font_notification")
  ELSE CASE n.severity = "NotImplemented" -> Warn("unsupported_entity", NoType, "reader_not_implemented")
         [] n.severity = "NotSupported" -> Warn("unsupported_entity", NoType, "reader_not_supported")
         [] n.severity = "Error" -> Warn("invalid_entity", NoType, "reader_error")
         [] n.severity = "Warning" -> Warn("reader_notification", NoType, "reader_warning")

-----------------------------------------------------------------------------
(* What one entity that is not expanded becomes: records, and warnings.     *)

Drawn(record) == [records |-> <<record>>, warned |-> <<>>]

Refused(category, type, detail) ==
  [records |-> <<>>, warned |-> <<Warn(category, type, detail)>>]

Nothing == [records |-> <<>>, warned |-> <<>>]

Both(x, y) ==
  [records |-> x.records \o y.records, warned |-> x.warned \o y.warned]

LineRecord(v, a, b) == [record |-> "line", view |-> v, a |-> a, b |-> b]

ArcRecord(v, m, angles) ==
  [record |-> "arc", view |-> v, center |-> m.center, radius |-> m.radius,
   start |-> angles[1], end |-> angles[2], normal |-> m.normal]

EllipseRecord(v, m, ratio, angles) ==
  [record |-> "ellipse", view |-> v, center |-> m.center, major |-> m.major,
   ratio |-> ratio, start |-> angles[1], end |-> angles[2], normal |-> m.normal]

RoundCurve(center, radius, map) ==
  MapCurve(center, <<radius, 0>>, <<0, radius>>, map)

ArcOf(name, v, center, radius, start, end, map) ==
  LET Of(m, angles) ==
        IF m.degenerate THEN Refused("malformed_geometry", name, "degenerate_after_transform")
        ELSE Drawn(IF m.circular THEN ArcRecord(v, m, angles)
                   ELSE EllipseRecord(v, m, m.ratio, angles))
  IN  Only({Of(m, Sweep(start, end, m.offset)) : m \in {RoundCurve(center, radius, map)}})

CircleOf(v, e, xf) ==
  LET Of(m) ==
        IF m.degenerate THEN Refused("malformed_geometry", "Circle", "degenerate_after_transform")
        ELSE Drawn(IF m.circular
                   THEN [record |-> "circle", view |-> v, center |-> m.center,
                         radius |-> m.radius, normal |-> m.normal]
                   ELSE EllipseRecord(v, m, m.ratio, <<0, Turn>>))
  IN  Only({Of(m) : m \in {RoundCurve(e.center, e.radius, Compose(xf, ArbitraryAxis(e.normal)))}})

\* The other semi-diameter of an ellipse given by its longer one.
MinorOf(normal, major, ratio) ==
  LET side == <<-normal * major[2], normal * major[1]>>
  IN  <<(side[1] * ratio[1]) \div ratio[2], (side[2] * ratio[1]) \div ratio[2]>>

\* Parameters are measured from the longer axis: only a map that is not a
\* similarity moves them.
ParameterOffset(map, m) == IF map.similarity THEN 0 ELSE m.offset

RatioUnder(map, stored, m) == IF map.similarity THEN stored ELSE m.ratio

EllipseOf(v, e, xf) ==
  LET full == e.start = e.end \/ Magnitude(e.end - e.start) >= Turn
      Angles(offset, s) == IF full THEN <<s, s + Turn>> ELSE Sweep(e.start, e.end, offset)
      From(offset) == Angles(offset, NormalizeAngle(e.start + offset))
      Of(m) ==
        IF m.degenerate THEN Refused("malformed_geometry", "Ellipse", "degenerate_after_transform")
        ELSE Drawn(EllipseRecord(v, m, RatioUnder(xf, e.ratio, m), From(ParameterOffset(xf, m))))
  IN  Only({Of(m) : m \in {MapCurve(e.center, e.major, MinorOf(e.normal, e.major, e.ratio), xf)}})

SplineOf(v, e, xf) ==
  IF e.control = <<>> /\ e.fit = <<>>
  THEN Refused("invalid_entity", "Spline", "no_control_or_fit_points")
  ELSE Drawn([record |-> "spline", view |-> v, degree |-> e.degree, closed |-> e.closed,
              periodic |-> e.periodic, knots |-> e.knots, weights |-> e.weights,
              control_points |-> [i \in DOMAIN e.control |-> Apply(xf, e.control[i])],
              fit_points |-> [i \in DOMAIN e.fit |-> Apply(xf, e.fit[i])]])

\* bulges is cut or filled with zeroes to one per point.
PolylineOf(v, normal, local, bulges, closed, xf) ==
  LET map == Compose(xf, ArbitraryAxis(normal))
      n   == Sign(Cross(Vector(map, <<1, 0>>), Vector(map, <<0, 1>>)))
      world == IF n = 0 THEN 1 ELSE n
      per == [i \in DOMAIN local |-> IF i \in DOMAIN bulges THEN bulges[i] ELSE 0]
      bent == ~xf.similarity /\ \E i \in DOMAIN per : per[i] # 0
  IN  IF local = <<>> THEN Refused("invalid_entity", "Polyline", "no_vertices")
      ELSE [records |-> <<[record |-> "polyline", view |-> v, closed |-> closed, normal |-> world,
                           points |-> [i \in DOMAIN local |-> ToOcs(world, Apply(map, local[i]))],
                           bulges |-> per]>>,
            warned |-> IF bent THEN <<Warn("malformed_geometry", "Polyline", "non_uniform_scaled_bulge")>>
                       ELSE <<>>]

\* Corners in order, one that repeats the corner before it left out; fewer
\* than three are no polygon.
PolygonOf(v, corners, map) ==
  LET Kept[i \in 0..Len(corners)] ==
        IF i = 0 THEN <<>>
        ELSE LET before == Kept[i - 1]
                 w == Apply(map, corners[i])
             IN  IF before # <<>> /\ before[Len(before)] = w THEN before ELSE Append(before, w)
      points == Kept[Len(corners)]
  IN  IF Len(points) >= 3 THEN Drawn([record |-> "polygon", view |-> v, points |-> points])
      ELSE Nothing

\* Stored order of a SOLID's corners is 1, 2, 4, 3.
SolidCorners(c) == <<c[1], c[2], c[4], c[3]>>

\* The anchor is the second point whenever the text is aligned at all.
AnchorOf(t) ==
  IF t.halign # "left" \/ t.valign # "baseline" THEN t.aligned ELSE t.inserted

\* The two texts of the drawings that differ: one holds a carriage return.
Returned == "two\rlines"

WithoutReturns(text) == IF text = Returned THEN "two\nlines" ELSE text

TextOf(v, t, xf) ==
  LET Of(map, n, baseline, up, along) ==
      IF n = 0 THEN Refused("malformed_geometry", "Text", "degenerate_after_transform")
      ELSE Drawn([record |-> "text", view |-> v, at |-> ToOcs(n, Apply(map, AnchorOf(t))),
                  height |-> IF ~xf.similarity THEN t.height * Length(up)
                             ELSE t.height * Length(baseline),
                  rotation |-> NormalizeAngle(Atan2(along[2], along[1])),
                  width_factor |-> IF xf.similarity THEN <<t.width, 1>>
                                   ELSE <<t.width * Length(baseline), Length(up)>>,
                  halign |-> t.halign, valign |-> t.valign, style |-> t.style,
                  text |-> WithoutReturns(t.value)])
      Under(map, baseline, up) ==
        Only({Of(map, n, baseline, up, ToOcs(n, baseline)) : n \in {Sign(Cross(baseline, up))}})
  IN  Only(UNION {{Under(map, b, up) : b \in {Vector(map, Direction(t.rotation))},
                                       up \in {Vector(map, <<-Sin(t.rotation), Cos(t.rotation)>>)}} :
                    map \in {Compose(xf, ArbitraryAxis(t.normal))}})

\* One edge of a hatch's boundary.  A clockwise arc is stored with its angles
\* the other way round.
Swept(e) == IF e.ccw THEN <<e.start, e.end>> ELSE <<e.end, e.start>>

EdgeOf(v, e, map) ==
  CASE e.edge = "line" -> Drawn(LineRecord(v, Apply(map, e.a), Apply(map, e.b)))
    [] e.edge = "arc" ->
         ArcOf("HatchArc", v, e.center, e.radius, Swept(e)[1], Swept(e)[2], map)
    [] e.edge = "ellipse" ->
         LET Of(m) ==
               IF m.degenerate
               THEN Refused("malformed_geometry", "HatchEllipse", "degenerate_after_transform")
               ELSE Drawn(EllipseRecord(v, m, RatioUnder(map, e.ratio, m),
                            Sweep(Swept(e)[1], Swept(e)[2], ParameterOffset(map, m))))
         IN  Only({Of(m) : m \in {MapCurve(e.center, e.major, MinorOf(1, e.major, e.ratio), map)}})
    [] e.edge = "polyline" -> PolylineOf(v, 1, e.points, e.bulges, e.closed, map)
    [] e.edge = "spline" ->
         IF e.control = <<>> THEN Refused("invalid_entity", "HatchSpline", "no_control_points")
         ELSE SplineOf(v, e, map)

HatchOf(v, e, xf) ==
  LET map == Compose(xf, ArbitraryAxis(e.normal))
      Edges(path) ==
        LET Upto[i \in 0..Len(path)] ==
              IF i = 0 THEN Nothing ELSE Both(Upto[i - 1], EdgeOf(v, path[i], map))
        IN  IF path = <<>> THEN Refused("invalid_entity", "Hatch", "boundary_path_without_edges")
            ELSE Upto[Len(path)]
      Paths[i \in 0..Len(e.paths)] ==
        IF i = 0 THEN Nothing ELSE Both(Paths[i - 1], Edges(e.paths[i]))
  IN  IF e.paths = <<>> THEN Refused("invalid_entity", "Hatch", "no_boundary_paths")
      ELSE Paths[Len(e.paths)]

\* extract_entity() for every kind that is not expanded.  An ATTDEF inside a
\* block is the template of an attribute.
LeafOf(v, e, xf, inside) ==
  CASE e.kind \in {"SEQEND", "BLOCK", "ENDBLK"} -> Nothing
    [] e.kind = "LINE" -> Drawn(LineRecord(v, Apply(xf, e.a), Apply(xf, e.b)))
    [] e.kind = "POINT" -> Drawn([record |-> "point", view |-> v, at |-> Apply(xf, e.a)])
    [] e.kind = "ARC" ->
         ArcOf("Arc", v, e.center, e.radius, e.start, e.end, Compose(xf, ArbitraryAxis(e.normal)))
    [] e.kind = "CIRCLE" -> CircleOf(v, e, xf)
    [] e.kind = "ELLIPSE" -> EllipseOf(v, e, xf)
    [] e.kind \in {"SPLINE", "HELIX"} -> SplineOf(v, e, xf)
    [] e.kind \in {"LWPOLYLINE", "POLYLINE2D"} ->
         PolylineOf(v, e.normal, e.points, e.bulges, e.closed, xf)
    [] e.kind \in {"POLYLINE3D", "POLYLINE"} ->
         PolylineOf(v, 1, e.points, <<>>, e.closed, xf)
    [] e.kind = "SOLID" ->
         PolygonOf(v, SolidCorners(e.corners), Compose(xf, ArbitraryAxis(e.normal)))
    [] e.kind = "3DFACE" -> PolygonOf(v, e.corners, xf)
    [] e.kind = "ATTDEF" -> IF inside THEN Nothing ELSE TextOf(v, e, xf)
    [] e.kind \in {"ATTRIB", "TEXT", "MTEXT"} -> TextOf(v, e, xf)
    [] e.kind = "HATCH" -> HatchOf(v, e, xf)
    [] e.kind = "MLINE" -> Refused("unsupported_entity", "MLINE", "unknown_entity")
    [] e.kind = "VIEWPORT" -> Refused("unsupported_entity", "VIEWPORT", "no_canonical_mapping")

-----------------------------------------------------------------------------
(* The document around the entities. *)

NoBlock == "no such block"

\* A drawing without LAYOUT objects has two views all the same; the others
\* come by tab order, then by name (both are the numbers of the drawing here).
Views ==
  IF drawing.layouts = <<>>
  THEN <<[tab |-> 0, name |-> "Model", block |-> "*Model_Space"],
         [tab |-> 1, name |-> "Layout1", block |-> "*Paper_Space"]>>
  ELSE SortedBy(drawing.layouts, LAMBDA l : l.tab)

ViewKind(l) ==
  IF l.name = "Model" THEN "model" ELSE IF l.block # NoBlock THEN "layout" ELSE "unknown"

Known(block) == block \in DOMAIN drawing.blocks

\* What the library answers for the members of a block: none for one it does
\* not have.
Members(block) == IF Known(block) THEN drawing.blocks[block].members ELSE <<>>

DocumentRecord ==
  [record |-> "document", format |-> drawing.format, acad_version |-> drawing.version,
   maintenance_version |-> IF drawing.format = "dxf"
                           THEN (IF drawing.build < 0 THEN 0 ELSE drawing.build)
                           ELSE drawing.maintenance]

Framing(record) == [record |-> record, path |-> <<>>, dxf |-> "none"]

Started ==
  /\ view = 0 /\ frames = <<>> /\ active = <<>> /\ at = <<>>
  /\ head = <<Framing(DocumentRecord)>>
  /\ sink = <<>>
  /\ warnings = [i \in DOMAIN drawing.notifications |->
                   [warning |-> Notified(drawing.notifications[i]), path |-> <<>>]]
  /\ emission = <<>>

Init == drawing \in Drawings /\ Started

Top == frames[Len(frames)]

Rest == SubSeq(frames, 1, Len(frames) - 1)

\* How deep the entity being read stands: 0 in the view itself.
Depth == Len(frames) - 1

Reading == frames # <<>> /\ Top.members # <<>>

Here == Head(Top.members)

\* The frames once the entity being read is done with.
Advanced == Append(Rest, [Top EXCEPT !.members = Tail(Top.members)])

Raised(ws, path) == [i \in DOMAIN ws |-> [warning |-> ws[i], path |-> path]]

Items(records, path, dxf) ==
  [i \in DOMAIN records |-> [record |-> records[i], path |-> path, dxf |-> dxf]]

BeginView ==
  /\ emission = <<>> /\ frames = <<>> /\ view < Len(Views)
  /\ LET l == Views[view + 1]
     IN  /\ view' = view + 1
         /\ head' = Append(head, Framing([record |-> "view", index |-> view,
                                          name |-> l.name, kind |-> ViewKind(l)]))
         /\ IF l.block = NoBlock
            THEN /\ warnings' = warnings \o
                      Raised(<<Warn("missing_reference", "Layout", "layout_without_block_record")>>, at)
                 /\ frames' = frames
            ELSE /\ frames' = <<[block |-> l.block, entity |-> NoBlock, outer |-> Identity,
                                 xf |-> Identity, path |-> <<>>, saved |-> <<>>,
                                 cells |-> <<>>, members |-> Members(l.block)]>>
                 /\ warnings' = warnings
  /\ UNCHANGED <<drawing, active, at, sink, emission>>

SkipInvisible ==
  /\ Reading /\ Here.invisible
  /\ frames' = Advanced
  /\ UNCHANGED <<drawing, view, active, at, head, sink, warnings, emission>>

Expanded == {"INSERT", "DIMENSION", "TABLE"}

DrawLeaf ==
  /\ Reading /\ ~Here.invisible /\ Here.kind \notin Expanded
  /\ LET path == Append(Top.path, Here.handle)
         leaf == LeafOf(view - 1, Here, Top.xf, Depth > 0)
     IN  /\ sink' = sink \o Items(leaf.records, path, Here.kind)
         /\ warnings' = warnings \o Raised(leaf.warned, path)
  /\ frames' = Advanced
  /\ UNCHANGED <<drawing, view, active, at, head, emission>>

\* Mutant: only a block that names itself is a cycle.
RefusalOfItself(block) ==
  IF Depth >= MaxDepth THEN <<Warn("malformed_geometry", "Insert", "recursion_limit")>>
  ELSE IF active # <<>> /\ active[Len(active)] = block
       THEN <<Warn("malformed_geometry", "Insert", "cyclic_block_reference")>>
       ELSE <<>>

\* Why a block may not be entered, if it may not.
Refusal(block) ==
  IF Depth >= MaxDepth THEN <<Warn("malformed_geometry", "Insert", "recursion_limit")>>
  ELSE IF \E i \in DOMAIN active : active[i] = block
       THEN <<Warn("malformed_geometry", "Insert", "cyclic_block_reference")>>
       ELSE <<>>

\* The attributes of an insert stand in the space around it; path leads to
\* the insert, and a warning about an attribute names the insert.
Attributes(insert, path, xf) ==
  LET Own(a) == TextOf(view - 1, a, xf)
      Upto[i \in 0..Len(insert.attributes)] ==
        IF i = 0 THEN [items |-> <<>>, warned |-> <<>>]
        ELSE IF insert.attributes[i].invisible THEN Upto[i - 1]
        ELSE [items |-> Upto[i - 1].items \o
                          Items(Own(insert.attributes[i]).records,
                                Append(path, insert.attributes[i].handle), "ATTRIB"),
              warned |-> Upto[i - 1].warned \o Own(insert.attributes[i]).warned]
  IN  Upto[Len(insert.attributes)]

AtLeastOne(count) == IF count = 0 THEN 1 ELSE count

TooLarge(insert) == AtLeastOne(insert.columns) * AtLeastOne(insert.rows) > MaxCopies

\* The copies of an array, row by row; an array past the limit is one copy.
Cells(insert) ==
  LET columns == AtLeastOne(insert.columns)
  IN  IF TooLarge(insert) THEN <<<<0, 0>>>>
      ELSE [n \in 1..(columns * AtLeastOne(insert.rows)) |->
              <<(n - 1) % columns, (n - 1) \div columns>>]

\* An insert whose block is missing draws nothing at all; one whose block may
\* not be entered still draws its attributes.
RefuseInsert ==
  /\ Reading /\ ~Here.invisible /\ Here.kind = "INSERT"
  /\ ~Known(Here.block) \/ Refusal(Here.block) # <<>>
  /\ LET path == Append(Top.path, Here.handle)
         own == Attributes(Here, path, Top.xf)
     IN  IF ~Known(Here.block)
         THEN /\ warnings' = warnings \o
                   Raised(<<Warn("missing_reference", "Insert", "block_record_missing")>>, path)
              /\ sink' = sink
         ELSE /\ warnings' = warnings \o Raised(Refusal(Here.block) \o own.warned, path)
              /\ sink' = sink \o own.items
  /\ frames' = Advanced
  /\ UNCHANGED <<drawing, view, active, at, head, emission>>

Enter(block, entity, cells, xf) ==
  /\ active' = Append(active, block)
  /\ at' = Append(Top.path, entity.handle)
  /\ frames' = Append(Advanced,
       [block |-> block, entity |-> entity, outer |-> Top.xf, xf |-> xf,
        path |-> Append(Top.path, entity.handle), saved |-> at,
        cells |-> Tail(cells), members |-> Members(block)])

EnterInsert ==
  /\ Reading /\ ~Here.invisible /\ Here.kind = "INSERT"
  /\ Known(Here.block) /\ Refusal(Here.block) = <<>>
  /\ Enter(Here.block, Here, Cells(Here),
           Compose(Top.xf, InsertTransform(Here, drawing.blocks[Here.block].base, <<0, 0>>)))
  /\ warnings' = warnings \o Raised(
       IF TooLarge(Here) THEN <<Warn("malformed_geometry", "Insert", "array_too_large")>> ELSE <<>>,
       Append(Top.path, Here.handle))
  /\ UNCHANGED <<drawing, view, head, sink, emission>>

\* A dimension is drawn by the block its writer made for it, where it stands.
ReadDimension ==
  /\ Reading /\ ~Here.invisible /\ Here.kind = "DIMENSION"
  /\ LET why == IF ~Known(Here.block)
                THEN <<Warn("missing_reference", "DIMENSION", "dimension_block_missing")>>
                ELSE Refusal(Here.block)
     IN  IF why = <<>>
         THEN Enter(Here.block, Here, <<<<0, 0>>>>, Top.xf) /\ warnings' = warnings
         ELSE /\ warnings' = warnings \o Raised(why, Append(Top.path, Here.handle))
              /\ frames' = Advanced /\ UNCHANGED <<active, at>>
  /\ UNCHANGED <<drawing, view, head, sink, emission>>

\* A table names its block, or has its handle looked up; none is a table that
\* nothing has drawn yet.
TableBlock(t) ==
  IF t.block # NoBlock THEN t.block
  ELSE IF Known(t.record) THEN t.record ELSE NoBlock

ReadTable ==
  /\ Reading /\ ~Here.invisible /\ Here.kind = "TABLE"
  /\ LET block == TableBlock(Here)
     IN  CASE block = NoBlock ->
                frames' = Advanced /\ UNCHANGED <<active, at, warnings>>
           [] block # NoBlock /\ Refusal(block) # <<>> ->
                /\ warnings' = warnings \o Raised(Refusal(block), Append(Top.path, Here.handle))
                /\ frames' = Advanced /\ UNCHANGED <<active, at>>
           [] OTHER ->
                /\ Enter(block, Here, <<<<0, 0>>>>, Compose(Top.xf, TableTransform(Here)))
                /\ warnings' = warnings
  /\ UNCHANGED <<drawing, view, head, sink, emission>>

\* The members of one copy of an array are done: the next copy.
NextCell ==
  /\ frames # <<>> /\ Top.members = <<>> /\ Top.cells # <<>>
  /\ frames' = Append(Rest,
       [Top EXCEPT !.cells = Tail(@),
                   !.members = Members(Top.block),
                   !.xf = Compose(Top.outer, InsertTransform(Top.entity,
                            drawing.blocks[Top.block].base, Head(Top.cells)))])
  /\ UNCHANGED <<drawing, view, active, at, head, sink, warnings, emission>>

\* The last place of a name among the active ones goes.
Left(names, name) ==
  LET where == {i \in DOMAIN names : names[i] = name}
      last == CHOOSE i \in where : \A j \in where : j <= i
  IN  IF where = {} THEN names
      ELSE SubSeq(names, 1, last - 1) \o SubSeq(names, last + 1, Len(names))

Done == frames # <<>> /\ Top.members = <<>> /\ Top.cells = <<>>

\* Mutant: `at` is not put back on the way out.
LeaveBlockKeepsAt ==
  /\ Done /\ Depth > 0
  /\ active' = Left(active, Top.block)
  /\ frames' = Rest
  /\ UNCHANGED <<drawing, view, at, head, sink, warnings, emission>>

\* The end of a block: for an insert its own attributes follow.
LeaveBlock ==
  /\ Done /\ Depth > 0
  /\ active' = Left(active, Top.block)
  /\ at' = Top.saved
  /\ frames' = Rest
  /\ IF Top.entity.kind = "INSERT"
     THEN LET own == Attributes(Top.entity, Top.path, Top.outer)
          IN  /\ sink' = sink \o own.items
              /\ warnings' = warnings \o Raised(own.warned, at)
     ELSE UNCHANGED <<sink, warnings>>
  /\ UNCHANGED <<drawing, view, head, emission>>

LeaveView ==
  /\ Done /\ Depth = 0
  /\ frames' = <<>>
  /\ UNCHANGED <<drawing, view, active, at, head, sink, warnings, emission>>

-----------------------------------------------------------------------------
(* The emission: the framing records, the entities as they came, the warnings
   sorted, and an entry of the sidecar for each. *)

Finish ==
  /\ emission = <<>> /\ frames = <<>> /\ view = Len(Views)
  /\ LET sorted == SortedBy(warnings, LAMBDA w : WarningRank(w.warning))
         items == head \o sink \o
           [i \in DOMAIN sorted |->
              [record |-> [record |-> "warning", category |-> sorted[i].warning[1],
                           entity_type |-> sorted[i].warning[2], detail |-> sorted[i].warning[3]],
               path |-> sorted[i].path, dxf |-> "none"]]
     IN  emission' =
           [records |-> [i \in DOMAIN items |-> items[i].record],
            sidecar |-> [i \in DOMAIN items |->
              [i |-> i - 1,
               h |-> IF items[i].path = <<>> THEN <<0>> ELSE items[i].path,
               t |-> items[i].record.record, x |-> "none", d |-> items[i].dxf]]]
  /\ UNCHANGED <<drawing, view, frames, active, at, head, sink, warnings>>

Finished == emission # <<>>

EmitNext ==
  \/ BeginView \/ SkipInvisible \/ DrawLeaf
  \/ RefuseInsert \/ EnterInsert \/ ReadDimension \/ ReadTable
  \/ NextCell \/ LeaveBlock \/ LeaveView \/ Finish

EmitSpec == Init /\ [][EmitNext]_emitVars

-----------------------------------------------------------------------------
(* What the reader hands over: its lists are lists, of the entities and edges
   there are, and its handles are not negative. *)

SplineLists == {"control", "fit", "knots", "weights"}

IsEdge(e) ==
  /\ e.edge \in {"line", "arc", "ellipse", "polyline", "spline"}
  /\ e.edge = "polyline" => Lists(e, {"points", "bulges"})
  /\ e.edge = "spline" => Lists(e, SplineLists)

IsBoundary(paths) ==
  \A i \in DOMAIN paths : IsSequence(paths[i]) /\ \A n \in DOMAIN paths[i] : IsEdge(paths[i][n])

IsEntity(e) ==
  /\ e.kind \in {"SEQEND", "BLOCK", "ENDBLK", "LINE", "POINT", "ARC", "CIRCLE", "ELLIPSE", "SPLINE", "HELIX",
                 "LWPOLYLINE", "POLYLINE2D", "POLYLINE3D", "POLYLINE", "SOLID", "3DFACE", "ATTDEF",
                 "ATTRIB", "TEXT", "MTEXT", "HATCH", "MLINE", "VIEWPORT"} \cup Expanded
  /\ e.handle \in Nat
  /\ e.kind \in {"SPLINE", "HELIX"} => Lists(e, SplineLists)
  /\ e.kind \in {"LWPOLYLINE", "POLYLINE2D"} => Lists(e, {"points", "bulges"})
  /\ e.kind \in {"POLYLINE3D", "POLYLINE"} => Lists(e, {"points"})
  /\ e.kind = "3DFACE" => Lists(e, {"corners"})
  /\ e.kind = "HATCH" => Lists(e, {"paths"}) /\ IsBoundary(e.paths)
  /\ e.kind = "INSERT" =>
       Lists(e, {"attributes"}) /\ \A n \in DOMAIN e.attributes : e.attributes[n].handle \in Nat

Severities == {"NotImplemented", "NotSupported", "Error", "Warning"}

IsDrawing(d) ==
  /\ Lists(d, {"notifications"})
  /\ \A n \in DOMAIN d.notifications : d.notifications[n].font \/ d.notifications[n].severity \in Severities
  /\ \A block \in DOMAIN d.blocks :
       /\ Lists(d.blocks[block], {"members"})
       /\ \A n \in DOMAIN d.blocks[block].members : IsEntity(d.blocks[block].members[n])

-----------------------------------------------------------------------------

\* What is open is what is being expanded: the active names are the blocks of
\* the frames in order, no block is open twice, nesting stays within the
\* limit, and a warning raised here would name the entity that brought the
\* innermost block in.  An early return that forgets leave() or the restored
\* `at` breaks it.
OpenIsTheWay ==
  frames # <<>> =>
    /\ active = [i \in 1..Depth |-> frames[i + 1].block]
    /\ \A i, j \in DOMAIN active : active[i] = active[j] => i = j
    /\ Len(active) <= MaxDepth
    /\ at = Top.path
=============================================================================
