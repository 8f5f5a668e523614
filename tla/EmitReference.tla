---------------------------- MODULE EmitReference ----------------------------
(***************************************************************************)
(* What the walk of Emit.tla must come to, said without its stack, its     *)
(* active blocks and its matrices: the drawing is a tree of chains of      *)
(* placements that end in an entity, a point is carried through a chain    *)
(* one placement at a time, and a curve is the set of points on it.        *)
(***************************************************************************)
EXTENDS Emit, SequencesExt

Leaf(path, said, e, inside) ==
  [path |-> path, said |-> said, chain |-> <<>>, leaf |-> e, inside |-> inside, why |-> <<>>]

Refusing(e, why) == [Leaf(<<e.handle>>, <<e.handle>>, e, FALSE) EXCEPT !.why = why]

\* The items of a block below one copy of the entity that brings it in.
Below(e, cell, items) ==
  [n \in DOMAIN items |->
     [items[n] EXCEPT !.path = <<e.handle>> \o @, !.said = <<e.handle>> \o @,
                      !.chain = <<[by |-> e, cell |-> cell]>> \o @]]

BroughtIn(e) == IF e.kind = "TABLE" THEN TableBlock(e) ELSE e.block

\* Everything a block draws, in order, as chains: depth blocks were entered
\* to come here and those in way are open.  A table no block draws is a leaf.
Tree[depth \in Nat, block \in STRING, way \in SUBSET STRING] ==
  LET Why(e) ==
        CASE ~Known(e.block) /\ e.kind = "INSERT" ->
               <<Warn("missing_reference", "Insert", "block_record_missing")>>
          [] ~Known(e.block) /\ e.kind = "DIMENSION" ->
               <<Warn("missing_reference", "DIMENSION", "dimension_block_missing")>>
          [] BroughtIn(e) = NoBlock -> <<>>
          [] depth = MaxDepth -> <<Warn("malformed_geometry", "Insert", "recursion_limit")>>
          [] BroughtIn(e) \in way -> <<Warn("malformed_geometry", "Insert", "cyclic_block_reference")>>
          [] OTHER -> <<>>
      Copies(e) == IF e.kind = "INSERT" THEN Cells(e) ELSE <<<<0, 0>>>>
      Open(e) ==
        IF Why(e) # <<>> \/ BroughtIn(e) = NoBlock THEN <<>>
        ELSE FlattenSeq([c \in DOMAIN Copies(e) |-> Below(e, Copies(e)[c],
               Tree[depth + 1, BroughtIn(e), way \cup {BroughtIn(e)}])])
      Own(e) ==
        IF e.kind # "INSERT" \/ ~Known(e.block) THEN <<>>
        ELSE LET shown == SelectSeq(e.attributes, LAMBDA a : ~a.invisible)
             IN  [n \in DOMAIN shown |->
                    Leaf(<<e.handle, shown[n].handle>>, <<e.handle>>, shown[n], TRUE)]
      Blank(e) == e.kind = "TABLE" /\ ~Known(BroughtIn(e))
      Said(e) == IF Why(e) # <<>> THEN <<Refusing(e, Why(e))>>
                 ELSE IF Blank(e) THEN <<Leaf(<<e.handle>>, <<e.handle>>, e, depth > 0)>>
                 ELSE IF e.kind = "INSERT" /\ TooLarge(e)
                      THEN <<Refusing(e, <<Warn("malformed_geometry", "Insert", "array_too_large")>>)>>
                      ELSE <<>>
      Of(e) == IF e.invisible THEN <<>>
               ELSE IF e.kind \in Expanded THEN Said(e) \o Open(e) \o Own(e)
                    ELSE <<Leaf(<<e.handle>>, <<e.handle>>, e, depth > 0)>>
  IN  FlattenSeq([n \in DOMAIN Members(block) |-> Of(Members(block)[n])])

\* The items of every view, each with the number of its view.
Reached ==
  FlattenSeq([v \in DOMAIN Views |->
     LET items == Tree[0, Views[v].block, {}]
     IN  [n \in DOMAIN items |-> items[n] @@ [view |-> v - 1]]])

ChainMap(chain) ==
  LET Base(e) == drawing.blocks[e.block].base
      Step(p) == CASE p.by.kind = "INSERT" -> InsertTransform(p.by, Base(p.by), p.cell)
                   [] p.by.kind = "TABLE" -> TableTransform(p.by)
                   [] OTHER -> Identity
      Upto[i \in 0..Len(chain)] ==
        IF i = 0 THEN Identity ELSE Compose(Upto[i - 1], Step(chain[i]))
  IN  Upto[Len(chain)]

Outcome(item) ==
  IF item.why # <<>> THEN [records |-> <<>>, warned |-> item.why]
  ELSE IF item.leaf.kind = "TABLE" THEN Nothing
  ELSE LeafOf(item.view, item.leaf, ChainMap(item.chain), item.inside)

-----------------------------------------------------------------------------
(* A point through a chain, in DXF's words: off the base point, scaled, moved
   to its copy, turned, to the insertion point, out of the insert's own
   coordinates. *)

Out(normal, p) == <<normal * p[1], p[2]>>

Turned(angle, p) ==
  CASE angle % Turn = 0 -> p
    [] angle % Turn = 2 -> <<-p[2], p[1]>>
    [] angle % Turn = 4 -> <<-p[1], -p[2]>>
    [] angle % Turn = 6 -> <<p[2], -p[1]>>

Through(placed, p) ==
  LET e == placed.by
      base == drawing.blocks[e.block].base
      local == <<(p[1] - base[1]) * e.scale[1] + placed.cell[1] * e.spacing[1],
                 (p[2] - base[2]) * e.scale[2] + placed.cell[2] * e.spacing[2]>>
  IN  CASE e.kind = "INSERT" -> Out(e.normal, Plus(Turned(e.rotation, local), e.at))
        [] e.kind = "TABLE" ->
             Out(e.normal, Plus(Turned(Atan2(e.horizontal[2], e.normal * e.horizontal[1]), p), e.at))
        [] OTHER -> p

World(chain, p) ==
  LET Upto[i \in 1..(Len(chain) + 1)] ==
        IF i = Len(chain) + 1 THEN p ELSE Through(chain[i], Upto[i + 1])
  IN  Upto[1]

\* The point of a curve record at an angle, in the world.
OnRecord(r, angle) ==
  Out(r.normal,
      IF r.record \in {"arc", "circle"} THEN Plus(r.center, Times(Direction(angle), r.radius))
      ELSE LET minor == (r.major[1] * r.ratio[1]) \div r.ratio[2]
           IN  IF minor = r.major[1]
               THEN Plus(r.center, Times(Direction(r.major[2] + angle), minor))
               ELSE Plus(r.center, Plus(Times(Direction(r.major[2]), r.major[1] * Cos(angle)),
                                        Times(Direction(r.major[2] + 2), minor * Sin(angle)))))

\* The point of the entity at an angle, where the entity stands.
OnEntity(e, angle) ==
  IF e.kind = "ELLIPSE"
  THEN Plus(e.center, Plus(Times(e.major, Cos(angle)),
                           Times(MinorOf(e.normal, e.major, e.ratio), Sin(angle))))
  ELSE Out(e.normal, Plus(e.center, Times(Direction(angle), e.radius)))

\* The length of the piece an entity draws.
Swing(e) ==
  IF e.kind = "CIRCLE" THEN Turn
  ELSE LET by == (e.end - e.start) % Turn IN IF by = 0 THEN Turn ELSE by

\* Where an entity's curve and a record's run over the same points in the
\* same order: a quarter turn on one is a quarter turn on the other.
SameCurve(e, chain, r) ==
  LET begin == IF e.kind # "CIRCLE" THEN r.start
               ELSE IF r.record = "circle" THEN 0 ELSE r.major[2] % 2
      turns == {k \in 0..Swing(e) : k % 2 = 0}
      Traced(r0) == [k \in turns |-> OnRecord(r, r0 + k)]
      Drawing(e0) == [k \in turns |-> World(chain, OnEntity(e, e0 + k))]
  IN  IF e.kind = "CIRCLE"
      THEN {Traced(begin)[k] : k \in turns} = {Drawing(0)[k] : k \in turns}
      ELSE r.end - r.start = Swing(e) /\ Traced(begin) = Drawing(e.start)

\* The corners of a text's box: along the baseline by height times width, up
\* by height.
SameText(t, chain, r) ==
  LET Local(p) == World(chain, Out(t.normal, p))
      Off(v) == Plus(Local(Turned(t.rotation, v)), Times(Local(<<0, 0>>), -1))
      along == Off(<<t.height * t.width, 0>>)
      up == Off(<<0, t.height>>)
      n == Sign(Cross(along, up))
  IN  /\ Out(n, r.at) = Local(IF t.halign = "left" /\ t.valign = "baseline"
                              THEN t.inserted ELSE t.aligned)
      /\ Length(up) = r.height
      /\ Out(n, along) = Times(Direction(r.rotation), (r.height * r.width_factor[1]) \div r.width_factor[2])

Image(item, r) ==
  LET e == item.leaf
      At(p) == World(item.chain, p)
  IN  CASE e.kind = "LINE" -> r.a = At(e.a) /\ r.b = At(e.b)
        [] e.kind = "POINT" -> r.at = At(e.a)
        [] e.kind \in {"ARC", "CIRCLE", "ELLIPSE"} -> SameCurve(e, item.chain, r)
        [] e.kind \in {"LWPOLYLINE", "POLYLINE2D"} ->
             \A i \in DOMAIN e.points : Out(r.normal, r.points[i]) = At(Out(e.normal, e.points[i]))
        [] e.kind = "SOLID" ->
             ToSet(r.points) = {At(Out(e.normal, e.corners[i])) : i \in 1..4}
        [] e.kind \in {"ATTDEF", "ATTRIB", "TEXT", "MTEXT"} -> SameText(e, item.chain, r)
        [] OTHER -> TRUE

-----------------------------------------------------------------------------

\* The whole drawing has been walked (the other engine never begins a view).
Walked == Finished /\ view = Len(Views)

\* What the drawing comes to: the records of its entities with the way to
\* each, and the warnings with the way they name.
Expected ==
  LET Notice(w, path) == <<[record |-> "warning", category |-> w[1], entity_type |-> w[2],
                            detail |-> w[3]], path>>
      Of(items, outcomes) ==
        [entities |-> FlattenSeq([n \in DOMAIN items |->
           [k \in DOMAIN outcomes[n].records |-> <<outcomes[n].records[k], items[n].path>>]]),
         notices |-> FlattenSeq([n \in DOMAIN items |->
           [k \in DOMAIN outcomes[n].warned |-> Notice(outcomes[n].warned[k], items[n].said)]])]
  IN  Only(UNION {{Of(items, outcomes) : outcomes \in {[n \in DOMAIN items |-> Outcome(items[n])]}} :
                    items \in {Reached}})

\* Whether a record or a warning says of an item that it was there.
IsSaid(item) ==
  \E n \in DOMAIN emission.records : n > 1 + Len(Views) /\ emission.sidecar[n].h \in {item.path, item.said}

\* What is left out on purpose: the structural markers, and the template of
\* an attribute.
LeftOut(item) ==
  \/ item.leaf.kind \in {"SEQEND", "BLOCK", "ENDBLK"}
  \/ item.leaf.kind = "ATTDEF" /\ item.inside

\* The corners of a face, in the world.
CornersOf(item) ==
  LET e == item.leaf
  IN  {World(item.chain, IF e.kind = "SOLID" THEN Out(e.normal, e.corners[i]) ELSE e.corners[i]) :
         i \in DOMAIN e.corners}

\* What is dropped without a word: a face whose corners fall on two points or
\* one, and a table that names no block the drawing has.
Dropped(item) ==
  \/ item.leaf.kind = "TABLE"
  \/ item.leaf.kind \in {"SOLID", "3DFACE"} /\ Cardinality(CornersOf(item)) < 3

\* The stream is the drawing: the framing records, then for every chain the
\* drawing reaches what its entity becomes, once and in the document's order,
\* and then every warning raised on the way; each sidecar entry leads to the
\* entity its record came from.  An entity of which the stream says nothing at
\* all is one left out on purpose or one of the two kinds of Dropped, which
\* docs/CANONICAL_SCHEMA.md does not allow for (NothingIsDroppedSilently).
StreamIsTheDrawing ==
  Walked =>
    \A expected \in {Expected} :
      LET first == 1 + Len(Views)
          last == first + Len(expected.entities)
          all == Len(emission.records)
          Row(n) == <<emission.records[n], emission.sidecar[n].h>>
          Often(notice) == {n \in DOMAIN expected.notices : expected.notices[n] = notice}
          Said(notice) == {n \in (last + 1)..all : Row(n) = notice}
          lost == {v \in DOMAIN Views : Views[v].block = NoBlock}
      IN  /\ \A n \in 1..first : emission.records[n].record = IF n = 1 THEN "document" ELSE "view"
          /\ \A n \in DOMAIN expected.entities : Row(first + n) = expected.entities[n]
          /\ \A n \in (last + 1)..all : emission.records[n].record = "warning"
          /\ \A notice \in ToSet(expected.notices) : Cardinality(Said(notice)) = Cardinality(Often(notice))
          /\ all - last = Len(expected.notices) + Len(drawing.notifications) + Cardinality(lost)
          /\ \A item \in ToSet(Reached) : IsSaid(item) \/ LeftOut(item) \/ Dropped(item)

\* "Every entity the extractor cannot represent produces one of these.
\* Nothing is dropped silently" (docs/CANONICAL_SCHEMA.md, of the warnings).
\* The code drops two things: a SOLID or a 3DFACE of fewer than three corners
\* in the world, and a TABLE whose block is gone.
NothingIsDroppedSilently ==
  Walked => \A item \in ToSet(Reached) : IsSaid(item) \/ LeftOut(item)

\* A record is the image of its entity: the points it names are the entity's
\* points carried through every placement on the way, and a curve that was
\* stretched, mirrored or turned still runs over the same points in the same
\* order.
RecordsAreImages ==
  Walked =>
    \A item \in ToSet(Reached) :
      \A record \in ToSet(Outcome(item).records) : Image(item, record)
=============================================================================
