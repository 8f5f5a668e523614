------------------------------- MODULE MCEmit -------------------------------
EXTENDS EmitMain

LOCAL INSTANCE FiniteSetsExt

LOCAL D == INSTANCE ModelDocs

Listed(S) == FoldSet(LAMBDA x, list : Append(list, x), <<>>, S)

(* Entities, by number of their handle. *)

Entity(kind, h, rest) == [kind |-> kind, handle |-> h, invisible |-> FALSE] @@ rest

LineAt(h) == Entity("LINE", h, [a |-> <<1, 2>>, b |-> <<3, 0>>])

Attdef(h) ==
  Entity("ATTDEF", h, [normal |-> 1, inserted |-> <<1, 1>>, aligned |-> <<4, 1>>, height |-> 2,
    rotation |-> 0, width |-> 3, halign |-> "left", valign |-> "top", style |-> "Standard",
    value |-> "plain"])

Plain == [at |-> <<5, 7>>, scale |-> <<1, 1>>, rotation |-> 0, normal |-> 1,
          columns |-> 1, rows |-> 1, spacing |-> <<10, 20>>, attributes |-> <<>>]

Insert(h, block, how) == Entity("INSERT", h, how @@ [block |-> block] @@ Plain)

Table(h, block, record) ==
  Entity("TABLE", h, [block |-> block, record |-> record, normal |-> -1, at |-> <<2, 3>>,
                      horizontal |-> <<0, 1>>])

Dimension(h, block) == Entity("DIMENSION", h, [block |-> block])

Block(base, members) == [base |-> base, members |-> members]

OneView == <<[tab |-> 0, name |-> "Model", block |-> "*Model_Space"]>>

Dwg(layouts, blocks) ==
  [format |-> "dwg", version |-> "AC1032", maintenance |-> 4, build |-> 7,
   layouts |-> layouts, blocks |-> blocks, notifications |-> <<>>]

-----------------------------------------------------------------------------
(* Who refers to whom: two blocks, each with up to two members that draw, are
   skipped, or bring a block in, themselves included. *)

Member(n) ==
  {LineAt(n), Attdef(n), Insert(n, "A", <<>>), Insert(n, "B", [columns |-> 2]),
   Dimension(n, "B")}

Bodies(n) ==
  {<<>>} \cup {<<x>> : x \in Member(n)} \cup
  {<<x, y>> : x \in Member(n), y \in {LineAt(n + 1), Insert(n + 1, "A", <<>>)}}

Nests ==
  {Dwg(OneView, "*Model_Space" :> Block(<<0, 0>>,
         <<Insert(1, "A", [attributes |-> <<[Attdef(2) EXCEPT !.kind = "ATTRIB"]>>]), Insert(3, "B", <<>>)>>) @@
       "A" :> Block(<<0, 0>>, a) @@ "B" :> Block(<<1, 0>>, b)) :
     a \in Bodies(10), b \in Bodies(20)}

(* Where things land: two placements, one inside the other, over one entity. *)

Curve == [normal |-> 1, center |-> <<2, 1>>]

Shapes ==
  {Entity("ARC", 30, [radius |-> 4, start |-> 2, end |-> 4] @@ Curve),
   Entity("ARC", 30, [radius |-> 4, start |-> 6, end |-> 2, normal |-> -1] @@ Curve),
   Entity("CIRCLE", 30, [radius |-> 4] @@ Curve),
   Entity("ELLIPSE", 30, [major |-> <<0, 4>>, ratio |-> <<1, 2>>, start |-> 0, end |-> 6] @@ Curve),
   Entity("ELLIPSE", 30, [major |-> <<-4, 0>>, ratio |-> <<1, 2>>, start |-> 0, end |-> 8,
                          normal |-> -1] @@ Curve),
   Entity("LWPOLYLINE", 30, [normal |-> -1, points |-> <<<<0, 0>>, <<3, 0>>, <<3, 5>>>>,
                             bulges |-> <<1>>, closed |-> TRUE]),
   Entity("SOLID", 30, [normal |-> -1, corners |-> <<<<0, 0>>, <<3, 0>>, <<0, 5>>, <<3, 5>>>>]),
   Entity("POINT", 30, [a |-> <<2, 3>>]),
   Entity("TEXT", 30, [normal |-> 1, inserted |-> <<1, 1>>, aligned |-> <<4, 2>>, height |-> 2,
     rotation |-> 2, width |-> 3, halign |-> "right", valign |-> "baseline", style |-> "Standard",
     value |-> Returned])}

Placements ==
  [scale : {<<1, 1>>, <<2, 2>>, <<-1, 1>>, <<2, 3>>, <<3, -2>>}, rotation : {0, 2}, normal : {1, -1}]

Inner == {[scale |-> <<1, 1>>, rotation |-> 2], [scale |-> <<3, 2>>, rotation |-> 0],
          [scale |-> <<1, -1>>, rotation |-> 6, columns |-> 2, rows |-> 2, normal |-> -1]}

Placed ==
  {Dwg(OneView, "*Model_Space" :> Block(<<0, 0>>, <<Insert(1, "A", p)>>) @@
                "A" :> Block(<<1, 2>>, <<Insert(10, "B", q)>>) @@
                "B" :> Block(<<3, 0>>, <<e>>)) : p \in Placements, q \in Inner, e \in Shapes}

(* Every other kind, and everything that is refused, in one block or at the
   top, flattened by a null scale or not. *)

Edge(kind, rest) == [edge |-> kind] @@ rest

Rational == [degree |-> 3, closed |-> FALSE, periodic |-> FALSE, knots |-> <<0, 1>>, weights |-> <<>>]

Hatch(h, paths) == Entity("HATCH", h, [normal |-> -1, paths |-> paths])

Boundary ==
  <<Edge("line", [a |-> <<0, 0>>, b |-> <<4, 0>>]),
    Edge("arc", [center |-> <<0, 0>>, radius |-> 2, start |-> 0, end |-> 2, ccw |-> FALSE]),
    Edge("ellipse", [center |-> <<0, 0>>, major |-> <<4, 0>>, ratio |-> <<1, 2>>,
                     start |-> 0, end |-> 4, ccw |-> TRUE]),
    Edge("polyline", [points |-> <<<<0, 0>>, <<1, 1>>>>, bulges |-> <<0, 1>>, closed |-> FALSE]),
    Edge("spline", [control |-> <<<<0, 0>>>>, fit |-> <<>>] @@ Rational),
    Edge("spline", [control |-> <<>>, fit |-> <<>>] @@ Rational)>>

Others ==
  {Entity("SEQEND", 30, <<>>), Entity("MLINE", 30, <<>>), Entity("VIEWPORT", 30, <<>>),
   [LineAt(30) EXCEPT !.invisible = TRUE],
   Entity("HELIX", 30, [control |-> <<<<1, 1>>>>, fit |-> <<>>] @@ Rational),
   Entity("SPLINE", 30, [control |-> <<>>, fit |-> <<>>] @@ Rational),
   Entity("POLYLINE3D", 30, [points |-> <<<<1, 1>>>>, closed |-> FALSE]),
   Entity("POLYLINE", 30, [points |-> <<>>, closed |-> FALSE]),
   Entity("3DFACE", 30, [corners |-> <<<<0, 0>>, <<3, 0>>, <<3, 5>>, <<3, 5>>>>]),
   Entity("MTEXT", 30, [normal |-> 1, inserted |-> <<1, 1>>, aligned |-> <<1, 1>>, height |-> 2,
     rotation |-> 0, width |-> 1, halign |-> "center", valign |-> "top", style |-> "two\rlines",
     value |-> "plain"]),
   Hatch(30, <<>>), Hatch(30, << <<>>, Boundary>>),
   Table(30, "B", NoBlock), Table(30, NoBlock, "B"), Table(30, NoBlock, "GONE"), Table(30, "GONE", NoBlock),
   Table(30, "A", NoBlock),
   Dimension(30, "GONE"), Insert(30, "GONE", <<>>), Insert(30, "*Model_Space", <<>>),
   Insert(30, "B", [columns |-> 2, rows |-> 3, attributes |->
     <<[Attdef(32) EXCEPT !.kind = "ATTRIB", !.invisible = TRUE], [Attdef(33) EXCEPT !.kind = "ATTRIB"]>>])}

EveryKind ==
  {Dwg(OneView, "*Model_Space" :> Block(<<0, 0>>, <<Insert(1, "A", [scale |-> s, attributes |-> <<>>]), LineAt(2), [e EXCEPT !.handle = 40]>>) @@
                "A" :> Block(<<1, 2>>, <<e, LineAt(11)>>) @@
                "B" :> Block(<<3, 0>>, <<LineAt(21)>>)) :
     s \in {<<1, 1>>, <<0, 0>>, <<2, 3>>}, e \in Others \cup Shapes}

(* The document around them: no layouts, layouts out of order, a layout whose
   block is gone, what the reader said. *)

Spaces == "*Model_Space" :> Block(<<0, 0>>, <<LineAt(1)>>) @@
          "*Paper_Space" :> Block(<<0, 0>>, <<LineAt(2), Entity("VIEWPORT", 3, <<>>)>>)

Said == {<<>>, <<[font |-> FALSE, severity |-> "NotSupported"], [font |-> TRUE, severity |-> "Error"],
                 [font |-> FALSE, severity |-> "Error"]>>,
         <<[font |-> FALSE, severity |-> "Warning"], [font |-> FALSE, severity |-> "NotImplemented"]>>}

Around ==
  {[Dwg(ls, Spaces) EXCEPT !.format = f, !.build = -1, !.notifications = n] :
     ls \in {<<>>, <<[tab |-> 1, name |-> "Plan", block |-> "*Paper_Space"],
                     [tab |-> 0, name |-> "Model", block |-> "*Model_Space"],
                     [tab |-> 2, name |-> "Lost", block |-> NoBlock]>>},
     f \in {"dwg", "dxf"}, n \in Said}

(* Numbers that cannot be written, or have two spellings. *)

Odd ==
  {Dwg(OneView, "*Model_Space" :> Block(<<0, 0>>,
     <<Entity("SPLINE", 30, [Rational EXCEPT !.knots = <<k, 1>>] @@
                            [control |-> <<<<1, 1>>>>, fit |-> <<>>])>>)) : k \in {NaN, NegZero}}

(* One drawing with a record of every kind but the warning's, one whose two
   views hold warnings, and a walk, whose sidecar names no kinds: the files
   that are spoiled. *)

Spelt ==
  Dwg(OneView, "*Model_Space" :> Block(<<0, 0>>,
    <<LineAt(1), Insert(2, "A", [scale |-> <<2, 3>>])>> \o
    Listed({e \in Shapes : e.kind \in {"POINT", "LWPOLYLINE"} \/ e.normal = 1}) \o
    <<Entity("3DFACE", 31, [corners |-> <<<<0, 0>>, <<3, 0>>, <<3, 5>>, <<3, 5>>>>]),
      Entity("HELIX", 32, [control |-> <<<<1, 1>>>>, fit |-> <<>>] @@ Rational)>>) @@
    "A" :> Block(<<0, 0>>, <<LineAt(11)>>))

Marred ==
  {Spelt, [Dwg(<<[tab |-> 0, name |-> "Model", block |-> "*Model_Space"],
                 [tab |-> 1, name |-> "Plan", block |-> "*Paper_Space"]>>, Spaces)
             EXCEPT !.notifications = <<[font |-> TRUE, severity |-> "Error"]>>]}

Least == Dwg(<<>>, "*Model_Space" :> Block(<<0, 0>>, <<>>))

MCDrawings == {Least} \cup Nests \cup Placed \cup EveryKind \cup Around \cup Odd \cup Marred

(* Walks over the library's views: what the wire can carry, in one view or
   in two that come in the wrong order. *)

Wire(kind, h, rest) ==
  [item |-> "primitive", kind |-> kind, handle |-> h, x |-> "no", normal |-> -1,
   points |-> <<<<1, 2>>, <<3, 4>>>>, start |-> 6, end |-> 2] @@ rest

Primitives ==
  {Wire("line", 1, <<>>),
   Wire("polyline", 2, [closed |-> TRUE, bulges |-> <<1, 0>>]),
   Wire("polyline", 3, [closed |-> FALSE, bulges |-> <<>>]),
   Wire("polygon", 4, <<>>),
   Wire("circle", 5, [center |-> <<1, 1>>, radius |-> 3]),
   Wire("arc", 6, [center |-> <<1, 1>>, radius |-> 3]),
   Wire("ellipse", 7, [center |-> <<1, 1>>, major |-> <<4, 0>>, ratio |-> <<1, 2>>]),
   Wire("spline", 8, [closed |-> FALSE, knots |-> <<NegZero, 1>>, rational |-> FALSE, weights |-> <<NaN>>]),
   Wire("spline", 9, [closed |-> FALSE, knots |-> <<>>, rational |-> TRUE, weights |-> <<NaN>>]),
   Wire("text", 10, [height |-> 2, text |-> Returned]),
   Wire("leader of a later library", 11, <<>>)}

Warned(code, names, h) == [item |-> "warning", code |-> code, names |-> names, handle |-> h]

Notes ==
  {Warned("UNSUPPORTED_ENTITY", "WIPEOUT", 21), Warned("UNSUPPORTED_ENTITY", "MLINE", 22),
   Warned("109", "", 23), Warned("LATER_CODE", "", 0), Warned("NON_FINITE_GEOMETRY", "", 24),
   Warned("READER_NOTIFICATION", "", 0), Warned("UNRESOLVED_BLOCK", "", 25),
   Warned("NON_UNIFORM_BLOCK_SCALE", "", 26), [item |-> "unknown"], [item |-> "probe"]}

Seen(index, items) == [index |-> index, name |-> "Model", kind |-> "model", items |-> items]

Carried ==
  [version |-> 1032,
   views |-> <<Seen(0, <<Wire("polyline", 2, [closed |-> TRUE, bulges |-> <<1, 0>>]),
                         Wire("text", 10, [height |-> 2, text |-> "plain"]),
                         Warned("UNSUPPORTED_ENTITY", "MLINE", 22), Warned("109", "", 23)>>),
               Seen(1, <<Wire("line", 1, <<>>), Wire("spline", 9,
                           [closed |-> FALSE, knots |-> <<2>>, rational |-> FALSE, weights |-> <<>>])>>)>>]

MCSpoilable == Marred \cup {Carried}

MCWires ==
  {[version |-> v, views |-> <<Seen(1, <<n, p>>), [Seen(0, <<p, [item |-> "framing"], n>>) EXCEPT !.kind = "other"]>>] :
     v \in {0, 1032}, p \in Primitives, n \in Notes}
  \cup {Carried, [version |-> 1032, views |-> <<Seen(0, Listed(Notes))>>]}

(* Every drawing and walk with a bare document, and the least drawing with
   every document. *)

MCDocs == D!AllDocs
MCAlphabet == D!DocAlphabet
MCComparable == D!Compared
MCDamaged == {D!WholeDoc}
MCTrials == D!AllTrials

Run(d, w, document, std) == [drawing |-> d, wire |-> w, doc |-> document, stdin |-> std]

\* Every kind of entity under no scale, a null one and a stretching one.
MCFlat == {Run(d, NoWire, D!Bare, FALSE) : d \in EveryKind}

MCInputs ==
  {Run(d, NoWire, D!Bare, FALSE) : d \in MCDrawings} \cup
  {Run(NoDrawing, w, D!Bare, FALSE) : w \in MCWires} \cup
  {Run(Least, NoWire, d, FALSE) : d \in MCDocs} \cup
  {Run(Least, NoWire, d, TRUE) : d \in D!Clashes \cup D!Compared \cup D!Unreadable}
=============================================================================
