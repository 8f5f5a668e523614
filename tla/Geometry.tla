------------------------------ MODULE Geometry ------------------------------
(***************************************************************************)
(* The transform algebra of src/acadrust_emit.rs and the angle helpers of  *)
(* src/ocs.rs, on the part of space where they are exact: points of the    *)
(* plane z = 0 with integer coordinates, normals +Z and -Z (written 1 and  *)
(* -1), integer scales, turns by a quarter.  Angles are counted in eighths *)
(* of a turn, because the decomposition of a stretched circle may name an  *)
(* axis at 45 degrees.  A ratio is a pair, numerator and denominator.      *)
(***************************************************************************)
EXTENDS Integers, Sequences, TLC

Turn == 8

Dot(a, b) == a[1] * b[1] + a[2] * b[2]

\* The z of the cross product; x and y are 0 in the plane.
Cross(a, b) == a[1] * b[2] - a[2] * b[1]

Magnitude(n) == IF n < 0 THEN -n ELSE n

Sign(n) == IF n > 0 THEN 1 ELSE IF n < 0 THEN -1 ELSE 0

\* The length of a vector along an axis: one component is 0.
Length(a) == Magnitude(a[1]) + Magnitude(a[2])

Times(a, k) == <<a[1] * k, a[2] * k>>

Plus(a, b) == <<a[1] + b[1], a[2] + b[2]>>

Cos(angle) == <<1, 0, 0, 0, -1, 0, 0, 0>>[(angle % Turn) + 1]

Sin(angle) == <<0, 0, 1, 0, 0, 0, -1, 0>>[(angle % Turn) + 1]

Direction(angle) == <<Cos(angle), Sin(angle)>>

\* The angle of a vector along an axis; of the null vector it is 0.
Atan2(y, x) ==
  CASE y = 0 /\ x >= 0 -> 0
    [] y > 0 -> 2
    [] y = 0 /\ x < 0 -> 4
    [] OTHER -> -2

\* The first axis of the coordinate system a normal implies; the second is
\* Y for both normals.
FirstAxis(normal) == <<normal, 0>>

\* A point of the plane in the coordinate system of a normal; in this plane
\* the way back is the same map.
ToOcs(normal, p) == <<Dot(p, FirstAxis(normal)), p[2]>>

NormalizeAngle(angle) == angle % Turn

\* A start in [0, Turn) and an end strictly after it.
Sweep(start, end, offset) ==
  LET s == NormalizeAngle(start + offset)
      e == NormalizeAngle(end + offset)
  IN  <<s, IF e <= s THEN e + Turn ELSE e>>

Identity ==
  [m |-> <<<<1, 0>>, <<0, 1>>>>, t |-> <<0, 0>>, similarity |-> TRUE]

Vector(xf, v) == <<Dot(xf.m[1], v), Dot(xf.m[2], v)>>

Apply(xf, p) == Plus(Vector(xf, p), xf.t)

\* outer after inner.
Product(outer, inner) ==
  LET Cell(r, c) == outer.m[r][1] * inner.m[1][c] + outer.m[r][2] * inner.m[2][c]
  IN  [m |-> <<<<Cell(1, 1), Cell(1, 2)>>, <<Cell(2, 1), Cell(2, 2)>>>>,
       t |-> Apply(outer, inner.t),
       similarity |-> outer.similarity /\ inner.similarity]

\* The one element of a set.  A bound variable is computed once where TLC
\* would compute an operator's argument at each of its uses.
Only(S) == CHOOSE x \in S : TRUE

Compose(outer, inner) == Only({Product(o, i) : o \in {outer}, i \in {inner}})

Translation(t) == [Identity EXCEPT !.t = t]

\* The scale of z is that of x in every drawing considered.
Scaling(sx, sy) ==
  [m |-> <<<<sx, 0>>, <<0, sy>>>>, t |-> <<0, 0>>,
   similarity |-> Magnitude(sx) = Magnitude(sy)]

RotationZ(angle) ==
  [Identity EXCEPT !.m = <<<<Cos(angle), -Sin(angle)>>,
                           <<Sin(angle), Cos(angle)>>>>]

ArbitraryAxis(normal) ==
  [Identity EXCEPT !.m = <<<<FirstAxis(normal)[1], 0>>, <<0, 1>>>>]

\* Mutant: the array is laid out before the scale.
InsertTransformScalesLast(insert, base, cell) ==
  LET moved   == Translation(Times(base, -1))
      arrayed == Compose(Translation(<<cell[1] * insert.spacing[1],
                                       cell[2] * insert.spacing[2]>>), moved)
      scaled  == Compose(Scaling(insert.scale[1], insert.scale[2]), arrayed)
      turned  == Compose(RotationZ(insert.rotation), scaled)
  IN  Compose(ArbitraryAxis(insert.normal), Compose(Translation(insert.at), turned))

\* The map from a block's coordinates into the space around the insert.
InsertTransform(insert, base, cell) ==
  LET moved   == Translation(Times(base, -1))
      scaled  == Compose(Scaling(insert.scale[1], insert.scale[2]), moved)
      arrayed == IF cell = <<0, 0>> THEN scaled
                 ELSE Compose(Translation(<<cell[1] * insert.spacing[1],
                                            cell[2] * insert.spacing[2]>>), scaled)
      turned  == Compose(RotationZ(insert.rotation), arrayed)
      placed  == Compose(Translation(insert.at), turned)
  IN  Compose(ArbitraryAxis(insert.normal), placed)

\* A TABLE's cached block: turned into its horizontal direction, no scale.
TableTransform(table) ==
  LET h == ToOcs(table.normal, table.horizontal)
      local == IF Length(h) = 0 THEN Identity ELSE RotationZ(Atan2(h[2], h[1]))
  IN  Compose(ArbitraryAxis(table.normal), [local EXCEPT !.t = table.at])

Degenerate == [degenerate |-> TRUE]

\* An analytic curve with conjugate semi-diameters u and v through a map:
\* the centre and axes of its image in the coordinate system of the image's
\* own normal, and the angle by which parameters move.  The longer axis is
\* <<length, direction>>.
Conjugates(n, center, a, b, similarity) ==
  LET \* twice the e, f, g, h of the decomposition
      e == a[1] + b[2]
      f == a[1] - b[2]
      g == a[2] + b[1]
      h == a[2] - b[1]
      first  == (Length(<<e, h>>) + Length(<<f, g>>)) \div 2
      second == (Length(<<e, h>>) - Length(<<f, g>>)) \div 2
      phi   == (Atan2(h, e) + Atan2(g, f)) \div 2
      theta == (Atan2(h, e) - Atan2(g, f)) \div 2
  IN  [degenerate |-> FALSE, normal |-> n, center |-> ToOcs(n, center)] @@
      (IF similarity
       THEN [circular |-> Length(a) = Length(b), radius |-> Length(a),
             major |-> <<Length(a), NormalizeAngle(Atan2(a[2], a[1]))>>,
             ratio |-> <<Length(b), Length(a)>>, offset |-> Atan2(a[2], a[1])]
       ELSE [circular |-> FALSE, radius |-> first,
             major |-> <<first, NormalizeAngle(phi)>>,
             ratio |-> <<second, first>>, offset |-> theta])

MapCurve(center, u, v, xf) ==
  LET Mapped(wu, wv, c) ==
        LET n == Sign(Cross(wu, wv))
        IN  IF n = 0 THEN Degenerate
            ELSE Conjugates(n, c, ToOcs(n, wu), ToOcs(n, wv), xf.similarity)
  IN  Only({Mapped(wu, wv, c) : wu \in {Vector(xf, u)}, wv \in {Vector(xf, v)},
                                c \in {Apply(xf, center)}})
=============================================================================
