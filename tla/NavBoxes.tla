------------------------------- MODULE NavBoxes -------------------------------
(***************************************************************************)
(* Level rectangles in space, and how far a point <<x, y, z>> is from one. *)
(* A polygon is a record with its corners `verts`, points <<x, z>>, and    *)
(* its height `y`.                                                         *)
(***************************************************************************)
EXTENDS Integers, FiniteSetsExt, SequencesExt

Clamp(n, lo, hi) == IF n < lo THEN lo ELSE IF n > hi THEN hi ELSE n

Square(n) == n * n

Box(p) ==
    [x0 |-> Min({v[1] : v \in Range(p.verts)}),
     x1 |-> Max({v[1] : v \in Range(p.verts)}),
     z0 |-> Min({v[2] : v \in Range(p.verts)}),
     z1 |-> Max({v[2] : v \in Range(p.verts)})]

\* dtPointInPolygon leaves out the far sides.
OverBox(b, pos) == /\ b.x0 <= pos[1] /\ pos[1] < b.x1
                   /\ b.z0 <= pos[3] /\ pos[3] < b.z1

\* getPolyHeight: whether pos is over the polygon, which is level.
OverPoly(p, pos) == OverBox(Box(p), pos)

ClosestPointInBox(b, y, pos) ==
    <<Clamp(pos[1], b.x0, b.x1), y, Clamp(pos[3], b.z0, b.z1)>>

\* Over a polygon this is the point of it below or above.
ClosestPointOnPoly(p, pos) == ClosestPointInBox(Box(p), p.y, pos)

Sideways(c, pos) == Square(c[1] - pos[1]) + Square(c[3] - pos[3])
Rise(c, pos) == IF c[2] < pos[2] THEN pos[2] - c[2] ELSE c[2] - pos[2]

\* How far pos is from polygon p: over it, only what is beyond a climb counts.
Away(p, pos, climb) ==
    IF OverPoly(p, pos)
    THEN Square(Max({0, Rise(ClosestPointOnPoly(p, pos), pos) - climb}))
    ELSE Sideways(ClosestPointOnPoly(p, pos), pos)
           + Square(Rise(ClosestPointOnPoly(p, pos), pos))

\* The place of the least of a sequence of numbers, the first of them.
Least(f) ==
    CHOOSE n \in DOMAIN f : \A m \in DOMAIN f :
        f[n] < f[m] \/ (f[n] = f[m] /\ n <= m)
===============================================================================
