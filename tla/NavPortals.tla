------------------------------ MODULE NavPortals ------------------------------
(***************************************************************************)
(* The shapes of a mesh, for the queries that measure it: NavGraph's       *)
(* meshes with, besides,                                                   *)
(*   verts  : polygon -> its corners <<x, z>>, clockwise                   *)
(*   neis   : polygon -> what is beyond each edge: Wall, Border or the     *)
(*            reference of a polygon of the same tile                      *)
(*   ground : polygon -> whether it is ground, not an off-mesh connection  *)
(* and links with the `edge` they cross and the `limits` of its portal,    *)
(* from which the middles come instead of `mid`.                           *)
(* Edges are parallel to an axis; heights are left out, as in the tests    *)
(* these queries make.                                                     *)
(***************************************************************************)
EXTENDS NavGraph, NavBoxes

Wall == 0     \* neis 0
Border == -1  \* neis with DT_EXT_LINK

\* The two ends of edge n (from 0) of polygon p.
EdgeEnds(mesh, p, n) ==
    LET v == mesh.verts[p] IN <<v[n + 1], v[((n + 1) % Len(v)) + 1]>>

LinksTo(mesh, from, to) == SelectSeq(mesh.links[from], LAMBDA l : l.to = to)

\* dtVlerp, in 255ths, to the nearest coordinate.
Lerp(a, b, t) == [i \in {1, 2} |-> a[i] + ((b[i] - a[i]) * 2 * t + 255) \div 510]

\* The portal between two polygons; <<>> when the link it is read from, the
\* one back from a connection, is not there.
GetPortalPoints(mesh, from, to) ==
    LET out == LinksTo(mesh, from, to)
        back == LinksTo(mesh, to, from)
        link == Head(out)
        ends == EdgeEnds(mesh, from, link.edge)
        Corner(p, l) == <<mesh.verts[p][l.edge + 1], mesh.verts[p][l.edge + 1]>>
    IN  IF out = <<>> THEN <<>>
        ELSE IF ~mesh.ground[from] THEN Corner(from, link)
        ELSE IF ~mesh.ground[to]
        THEN IF back = <<>> THEN <<>> ELSE Corner(to, Head(back))
        ELSE IF link.side # Inside /\ link.limits # <<0, 255>>
        THEN <<Lerp(ends[1], ends[2], link.limits[1]),
               Lerp(ends[1], ends[2], link.limits[2])>>
        ELSE ends

Middle(portal) ==
    [i \in {1, 2} |-> (portal[1][i] + portal[2][i]) \div 2]

\* The square of the distance of a point from a segment.
DistancePtSegSqr(pt, p, q) ==
    LET Off(i) == pt[i] - Clamp(pt[i], Min({p[i], q[i]}), Max({p[i], q[i]}))
    IN  Off(1) * Off(1) + Off(2) * Off(2)

Minus(u, v) == <<u[1] - v[1], u[2] - v[2]>>
Perp(u, v) == u[2] * v[1] - u[1] * v[2]

\* A segment is cut by the line of each edge of a convex polygon at n / d of its
\* length; it touches the polygon when it enters by the last edge before it
\* leaves by the first.
IntersectSegmentPoly(p0, p1, verts) ==
    LET Along(j) == Minus(verts[(j % Len(verts)) + 1], verts[j])
        cuts == {[n |-> Perp(Along(j), Minus(p0, verts[j])),
                  d |-> Perp(Minus(p1, p0), Along(j))] : j \in 1..Len(verts)}
        enter == {c \in cuts : c.d < 0}
        leave == {c \in cuts : c.d > 0}
    IN  /\ \A c \in cuts : c.d = 0 => c.n >= 0
        /\ \A e \in enter : e.n >= e.d
        /\ \A l \in leave : l.n >= 0
        /\ \A e \in enter, l \in leave : e.n * l.d >= l.n * e.d

TriArea(a, b, c) ==
    (c[1] - a[1]) * (b[2] - a[2]) - (b[1] - a[1]) * (c[2] - a[2])

\* Twice the area of a polygon, triangle by triangle.
PolyArea(verts) ==
    FoldLeft(LAMBDA n, m : n + m, 0,
             [j \in 1..(Len(verts) - 2) |->
                 TriArea(verts[1], verts[j + 1], verts[j + 2])])
===============================================================================
