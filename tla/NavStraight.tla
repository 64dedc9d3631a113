------------------------------ MODULE NavStraight ------------------------------
(***************************************************************************)
(* dtNavMeshQuery::findStraightPath, the funnel that pulls a corridor of   *)
(* polygons to a string of points, and what find_path of the Rust binding  *)
(* makes of it.  The crossings its options ask for are left out: the shim  *)
(* asks for none.  Polygons are rectangles, and heights are left out.      *)
(*                                                                         *)
(* A pull is a record of the points so far, each with its flags and the    *)
(* polygon entered there, the room for them, the status (empty while the   *)
(* loop runs), the portal `i` it is at, the apex of the funnel and its two *)
(* sides, each `at` the portal it was taken from.                          *)
(***************************************************************************)
EXTENDS NavPortals

ClosestPointOnPolyBoundary(mesh, ref, pos) ==
    LET At(i) == {v[i] : v \in Range(mesh.verts[ref])}
    IN  [i \in {1, 2} |-> Clamp(pos[i], Min(At(i)), Max(At(i)))]

\* A point like the last one takes its place.
AppendVertex(s, pos, flags, ref) ==
    LET vertex == [pos |-> pos, flags |-> flags, ref |-> ref]
        n == Len(s.points)
    IN  IF n > 0 /\ s.points[n].pos = pos THEN [s EXCEPT !.points[n] = vertex]
        ELSE [s EXCEPT
                !.points = Append(@, vertex),
                !.status = IF n + 1 >= s.max THEN {"SUCCESS", "BUFFER_TOO_SMALL"}
                           ELSE IF flags = "END" THEN {"SUCCESS"} ELSE {}]

\* The portal out of the i-th polygon of a corridor, at its end the end; <<>>
\* when one of the two is not in the mesh or no longer linked to the other.
Portal(mesh, path, end, i) ==
    IF i = Len(path) THEN <<end, end>>
    ELSE IF {path[i], path[i + 1]} \subseteq Polys(mesh)
    THEN GetPortalPoints(mesh, path[i], path[i + 1]) ELSE <<>>

\* A side taken from a portal, and whether an off-mesh connection begins there.
SideAt(mesh, path, pos, i) ==
    [pos |-> pos, at |-> i,
     ref |-> IF i = Len(path) THEN NoRef ELSE path[i + 1],
     hop |-> i < Len(path) /\ ~mesh.ground[path[i + 1]]]

Corner_OtherSide(s, side) ==
    [AppendVertex(s, side.pos, "NONE", side.ref) EXCEPT
        !.apex = side.pos, !.i = s.i + 1,
        !.left.pos = side.pos, !.left.at = side.at,
        !.right.pos = side.pos, !.right.at = side.at]

\* The string turns at a side, and the funnel starts again from there.
Corner(s, side) ==
    LET flags == IF side.ref = NoRef THEN "END"
                 ELSE IF side.hop THEN "OFFMESH" ELSE "NONE"
    IN  [AppendVertex(s, side.pos, flags, side.ref) EXCEPT
            !.apex = side.pos, !.i = side.at + 1,
            !.left.pos = side.pos, !.left.at = side.at,
            !.right.pos = side.pos, !.right.at = side.at]

NarrowLeft(s, side) ==
    IF TriArea(s.apex, s.left.pos, side.pos) < 0 THEN [s EXCEPT !.i = @ + 1]
    ELSE IF s.apex = s.left.pos \/ TriArea(s.apex, s.right.pos, side.pos) < 0
    THEN [s EXCEPT !.left = side, !.i = @ + 1]
    ELSE Corner(s, s.right)

\* The sides narrow to those of the next portal, first the right one; one that
\* would cross the other makes that the corner.
Narrow(s, left, right) ==
    IF TriArea(s.apex, s.right.pos, right.pos) > 0 THEN NarrowLeft(s, left)
    ELSE IF s.apex = s.right.pos \/ TriArea(s.apex, s.left.pos, right.pos) > 0
    THEN NarrowLeft([s EXCEPT !.right = right], left)
    ELSE Corner(s, s.left)

Finished(s, details) ==
    [s EXCEPT !.status = {"SUCCESS"} \cup details \cup
        (IF Len(s.points) >= s.max THEN {"BUFFER_TOO_SMALL"} ELSE {})]

\* A corridor that breaks off ends as near as its last polygon gets.
BrokenOff(mesh, path, to, s) ==
    IF path[s.i] \notin Polys(mesh) THEN [s EXCEPT !.status = {"FAILURE"}]
    ELSE Finished(AppendVertex(s, ClosestPointOnPolyBoundary(mesh, path[s.i], to),
                               "NONE", path[s.i]), {"PARTIAL_RESULT"})

\* One turn of the loop, or what is after it.
Pull(mesh, path, to, end, s) ==
    LET portal == Portal(mesh, path, end, s.i)
        Side(n) == SideAt(mesh, path, portal[n], s.i)
    IN  IF s.i > Len(path) \/ Len(path) = 1
        THEN Finished(AppendVertex(s, end, "END", NoRef), {})
        ELSE IF portal = <<>> THEN BrokenOff(mesh, path, to, s)
        ELSE IF s.i = 1 /\ DistancePtSegSqr(s.apex, portal[1], portal[2]) = 0
        THEN [s EXCEPT !.i = 2]
        ELSE Narrow(s, Side(1), Side(2))

\* A corner is at a portal beyond the last, so as many turns are enough.
Turns(path) == (Len(path) + 1) * (Len(path) + 1)

FindStraightPath(mesh, from, to, path, maxPoints) ==
    LET start == ClosestPointOnPolyBoundary(mesh, path[1], from)
        end == ClosestPointOnPolyBoundary(mesh, path[Len(path)], to)
        side == [pos |-> start, at |-> 1, ref |-> path[1], hop |-> FALSE]
        begun == AppendVertex(
            [points |-> <<>>, max |-> maxPoints, status |-> {}, i |-> 1,
             apex |-> start, left |-> side, right |-> side],
            start, "START", path[1])
        Turn(s, k) == IF s.status = {} THEN Pull(mesh, path, to, end, s) ELSE s
    IN  IF {path[1], path[Len(path)]} \subseteq Polys(mesh)
        THEN Restrict(InTurn(Turn, begun, [k \in 1..Turns(path) |-> k]),
                      {"points", "status"})
        ELSE [points |-> <<>>, status |-> {"FAILURE"}]

\* find_path_impl: a route that does not come to the goal's polygon is partial,
\* and loses its last point, unless that is its only one.
FindPathImpl(mesh, from, to, corridor, endRef, maxPath) ==
    LET pulled == FindStraightPath(mesh, from, to, corridor, maxPath).points
        partial == corridor[Len(corridor)] # endRef
    IN  [partial |-> partial,
         route |-> IF partial THEN SubSeq(pulled, 1, Max({Len(pulled) - 1, 1}))
                   ELSE pulled]

-------------------------------------------------------------------------------
(* What a pulled string should be. *)

\* Whether two segments meet, if only at an end.
Meet(a, b, c, d) ==
    LET Apart(p, q, r, t) == TriArea(p, q, r) * TriArea(p, q, t) > 0
        Beside(i) == \/ Max({a[i], b[i]}) < Min({c[i], d[i]})
                     \/ Max({c[i], d[i]}) < Min({a[i], b[i]})
    IN  ~Apart(a, b, c, d) /\ ~Apart(c, d, a, b) /\ ~Beside(1) /\ ~Beside(2)

\* The string goes through every portal of the corridor in turn.
Through(mesh, path, points) ==
    LET Meets(k, i) ==
            LET p == GetPortalPoints(mesh, path[i], path[i + 1])
            IN  Meet(points[k].pos, points[k + 1].pos, p[1], p[2])
        \* The first segment from the k-th on that meets portal i, or beyond.
        First(k, i) == Min({n \in k..(Len(points) - 1) : Meets(n, i)}
                             \cup {Len(points)})
        Passed[i \in 0..(Len(path) - 1)] ==
            IF i = 0 THEN 1 ELSE First(Passed[i - 1], i)
    IN  Len(points) = 1 \/ Passed[Len(path) - 1] < Len(points)

\* Where it turns, it turns round an end of a portal, and to that side: it
\* cannot be drawn any tighter.
Taut(mesh, path, points) ==
    \A k \in 2..(Len(points) - 1) :
        LET turn == TriArea(points[k - 1].pos, points[k].pos, points[k + 1].pos)
            At(n) == {GetPortalPoints(mesh, path[i], path[i + 1])[n] :
                         i \in 1..(Len(path) - 1)}
        IN  /\ turn > 0 => points[k].pos \in At(2)
            /\ turn < 0 => points[k].pos \in At(1)
===============================================================================
