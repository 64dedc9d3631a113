------------------------------ MODULE NavQueries ------------------------------
(***************************************************************************)
(* NavAround's query when it is also asked what NavLocal and NavTree       *)
(* describe.  Those queries keep their nodes in m_tinyNodePool or none and *)
(* leave the search alone, so it is enough to ask before one begins; an    *)
(* answer is forgotten before the next call.                               *)
(***************************************************************************)
EXTENDS NavAround, NavLocal, NavTree

CONSTANTS
    TinySizes,  \* bound: the sizes of m_tinyNodePool, 64 in init
    Aims,       \* bound: where to move to and to cast rays to
    Places,     \* bound: the points <<x, y, z>> to look round
    Extents     \* QUERY_EXTENTS of the binding

VARIABLE asked  \* the query asked last: what was asked, and the answer

NoQuery == [op |-> "none"]

Ground == {p \in DOMAIN mesh.spot : mesh.ground[p]}

Ask(op, job, Answer(_, _)) ==
    /\ search = NoSearch /\ path = NoPath /\ asked = NoQuery
    /\ asked' = [op |-> op, job |-> job, answer |-> Answer(mesh, job)]
    /\ UNCHANGED vars

AskNeighbourhood(start, radius, filter, n, tiny) ==
    Ask("neighbourhood", [start |-> start, center |-> mesh.spot[start],
                          radius |-> radius, filter |-> filter, max |-> n,
                          tiny |-> tiny], FindLocalNeighbourhood)

Way(start, to, filter, n) ==
    [start |-> start, from |-> mesh.spot[start], to |-> to, filter |-> filter,
     max |-> n]

AskMove(start, to, filter, n, tiny) ==
    Ask("move", Way(start, to, filter, n) @@ [tiny |-> tiny], MoveAlongSurface)

AskRay(start, to, filter, n) == Ask("ray", Way(start, to, filter, n), Raycast)

AskWalls(ref, filter, portals, n) ==
    Ask("walls", [start |-> ref, filter |-> filter, portals |-> portals,
                  max |-> n], GetPolyWallSegments)

AskNearest(center, filter) ==
    Ask("nearest", [center |-> center, extents |-> Extents, filter |-> filter],
        FindNearestPoly)

AskPolygons(center, filter, n) ==
    Ask("polygons", [center |-> center, extents |-> Extents, filter |-> filter,
                     max |-> n], CollectPolygons)

-------------------------------------------------------------------------------

QueriesInit == Init /\ asked = NoQuery

Forget == asked # NoQuery /\ asked' = NoQuery /\ UNCHANGED vars

QueriesNext ==
    \/ asked = NoQuery /\ Next /\ UNCHANGED asked
    \/ Forget
    \/ \E p \in Ground, r \in Radii, f \in Filters, n \in ResultSizes, t \in TinySizes :
          AskNeighbourhood(p, r, f, n, t)
    \/ \E p \in Ground, v \in Aims, f \in Filters, n \in ResultSizes, t \in TinySizes :
          AskMove(p, v, f, n, t)
    \/ \E p \in Ground, v \in Aims, f \in Filters, n \in ResultSizes :
          AskRay(p, v, f, n)
    \/ \E p \in Polys(mesh), f \in Filters, s \in BOOLEAN, n \in ResultSizes :
          mesh.ground[p] /\ AskWalls(p, f, s, n)
    \/ \E c \in Places, f \in Filters : AskNearest(c, f)
    \/ \E c \in Places, f \in Filters, n \in ResultSizes : AskPolygons(c, f, n)

QueriesSpec == QueriesInit /\ [][QueriesNext]_<<vars, asked>>

\* A search runs its loop to the end.
QueriesFairSpec ==
    /\ QueriesSpec
    /\ WF_<<vars, asked>>((PolysTurn \/ WallTurn \/ \E u \in Rolls : RandomTurn(u))
                            /\ UNCHANGED asked)
-------------------------------------------------------------------------------
(* Properties *)

Job == asked.job
Answer == asked.answer

\* What one can walk to from a job's start, all of it ground.
SpreadOfJob(Open(_, _)) ==
    Spread(Job.start, {w \in Ways(Job.filter) :
                          mesh.ground[w[2]] /\ Open(w[1], w[2])})

\* No node is missing for want of room in the tiny pool.
Roomy == Job.tiny >= Cardinality(Polys(mesh))

\* Neither of two polygons overlaps the other, or one polygon is linked to both.
KeptApart(p, q) ==
    \/ ~OverlapPolyPoly(mesh, p, q)
    \/ \E r \in Polys(mesh) : LinksTo(mesh, r, p) # <<>> /\ LinksTo(mesh, r, q) # <<>>

\* "The local neighbourhood ... non-overlapping navigation polygons": no result
\* covers another, though layers one polygon is linked to may; all polygons in
\* reach are there, but for those that would and those behind them, and each is
\* linked from the one it was reached from (findLocalNeighbourhood).
NeighbourhoodApart ==
    asked.op = "neighbourhood" =>
        LET Near(p, q) ==
                LET seg == GetPortalPoints(mesh, p, q)
                IN  DistancePtSegSqr(Job.center, seg[1], seg[2]) <= Square(Job.radius)
            reach == SpreadOfJob(Near)
            listed == {found.ref : found \in Range(Answer.results)}
            shut == {q \in reach \ listed :
                        \E p \in listed : OverlapPolyPoly(mesh, p, q)}
            open == SpreadOfJob(LAMBDA p, q : Near(p, q) /\ q \notin shut)
        IN  /\ listed \subseteq reach
            /\ Cardinality(listed) = Len(Answer.results)
            /\ \A p, q \in listed : p = q \/ KeptApart(p, q)
            /\ \A k \in 2..Len(Answer.results) :
                  \E j \in 1..(k - 1) :
                     /\ Answer.results[j].ref = Answer.results[k].parent
                     /\ LinksTo(mesh, Answer.results[k].parent,
                                Answer.results[k].ref) # <<>>
            /\ Answer.small => Len(Answer.results) = Job.max
            /\ Roomy /\ ~Answer.small => open \subseteq listed

\* A walk over the edges that are in reach of a move.
InReachOfJob(p, q) ==
    \E l \in Range(LinksTo(mesh, p, q)) :
        LET ends == EdgeEnds(mesh, p, l.edge) IN InReach(Job, ends[1], ends[2])

EdgesBy(ps, Kind(_, _)) ==
    {e \in ps \X (0..7) : e[2] < Len(mesh.neis[e[1]]) /\ Kind(e[1], e[2])}

IsWall(p, n) == Over(mesh, Job.filter, p, n) = <<>>

\* A point on or in a polygon.
On(pt, p) ==
    LET b == Box([verts |-> mesh.verts[p]])
    IN  pt[1] \in b.x0..b.x1 /\ pt[2] \in b.z0..b.z1

LinkedWay(way) ==
    /\ way # <<>> => Head(way) = Job.start
    /\ \A k \in 1..(Len(way) - 1) :
          /\ LinksTo(mesh, way[k], way[k + 1]) # <<>>
          /\ mesh.ground[way[k + 1]] /\ PassFilter(Job.filter, mesh, way[k + 1])

\* The job's ray, with room for all its path.
WholeRay == Raycast(mesh, [Job EXCEPT !.max = 100])

\* A ray hits an edge that is open elsewhere.
HitsPartly(ray) ==
    ~ray.end /\ ~IsWall(ray.path[Len(ray.path)], ray.edge)

\* "The resulting position will equal the endPos if the end is reached. Otherwise
\* the closest reachable position": no wall of what is in reach is nearer, and
\* sliding never ends further away than walking straight would, which is where a
\* ray hits.  A ray that hits the closed part of an edge that is open elsewhere
\* is another matter: such an edge is no wall here (moveAlongSurface).
MovesNearest ==
    asked.op = "move" =>
        LET reach == SpreadOfJob(InReachOfJob)
            walls == EdgesBy(reach, IsWall)
            left == DistancePtSegSqr(Job.to, Answer.pos, Answer.pos)
            way == DistancePtSegSqr(Job.to, Job.from, Job.from)
            NoFurther(ray) ==
                HitsPartly(ray)
                \/ left * Square(ray.t.d) <= way * Square(ray.t.d - ray.t.n)
        IN  /\ LinkedWay(Answer.visited)
            /\ ~Answer.small /\ Answer.visited # <<>> =>
                  On(Answer.pos, Answer.visited[Len(Answer.visited)])
            /\ Roomy =>
                  /\ IF \E p \in reach : PointInPolygon(Job.to, mesh.verts[p])
                     THEN Answer.pos = Job.to
                     ELSE left = Min({DistancePtSegSqr(Job.to, ends[1], ends[2]) :
                            ends \in {EdgeEnds(mesh, e[1], e[2]) : e \in walls}})
                  /\ NoFurther(WholeRay)

\* The point that a ray has come to at `t` lies in an interval of an edge.
HitWithin(p, n, t, seg) ==
    LET a == EdgeEnds(mesh, p, n)[1]
        b == EdgeEnds(mesh, p, n)[2]
        At(i, l) == t.d * (255 * a[i] + (b[i] - a[i]) * l)
        Hit(i) == 255 * (Job.from[i] * t.d + (Job.to[i] - Job.from[i]) * t.n)
    IN  \A i \in {1, 2} : Hit(i) \in Min({At(i, seg.min), At(i, seg.max)})
                                   ..Max({At(i, seg.min), At(i, seg.max)})

SegmentsOf(p, portals) ==
    Range(GetPolyWallSegments(mesh, [start |-> p, filter |-> Job.filter,
                                     portals |-> portals, max |-> 100]).segments)

\* A ray goes from polygon p to the next only through a portal given for p.
GoesThrough(p, next, out) ==
    \E seg \in SegmentsOf(p, TRUE) :
        /\ seg.edge = out[1] /\ seg.ref = next
        /\ HitWithin(p, out[1], out[2], seg)

\* A ray that hits stops at a wall; one that does not ends in its last polygon.
StopsAtWall(ray, last) ==
    IF ray.end THEN On(Job.to, last)
    ELSE \E seg \in SegmentsOf(last, FALSE) :
            seg.edge = ray.edge /\ HitWithin(last, ray.edge, ray.t, seg)

RayRight(ray) ==
    /\ Answer.path = Fitting(ray.path, Job.max)
    /\ LinkedWay(ray.path)
    /\ StopsAtWall(ray, ray.path[Len(ray.path)])
    /\ \A k \in 1..(Len(ray.path) - 1) :
          GoesThrough(ray.path[k], ray.path[k + 1],
                      Leaves(mesh, ray.path[k], Job.from, Job.to))

\* The walls and portals that raycast meets are those that getPolyWallSegments
\* gives for the polygons of its path, though each finds them its own way.
RaysStopAtWalls == asked.op = "ray" => RayRight(WholeRay)

\* Ground that a box really touches, by the bounds of each polygon.
Touched(box) ==
    {p \in Polys(mesh) :
        /\ mesh.ground[p] /\ PassFilter(Job.filter, mesh, p)
        /\ OverlapBounds(box, [lo |-> Lowest(PolyData(mesh, p)),
                               hi |-> Highest(PolyData(mesh, p))])}

\* The trees lose nothing: all the ground a box touches is found, however coarse
\* their cells, each polygon once; and so the nearest polygon is as near as any
\* that the box touches (queryPolygons, findNearestPoly).
NearestFound ==
    asked.op \in {"polygons", "nearest"} =>
        LET box == BoxRound(Job.center, Job.extents)
            Dist(p) == Away(PolyData(mesh, p), Job.center, Climb(mesh, p))
        IN  IF asked.op = "polygons"
            THEN /\ IsInjective(Answer.polys)
                 /\ \A p \in Range(Answer.polys) :
                       mesh.ground[p] /\ PassFilter(Job.filter, mesh, p)
                 /\ IF Answer.small THEN Len(Answer.polys) = Job.max
                    ELSE Touched(box) \subseteq Range(Answer.polys)
            ELSE IF Answer.ref = NoRef THEN Touched(box) = {}
            ELSE \A p \in Touched(box) : Answer.dist <= Dist(p)
===============================================================================
