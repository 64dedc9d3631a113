------------------------------- MODULE NavAround -------------------------------
(***************************************************************************)
(* The searches of dtNavMeshQuery that go outwards from a point, nearest   *)
(* first: findPolysAroundCircle, findPolysAroundShape,                     *)
(* findRandomPointAroundCircle and findDistanceToWall, each one turn of    *)
(* its loop at a time, and what reads the nodes a search left behind,      *)
(* getPathFromDijkstraSearch and isInClosedList.  The paths read so are    *)
(* also the corridors that NavStraight's strings are pulled through.       *)
(*                                                                         *)
(* The meshes are ones in which a link to an off-mesh connection has one   *)
(* back: otherwise getPortalPoints fails, and these loops, whose test of   *)
(* its status is never true, go on with points that were never set.        *)
(* Where on its polygon a random point lies is left out, and so are the    *)
(* position and the normal of a hit.                                       *)
(***************************************************************************)
EXTENDS NavStraight, NavNodes

CONSTANTS
    PoolSizes,    \* bound: the values of init's maxNodes
    Radii,        \* bound: the radii
    Shapes,       \* bound: the shapes, convex and clockwise
    ResultSizes,  \* bound: the values of maxResult and maxPath
    Rolls,        \* bound: what frand returns, in hundredths
    Goals         \* bound: the points to pull a string to

ASSUME PoolSizesAssumption == PoolSizes \subseteq Nat \ 0..3
ASSUME SizesAssumption == Radii \subseteq Nat /\ ResultSizes \subseteq Nat
ASSUME RollsAssumption == Rolls \subseteq 0..99

VARIABLES
    mesh,    \* m_nav
    pool,    \* m_nodePool
    heap,    \* m_openList
    search,  \* the locals of the search that runs, or ran last, and its results
    path     \* what getPathFromDijkstraSearch has returned since

vars == <<mesh, pool, heap, search, path>>

NoSearch == [op |-> "none", ended |-> TRUE]
NoPath == [end |-> NoRef]

Center(verts) ==
    [i \in {1, 2} |-> FoldLeft(LAMBDA n, v : n + v[i], 0, verts) \div Len(verts)]

\* Where a search begins, and where it enters polygons.
Points(m) ==
    Range(m.spot) \cup {Center(v) : v \in Shapes}
      \cup UNION {{Middle(GetPortalPoints(m, p, l.to)) : l \in Range(m.links[p])} :
                     p \in Polys(m)}

ASSUME MeshAssumption ==
    \A m \in Meshes :
       /\ IsFiniteSet(Polys(m)) /\ NoRef \notin Polys(m)
       /\ DOMAIN m.spot \subseteq Polys(m)
       /\ Range(m.spot) \subseteq Int \X Int
       /\ \A p \in Polys(m) :
             /\ HashRef(p) \in Nat
             /\ m.ground[p] => PolyArea(m.verts[p]) \in Nat
             /\ m.verts[p] \in Seq(Int \X Int)
             /\ Len(m.neis[p]) \in 0..Len(m.verts[p])
             /\ m.links[p] \in Seq(Range(m.links[p]))
             /\ \A l \in Range(m.links[p]) :
                   /\ l.to \in Polys(m)
                   /\ m.ground[l.to] => l.edge \in 0..(Len(m.verts[p]) - 1)
       /\ \A a, b \in Points(m) : Distance(a, b) \in Nat
       /\ \A filter \in Filters, p \in Polys(m) :
             filter.cost[m.area[p]] \in Nat

-------------------------------------------------------------------------------
(* What the loops share *)

Touches_Inside(s, seg) ==
    IF s.op = "shape" THEN IntersectSegmentPoly(seg[1], seg[2], s.shape)
    ELSE DistancePtSegSqr(s.center, seg[1], seg[2]) < s.radiusSqr

\* A wall nearer than the radius has taken its place.
Touches(s, seg) ==
    IF s.op = "shape" THEN IntersectSegmentPoly(seg[1], seg[2], s.shape)
    ELSE DistancePtSegSqr(s.center, seg[1], seg[2]) <= s.radiusSqr

\* What is measured to see whether a link may be followed: the portal, but the
\* whole edge for findDistanceToWall, which follows no off-mesh connection.
Crossed(s, from, link) ==
    IF s.op = "wall" THEN EdgeEnds(mesh, from, link.edge)
    ELSE GetPortalPoints(mesh, from, link.to)

Followed(s, from, link) ==
    /\ PassFilter(s.filter, mesh, link.to)
    /\ s.op = "wall" => mesh.ground[link.to]
    /\ Touches(s, Crossed(s, from, link))

StepCost(s, from, pos) ==
    IF s.op \in {"circle", "shape"}
    THEN GetCost(s.filter, mesh, from.pos, pos, from.id)
    ELSE Distance(from.pos, pos)

ParentRef(nodes, i) ==
    IF nodes[i].pidx = 0 THEN NoRef ELSE nodes[nodes[i].pidx].id

\* Node i, a neighbour of the best over a link, is put in the open list, or
\* reached at a lower total; a closed node is never opened again.
Reached(s, best, r, i, link) ==
    LET from == r.pool.nodes[best]
        to == r.pool.nodes[i]
        pos == IF to.flags = {}
               THEN Middle(GetPortalPoints(mesh, from.id, link.to)) ELSE to.pos
        At(p, total) == [r.pool EXCEPT !.nodes[i].pos = p, !.nodes[i].pidx = best,
                                       !.nodes[i].total = total,
                                       !.nodes[i].flags = {"OPEN"}]
        Queued(set) ==
            IF "CLOSED" \in to.flags THEN r
            ELSE IF to.flags = {}
            THEN [r EXCEPT !.pool = set, !.heap = Push(set, @, i)]
            ELSE IF set.nodes[i].total >= to.total THEN r
            ELSE [r EXCEPT !.pool = set, !.heap = Modify(set, @, i)]
    IN  Queued(At(pos, from.total + StepCost(s, from, pos)))

\* A link of the best node.  `r` is the pool and the heap, and whether the pool
\* ran out.
Relax(s, best, r, link) ==
    IF \/ link.to = ParentRef(r.pool.nodes, best)
       \/ ~Followed(s, r.pool.nodes[best].id, link)
    THEN r
    ELSE IF ~CanGetNode(r.pool, link.to, 0) THEN [r EXCEPT !.full = TRUE]
    ELSE Reached(s, best, [r EXCEPT !.pool = GetNode(@, link.to, 0)],
                 NodeIdx(r.pool, link.to, 0), link)

\* The links of the best node in the order of their list.
Expand(s, r, best) ==
    InTurn(LAMBDA now, l : Relax(s, best, now, l), r,
           mesh.links[r.pool.nodes[best].id])

Best == Top(heap)

Closed_Peek ==
    [heap |-> heap, full |-> search.full,
     pool |-> [pool EXCEPT !.nodes[Best].flags = (@ \ {"OPEN"}) \cup {"CLOSED"}]]

\* The best node leaves the open list for the closed.
Closed ==
    [heap |-> Pop(pool, heap), full |-> search.full,
     pool |-> [pool EXCEPT !.nodes[Best].flags = (@ \ {"OPEN"}) \cup {"CLOSED"}]]

-------------------------------------------------------------------------------
(* What each loop does with the polygon it has reached *)

\* It is added to the results, if there is room.
Recorded(s) ==
    LET found == [ref |-> pool.nodes[Best].id,
                  parent |-> ParentRef(pool.nodes, Best),
                  cost |-> pool.nodes[Best].total]
    IN  IF Len(s.results) < s.max THEN [s EXCEPT !.results = Append(@, found)]
        ELSE [s EXCEPT !.small = TRUE]

\* It is picked instead of those before it, as often as its area demands.
Sampled(s, roll) ==
    LET ref == pool.nodes[Best].id
        sum == s.areaSum + PolyArea(mesh.verts[ref])
    IN  IF ~mesh.ground[ref] THEN s
        ELSE IF roll * sum <= 100 * PolyArea(mesh.verts[ref])
        THEN [s EXCEPT !.areaSum = sum, !.picked = ref]
        ELSE [s EXCEPT !.areaSum = sum]

\* Where in a polygon's list its links over edge n are.
LinksOver(ref, n) ==
    {k \in 1..Len(mesh.links[ref]) : mesh.links[ref][k].edge = n}

Solid_AnyNeighbour(filter, ref, n) ==
    LET nei == mesh.neis[ref][n + 1]
        over == LinksOver(ref, n)
    IN  CASE nei = Wall -> TRUE
          [] nei = Border ->
               over = {} \/ ~PassFilter(filter, mesh, mesh.links[ref][Min(over)].to)
          [] OTHER -> FALSE

\* An edge one cannot leave by.  Of a border's links only the first is asked.
Solid(filter, ref, n) ==
    LET nei == mesh.neis[ref][n + 1]
        over == LinksOver(ref, n)
    IN  CASE nei = Wall -> TRUE
          [] nei = Border ->
               over = {} \/ ~PassFilter(filter, mesh, mesh.links[ref][Min(over)].to)
          [] OTHER -> ~PassFilter(filter, mesh, nei)

WallsOf(filter, ref) ==
    {n \in 0..(Len(mesh.neis[ref]) - 1) : Solid(filter, ref, n)}

Far(s, ref, n) ==
    DistancePtSegSqr(s.center, EdgeEnds(mesh, ref, n)[1],
                     EdgeEnds(mesh, ref, n)[2])

\* Its nearest wall, if within the radius, becomes the radius and the hit.
HitTested(s) ==
    LET ref == pool.nodes[Best].id
        hits == {n \in WallsOf(s.filter, ref) : Far(s, ref, n) <= s.radiusSqr}
        nearest == {n \in hits : \A m \in hits : Far(s, ref, n) <= Far(s, ref, m)}
    IN  IF hits = {} THEN s
        ELSE [s EXCEPT !.radiusSqr = Far(s, ref, Min(nearest)),
                       !.hit = <<ref, Min(nearest)>>]

-------------------------------------------------------------------------------
(* Operations *)

\* A search begins with the start polygon, at the center.
Begin(s) ==
    LET fresh == ClearPool(pool)
        i == NodeIdx(fresh, s.start, 0)
        begun == [GetNode(fresh, s.start, 0) EXCEPT
                    !.nodes[i].pos = s.center, !.nodes[i].flags = {"OPEN"}]
    IN  /\ pool' = begun
        /\ heap' = Push(begun, EmptyQueue, i)
        /\ search' = s
        /\ path' = NoPath
        /\ UNCHANGED mesh

FindPolysAroundCircle(start, radius, filter, maxResult) ==
    /\ search.ended
    /\ Begin([op |-> "circle", start |-> start, center |-> mesh.spot[start],
              radius |-> radius, radiusSqr |-> Square(radius),
              filter |-> filter, max |-> maxResult, results |-> <<>>,
              small |-> FALSE, full |-> FALSE, ended |-> FALSE])

FindPolysAroundShape(start, verts, filter, maxResult) ==
    /\ search.ended
    /\ Begin([op |-> "shape", start |-> start, center |-> Center(verts),
              shape |-> verts, filter |-> filter, max |-> maxResult,
              results |-> <<>>, small |-> FALSE, full |-> FALSE, ended |-> FALSE])

\* INVALID_PARAM, before anything is cleared, if the start may not be walked.
FindRandomPointAroundCircle(start, radius, filter) ==
    /\ search.ended
    /\ PassFilter(filter, mesh, start)
    /\ Begin([op |-> "random", start |-> start, center |-> mesh.spot[start],
              radius |-> radius, radiusSqr |-> Square(radius),
              filter |-> filter, areaSum |-> 0, picked |-> NoRef,
              full |-> FALSE, ended |-> FALSE])

FindDistanceToWall(start, radius, filter) ==
    /\ search.ended
    /\ Begin([op |-> "wall", start |-> start, center |-> mesh.spot[start],
              radius |-> radius, radiusSqr |-> Square(radius),
              filter |-> filter, hit |-> <<>>,
              full |-> FALSE, ended |-> FALSE])

\* One turn of the loop; the search has ended when nothing is left open.
Turn(s) ==
    /\ ~search.ended
    /\ \E now \in {s}, c \in {Closed} : \E r \in {Expand(now, c, Best)} :
          /\ pool' = r.pool
          /\ heap' = r.heap
          /\ search' = [now EXCEPT !.full = r.full,
                                   !.ended = r.heap = EmptyQueue]
    /\ UNCHANGED <<mesh, path>>

PolysTurn == search.op \in {"circle", "shape"} /\ Turn(Recorded(search))
RandomTurn(roll) == search.op = "random" /\ Turn(Sampled(search, roll))
WallTurn == search.op = "wall" /\ Turn(HitTested(search))

IsInClosedList(ref) ==
    LET found == FindNodes(pool, ref, 4)
    IN  \E k \in 1..Len(found) : "CLOSED" \in pool.nodes[found[k]].flags

\* Whatever the search before was; it fails for a polygon that one has not
\* closed.
GetPathFromDijkstraSearch(end, maxPath) ==
    LET found == FindNodes(pool, end, 1)
        known == found # <<>> /\ "CLOSED" \in pool.nodes[Head(found)].flags
        got == IF known THEN GetPathToNode(pool.nodes, Head(found), maxPath)
               ELSE [path |-> <<>>, details |-> {"INVALID_PARAM"}]
    IN  /\ search.ended
        /\ path' = [end |-> end, max |-> maxPath, known |-> known,
                    path |-> got.path, details |-> got.details]
        /\ UNCHANGED <<mesh, pool, heap, search>>

-------------------------------------------------------------------------------

Init ==
    /\ mesh \in Meshes
    /\ \E n \in PoolSizes : pool = NodePool(n, NextPow2(n \div 4))
    /\ heap = EmptyQueue
    /\ search = NoSearch
    /\ path = NoPath

Next ==
    \/ \E p \in DOMAIN mesh.spot, r \in Radii, f \in Filters, n \in ResultSizes :
          FindPolysAroundCircle(p, r, f, n)
    \/ \E p \in DOMAIN mesh.spot, v \in Shapes, f \in Filters, n \in ResultSizes :
          FindPolysAroundShape(p, v, f, n)
    \/ \E p \in DOMAIN mesh.spot, r \in Radii, f \in Filters :
          FindRandomPointAroundCircle(p, r, f)
    \/ \E p \in DOMAIN mesh.spot, r \in Radii, f \in Filters :
          FindDistanceToWall(p, r, f)
    \/ PolysTurn
    \/ \E u \in Rolls : RandomTurn(u)
    \/ WallTurn
    \/ \E p \in Polys(mesh), n \in ResultSizes : GetPathFromDijkstraSearch(p, n)

Spec == Init /\ [][Next]_vars

\* A search runs its loop to the end.
FairSpec ==
    Spec /\ WF_vars(PolysTurn \/ WallTurn \/ \E u \in Rolls : RandomTurn(u))
-------------------------------------------------------------------------------
(* Properties *)

Linked(p, q) == \E l \in Range(mesh.links[p]) : l.to = q

\* The steps that links and a filter allow.
Ways(filter) ==
    {w \in Polys(mesh) \X Polys(mesh) :
        Linked(w[1], w[2]) /\ PassFilter(filter, mesh, w[2])}

\* What one can walk to from a polygon by some of them.
Spread(start, ways) ==
    LET Ball[n \in 0..Cardinality(Polys(mesh))] ==
            IF n = 0 THEN {start}
            ELSE LET ball == Ball[n - 1]
                 IN  ball \cup {w[2] : w \in {w \in ways : w[1] \in ball}}
    IN  Ball[Cardinality(Polys(mesh))]

\* Whether the portal between two polygons is within what is searched.
Within(p, q) ==
    LET seg == GetPortalPoints(mesh, p, q)
    IN  IF search.op = "shape"
        THEN IntersectSegmentPoly(seg[1], seg[2], search.shape)
        ELSE DistancePtSegSqr(search.center, seg[1], seg[2])
               <= Square(search.radius)

Reach ==
    Spread(search.start, {w \in Ways(search.filter) : Within(w[1], w[2])})

JustEnded == search.ended /\ path = NoPath

ListedPolys == search.op \in {"circle", "shape"}
Listed == {search.results[k].ref : k \in 1..Len(search.results)}

\* Type correctness: the shape of nodes, open list and results.
TypeOK ==
    /\ pool.max \in PoolSizes /\ Len(pool.nodes) <= pool.max
    /\ \A i \in 1..Len(pool.nodes) :
          /\ pool.nodes[i].id \in Polys(mesh)
          /\ pool.nodes[i].state = 0
          /\ pool.nodes[i].pidx \in 0..Len(pool.nodes)
          /\ pool.nodes[i].flags \in {{"OPEN"}, {"CLOSED"}}
    /\ Range(heap) \subseteq 1..Len(pool.nodes)
    /\ ListedPolys => Len(search.results) <= search.max
    /\ path # NoPath => Len(path.path) <= path.max

\* Types hold, the pool's hash finds every node, and the heap holds the open
\* ones with the least at its root, until none is left (DetourNode and the four loops).
NodesOK ==
    /\ TypeOK
    /\ ChainsOK(pool)
    /\ HeapOK(pool, heap)
    /\ OpenOK(pool, heap)
    /\ search.ended <=> heap = EmptyQueue

\* "The order of the result set is from least to highest cost": no polygon is
\* listed twice, none before one that costs less, and none before its parent.
ResultsOrdered ==
    ListedPolys => \A k \in 1..Len(search.results) :
        LET found == search.results[k]
        IN  /\ \A j \in 1..(k - 1) :
                  /\ search.results[j].ref # found.ref
                  /\ search.results[j].cost <= found.cost
            /\ IF k = 1 THEN found.parent = NoRef
               ELSE \E j \in 1..(k - 1) :
                       search.results[j].ref = found.parent

\* findPolysAroundCircle and findPolysAroundShape find every polygon that can
\* be walked to across what they search, and no other; results that do not fit
\* and nodes that run out are the only ones missing, and both are reported.
\* findRandomPointAroundCircle picks one of them, of the ground, and fails only
\* when there is none.
AroundComplete ==
    /\ ListedPolys /\ JustEnded =>
          /\ Listed \subseteq Reach
          /\ ~search.full => {p \in Polys(mesh) : IsInClosedList(p)} = Reach
          /\ IF search.small
             THEN /\ Len(search.results) = search.max
                  /\ search.max < Cardinality(Reach)
             ELSE search.full \/ Listed = Reach
    /\ search.op = "random" /\ JustEnded =>
          LET ground == {p \in Reach : mesh.ground[p]}
          IN  /\ search.picked \in ground \cup {NoRef}
              /\ ~search.full /\ ground # {} => search.picked # NoRef

\* An edge is a wall, along all its length, when no neighbour over it may be
\* walked.
WallEdge(p, n) ==
    LET nei == mesh.neis[p][n + 1]
    IN  \/ nei = Wall
        \/ /\ nei = Border
           /\ \A l \in Range(mesh.links[p]) :
                 l.edge = n => ~PassFilter(search.filter, mesh, l.to)
        \/ /\ nei \notin {Wall, Border}
           /\ ~PassFilter(search.filter, mesh, nei)

\* A border edge one may leave by, but not over the first of its links.
ShutFirst ==
    \E p \in Polys(mesh) : \E n \in 0..(Len(mesh.neis[p]) - 1) :
        LET over == LinksOver(p, n)
            Open(k) == PassFilter(search.filter, mesh, mesh.links[p][k].to)
        IN  /\ mesh.neis[p][n + 1] = Border
            /\ over # {}
            /\ ~Open(Min(over)) /\ \E k \in over : Open(k)

\* How far the nearest wall is of all the ground one can walk to over edges
\* within a circle; the radius if it is no nearer.
NearestWall(radiusSqr) ==
    LET Near(p, q) == \E l \in Range(mesh.links[p]) :
            l.to = q /\ mesh.ground[q] /\ Far(search, p, l.edge) <= radiusSqr
        near == Spread(search.start,
                       {w \in Ways(search.filter) : Near(w[1], w[2])})
        Walls(p) == {n \in 0..(Len(mesh.neis[p]) - 1) : WallEdge(p, n)}
    IN  Min({Square(search.radius)}
              \cup UNION {{Far(search, p, n) : n \in Walls(p)} : p \in near})

\* findDistanceToWall narrows its circle with every wall it meets.  It comes to
\* the nearest of the walls within the last circle, or to a nearer one that was
\* within the first; it says it hit something when it did.  A border edge that
\* is shut over its first link only it takes for a wall.
WallNearest ==
    search.op = "wall" /\ JustEnded /\ ~search.full /\ ~ShutFirst =>
        /\ search.radiusSqr <= NearestWall(search.radiusSqr)
        /\ search.radiusSqr >= NearestWall(Square(search.radius))
        /\ search.radiusSqr < Square(search.radius) => search.hit # <<>>

\* The nodes a search leaves lead back from each polygon it closed to its
\* start, along links, and from no other (getPathFromDijkstraSearch).
PathsBack ==
    path # NoPath =>
        /\ path.known <=> IsInClosedList(path.end)
        /\ ListedPolys /\ ~search.small => (path.known <=> path.end \in Listed)
        /\ path.path # <<>> =>
              /\ Head(path.path) = search.start
              /\ \A k \in 1..(Len(path.path) - 1) :
                    Linked(path.path[k], path.path[k + 1])
        /\ path.known /\ "BUFFER_TOO_SMALL" \notin path.details =>
              path.path[Len(path.path)] = path.end

\* A path read back, between polygons of the ground, as a corridor.
Corridor == path # NoPath /\ path.path # <<>>
            /\ mesh.ground[search.start] /\ mesh.ground[path.path[Len(path.path)]]

Pulled(corridor, goal, n) ==
    FindStraightPath(mesh, mesh.spot[search.start], goal, corridor, n)

Ample == 100  \* more points than any string here has

\* A string pulled through a path to a goal is taut.
TautTo(way, goal, p) ==
    LET n == Len(p.points)
    IN  /\ p.status = {"SUCCESS"}
        /\ p.points[1].pos = mesh.spot[search.start]
        /\ p.points[n] =
              [pos |-> ClosestPointOnPolyBoundary(mesh, way[Len(way)], goal),
               flags |-> "END", ref |-> NoRef]
        /\ Through(mesh, way, p.points)
        /\ Taut(mesh, way, p.points)
        /\ \A k \in 1..n : p.points[k].flags = "OFFMESH" =>
              /\ ~mesh.ground[p.points[k].ref]
              /\ k < n
              /\ {p.points[k].pos, p.points[k + 1].pos}
                   = Range(mesh.verts[p.points[k].ref])

\* The same points, if not more of them than `n`.
CutTo(n, some, all) ==
    /\ [k \in 1..Len(some.points) |-> some.points[k].pos]
         = [k \in 1..Min({n, Len(all)}) |-> all[k].pos]
    /\ n < Len(all) => "BUFFER_TOO_SMALL" \in some.status

\* A string to where the path broke off, and how far the whole one goes alike.
BrokenLike(p, whole) ==
    LET n == Len(p.points)
    IN  /\ p.status = {"SUCCESS", "PARTIAL_RESULT"}
        /\ p.points[n].pos = whole[Len(whole)].pos
        /\ n <= Len(whole)
        /\ \A k \in 1..(n - 1) : p.points[k].pos = whole[k].pos

\* A string goes through every portal of its corridor and is taut; it begins
\* and ends as near as the first and the last polygon get (findStraightPath,
\* "what is often called 'string pulling'").  A point flagged as the start of
\* an off-mesh connection names it, and the next is at the connection's end.
\* "They will be filled as far as possible from the start": with less room the
\* points are the first of the same string, and the status says so.  A corridor
\* one polygon of which has left the mesh is pulled as far as the one before it,
\* and the status says the result is partial.  It turns where the string to
\* there would, but what is left to the end it goes straight.
PullsTaut ==
    Corridor => \A goal \in Goals :
        /\ TautTo(path.path, goal, Pulled(path.path, goal, Ample))
        /\ \A n \in 1..4 : CutTo(n, Pulled(path.path, goal, n),
                               Pulled(path.path, goal, Ample).points)
        /\ \A j \in 2..(Len(path.path) - 1) :
              BrokenLike(Pulled([path.path EXCEPT ![j] = NoRef], goal, Ample),
                         Pulled(SubSeq(path.path, 1, j - 1), goal, Ample).points)

\* Every search ends: a closed polygon is never opened again.
AroundEnds == ~search.ended ~> search.ended
===============================================================================
