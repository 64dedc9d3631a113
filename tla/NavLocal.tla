------------------------------- MODULE NavLocal -------------------------------
(***************************************************************************)
(* The short-range queries of dtNavMeshQuery, which keep nothing between   *)
(* two calls: findLocalNeighbourhood and moveAlongSurface, breadth first   *)
(* with the nodes of m_tinyNodePool, raycast, and getPolyWallSegments.     *)
(*                                                                         *)
(* They start from polygons of the ground.  Normals and the cost of a ray  *)
(* are left out.  How far a ray comes is a fraction [n, d] of its length.  *)
(***************************************************************************)
EXTENDS NavPortals, NavNodes

MaxStack == 48
MaxNeighbours == 8  \* MAX_NEIS of moveAlongSurface
MaxIntervals == 16  \* MAX_INTERVAL

\* The edges in the order of the loops "for (i = 0, j = nv-1; i < nv; j = i++)".
Edges(mesh, p) ==
    LET n == Len(mesh.verts[p]) IN [k \in 1..n |-> (k + n - 2) % n]

\* The links over an edge that the filter passes; one within the tile is whole.
Over(mesh, filter, p, n) ==
    LET nei == mesh.neis[p][n + 1]
        Passed(l) == l.edge = n /\ PassFilter(filter, mesh, l.to)
    IN  IF nei = Border THEN SelectSeq(mesh.links[p], Passed)
        ELSE IF nei # Wall /\ PassFilter(filter, mesh, nei)
        THEN <<[to |-> nei, limits |-> <<0, 255>>]>> ELSE <<>>

-------------------------------------------------------------------------------
(* The breadth-first walk of both searches.  A walk is a record of the pool,  *)
(* the queue of nodes, and what a search gathers; a job says what it is for.  *)

Begun(start, tiny) ==
    LET pool == GetNode(NodePool(tiny, 32), start, 0)
    IN  [pool |-> [pool EXCEPT !.nodes[1].flags = {"CLOSED"}], queue |-> <<1>>]

\* The front of the queue is visited until the queue is empty.  A node is put in
\* once, so there are no more visits than polygons.
Breadth(mesh, walk, Visit(_, _)) ==
    InTurn(LAMBDA w, k : IF w.queue = <<>> THEN w
                         ELSE Visit([w EXCEPT !.queue = Tail(@)], Head(w.queue)),
           walk, [k \in 1..Cardinality(Polys(mesh)) |-> k])

IsVisited(pool, ref) ==
    "CLOSED" \in GetNode(pool, ref, 0).nodes[NodeIdx(pool, ref, 0)].flags

VisitedFrom(pool, cur, ref) ==
    LET i == NodeIdx(pool, ref, 0)
    IN  [GetNode(pool, ref, 0) EXCEPT !.nodes[i].pidx = cur,
                                      !.nodes[i].flags = {"CLOSED"}]

Enqueue(queue, i) == IF Len(queue) < MaxStack THEN Append(queue, i) ELSE queue

-------------------------------------------------------------------------------
(* findLocalNeighbourhood *)

\* Polygons that only touch do not overlap.
OverlapPolyPoly(mesh, p, q) ==
    \A i \in {1, 2} :
        LET At(r) == {v[i] : v \in Range(mesh.verts[r])}
        IN  Max({Min(At(p)), Min(At(q))}) < Min({Max(At(p)), Max(At(q))})

Collides_Later(mesh, results, from, ref) ==
    \E found \in Range(Tail(results)) :
        /\ LinksTo(mesh, from, found.ref) = <<>>
        /\ OverlapPolyPoly(mesh, ref, found.ref)

\* With a result that the polygon it is reached from is not linked to.
Collides(mesh, results, from, ref) ==
    \E found \in Range(results) :
        /\ LinksTo(mesh, from, found.ref) = <<>>
        /\ OverlapPolyPoly(mesh, ref, found.ref)

\* A link of polygon `from`, the node `cur`.  A neighbour that collides has been
\* visited all the same, and is not tried again from elsewhere.
Neighbour(mesh, job, cur, from, w, link) ==
    LET ref == link.to
        near == /\ mesh.ground[ref]
                /\ PassFilter(job.filter, mesh, ref)
                /\ LET portal == GetPortalPoints(mesh, from, ref)
                   IN  DistancePtSegSqr(job.center, portal[1], portal[2])
                         <= job.radius * job.radius
        found == [ref |-> ref, parent |-> from]
    IN  IF ~CanGetNode(w.pool, ref, 0) THEN w
        ELSE IF IsVisited(w.pool, ref) \/ ~near
        THEN [w EXCEPT !.pool = GetNode(@, ref, 0)]
        ELSE IF Collides(mesh, w.results, from, ref)
        THEN [w EXCEPT !.pool = VisitedFrom(@, cur, ref)]
        ELSE [w EXCEPT !.pool = VisitedFrom(@, cur, ref),
                       !.queue = Enqueue(@, NodeIdx(w.pool, ref, 0)),
                       !.results = IF Len(@) < job.max THEN Append(@, found) ELSE @,
                       !.small = @ \/ Len(w.results) >= job.max]

FindLocalNeighbourhood(mesh, job) ==
    LET first == [ref |-> job.start, parent |-> NoRef]
        Visit(w, cur) ==
            LET from == w.pool.nodes[cur].id
            IN  InTurn(LAMBDA r, l : Neighbour(mesh, job, cur, from, r, l),
                       w, mesh.links[from])
    IN  Restrict(Breadth(mesh, Begun(job.start, job.tiny)
                           @@ [results |-> <<first>>, small |-> FALSE], Visit),
                 {"results", "small"})

-------------------------------------------------------------------------------
(* moveAlongSurface *)

\* On its left and lower edges a point is in the polygon, on the others not.
PointInPolygon(pt, verts) ==
    LET n == Len(verts)
        Crosses(j) ==
            LET a == verts[j] b == verts[(j % n) + 1]
            IN  (a[2] > pt[2]) # (b[2] > pt[2]) /\ pt[1] < a[1]
    IN  Cardinality({j \in 1..n : Crosses(j)}) % 2 = 1

NearestOn(pt, p, q) ==
    [i \in {1, 2} |-> Clamp(pt[i], Min({p[i], q[i]}), Max({p[i], q[i]}))]

\* Whether an edge is in reach: it meets the circle that has the way to go as
\* its diameter.  Lengths are doubled, for the middle's sake.
InReach_Start(job, a, b) ==
    4 * DistancePtSegSqr(job.from, a, b) <= DistancePtSegSqr(job.to, job.from, job.from)

InReach(job, a, b) ==
    LET Sum(u, v) == <<u[1] + v[1], u[2] + v[2]>>
    IN  DistancePtSegSqr(Sum(job.from, job.to), Sum(a, a), Sum(b, b))
          <= DistancePtSegSqr(job.to, job.from, job.from)

\* An edge without a neighbour is a wall, and its point nearest to the end the
\* best so far; else the neighbours that were not visited yet are queued.
EdgeMet(mesh, job, cur, ref, w, n) ==
    LET ends == EdgeEnds(mesh, ref, n)
        over == Over(mesh, job.filter, ref, n)
        dist == DistancePtSegSqr(job.to, ends[1], ends[2])
        Queue(r, l) ==
            IF ~CanGetNode(r.pool, l.to, 0) THEN r
            ELSE IF \/ IsVisited(r.pool, l.to)
                    \/ ~InReach(job, ends[1], ends[2])
                    \/ Len(r.queue) >= MaxStack
            THEN [r EXCEPT !.pool = GetNode(@, l.to, 0)]
            ELSE [r EXCEPT !.pool = VisitedFrom(@, cur, l.to),
                           !.queue = Append(@, NodeIdx(r.pool, l.to, 0))]
    IN  IF over # <<>>
        THEN InTurn(Queue, w, SubSeq(over, 1, Min({Len(over), MaxNeighbours})))
        ELSE IF w.best = 0 \/ dist < w.dist
        THEN [w EXCEPT !.best = cur, !.dist = dist,
                       !.pos = NearestOn(job.to, ends[1], ends[2])]
        ELSE w

\* The way to the node with the best point, as much of it as fits.
Moved(job, nodes, end, trail) ==
    [pos |-> end.pos, visited |-> Refs(nodes, Fitting(trail, job.max)),
     small |-> Len(trail) >= job.max]

MoveAlongSurface(mesh, job) ==
    LET Visit(w, cur) ==
            LET ref == w.pool.nodes[cur].id
            IN  IF PointInPolygon(job.to, mesh.verts[ref])
                THEN [w EXCEPT !.best = cur, !.pos = job.to, !.queue = <<>>]
                ELSE InTurn(LAMBDA r, n : EdgeMet(mesh, job, cur, ref, r, n),
                            w, Edges(mesh, ref))
        Done(end) ==
            Moved(job, end.pool.nodes, end,
                  IF end.best = 0 THEN <<>> ELSE Trail(end.pool.nodes, end.best))
    IN  Done(Breadth(mesh, Begun(job.start, job.tiny)
                       @@ [best |-> 0, dist |-> 0, pos |-> job.from], Visit))

-------------------------------------------------------------------------------
(* raycast *)

\* Where the line of edge n cuts the ray.
Cut(verts, from, to, n) ==
    LET a == verts[n + 1]
        b == verts[((n + 1) % Len(verts)) + 1]
    IN  [n |-> Perp(Minus(b, a), Minus(from, a)),
         d |-> Perp(Minus(to, from), Minus(b, a))]

Less(s, t) == s.n * t.d < t.n * s.d

\* Where the ray leaves a polygon before its end: the first edge of those it
\* crosses soonest; <<>> if it ends inside.
Leaves(mesh, p, from, to) ==
    LET At(n) == Cut(mesh.verts[p], from, to, n)
        out == SelectSeq(Edges(mesh, p), LAMBDA n : At(n).d > 0 /\ At(n).n < At(n).d)
        first == SelectSeq(out, LAMBDA n : \A m \in Range(out) : ~Less(At(m), At(n)))
    IN  IF first = <<>> THEN <<>> ELSE <<Head(first), At(Head(first))>>

\* A link over a part of a border edge is followed only where its portal is.
ThroughPortal_End(mesh, p, link, from, to, t) ==
    LET i == IF link.side \in {0, 4} THEN 2 ELSE 1
        ends == EdgeEnds(mesh, p, link.edge)
        Limit(l) == 255 * ends[1][i] + (ends[2][i] - ends[1][i]) * l
    IN  \/ link.side = Inside
        \/ link.limits = <<0, 255>>
        \/ 255 * to[i] \in Min({Limit(link.limits[1]), Limit(link.limits[2])})
                          ..Max({Limit(link.limits[1]), Limit(link.limits[2])})

ThroughPortal(mesh, p, link, from, to, t) ==
    LET i == IF link.side \in {0, 4} THEN 2 ELSE 1
        ends == EdgeEnds(mesh, p, link.edge)
        Limit(l) == t.d * (255 * ends[1][i] + (ends[2][i] - ends[1][i]) * l)
    IN  \/ link.side = Inside
        \/ link.limits = <<0, 255>>
        \/ 255 * (from[i] * t.d + (to[i] - from[i]) * t.n)
             \in Min({Limit(link.limits[1]), Limit(link.limits[2])})
               ..Max({Limit(link.limits[1]), Limit(link.limits[2])})

\* The links that a ray may follow which leaves polygon p over edge n.
Followable(mesh, job, p, n, t) ==
    SelectSeq(mesh.links[p], LAMBDA l :
        /\ l.edge = n
        /\ mesh.ground[l.to]
        /\ PassFilter(job.filter, mesh, l.to)
        /\ ThroughPortal(mesh, p, l, job.from, job.to, t))

\* The polygon that a ray is `at` is visited.  It ends there, at 1 over 1, or
\* hits the edge it leaves by, or goes on through the first link.
Visited(mesh, job, r, out) ==
    LET ray == [r EXCEPT !.path = Append(@, r.at)]
        far == [ray EXCEPT !.edge = out[1],
                           !.t = IF Less(@, out[2]) THEN out[2] ELSE @]
        next == Followable(mesh, job, r.at, out[1], out[2])
    IN  IF out = <<>>
        THEN [ray EXCEPT !.t = [n |-> 1, d |-> 1], !.edge = -1, !.at = NoRef,
                         !.end = TRUE]
        ELSE [far EXCEPT !.at = IF next = <<>> THEN NoRef ELSE Head(next).to]

\* A polygon that the ray does not meet ends it, and is not in its path.
Raycast(mesh, job) ==
    LET Cast[r \in [path : Seq(Polys(mesh)), at : Polys(mesh) \cup {NoRef},
                    t : [n : Int, d : Int], edge : Int, end : BOOLEAN]] ==
            IF r.at = NoRef
               \/ ~IntersectSegmentPoly(job.from, job.to, mesh.verts[r.at])
            THEN r
            ELSE Cast[Visited(mesh, job, r, Leaves(mesh, r.at, job.from, job.to))]
        Fitted(r) == [r EXCEPT !.path = Fitting(@, job.max)]
                       @@ [small |-> Len(r.path) > job.max]
    IN  Fitted(Cast[[path |-> <<>>, at |-> job.start, t |-> [n |-> 0, d |-> 1],
                     edge |-> -1, end |-> FALSE]])

-------------------------------------------------------------------------------
(* getPolyWallSegments: an interval is between two limits, in 255ths of its    *)
(* edge, with the polygon beyond, NoRef for a wall.                            *)

\* Before the first that begins where the new one ends, or later.
InsertInterval(ints, new) ==
    LET later == {k \in 1..Len(ints) : new.max <= ints[k].min}
    IN  IF Len(ints) >= MaxIntervals THEN ints
        ELSE InsertAt(ints, Min(later \cup {Len(ints) + 1}), new)

Interval(min, max, ref) == [min |-> min, max |-> max, ref |-> ref]

\* Portals if they are asked for, and the walls between them.
BorderSegments(mesh, filter, p, n, portals) ==
    LET open == InTurn(LAMBDA ints, l :
                    InsertInterval(ints, Interval(l.limits[1], l.limits[2], l.to)),
                    <<>>, Over(mesh, filter, p, n))
        ints == InsertInterval(InsertInterval(open, Interval(-1, 0, NoRef)),
                               Interval(255, 256, NoRef))
        Portal(k) == IF portals /\ ints[k].ref # NoRef THEN <<ints[k]>> ELSE <<>>
        Gap(k) == IF ints[k - 1].max = ints[k].min THEN <<>>
                  ELSE <<Interval(ints[k - 1].max, ints[k].min, NoRef)>>
    IN  FlattenSeq([k \in 1..(Len(ints) - 1) |-> Portal(k + 1) \o Gap(k + 1)])

\* Of an edge within the tile, all or nothing.
InnerSegment(mesh, filter, p, n, portals) ==
    LET over == Over(mesh, filter, p, n)
    IN  IF over = <<>> THEN <<Interval(0, 255, NoRef)>>
        ELSE IF portals THEN <<Interval(0, 255, Head(over).to)>> ELSE <<>>

GetPolyWallSegments(mesh, job) ==
    LET Of(p, n) == IF mesh.neis[p][n + 1] = Border
                    THEN BorderSegments(mesh, job.filter, p, n, job.portals)
                    ELSE InnerSegment(mesh, job.filter, p, n, job.portals)
        Marked(n, ints) == [i \in 1..Len(ints) |-> ints[i] @@ [edge |-> n]]
        Fitted(all) == [segments |-> Fitting(all, job.max),
                        small |-> Len(all) > job.max]
        edges == Edges(mesh, job.start)
    IN  Fitted(FlattenSeq([k \in 1..Len(edges) |->
                   Marked(edges[k], Of(job.start, edges[k]))]))
===============================================================================
