-------------------------------- MODULE NavTree --------------------------------
(***************************************************************************)
(* Which polygons are near a point: the bounding-volume tree that          *)
(* dtCreateNavMeshData puts in a tile, and the queries that walk it,       *)
(* queryPolygons and findNearestPoly of dtNavMeshQuery, which is where     *)
(* each request of the binding begins.  A mesh has, besides what the       *)
(* searches see,                                                           *)
(*   at   : <<x, y>> -> the tiles at that location, in their order         *)
(*   data : tile -> its data, with its lowest and highest corner           *)
(*   base : tile -> the reference of its first polygon                     *)
(*   tree : tile -> the nodes of its tree                                  *)
(* Polygons are level, so that a detail mesh has the bounds of its         *)
(* polygon.  Of equal items qsort may leave any first; here it is the      *)
(* first.  Batches of 32 are left out.                                     *)
(***************************************************************************)
EXTENDS NavGraph, NavBoxes

CONSTANTS
    CellSize,   \* params->cs
    TileSize    \* tileWidth and tileHeight

ASSUME CellAssumption == CellSize \in Nat \ {0} /\ TileSize \in Nat \ {0}

Axes == {1, 2, 3}

-------------------------------------------------------------------------------
(* The tree.  A node covers lo..hi, in cells; a leaf's `i` is the index of    *)
(* its polygon, another's how many nodes to skip to leave it, negated.        *)

Lowest(p) == <<Box(p).x0, p.y, Box(p).z0>>
Highest(p) == <<Box(p).x1, p.y, Box(p).z1>>

Cells(pt, from) == [a \in Axes |-> (pt[a] - from[a]) \div CellSize]

Item(d, k) ==
    [lo |-> Cells(Lowest(d.polys[k]), d.lo), hi |-> Cells(Highest(d.polys[k]), d.lo),
     i |-> k - 1]

CalcExtends_Short(items) ==
    [lo |-> [a \in Axes |-> Min({it.lo[a] : it \in Range(Front(items))})],
     hi |-> [a \in Axes |-> Max({it.hi[a] : it \in Range(Front(items))})]]

CalcExtends(items) ==
    [lo |-> [a \in Axes |-> Min({it.lo[a] : it \in Range(items)})],
     hi |-> [a \in Axes |-> Max({it.hi[a] : it \in Range(items)})]]

\* The first of the axes along which a box is longest.
LongestAxis(box) == Least([a \in Axes |-> box.lo[a] - box.hi[a]])

\* A node, the nodes of its lower half, and those of its upper.
Subdivide(items) ==
    LET Nodes[its \in Seq(Range(items))] ==
            LET box == CalcExtends(its)
                axis == LongestAxis(box)
                sorted == SortSeq(its, LAMBDA s, t : s.lo[axis] < t.lo[axis])
                half == Len(its) \div 2
                left == Nodes[SubSeq(sorted, 1, half)]
                right == Nodes[SubSeq(sorted, half + 1, Len(its))]
            IN  IF Len(its) = 1 THEN its
                ELSE <<box @@ [i |-> -(1 + Len(left) + Len(right))]>> \o left \o right
    IN  Nodes[items]

\* Off-mesh connections, which come last in a tile, are not in its tree.
CreateBVTree(d) ==
    LET ground == SelectSeq([k \in 1..Len(d.polys) |-> k], LAMBDA k : d.polys[k].ground)
    IN  Subdivide([n \in 1..Len(ground) |-> Item(d, ground[n])])

-------------------------------------------------------------------------------
(* The queries.  A box is the corners <<lo, hi>>. *)

BoxRound(center, extents) ==
    [lo |-> [a \in Axes |-> center[a] - extents[a]],
     hi |-> [a \in Axes |-> center[a] + extents[a]]]

Even(n) == 2 * (n \div 2)
Odd(n) == 2 * (n \div 2) + 1

\* The box, clamped to the tile, to an even cell below and an odd one above.
Quantized(d, box) ==
    LET Clamped(pt) == [a \in Axes |-> Clamp(pt[a], d.lo[a], d.hi[a])]
        lo == Cells(Clamped(box.lo), d.lo)
        hi == Cells(Clamped(box.hi), d.lo)
    IN  [lo |-> [a \in Axes |-> Even(lo[a])], hi |-> [a \in Axes |-> Odd(hi[a] + 1)]]

OverlapBounds(s, t) == \A a \in Axes : s.lo[a] <= t.hi[a] /\ t.lo[a] <= s.hi[a]

\* The nodes from the k-th on: the next, or the one a node that is not overlapped
\* says to go on with.
QueryPolygonsInTile(mesh, tile, box, filter) ==
    LET nodes == mesh.tree[tile]
        asked == Quantized(mesh.data[tile], box)
        Found[k \in Nat] ==
            LET node == nodes[k]
                ref == mesh.base[tile] + node.i
            IN  IF k > Len(nodes) THEN <<>>
                ELSE IF ~OverlapBounds(asked, node)
                THEN Found[IF node.i < 0 THEN k - node.i ELSE k + 1]
                ELSE IF node.i >= 0 /\ PassFilter(filter, mesh, ref)
                THEN <<ref>> \o Found[k + 1] ELSE Found[k + 1]
    IN  Found[1]

CalcTileLoc(pt) == <<pt[1] \div TileSize, pt[3] \div TileSize>>

\* Row by row, the tiles that the box touches.
TilesTouched(mesh, box) ==
    LET from == CalcTileLoc(box.lo)
        to == CalcTileLoc(box.hi)
        Row(y) == FlattenSeq([n \in 1..(to[1] - from[1] + 1) |->
                      LET at == <<from[1] + n - 1, y>>
                      IN  IF at \in DOMAIN mesh.at THEN mesh.at[at] ELSE <<>>])
    IN  FlattenSeq([n \in 1..(to[2] - from[2] + 1) |-> Row(from[2] + n - 1)])

PolygonsIn(mesh, box, filter) ==
    LET tiles == TilesTouched(mesh, box)
    IN  FlattenSeq([n \in 1..Len(tiles) |->
            QueryPolygonsInTile(mesh, tiles[n], box, filter)])

\* queryPolygons with room for `max` of them.
CollectPolygons(mesh, job) ==
    LET found == PolygonsIn(mesh, BoxRound(job.center, job.extents), job.filter)
    IN  [polys |-> Fitting(found, job.max), small |-> Len(found) > job.max]

PolyData(mesh, ref) ==
    mesh.data[mesh.tile[ref]].polys[ref - mesh.base[mesh.tile[ref]] + 1]

Climb(mesh, ref) == mesh.data[mesh.tile[ref]].climb

\* The nearest polygon, the first of them, and the nearest point on it.
FindNearestPoly(mesh, job) ==
    LET found == PolygonsIn(mesh, BoxRound(job.center, job.extents), job.filter)
        d == [n \in 1..Len(found) |->
                Away(PolyData(mesh, found[n]), job.center, Climb(mesh, found[n]))]
        ref == found[Least(d)]
    IN  IF found = <<>> THEN [ref |-> NoRef]
        ELSE [ref |-> ref, dist |-> d[Least(d)],
              pos |-> ClosestPointOnPoly(PolyData(mesh, ref), job.center),
              over |-> OverPoly(PolyData(mesh, ref), job.center)]
===============================================================================
