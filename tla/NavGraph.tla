------------------------------- MODULE NavGraph -------------------------------
(***************************************************************************)
(* The navigation mesh as Detour's searches see it: polygons joined by     *)
(* links, and the filter that says which of them may be walked and at what *)
(* cost.  Coordinates are abstracted to points with a `Distance`.          *)
(*                                                                         *)
(* A mesh is a record of                                                   *)
(*   tile  : polygon -> the tile it lies in                                *)
(*   links : polygon -> its links in the order of their list, each with    *)
(*           the polygon it leads `to` and the tile `side` it crosses,     *)
(*           Inside for a link within one tile                             *)
(*   spot  : polygon a caller searches from or to -> the point in it        *)
(*   flags : polygon -> its flags                                          *)
(*   area  : polygon -> its area type                                      *)
(* and a filter of the flags it includes and excludes and the cost of each *)
(* area.                                                                   *)
(***************************************************************************)
EXTENDS Integers, Sequences

CONSTANTS
    Meshes,         \* the meshes to search
    Filters,        \* the filters to search them with
    NoRef,          \* reference 0
    Distance(_, _)  \* dtVdist

\* A fold from the left each step of which is made a value, so that TLC
\* evaluates it once.
InTurn(Op(_, _), base, seq) ==
    LET After[k \in 0..Len(seq)] ==
            IF k = 0 THEN base
            ELSE CHOOSE r \in {Op(acc, seq[k]) : acc \in {After[k - 1]}} : TRUE
    IN  After[Len(seq)]

\* The start of a sequence, as much of it as fits.
Fitting(seq, max) == SubSeq(seq, 1, IF Len(seq) < max THEN Len(seq) ELSE max)

Inside == 255  \* side 0xff

Polys(mesh) == DOMAIN mesh.tile

\* Removing a tile takes the links to its polygons out of every list: these
\* are the ones that the tiles in `gone` have left.
IsLeft(mesh, gone, link) == mesh.tile[link.to] \notin gone

IsValidPolyRef(mesh, gone, ref) ==
    ref \in Polys(mesh) /\ mesh.tile[ref] \notin gone

PassFilter(filter, mesh, ref) ==
    /\ mesh.flags[ref] \cap filter.include # {}
    /\ mesh.flags[ref] \cap filter.exclude = {}

\* Costs are in thousandths: an area costs 1.0 unless it is set.
GetCost(filter, mesh, a, b, ref) ==
    Distance(a, b) * filter.cost[mesh.area[ref]]
===============================================================================
