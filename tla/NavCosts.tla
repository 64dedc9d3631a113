------------------------------- MODULE NavCosts -------------------------------
(***************************************************************************)
(* What findPath and the sliced search measure.  Their meshes also have    *)
(*   mid   : <<from, to>> -> the middle of the portal between two polygons *)
(***************************************************************************)
EXTENDS NavGraph, Functions

\* H_SCALE is 0.999; the heuristic is in thousandths like the costs.
HScale == 999
Heuristic(a, b) == HScale * Distance(a, b)

GetEdgeMidPoint(mesh, from, to) == mesh.mid[<<from, to>>]

Points(mesh) == Range(mesh.spot) \cup Range(mesh.mid)

ASSUME MeshAssumption ==
    \A mesh \in Meshes :
       /\ \A p \in Polys(mesh) :
             /\ mesh.links[p] \in Seq(Range(mesh.links[p]))
             /\ \A l \in Range(mesh.links[p]) :
                   /\ l.to \in Polys(mesh) /\ <<p, l.to>> \in DOMAIN mesh.mid
                   /\ l.side \in 0..7 \cup {Inside}
       /\ \A a, b \in Points(mesh) : Distance(a, b) \in Nat
       /\ \A filter \in Filters, p \in Polys(mesh) :
             filter.cost[mesh.area[p]] \in Nat
===============================================================================
