------------------------------- MODULE NavRoute --------------------------------
(***************************************************************************)
(* find_path of the Rust binding: findPath's corridor, pulled to a route   *)
(* by FindPathImpl.  It makes a query of its own each time, so no sliced   *)
(* search and no other call comes between, and it walks from and to points *)
(* that lie in the polygons found for them.                                *)
(***************************************************************************)
EXTENDS NavPath, NavStraight

RouteNext ==
    \/ \E p, q \in DOMAIN mesh.spot, f \in Filters, n \in PathSizes :
          FindPath(p, q, f, n)
    \/ FindPathStep
    \/ FindPathReturns

RouteSpec == Init /\ [][RouteNext]_vars

Route ==
    FindPathImpl(mesh, mesh.spot[answer.start], mesh.spot[answer.end],
                 answer.path, answer.end, answer.max)

-------------------------------------------------------------------------------

\* A partial route that is not cut short "ends at the closest reachable point":
\* where the last polygon of its corridor comes nearest to the goal.
RouteEndsClosest ==
    answer # NoAnswer /\ answer.path # <<>> =>
        LET last == answer.path[Len(answer.path)]
            route == Route.route
        IN  Route.partial /\ Len(route) < answer.max - 1 =>
                route[Len(route)].pos
                  = ClosestPointOnPolyBoundary(mesh, last, mesh.spot[answer.end])
===============================================================================
