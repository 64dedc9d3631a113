------------------------------ MODULE MCNavRoute -------------------------------
(* NavRoute for TLC, on a mesh with a room that is out of reach. *)
EXTENDS NavRoute, MCNavMeshes

MCMeshes ==
    {LET m == Built(<<"open", "apart">>, Ends)
         Beside == {e \in Polys(m) \X Polys(m) : LinksTo(m, e[1], e[2]) # <<>>}
     IN  m @@ [mid |-> [e \in Beside |-> Middle(GetPortalPoints(m, e[1], e[2]))]]}
===============================================================================
