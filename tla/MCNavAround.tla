------------------------------ MODULE MCNavAround ------------------------------
(* NavQueries for TLC, on two meshes all of whose rooms are linked. *)
EXTENDS NavQueries, MCNavMeshes

MCMeshes == {Built(w, Ends) : w \in {<<"shut", "east", "balcony">>,
                                      <<"open", "east">>}}

\* A square round the corner of four rooms, and nearly all of the two tiles.
MCShapes == {<< <<6, 6>>, <<6, 10>>, <<10, 10>>, <<10, 6>> >>,
             << <<1, 3>>, <<6, 15>>, <<31, 14>>, <<30, 3>> >>}

MCGoals == {<<1, 1>>, <<14, 9>>, <<17, 14>>, <<40, 7>>}

MCAims == {0, 6, 11, 16, 23, 31} \X {0, 3, 7, 9, 14}

MCPlaces == {-1, 7, 15, 17, 24} \X {-3, 0, 2, 5} \X {1, 8, 15}

MCExtents == <<2, 4, 2>>
===============================================================================
