------------------------------- MODULE MCNavPath -------------------------------
(***************************************************************************)
(* NavPath for TLC: meshes of rectangles in two tiles, with doubled        *)
(* coordinates so that middles are whole numbers, and the distance walked  *)
(* along the axes.                                                         *)
(***************************************************************************)
EXTENDS NavPath

MCDistance(a, b) ==
    LET Abs(n) == IF n < 0 THEN -n ELSE n
    IN  Abs(a[1] - b[1]) + Abs(a[2] - b[2])

MCHashRef(ref) == 3 * ref + 1

\* Rectangles <<x0, z0, x1, z1>>; those right of `border` are in tile "R".
Rectangles(rects, border, ends, flags, area) ==
    LET N == DOMAIN rects
        Meet(p, q) == \* the shared edge <<x0, z0, x1, z1>> of two rectangles
            <<Max({rects[p][1], rects[q][1]}), Max({rects[p][2], rects[q][2]}),
              Min({rects[p][3], rects[q][3]}), Min({rects[p][4], rects[q][4]})>>
        Joined(p, q) == LET m == Meet(p, q) IN
            p # q /\ \/ m[1] = m[3] /\ m[2] < m[4]
                     \/ m[2] = m[4] /\ m[1] < m[3]
        Tile(p) == IF rects[p][1] >= border THEN "R" ELSE "L"
        Side(p, q) == IF Tile(p) = Tile(q) THEN Inside
                      ELSE IF Tile(p) = "L" THEN 0 ELSE 4
    IN  [tile |-> [p \in N |-> Tile(p)],
         links |-> [p \in N |->
            LET to == SetToSortSeq({q \in N : Joined(p, q)}, <)
            IN  [k \in 1..Len(to) |-> [to |-> to[k], side |-> Side(p, to[k])]]],
         mid |-> [e \in {<<p, q>> \in N \X N : Joined(p, q)} |->
            LET m == Meet(e[1], e[2]) IN <<m[1] + m[3], m[2] + m[4]>>],
         spot |-> [p \in ends |-> <<rects[p][1] + rects[p][3],
                                 rects[p][2] + rects[p][4]>>],
         flags |-> flags, area |-> area]

Walk == {"walk"}

\* A ring of rooms round a block, that begins in water and ends by a road.
Ring == Rectangles(
    << <<0, 0, 3, 1>>, <<0, 1, 1, 4>>, <<3, 0, 6, 2>>, <<1, 3, 5, 4>>,
       <<5, 2, 6, 4>>, <<3, 2, 4, 3>> >>, 3, {1, 4, 5},
    [p \in 1..6 |-> Walk],
    <<"water", "ground", "ground", "road", "ground", "ground">>)

\* A square with rooms all round, one beyond another, one shut off.
Square == Rectangles(
    << <<2, 2, 6, 5>>, <<0, 2, 2, 3>>, <<0, 3, 2, 7>>, <<2, 5, 3, 6>>,
       <<3, 5, 6, 8>>, <<6, 3, 7, 5>>, <<4, 0, 5, 2>>, <<2, 7, 3, 9>>,
       <<2, 0, 4, 2>> >>, 6,
    {1, 8},
    <<Walk, Walk, Walk, Walk, Walk, Walk, {"walk", "shut"}, {},
      Walk>>,
    <<"road", "ground", "ground", "water", "ground", "ground", "ground",
      "ground", "ground">>)

MCMeshes == {Ring, Square}
MCFilters ==
    {[include |-> Walk, exclude |-> {"shut"},
      cost |-> [ground |-> 1000, water |-> 4000, road |-> 500]]}
===============================================================================
