------------------------------ MODULE MCNavTiles ------------------------------
(***************************************************************************)
(* NavTiles for TLC: four tiles in three places, 6 wide, one of them a     *)
(* second layer; a portal that meets more polygons than it may be linked   *)
(* to, a tile with too few links, and connections across tiles.            *)
(***************************************************************************)
EXTENDS NavTiles

Right == ExtLink
Up == ExtLink + 2
Left == ExtLink + 4
Down == ExtLink + 6

\* A rectangle's edges: left, top, right, bottom.
Room(x0, z0, x1, z1, y, neis) ==
    [verts |-> << <<x0, z0>>, <<x0, z1>>, <<x1, z1>>, <<x1, z0>> >>, y |-> y,
     neis |-> neis, ground |-> TRUE, flags |-> 1, area |-> 0]
Hop(a, b) ==
    [verts |-> << <<a[1], a[3]>>, <<b[1], b[3]>> >>, y |-> a[2],
     neis |-> <<0, 0>>, ground |-> FALSE, flags |-> 1, area |-> 0]

\* One room, open to the right and up, with a way to the tile above it, and
\* too few links.
Hall == [x |-> 0, y |-> 0, layer |-> 0, climb |-> 1, maxLinks |-> 6,
    polys |-> << Room(0, 0, 6, 6, 0, <<0, Up, Right, 0>>),
                 Hop(<<5, 0, 5>>, <<3, 0, 8>>) >>,
    cons |-> << [poly |-> 2, from |-> <<5, 0, 5>>, to |-> <<3, 0, 8>>,
                 rad |-> 1, side |-> 2, flags |-> Bidir] >>]

\* Four strips open to the left, the first too high for the hall.
Strips == [x |-> 1, y |-> 0, layer |-> 0, climb |-> 1, maxLinks |-> 8,
    polys |-> << Room(6, 0, 12, 2, 3, <<Left, 0, 0, 0>>),
                 Room(6, 2, 12, 3, 0, <<Left, 3, 0, 0>>),
                 Room(6, 3, 12, 5, 0, <<Left, 0, 0, 2>>),
                 Room(6, 5, 12, 6, 2, <<Left, 0, 0, 0>>) >>,
    cons |-> <<>>]

\* Above the strips, with a short portal, and one way back to them.
Loft == [x |-> 1, y |-> 0, layer |-> 1, climb |-> 1, maxLinks |-> 6,
    polys |-> << Room(6, 1, 10, 5, 1, <<Left, 0, 0, 0>>),
                 Hop(<<9, 1, 2>>, <<11, 0, 3>>) >>,
    cons |-> << [poly |-> 2, from |-> <<9, 1, 2>>, to |-> <<11, 0, 3>>,
                 rad |-> 1, side |-> Inside, flags |-> 0] >>]

\* Two rooms above the hall.
Yard == [x |-> 0, y |-> 1, layer |-> 0, climb |-> 1, maxLinks |-> 5,
    polys |-> << Room(0, 6, 4, 10, 0, <<0, 0, 2, Down>>),
                 Room(4, 6, 6, 10, 1, <<1, 0, 0, Down>>) >>,
    cons |-> <<>>]

MCData == [hall |-> Hall, strips |-> Strips, loft |-> Loft, yard |-> Yard]
===============================================================================
