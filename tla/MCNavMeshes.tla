------------------------------ MODULE MCNavMeshes ------------------------------
(***************************************************************************)
(* Meshes for TLC that NavTiles links: two tiles side by side, with a ring *)
(* of rooms through both round a room that is shut or open, and a          *)
(* connection between them; a balcony over one of the tiles, or a room     *)
(* that is out of reach.                                                   *)
(***************************************************************************)
EXTENDS NavPortals, NavTree, TLC

MCDistance(a, b) ==
    LET Abs(n) == IF n < 0 THEN -n ELSE n
    IN  Abs(a[1] - b[1]) + Abs(a[2] - b[2])

MCHashRef(ref) == 3 * ref + 1

Walk == {"walk"}
Shut == {"walk", "shut"}

\* The edges that face right, up, left and down out of a tile.
Right == 32768
Left == 32768 + 4

Room(verts, neis, flags, area) ==
    [verts |-> verts, y |-> 0, neis |-> neis, ground |-> TRUE,
     flags |-> flags, area |-> area]

\* A tile 16 wide: above two rooms, and below them four.
West(flags) == [x |-> 0, y |-> 0, layer |-> 0, climb |-> 1, maxLinks |-> 24,
    lo |-> <<0, 0, 0>>, hi |-> <<16, 0, 16>>,
    polys |-> <<
        Room(<< <<0, 4>>, <<0, 8>>, <<8, 8>>, <<8, 4>> >>,
             <<0, 2, 4, 6>>, Walk, "ground"),
        Room(<< <<0, 8>>, <<0, 16>>, <<8, 16>>, <<8, 8>> >>,
             <<0, 0, 3, 1>>, Walk, "ground"),
        Room(<< <<8, 8>>, <<8, 16>>, <<16, 16>>, <<16, 8>> >>,
             <<2, 0, Right, 4>>, Walk, "road"),
        Room(<< <<8, 4>>, <<8, 8>>, <<16, 8>>, <<16, 4>> >>,
             <<1, 3, Right, 5>>, flags, "ground"),
        Room(<< <<8, 0>>, <<8, 4>>, <<16, 4>>, <<16, 0>> >>,
             <<6, 4, Right, 0>>, Walk, "ground"),
        Room(<< <<0, 0>>, <<0, 4>>, <<8, 4>>, <<8, 0>> >>,
             <<0, 1, 5, 0>>, Walk, "ground"),
        [verts |-> << <<12, 12>>, <<28, 4>> >>, y |-> 0, neis |-> <<0, 0>>,
         ground |-> FALSE, flags |-> Walk, area |-> "road"] >>,
    cons |-> << [poly |-> 7, from |-> <<12, 0, 12>>, to |-> <<28, 0, 4>>,
                 rad |-> 1, side |-> 0, flags |-> 1] >>]

\* A room beside two of the other tile, one beside the third, and one behind.
East == [x |-> 1, y |-> 0, layer |-> 0, climb |-> 1, maxLinks |-> 12,
    lo |-> <<16, 0, 0>>, hi |-> <<32, 0, 16>>,
    polys |-> <<
        Room(<< <<16, 0>>, <<16, 8>>, <<24, 8>>, <<24, 0>> >>,
             <<Left, 2, 3, 0>>, Walk, "ground"),
        Room(<< <<16, 8>>, <<16, 16>>, <<24, 16>>, <<24, 8>> >>,
             <<Left, 0, 0, 1>>, Walk, "water"),
        Room(<< <<24, 0>>, <<24, 8>>, <<32, 8>>, <<32, 0>> >>,
             <<1, 0, 0, 0>>, Walk, "ground") >>,
    cons |-> <<>>]

\* Over its upper room and the one below it, a layer one enters from the road.
Balcony == [x |-> 1, y |-> 0, layer |-> 1, climb |-> 1, maxLinks |-> 12,
    lo |-> <<16, 1, 0>>, hi |-> <<32, 3, 16>>,
    polys |-> <<
        [Room(<< <<16, 8>>, <<16, 16>>, <<20, 16>>, <<20, 8>> >>,
              <<Left, 0, 0, 2>>, Walk, "road") EXCEPT !.y = 1],
        [Room(<< <<16, 2>>, <<16, 8>>, <<20, 8>>, <<20, 2>> >>,
              <<0, 1, 0, 0>>, Walk, "road") EXCEPT !.y = 3] >>,
    cons |-> <<>>]

\* East, but the room behind the border above is on another floor.
Apart ==
    [East EXCEPT !.polys[1].neis = <<Left, 0, 3, 0>>, !.polys[2].neis = <<0, 0, 0, 0>>]

Tiles == INSTANCE NavTiles WITH
    Data <- [shut |-> West(Shut), open |-> West(Walk), east |-> East,
             apart |-> Apart, balcony |-> Balcony],
    MaxTiles <- 3, Salts <- 4, TileNumbers <- 4, PolyNumbers <- 8, MaxCon <- 4,
    MaxNeis <- 32, Marks <- {}, Marked <- {}, MaxHeld <- 0,
    slots <- 0, tiles <- 0, lut <- 0, freeList <- 0, held <- 0, saved <- 0

\* Slots 0, 1.. once the tiles of a sequence have been added, the first at
\* <<0, 0>> and the others at <<1, 0>>.  A lookup's chain begins with the last.
SlotsOf(names) ==
    [i \in 0..(Len(names) - 1) |-> [salt |-> 1, data |-> names[i + 1]]]

Added(names) ==
    LET Chain(n) == [k \in 1..n |-> n - k]
        After[n \in 0..Len(names)] ==
            IF n = 0
            THEN [i \in DOMAIN SlotsOf(names) |-> Tiles!Unlinked(names[i + 1])]
            ELSE Tiles!Linked(SlotsOf(names), After[n - 1], n - 1,
                              [h \in {0} |-> Chain(n)])
    IN  After[Len(names)]

\* The mesh of the polygons in a sequence of slots.
MeshOf(ss, ts, ends) ==
    LET Data(i) == Tiles!Header(ss, i)
        refs == {Tiles!PolyRef(ss, e[1], e[2]) :
                    e \in {e \in (DOMAIN ts) \X (1..8) : e[2] <= Len(ts[e[1]].polys)}}
        Slot(r) == Tiles!DecodePolyIdTile(r)
        Poly(r) == Data(Slot(r)).polys[Tiles!PolyOf(r)]
        Node(r) == ts[Slot(r)].polys[Tiles!PolyOf(r)]
        Beyond(r, n) == IF n = 0 THEN Wall ELSE IF n >= Right THEN Border
                        ELSE Tiles!PolyRef(ss, Slot(r), n)
        Ref(e) == Tiles!PolyRef(ss, e[1], e[2])
    IN  [tile |-> [r \in refs |-> Slot(r)],
         links |-> [r \in refs |-> [k \in 1..Len(Node(r).links) |->
            LET l == Node(r).links[k]
            IN  [to |-> l.ref, edge |-> l.edge, side |-> l.side,
                 limits |-> l.limits]]],
         verts |-> [r \in refs |-> Poly(r).verts],
         neis |-> [r \in refs |-> [k \in 1..Len(Poly(r).neis) |->
            Beyond(r, Poly(r).neis[k])]],
         ground |-> [r \in refs |-> Poly(r).ground],
         flags |-> [r \in refs |-> Node(r).flags],
         area |-> [r \in refs |-> Node(r).area],
         spot |-> [r \in {Ref(e) : e \in DOMAIN ends} |->
            ends[CHOOSE e \in DOMAIN ends : Ref(e) = r]],
         at |-> (<<0, 0>> :> <<0>>) @@
                (<<1, 0>> :> [k \in 1..(Cardinality(DOMAIN ts) - 1) |->
                                 Cardinality(DOMAIN ts) - k]),
         data |-> [i \in DOMAIN ts |-> Data(i)],
         base |-> [i \in DOMAIN ts |-> Tiles!PolyRef(ss, i, 1)],
         tree |-> [i \in DOMAIN ts |-> CreateBVTree(Data(i))]]

Built(names, ends) == MeshOf(SlotsOf(names), Added(names), ends)

\* A place in the first room by the shut one, a place by the border, the middle of the water,
\* and one end of the connection.
Ends == (<<0, 1>> :> <<6, 6>>) @@ (<<1, 1>> :> <<18, 6>>) @@
        (<<1, 2>> :> <<20, 12>>) @@ (<<0, 7>> :> <<12, 12>>)

MCFilters ==
    {[include |-> Walk, exclude |-> {"shut"},
      cost |-> [ground |-> 1000, water |-> 4000, road |-> 500]]}
===============================================================================
