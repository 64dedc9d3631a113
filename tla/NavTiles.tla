------------------------------- MODULE NavTiles -------------------------------
(***************************************************************************)
(* dtNavMesh: tiles are added, removed and added again under the reference *)
(* they had; their polygons are linked, within the tile and to the tiles   *)
(* around it, from a fixed supply of links in each tile; references carry  *)
(* the salt of the slot their tile was put in.                             *)
(*                                                                         *)
(* Ground polygons are level rectangles, with whole coordinates; tiles are *)
(* built without a bounding-volume tree.  A list of links or slots is a    *)
(* sequence, and the free links of a tile are counted.  What the client    *)
(* keeps, the references `held` and one `saved` state, is in the model     *)
(* too.                                                                    *)
(***************************************************************************)
EXTENDS NavBoxes, NavNumbers

CONSTANTS
    NoRef,      \* reference 0
    Data,       \* the data of the tiles to add, by name
    MaxTiles,   \* params->maxTiles
    Salts, TileNumbers, PolyNumbers, \* what a reference tells apart: 2^16
                \* salts, 2^28 tiles and 2^20 polygons (DT_POLYREF64)
    MaxCon,     \* polygons linked to one portal edge: 4
    MaxNeis,    \* tiles connected at one location: MAX_NEIS
    Marks,      \* bound: values of flags and areas the client sets
    Marked,     \* bound: the tiles whose polygons it sets them on
    MaxHeld     \* bound: the references the client keeps

NoData == "none"

ASSUME TilesAssumption ==
    /\ {MaxTiles, Salts, TileNumbers, PolyNumbers} \subseteq Nat \ {0}
    /\ Salts > 2 /\ MaxTiles <= TileNumbers
    /\ \A n \in DOMAIN Data : Len(Data[n].polys) <= PolyNumbers
    /\ NoData \notin DOMAIN Data

VARIABLES
    slots,     \* m_tiles: salt and data
    tiles,     \* m_tiles: the marks and links of its polygons
    lut,       \* m_posLookup: the chains of used slots
    freeList,  \* m_nextFree: the chain of free slots
    held,      \* the tile references the client was given: ref -> name
    saved      \* the state the client stored last

vars == <<slots, tiles, lut, freeList, held, saved>>

Slots == 0..(MaxTiles - 1)
NoTile == -1
NoState == [ref |-> NoRef]
AllSides == -1   \* "side" of layers in one place
Inside == 255    \* 0xff
ExtLink == 32768 \* DT_EXT_LINK
Bidir == 1       \* DT_OFFMESH_CON_BIDIR
MaxVerts == 6    \* DT_VERTS_PER_POLYGON

OppositeTile(side) == (side + 4) % 8

-------------------------------------------------------------------------------
(* Lists *)

\* The elements of s that are in T, in their order.
Those(s, T) ==
    LET Among[n \in 0..Len(s)] ==
            IF n = 0 THEN <<>>
            ELSE IF s[n] \in T THEN Append(Among[n - 1], s[n]) ELSE Among[n - 1]
    IN  Among[Len(s)]

Total(counts) == FoldLeft(LAMBDA n, m : n + m, 0, counts)

-------------------------------------------------------------------------------
(* References *)

EncodePolyId(salt, it, ip) == (salt * TileNumbers + it) * PolyNumbers + ip
DecodePolyIdSalt(ref) == (ref \div (TileNumbers * PolyNumbers)) % Salts
DecodePolyIdTile(ref) == (ref \div PolyNumbers) % TileNumbers
DecodePolyIdPoly(ref) == ref % PolyNumbers

\* getTileRef and getPolyRefBase are one number; polygon k has index k - 1.
TileRef(ss, i) == EncodePolyId(ss[i].salt, i, 0)
PolyRef(ss, i, k) == TileRef(ss, i) + k - 1
PolyOf(ref) == DecodePolyIdPoly(ref) + 1

Used(ss, i) == ss[i].data # NoData
Header(ss, i) == Data[ss[i].data]

\* The slot a tile reference is for, whatever is in it now.
GetTileByRef(ref) ==
    LET i == DecodePolyIdTile(ref)
    IN  IF ref # NoRef /\ i \in Slots /\ slots[i].salt = DecodePolyIdSalt(ref)
        THEN i ELSE NoTile

IsValidPolyRef(ref) ==
    /\ GetTileByRef(ref) # NoTile
    /\ Used(slots, GetTileByRef(ref))
    /\ PolyOf(ref) <= Len(Header(slots, GetTileByRef(ref)).polys)

-------------------------------------------------------------------------------
(* The position lookup *)

LutSize == IF MaxTiles < 4 THEN 1 ELSE NextPow2(MaxTiles \div 4)

\* The low 16 bits of the two factors: the mask keeps no more.
TileHash(x, y) == (45891 * x + 14401 * y) % LutSize

TilesIn(ss, chain, x, y) ==
    Those(chain, {i \in Range(chain) : Header(ss, i).x = x /\ Header(ss, i).y = y})

\* getTilesAt fills an array, and leaves out what does not fit.
GetTilesAt(ss, lookup, x, y) ==
    LET found == TilesIn(ss, lookup[TileHash(x, y)], x, y)
    IN  IF Len(found) <= MaxNeis THEN found ELSE SubSeq(found, 1, MaxNeis)

\* To the right, then anticlockwise; the place itself on AllSides.
Beside(x, y, side) ==
    <<x + (CASE side \in {0, 1, 7} -> 1 [] side \in {3, 4, 5} -> -1 [] OTHER -> 0),
      y + (CASE side \in {1, 2, 3} -> 1 [] side \in {5, 6, 7} -> -1 [] OTHER -> 0)>>

GetNeighbourTilesAt(ss, lookup, x, y, side) ==
    LET at == Beside(x, y, side) IN GetTilesAt(ss, lookup, at[1], at[2])

GetTileAt(x, y, layer) ==
    LET at == TilesIn(slots, lut[TileHash(x, y)], x, y)
        found == Those(at, {i \in Range(at) : Header(slots, i).layer = layer})
    IN  IF found = <<>> THEN NoTile ELSE Head(found)

-------------------------------------------------------------------------------
(* Where polygons meet *)

\* An edge of a polygon of a tile: its ends <<x, z>>, height and neighbour.
Edge(d, k, j) ==
    LET p == d.polys[k]
    IN  [a |-> p.verts[j], b |-> p.verts[(j % Len(p.verts)) + 1], y |-> p.y,
         nei |-> p.neis[j]]

Axis(side) == IF side \in {0, 4} THEN 1 ELSE 2
SlabCoord(e, side) == e.a[Axis(side)]
Along(v, side) == v[3 - Axis(side)]
SlabMin(e, side) == Min({Along(e.a, side), Along(e.b, side)})
SlabMax(e, side) == Max({Along(e.a, side), Along(e.b, side)})

OverlapSlabs_Above(e, f, side, climb) ==
    /\ Max({SlabMin(e, side), SlabMin(f, side)})
          < Min({SlabMax(e, side), SlabMax(f, side)})
    /\ f.y - e.y <= 2 * climb

\* Slabs that only touch at their ends do not overlap.
OverlapSlabs(e, f, side, climb) ==
    /\ Max({SlabMin(e, side), SlabMin(f, side)})
          < Min({SlabMax(e, side), SlabMax(f, side)})
    /\ (e.y - f.y) * (e.y - f.y) <= (2 * climb) * (2 * climb)

\* The first edge of polygon k of tile data d that edge e, seen from the side
\* opposite, connects to; 0 if none does.
Facing(e, d, k, side) ==
    LET js == {j \in 1..Len(d.polys[k].neis) :
                  LET f == Edge(d, k, j) IN
                  /\ f.nei = ExtLink + side
                  /\ SlabCoord(e, side) = SlabCoord(f, side)
                  /\ OverlapSlabs(e, f, side, d.climb)}
    IN  IF js = {} THEN 0 ELSE Min(js)

Numbered(d) == [k \in 1..Len(d.polys) |-> k]

FindConnectingPolys(e, d, side) ==
    LET found == Those(Numbered(d),
                       {k \in DOMAIN d.polys : Facing(e, d, k, side) # 0})
    IN  SubSeq(found, 1, Min({Len(found), MaxCon}))

\* A portal's limits along edge e, in 255ths rounded.
Byte(part, whole) == (2 * 255 * part + whole) \div (2 * whole)

Limits(e, f, side) ==
    LET length == SlabMax(e, side) - SlabMin(e, side)
        At(t) == LET n == t - Along(e.a, side)
                 IN Byte(IF n < 0 THEN -n ELSE n, length)
        ends == {At(Max({SlabMin(e, side), SlabMin(f, side)})),
                 At(Min({SlabMax(e, side), SlabMax(f, side)}))}
    IN  <<Min(ends), Max(ends)>>

BoxesOverlap(b, pos, rad) == /\ b.x0 <= pos[1] + rad /\ pos[1] - rad <= b.x1
                             /\ b.z0 <= pos[3] + rad /\ pos[3] - rad <= b.z1

\* Ground polygons whose bounds overlap the box round pos.
QueryPolygonsInTile(d, pos, rad, climb) ==
    Those(Numbered(d),
        {k \in DOMAIN d.polys :
            /\ d.polys[k].ground
            /\ BoxesOverlap(Box(d.polys[k]), pos, rad)
            /\ d.polys[k].y \in (pos[2] - climb)..(pos[2] + climb)})

NearestOf(d, found, pos) ==
    found[Least([n \in 1..Len(found) |-> Away(d.polys[found[n]], pos, d.climb)])]

\* The polygon a connection's end is put on, 0 if none is within its radius.
WithinRadius(d, k, pos, rad) ==
    IF Sideways(ClosestPointOnPoly(d.polys[k], pos), pos) > Square(rad) THEN 0 ELSE k

NearestWithin(d, found, pos, rad) ==
    IF found = <<>> THEN 0
    ELSE WithinRadius(d, NearestOf(d, found, pos), pos, rad)

FindNearestPolyInTile(d, pos, rad, climb) ==
    NearestWithin(d, QueryPolygonsInTile(d, pos, rad, climb), pos, rad)

-------------------------------------------------------------------------------
(* Links.  A link that finds no free one in its tile is not made; `short` is *)
(* an auxiliary variable that says the tile has gone without one.            *)

AddLink(ts, i, k, link) ==
    IF ts[i].free = 0 THEN [ts EXCEPT ![i].short = TRUE]
    ELSE [ts EXCEPT ![i].free = @ - 1, ![i].polys[k].links = <<link>> \o @]

AddLinks(ts, i, joins) ==
    FoldLeft(LAMBDA acc, l : AddLink(acc, i, l.poly, l.link), ts, joins)

EdgesOf(d, k) == [j \in 1..Len(d.polys[k].neis) |-> <<k, j>>]
Nei(d, e) == d.polys[e[1]].neis[e[2]]
Dir(d, e) == Nei(d, e) % 256

InnerEdges(d) ==
    LET Inner(k) ==
            Those(Reverse(EdgesOf(d, k)),
                  {e \in Range(EdgesOf(d, k)) :
                      d.polys[k].ground /\ Nei(d, e) \in 1..(ExtLink - 1)})
    IN  FlattenSeq([k \in 1..Len(d.polys) |-> Inner(k)])

\* Built backwards, to be in the list from the lowest edge to the highest.
IntJoins(ss, i) ==
    LET d == Header(ss, i)
        inner == InnerEdges(d)
        Join(e) == [poly |-> e[1],
                    link |-> [ref |-> PolyRef(ss, i, Nei(d, e)),
                              edge |-> e[2] - 1, side |-> Inside,
                              limits |-> <<0, 0>>]]
    IN  [n \in 1..Len(inner) |-> Join(inner[n])]

ConnectIntLinks(ss, ts, i) == AddLinks(ts, i, IntJoins(ss, i))

Portals(d, side) ==
    LET edges == FlattenSeq([k \in 1..Len(d.polys) |-> EdgesOf(d, k)])
    IN  Those(edges, {e \in Range(edges) :
                         Nei(d, e) >= ExtLink /\ side \in {AllSides, Dir(d, e)}})

\* The links of edge e, which is polygon k's of a tile on its `side` of tile t,
\* to the polygons `con` of t, whose data is d.
EdgeJoins(ss, t, d, k, e, edge, side, con) ==
    LET Met(n) == Edge(d, n, Facing(edge, d, n, OppositeTile(side)))
    IN  [n \in 1..Len(con) |->
            [poly |-> k,
             link |-> [ref |-> PolyRef(ss, t, con[n]), edge |-> e, side |-> side,
                       limits |-> Limits(edge, Met(con[n]), side)]]]

PortalJoins(ss, t, d, k, e, edge, side) ==
    EdgeJoins(ss, t, d, k, e, edge, side,
              FindConnectingPolys(edge, d, OppositeTile(side)))

\* What connectExtLinks links the portal edges of tile i to in tile t.
ExtJoins(ss, i, t, side) ==
    LET d == Header(ss, i)
        portals == Portals(d, side)
    IN  FlattenSeq([n \in 1..Len(portals) |->
            PortalJoins(ss, t, Header(ss, t), portals[n][1], portals[n][2] - 1,
                        Edge(d, portals[n][1], portals[n][2]),
                        Dir(d, portals[n]))])

ConnectExtLinks(ss, ts, i, t, side) == AddLinks(ts, i, ExtJoins(ss, i, t, side))

OffMeshLink(ref, edge, side) ==
    [ref |-> ref, edge |-> edge, side |-> side, limits |-> <<0, 0>>]

\* A connection starts on polygon k of its own tile, which leads back to it.
BaseJoin(ss, i, con, k) ==
    IF k = 0 THEN <<>>
    ELSE <<[poly |-> con.poly, link |-> OffMeshLink(PolyRef(ss, i, k), 0, Inside)],
           [poly |-> k, link |-> OffMeshLink(PolyRef(ss, i, con.poly), 255, Inside)]>>

BaseJoins(ss, i) ==
    LET d == Header(ss, i)
    IN  FlattenSeq([c \in 1..Len(d.cons) |->
            BaseJoin(ss, i, d.cons[c],
                     FindNearestPolyInTile(d, d.cons[c].from, d.cons[c].rad, d.climb))])

BaseOffMeshLinks(ss, ts, i) == AddLinks(ts, i, BaseJoins(ss, i))

OppositeOf(side) == IF side = AllSides THEN Inside ELSE OppositeTile(side)

\* A connection of tile t ends on polygon k of tile i.
LandLink(ss, ts, i, t, con, k, side) ==
    AddLink(ts, t, con.poly, OffMeshLink(PolyRef(ss, i, k), 1, OppositeOf(side)))

BackLink(ss, ts, i, t, con, k, side) ==
    IF con.flags # Bidir THEN ts
    ELSE AddLink(ts, i, k, OffMeshLink(PolyRef(ss, t, con.poly), 255,
                                       IF side = AllSides THEN Inside ELSE side))

LandLinks(ss, ts, i, t, con, k, side) ==
    IF \/ con.side # OppositeOf(side)
       \/ ts[t].polys[con.poly].links = <<>>
       \/ k = 0
    THEN ts
    ELSE BackLink(ss, LandLink(ss, ts, i, t, con, k, side), i, t, con, k, side)

\* The connections of tile t that land in tile i, which is on that `side`.
ConnectExtOffMeshLinks(ss, ts, i, t, side) ==
    LET Landed(acc, con) ==
            LandLinks(ss, acc, i, t, con,
                      FindNearestPolyInTile(Header(ss, i), con.to, con.rad,
                                            Header(ss, t).climb), side)
    IN  FoldLeft(Landed, ts, Header(ss, t).cons)

UnconnectLinks_Leak(ts, i, t) ==
    [ts EXCEPT ![i].polys = [k \in DOMAIN @ |-> [@[k] EXCEPT !.links =
        Those(@, {l \in Range(@) : DecodePolyIdTile(l.ref) # t})]]]

\* Whatever their salt, the links of tile i to slot t.
UnconnectLinks(ts, i, t) ==
    LET polys == ts[i].polys
        Kept(k) == Those(polys[k].links,
                         {l \in Range(polys[k].links) : DecodePolyIdTile(l.ref) # t})
    IN  [ts EXCEPT
           ![i].polys = [k \in DOMAIN @ |-> [@[k] EXCEPT !.links = Kept(k)]],
           ![i].free = @ + Total([k \in 1..Len(polys) |->
                                     Len(polys[k].links) - Len(Kept(k))])]

\* The tiles round location x, y, each with the side it is on.
Around(ss, lookup, x, y) ==
    LET With(is, side) == [n \in 1..Len(is) |-> <<is[n], side>>]
        At(side) == With(GetNeighbourTilesAt(ss, lookup, x, y, side), side)
    IN  At(AllSides)
        \o At(0) \o At(1) \o At(2) \o At(3) \o At(4) \o At(5) \o At(6) \o At(7)

-------------------------------------------------------------------------------
(* The data of tiles *)

LayersAt(x, y) ==
    {Data[n].layer : n \in {n \in DOMAIN Data : Data[n].x = x /\ Data[n].y = y}}

\* Tiles as dtCreateNavMeshData makes them: an edge leads to a ground polygon of
\* the tile, out of it on one side, or nowhere; a connection has a polygon of its
\* own, with no edges; and there are links enough for what is within the tile.
\* DT_EXT_LINK leaves no number for more polygons, and MAX_NEIS is meant to hold
\* the layers of a place.
ASSUME DataAssumption ==
    /\ IsFiniteSet(DOMAIN Data)
    /\ {MaxCon, MaxNeis} \subseteq Nat
    /\ \A n \in DOMAIN Data :
          LET d == Data[n]
              Num == 1..Len(d.polys)
              Ground == {k \in Num : d.polys[k].ground}
          IN  /\ {d.x, d.y, d.climb} \subseteq Int /\ d.maxLinks \in Nat
              /\ d.polys \in Seq(Range(d.polys)) /\ Len(d.polys) < ExtLink
              /\ \A k \in Num :
                    /\ d.polys[k].verts \in Seq(Int \X Int)
                    /\ Len(d.polys[k].verts) \in 1..MaxVerts /\ d.polys[k].y \in Int
                    /\ d.polys[k].neis
                          \in Seq({0} \cup Ground \cup ExtLink..(ExtLink + 7))
                    /\ Len(d.polys[k].neis) <= Len(d.polys[k].verts)
                    /\ ~d.polys[k].ground => Range(d.polys[k].neis) \subseteq {0}
              /\ d.cons \in Seq(Range(d.cons))
              /\ \A c \in DOMAIN d.cons :
                    /\ d.cons[c].poly \in Num /\ ~d.polys[d.cons[c].poly].ground
                    /\ {d.cons[c].from, d.cons[c].to} \subseteq Int \X Int \X Int
                    /\ d.cons[c].rad \in Nat /\ d.cons[c].side \in 0..7 \cup {Inside}
                    /\ \A b \in DOMAIN d.cons :
                          d.cons[b].poly = d.cons[c].poly => b = c
              /\ Len(InnerEdges(d)) + 2 * Len(d.cons) <= d.maxLinks
    /\ \A n \in DOMAIN Data : Cardinality(LayersAt(Data[n].x, Data[n].y)) <= MaxNeis

-------------------------------------------------------------------------------
(* Operations *)

FreeSlot(salt) == [salt |-> salt, data |-> NoData]
Cleared == [polys |-> <<>>, free |-> 0, short |-> FALSE]

\* The polygons of tile n, not yet linked.
Unlinked(n) ==
    LET d == Data[n]
    IN  [free |-> d.maxLinks, short |-> FALSE,
         polys |-> [k \in 1..Len(d.polys) |->
            [flags |-> d.polys[k].flags, area |-> d.polys[k].area,
             links |-> <<>>]]]

Opposite(side) == IF side = AllSides THEN AllSides ELSE OppositeTile(side)

\* Both tiles are linked to each other, connections that land in them too.
ConnectCons(ss, ts, i, t, side) ==
    ConnectExtOffMeshLinks(ss, ConnectExtOffMeshLinks(ss, ts, i, t, side),
                           t, i, Opposite(side))

Connect_OneWay(ss, ts, i, t, side) ==
    ConnectCons(ss, ConnectExtLinks(ss, ts, i, t, side), i, t, side)

Connect(ss, ts, i, t, side) ==
    ConnectCons(ss, ConnectExtLinks(ss, ConnectExtLinks(ss, ts, i, t, side),
                                t, i, Opposite(side)),
                i, t, side)

\* The tiles round tile i, without itself.
Others(ss, lookup, d, i) ==
    LET around == Around(ss, lookup, d.x, d.y)
    IN  Those(around, {n \in Range(around) : n[1] # i})

\* A tile fresh in slot i is linked within.
LinkedWithin(ss, ts, i) ==
    ConnectExtOffMeshLinks(ss, BaseOffMeshLinks(ss, ConnectIntLinks(ss, ts, i), i),
                           i, i, AllSides)

\* Then it is linked with those round it.
Linked(ss, ts, i, lookup) ==
    FoldLeft(LAMBDA acc, n : Connect(ss, acc, i, n[1], n[2]),
             LinkedWithin(ss, ts, i), Others(ss, lookup, Header(ss, i), i))

\* The client drops the references that a step makes ambiguous.
Forget(refs, names) ==
    /\ held' = [r \in DOMAIN names \ refs |-> names[r]]
    /\ saved' = IF saved.ref \in refs THEN NoState ELSE saved

\* A list of slots without slot i, which is taken out where it is found.
Without(list, i) ==
    IF i \in Range(list)
    THEN RemoveAt(list, CHOOSE k \in 1..Len(list) : list[k] = i) ELSE list

\* addTile, without a lastRef (as the shim calls it) or with that of the tile.
AddTile(n, lastRef) ==
    LET d == Data[n]
        wanted == DecodePolyIdTile(lastRef)
        found == IF lastRef = NoRef THEN freeList # <<>>
                 ELSE wanted \in Range(freeList)
        i == IF lastRef = NoRef THEN Head(freeList) ELSE wanted
        salt == IF lastRef = NoRef THEN slots[i].salt
                ELSE DecodePolyIdSalt(lastRef)
        h == TileHash(d.x, d.y)
        ref == EncodePolyId(salt, i, 0)
        later == {r \in DOMAIN held : DecodePolyIdTile(r) = i
                                       /\ DecodePolyIdSalt(r) > salt}
    IN  IF GetTileAt(d.x, d.y, d.layer) # NoTile \/ ~found
        THEN UNCHANGED vars  \* DT_ALREADY_OCCUPIED, DT_OUT_OF_MEMORY
        ELSE /\ freeList' = Without(freeList, i)
             /\ lut' = [lut EXCEPT ![h] = <<i>> \o @]
             /\ slots' = [slots EXCEPT ![i] = [salt |-> salt, data |-> n]]
             /\ tiles' = Linked(slots', [tiles EXCEPT ![i] = Unlinked(n)], i, lut')
             /\ Forget(later, [r \in {ref} \cup DOMAIN held |->
                                  IF r = ref THEN n ELSE held[r]])

NextSalt_Kept(salt) == salt

\* "Salt should never be zero."
NextSalt(salt) == LET next == (salt + 1) % Salts IN IF next = 0 THEN 1 ELSE next

RemoveTile(ref) ==
    LET i == GetTileByRef(ref)
        d == Header(slots, i)
        h == TileHash(d.x, d.y)
        lookup == [lut EXCEPT ![h] = Without(@, i)]
        alone == FoldLeft(LAMBDA acc, n : UnconnectLinks(acc, n[1], i),
                          tiles, Others(slots, lookup, d, i))
        salt == NextSalt(slots[i].salt)
        old == {r \in DOMAIN held : DecodePolyIdTile(r) = i}
    IN  IF i = NoTile THEN UNCHANGED vars  \* DT_INVALID_PARAM
        ELSE /\ lut' = lookup
             /\ slots' = [slots EXCEPT ![i] = FreeSlot(salt)]
             /\ tiles' = [alone EXCEPT ![i] = Cleared]
             /\ freeList' = <<i>> \o freeList
             /\ Forget(IF salt < slots[i].salt THEN old ELSE {}, held)

\* setPolyFlags and setPolyArea check the reference; what fails changes nothing.
SetPolyFlags(ref, flags) ==
    /\ IsValidPolyRef(ref)
    /\ tiles' = [tiles EXCEPT
           ![GetTileByRef(ref)].polys[PolyOf(ref)].flags = flags]
    /\ UNCHANGED <<slots, lut, freeList, held, saved>>

SetPolyArea(ref, area) ==
    /\ IsValidPolyRef(ref)
    /\ tiles' = [tiles EXCEPT
           ![GetTileByRef(ref)].polys[PolyOf(ref)].area = area]
    /\ UNCHANGED <<slots, lut, freeList, held, saved>>

StoreTileState(i) ==
    /\ saved' = [ref |-> TileRef(slots, i), data |-> slots[i].data,
                  polys |-> [k \in 1..Len(tiles[i].polys) |->
                     <<tiles[i].polys[k].flags, tiles[i].polys[k].area>>]]
    /\ UNCHANGED <<slots, tiles, lut, freeList, held>>

\* Refused unless the reference is the one the state was stored under.
RestoreTileState(i) ==
    /\ saved.ref = TileRef(slots, i)
    /\ tiles' = [tiles EXCEPT ![i].polys =
           [k \in DOMAIN @ |-> [@[k] EXCEPT !.flags = saved.polys[k][1],
                                            !.area = saved.polys[k][2]]]]
    /\ UNCHANGED <<slots, lut, freeList, held, saved>>

FirstEnd_Forward(i, k, prevRef) == "from"

\* getOffMeshConnectionPolyEndPoints: which end of a connection is its start
\* for one who comes from prevRef.
FirstEnd(i, k, prevRef) ==
    LET links == tiles[i].polys[k].links
        starts == Those(links, {l \in Range(links) : l.edge = 0})
    IN  IF starts # <<>> /\ Head(starts).ref # prevRef THEN "to" ELSE "from"

-------------------------------------------------------------------------------

Init ==
    /\ slots = [i \in Slots |-> FreeSlot(1)]
    /\ tiles = [i \in Slots |-> Cleared]
    /\ lut = [h \in 0..(LutSize - 1) |-> <<>>]
    /\ freeList = [n \in 1..MaxTiles |-> n - 1]
    /\ held = <<>>
    /\ saved = NoState

\* The first polygons of the marked tiles, by the references the client has.
MarkedPolys == {r \in DOMAIN held : held[r] \in Marked}

Next ==
    \/ \E n \in DOMAIN Data :
          Cardinality(DOMAIN held) < MaxHeld /\ AddTile(n, NoRef)
    \/ \E r \in DOMAIN held : AddTile(held[r], r)
    \/ \E r \in DOMAIN held : RemoveTile(r)
    \/ \E r \in MarkedPolys, f \in Marks : SetPolyFlags(r, f)
    \/ \E r \in MarkedPolys, a \in Marks : SetPolyArea(r, a)
    \/ \E i \in Slots : Used(slots, i) /\ slots[i].data \in Marked
                         /\ StoreTileState(i)
    \/ \E i \in Slots : Used(slots, i) /\ RestoreTileState(i)

Spec == Init /\ [][Next]_vars

-------------------------------------------------------------------------------
(* Properties *)

UsedSlots == {i \in Slots : Used(slots, i)}

\* Type correctness: the shape of slots and of their links.
TypeOK ==
    /\ \A i \in Slots :
          /\ slots[i].salt \in 1..(Salts - 1)
          /\ slots[i].data \in DOMAIN Data \cup {NoData}
          /\ tiles[i].free \in Nat
          /\ \A k \in 1..Len(tiles[i].polys) :
                \A l \in Range(tiles[i].polys[k].links) :
                   /\ l.limits[1] \in 0..255 /\ l.limits[2] \in 0..255
                   /\ l.side \in 0..7 \cup {Inside}
    /\ \A r \in DOMAIN held : held[r] \in DOMAIN Data

LinkCount(i) ==
    Total([k \in 1..Len(tiles[i].polys) |-> Len(tiles[i].polys[k].links)])

Times(i, list) == Cardinality({n \in 1..Len(list) : list[n] = i})

\* A slot is free or used: in the free list, once, or in the chain of its
\* location, once.
FreeSlotsListed ==
    \A i \in Slots : Times(i, freeList) = IF Used(slots, i) THEN 0 ELSE 1

InChain(i, h) ==
    /\ Used(slots, i)
    /\ h = TileHash(Header(slots, i).x, Header(slots, i).y)

TilesListed ==
    \A i \in Slots, h \in DOMAIN lut :
        Times(i, lut[h]) = IF InChain(i, h) THEN 1 ELSE 0

\* A tile is found where it is, and a link of it is in a list or free.
TileFound(i) ==
    GetTileAt(Header(slots, i).x, Header(slots, i).y, Header(slots, i).layer) = i

LinksCounted(i) == LinkCount(i) + tiles[i].free = Header(slots, i).maxLinks

\* Types hold, and every slot is in one list, once: a tile in the chain of its
\* location, where it is found, any other in the free list; and every link of a
\* tile is in a polygon's list or free (addTile and removeTile, allocLink and freeLink).
SlotsOK ==
    /\ TypeOK
    /\ FreeSlotsListed /\ TilesListed
    /\ \A i \in UsedSlots : TileFound(i) /\ LinksCounted(i)

\* The links the tiles of the mesh should have, whenever they came: those of
\* their portals, of edges within, and of connections.  <<slot, polygon, ref>>
Neighbour(d, e, side) == Beside(d.x, d.y, side) = <<e.x, e.y>>

\* Which polygons of two tiles, each of the name given, meet.
Meeting ==
    [x \in (DOMAIN Data) \X (DOMAIN Data) |->
        LET d == Data[x[1]]
            Met(e) == FindConnectingPolys(Edge(d, e[1], e[2]), Data[x[2]],
                                          OppositeTile(Dir(d, e)))
        IN  UNION {UNION {{<<e[1], k>> : k \in Range(Met(e))} :
                          e \in Range(Portals(d, s))} :
                   s \in {s \in {AllSides} \cup 0..7 : Neighbour(d, Data[x[2]], s)}}]

PortalLinks ==
    UNION {UNION {{<<i, j[1], PolyRef(slots, t, j[2])>> :
                      j \in Meeting[<<slots[i].data, slots[t].data>>]}
                  : t \in UsedSlots \ {i}} : i \in UsedSlots}

\* Which polygons of a tile share an edge.
Sharing ==
    [n \in DOMAIN Data |->
        UNION {{<<k, Data[n].polys[k].neis[j]>> :
                  j \in {j \in DOMAIN Data[n].polys[k].neis :
                            Data[n].polys[k].neis[j] \in 1..(ExtLink - 1)}}
               : k \in DOMAIN Data[n].polys}]

InnerLinks ==
    UNION {{<<i, j[1], PolyRef(slots, i, j[2])>> : j \in Sharing[slots[i].data]}
           : i \in UsedSlots}

\* The polygon of a tile that an end of a connection is on: for the name of its
\* tile, its number there, the end, and the tile looked at.
AllHops == UNION {{n} \X (DOMAIN Data[n].cons) : n \in DOMAIN Data}

Footing ==
    [x \in AllHops \X {"from", "to"} \X (DOMAIN Data) |->
        LET con == Data[x[1][1]].cons[x[1][2]]
        IN  FindNearestPolyInTile(Data[x[3]], con[x[2]], con.rad,
                                  Data[x[1][1]].climb)]

ConnectionLinks ==
    LET Hops == UNION {{i} \X (DOMAIN Header(slots, i).cons) : i \in UsedSlots}
        Con(x) == Header(slots, x[1]).cons[x[2]]
        Foot(x, end, t) == Footing[<<slots[x[1]].data, x[2]>>, end, slots[t].data]
        In(x, t) == /\ Foot(x, "to", t) # 0
                    /\ Neighbour(Header(slots, x[1]), Header(slots, t),
                                 IF Con(x).side = Inside THEN AllSides
                                 ELSE Con(x).side)
        Ref(x) == PolyRef(slots, x[1], Con(x).poly)
        Placed == {x \in Hops : Foot(x, "from", x[1]) # 0}
        Landed == {y \in Placed \X UsedSlots : In(y[1], y[2])}
    IN  {<<x[1], Con(x).poly, PolyRef(slots, x[1], Foot(x, "from", x[1]))>> :
            x \in Placed}
        \cup {<<x[1], Foot(x, "from", x[1]), Ref(x)>> : x \in Placed}
        \cup {<<y[1][1], Con(y[1]).poly,
                PolyRef(slots, y[2], Foot(y[1], "to", y[2]))>> : y \in Landed}
        \cup {<<y[2], Foot(y[1], "to", y[2]), Ref(y[1])>> :
                  y \in {y \in Landed : Con(y[1]).flags = Bidir}}

MadeLinks ==
    UNION {UNION {{<<i, k, l.ref>> : l \in Range(tiles[i].polys[k].links)}
                  : k \in 1..Len(tiles[i].polys)} : i \in UsedSlots}

\* Whatever was added and removed before, and under which salts, the links are
\* those of the tiles that are there now: none to a tile that went, and none
\* missing, except in a tile that went without a link.
LinksAsIfFresh ==
    LET should == PortalLinks \cup InnerLinks \cup ConnectionLinks
        made == MadeLinks
    IN  /\ made \subseteq should
        /\ \A x \in should \ made : tiles[x[1]].short

\* A portal leads back: polygons of two tiles are linked both ways, unless a
\* tile went without a link or the edge met as many as it may be linked to first.
LinksMutual ==
    LET made == MadeLinks IN
    \A x \in made :
        LET t == DecodePolyIdTile(x[3])
            k == PolyOf(x[3])
            i == x[1]
        IN  i # t /\ Header(slots, i).polys[x[2]].ground
              /\ Header(slots, t).polys[k].ground =>
                \/ <<t, k, PolyRef(slots, i, x[2])>> \in made
                \/ tiles[t].short
                \/ \E e \in Range(EdgesOf(Header(slots, t), k)) :
                      MaxCon = Cardinality(
                         {l \in Range(tiles[t].polys[k].links) :
                            /\ l.edge = e[2] - 1
                            /\ l.ref \in {PolyRef(slots, i, n) : n \in 1..(x[2] - 1)}})

\* No reference the client keeps, for itself or with a stored state, comes to
\* mean another tile; and no removal finds an empty slot under its salt, where
\* removeTile would read a null header.
HeldRefs ==
    /\ \A r \in DOMAIN held :
          LET i == GetTileByRef(r)
          IN  i # NoTile => slots[i].data = held[r]
    /\ \A i \in UsedSlots : TileRef(slots, i) \in DOMAIN held
    /\ saved # NoState /\ GetTileByRef(saved.ref) # NoTile =>
          slots[GetTileByRef(saved.ref)].data = saved.data

\* One who comes from a polygon that leads to a connection starts at the end
\* that lies on this polygon.
StartsWhereOneIs ==
    \A x \in MadeLinks :
        LET t == DecodePolyIdTile(x[3])
            from == PolyRef(slots, x[1], x[2])
            con == CHOOSE c \in 1..Len(Header(slots, t).cons) :
                       Header(slots, t).cons[c].poly = PolyOf(x[3])
        IN  ~Header(slots, t).polys[PolyOf(x[3])].ground =>
              Footing[<<slots[t].data, con>>, FirstEnd(t, PolyOf(x[3]), from),
                      slots[x[1]].data] = x[2]
===============================================================================
