----------------------------- MODULE NavPathProofs -----------------------------
(***************************************************************************)
(* The path searches of dtNavMeshQuery do what NavSearch says, for every   *)
(* mesh, size of the pool, filter and order of calls; from there their     *)
(* parents lead back to the start, and the paths they answer with are      *)
(* linked and complete.                                                    *)
(***************************************************************************)
EXTENDS NavPath, NavNodesProofs

-------------------------------------------------------------------------------
(* Nodes *)

Places(m) == Points(m) \cup {<<>>}
Numbers(p) == 1..Len(p.nodes)
KeyOf(p, i) == <<p.nodes[i].id, p.nodes[i].state>>
Opens(p) == {i \in Numbers(p) : "OPEN" \in p.nodes[i].flags}

(* What a pool is between two steps of a search.                           *)
PoolInv(m, p) ==
    /\ PoolOK(p, Polys(m), Places(m))
    /\ p.max \in PoolSizes
    /\ \A i \in Numbers(p) :
          /\ p.nodes[i].state \in 0..3
          /\ p.nodes[i].pidx \in 0..Len(p.nodes)
          /\ p.nodes[i].flags \in {{"OPEN"}, {"CLOSED"}}

(* The polygons of a mesh have hashes and are finitely many.               *)
LEMMA HashesPolys ==
    ASSUME NEW m \in Meshes
    PROVE  HashesTo(Polys(m)) /\ <<>> \in Places(m) /\ IsFiniteSet(Polys(m))
BY PolysAssumption DEF HashesTo, Places

(* What the invariant of a pool says of one of its nodes.                  *)
LEMMA NodeIs ==
    ASSUME NEW m, NEW p, PoolInv(m, p)
    PROVE  /\ Len(p.nodes) \in Nat /\ p.max \in PoolSizes /\ Len(p.nodes) <= p.max
           /\ p.nodes \in Seq(NodeSet(Polys(m), Places(m)))
           /\ \A i \in Numbers(p) :
                 /\ p.nodes[i] \in NodeSet(Polys(m), Places(m))
                 /\ p.nodes[i].id \in Polys(m) /\ p.nodes[i].state \in 0..3
                 /\ p.nodes[i].pidx \in 0..Len(p.nodes)
                 /\ p.nodes[i].pos \in Places(m)
                 /\ p.nodes[i].cost \in Nat /\ p.nodes[i].total \in Nat
                 /\ p.nodes[i].flags \in {{"OPEN"}, {"CLOSED"}}
<1>1. PoolTyped(p, Polys(m), Places(m)) BY DEF PoolInv, PoolOK
<1>2. Len(p.nodes) <= p.max BY <1>1 DEF PoolTyped
<1> QED BY <1>1, <1>2, NodesTyped DEF PoolInv, Numbers

(* No two nodes stand for the same.                                        *)
LEMMA KeysApart ==
    ASSUME NEW m, NEW p, PoolInv(m, p), NEW i \in Numbers(p), NEW k \in Numbers(p),
           KeyOf(p, i) = KeyOf(p, k)
    PROVE  i = k
BY DEF PoolInv, PoolOK, Apart, IsNodeOf, KeyOf, Numbers

(* To change one node and not what it stands for.                          *)
Changed(p, i, node) == [p EXCEPT !.nodes = [p.nodes EXCEPT ![i] = node]]

ChangeIs(m, p, i, node, q) ==
    /\ PoolInv(m, q)
    /\ q.nodes = [p.nodes EXCEPT ![i] = node] /\ q.max = p.max
    /\ Len(q.nodes) = Len(p.nodes) /\ Numbers(q) = Numbers(p)
    /\ q.nodes[i] = node
    /\ \A k \in Numbers(p) : k # i => q.nodes[k] = p.nodes[k]
    /\ \A k \in Numbers(p) : KeyOf(q, k) = KeyOf(p, k)

(* Node i may be half made, as it is when the arena has just given it.      *)
PoolBut(m, p, i) ==
    /\ PoolOK(p, Polys(m), Places(m))
    /\ p.max \in PoolSizes
    /\ \A k \in Numbers(p) \ {i} :
          /\ p.nodes[k].state \in 0..3
          /\ p.nodes[k].pidx \in 0..Len(p.nodes)
          /\ p.nodes[k].flags \in {{"OPEN"}, {"CLOSED"}}

(* A pool stays one when a node of it is changed.                          *)
LEMMA ChangedOK ==
    ASSUME NEW m, NEW p, NEW i \in Numbers(p), PoolBut(m, p, i),
           NEW node \in NodeSet(Polys(m), Places(m)),
           node.id = p.nodes[i].id, node.state = p.nodes[i].state, node.state \in 0..3,
           node.pidx \in 0..Len(p.nodes), node.flags \in {{"OPEN"}, {"CLOSED"}}
    PROVE  ChangeIs(m, p, i, node, Changed(p, i, node))
<1> DEFINE ns == [p.nodes EXCEPT ![i] = node]
           q == Changed(p, i, node)
           L == Len(p.nodes)
<1>0. PoolTyped(p, Polys(m), Places(m)) BY DEF PoolBut, PoolOK
<1>1. /\ p.nodes \in Seq(NodeSet(Polys(m), Places(m))) /\ L \in Nat
      /\ \A k \in Numbers(p) \ {i} : /\ p.nodes[k].state \in 0..3
                                     /\ p.nodes[k].pidx \in 0..L
                                     /\ p.nodes[k].flags \in {{"OPEN"}, {"CLOSED"}}
  BY <1>0, NodesTyped DEF PoolBut
<1>2. /\ ns \in Seq(NodeSet(Polys(m), Places(m))) /\ Len(ns) = L
      /\ \A k \in 1..L : ns[k] = IF k = i THEN node ELSE p.nodes[k]
  BY <1>1 DEF Numbers
<1>3. q = [p EXCEPT !.nodes = ns] BY DEF Changed
<1>4. q.nodes = ns /\ q.max = p.max
  <2> HIDE DEF ns, q
  <2> QED BY <1>3, <1>0 DEF PoolTyped
<1> HIDE DEF ns, q
<1>5. \A k \in 1..Len(ns) : ns[k].id = p.nodes[k].id /\ ns[k].state = p.nodes[k].state
  BY <1>2
<1>6. PoolOK(q, Polys(m), Places(m))
  <2>1. PoolOK(p, Polys(m), Places(m)) BY DEF PoolBut
  <2> QED BY <1>2, <1>3, <1>5, <2>1, NodesChange
<1>7. Numbers(q) = Numbers(p) /\ Len(q.nodes) = L BY <1>2, <1>4 DEF Numbers
<1>8. \A k \in Numbers(p) : q.nodes[k] = IF k = i THEN node ELSE p.nodes[k]
  BY <1>2, <1>4 DEF Numbers
<1>9. \A k \in Numbers(q) : /\ q.nodes[k].state \in 0..3
                            /\ q.nodes[k].pidx \in 0..Len(q.nodes)
                            /\ q.nodes[k].flags \in {{"OPEN"}, {"CLOSED"}}
  <2> SUFFICES ASSUME NEW k \in Numbers(p)
               PROVE  /\ q.nodes[k].state \in 0..3 /\ q.nodes[k].pidx \in 0..L
                      /\ q.nodes[k].flags \in {{"OPEN"}, {"CLOSED"}}
    BY <1>7
  <2>1. CASE k = i BY <1>1, <1>8, <2>1
  <2>2. CASE k # i BY <1>1, <1>8, <2>2
  <2> QED BY <2>1, <2>2
<1>10. PoolInv(m, q) BY <1>4, <1>6, <1>9 DEF PoolInv, PoolBut
<1>11. \A k \in Numbers(p) : KeyOf(q, k) = KeyOf(p, k) BY <1>8 DEF KeyOf
<1> QED BY <1>4, <1>7, <1>8, <1>10, <1>11 DEF ChangeIs, q, ns

(* The map from what a pool's nodes stand for to how it was reached.       *)
EntryOf(p, i) ==
    [pos |-> p.nodes[i].pos, cost |-> p.nodes[i].cost, total |-> p.nodes[i].total,
     parent |-> IF p.nodes[i].pidx = 0 THEN <<>> ELSE KeyOf(p, p.nodes[i].pidx)]

MapOf(p) ==
    [k \in {KeyOf(p, i) : i \in Numbers(p)} |-> EntryOf(p, FindNode(p, k[1], k[2]))]

(* Every node is in the map under what it stands for.                      *)
LEMMA MapIs ==
    ASSUME NEW m \in Meshes, NEW p, PoolInv(m, p)
    PROVE  /\ DOMAIN MapOf(p) = {KeyOf(p, i) : i \in Numbers(p)}
           /\ \A i \in Numbers(p) : MapOf(p)[KeyOf(p, i)] = EntryOf(p, i)
<1>1. ASSUME NEW i \in Numbers(p) PROVE FindNode(p, p.nodes[i].id, p.nodes[i].state) = i
  <2>1. HashesTo(Polys(m)) /\ PoolOK(p, Polys(m), Places(m)) BY HashesPolys DEF PoolInv
  <2> QED BY <2>1, FindNodeOwn DEF Numbers
<1>2. ASSUME NEW i \in Numbers(p) PROVE MapOf(p)[KeyOf(p, i)] = EntryOf(p, i)
  <2>1. KeyOf(p, i) \in {KeyOf(p, k) : k \in Numbers(p)} OBVIOUS
  <2>2. KeyOf(p, i)[1] = p.nodes[i].id /\ KeyOf(p, i)[2] = p.nodes[i].state BY DEF KeyOf
  <2>3. MapOf(p)[KeyOf(p, i)] = EntryOf(p, FindNode(p, KeyOf(p, i)[1], KeyOf(p, i)[2]))
    BY <2>1 DEF MapOf
  <2> QED BY <1>1, <2>2, <2>3
<1>3. DOMAIN MapOf(p) = {KeyOf(p, i) : i \in Numbers(p)} BY DEF MapOf
<1> QED BY <1>2, <1>3

(* The map has as many entries as the pool has nodes.                      *)
LEMMA KeysCount ==
    ASSUME NEW m, NEW p, PoolInv(m, p)
    PROVE  Cardinality({KeyOf(p, i) : i \in Numbers(p)}) = Len(p.nodes)
<1> DEFINE S == Numbers(p)
           T == {KeyOf(p, i) : i \in S}
           f == [i \in S |-> KeyOf(p, i)]
<1>1. Len(p.nodes) \in Nat BY NodeIs
<1>2. IsFiniteSet(S) /\ Cardinality(S) = Len(p.nodes)
  <2>1. IsFiniteSet(1..Len(p.nodes)) BY <1>1, FS_Interval
  <2>2. Cardinality(1..Len(p.nodes))
           = IF 1 > Len(p.nodes) THEN 0 ELSE Len(p.nodes) - 1 + 1
    BY <1>1, FS_Interval
  <2> QED BY <1>1, <2>1, <2>2 DEF Numbers
<1>3. \A i, k \in S : KeyOf(p, i) = KeyOf(p, k) => i = k BY KeysApart
<1>4. f \in Bijection(S, T)
  <2>1. f \in [S -> T] OBVIOUS
  <2>2. \A i, k \in S : f[i] = f[k] => i = k BY <1>3
  <2>3. \A t \in T : \E i \in S : f[i] = t OBVIOUS
  <2>4. DOMAIN f = S OBVIOUS
  <2> HIDE DEF S, T, f
  <2> QED BY <2>1, <2>2, <2>3, <2>4 DEF Bijection, Injection, Surjection, IsInjective
<1> HIDE DEF f, S, T
<1>5. ExistsBijection(S, T) BY <1>4 DEF ExistsBijection
<1>6. Cardinality(S) = Cardinality(T) BY <1>2, <1>5, FS_Bijection
<1> QED BY <1>2, <1>6 DEF T, S

-------------------------------------------------------------------------------
(* Costs *)

Jobs(m) == [start : DOMAIN m.spot, end : DOMAIN m.spot, filter : Filters,
            sliced : BOOLEAN]

(* What lies between two points of a mesh costs nothing less than nothing. *)
LEMMA CostsNat ==
    ASSUME NEW m \in Meshes, NEW filter \in Filters, NEW p \in Polys(m),
           NEW a \in Points(m), NEW b \in Points(m)
    PROVE  /\ GetCost(filter, m, a, b, p) \in Nat
           /\ Heuristic(a, b) \in Nat
<1>1. Distance(a, b) \in Nat BY MeshAssumption
<1>2. filter.cost[m.area[p]] \in Nat BY MeshAssumption
<1>3. \A x, y \in Nat : x * y \in Nat OBVIOUS
<1>4. GetCost(filter, m, a, b, p) \in Nat BY <1>1, <1>2, <1>3 DEF GetCost
<1>5. Heuristic(a, b) \in Nat BY <1>1 DEF Heuristic, HScale
<1> QED BY <1>4, <1>5

(* Spots are points of the mesh.                                           *)
LEMMA SpotIn ==
    ASSUME NEW m, NEW p \in DOMAIN m.spot
    PROVE  m.spot[p] \in Points(m)
BY DEF Points, Range

(* A link leads to a polygon of the mesh, across an edge that has a        *)
(* middle.                                                                 *)
LEMMA LinkIs ==
    ASSUME NEW m \in Meshes, NEW p \in Polys(m), NEW l \in Range(m.links[p])
    PROVE  /\ l.to \in Polys(m)
           /\ GetEdgeMidPoint(m, p, l.to) \in Points(m)
           /\ CrossSide(l) \in 0..3
<1>1. /\ l.to \in Polys(m) /\ <<p, l.to>> \in DOMAIN m.mid
      /\ l.side \in 0..7 \cup {Inside}
  BY MeshAssumption
<1>2. GetEdgeMidPoint(m, p, l.to) \in Points(m)
  BY <1>1 DEF GetEdgeMidPoint, Points, Range
<1>3. CrossSide(l) \in 0..3
  <2>1. CASE l.side = Inside BY <2>1 DEF CrossSide
  <2>2. CASE l.side # Inside
    <3>1. l.side \in 0..7 BY <1>1, <2>2
    <3>2. \A x \in 0..7 : x \div 2 \in 0..3 OBVIOUS
    <3>3. CrossSide(l) = l.side \div 2 BY <2>2 DEF CrossSide
    <3> QED BY <3>1, <3>2, <3>3
  <2> QED BY <2>1, <2>2
<1> QED BY <1>1, <1>2, <1>3

(* What is left from a node to the end.                                    *)
Left(m, j, node) ==
    IF node.id = j.end THEN 0 ELSE Heuristic(node.pos, m.spot[j.end])

(* What is left to the end is a number.                                    *)
LEMMA LeftNat ==
    ASSUME NEW m \in Meshes, NEW j \in Jobs(m), NEW node, node.pos \in Points(m)
    PROVE  Left(m, j, node) \in Nat
<1>1. m.spot[j.end] \in Points(m) BY SpotIn DEF Jobs
<1>2. \A a, b \in Points(m) : Heuristic(a, b) \in Nat
  BY MeshAssumption DEF Heuristic, HScale
<1> QED BY <1>1, <1>2 DEF Left

(* What the nodes of a search are.                                         *)
NodesSearched(m, j, p) ==
    \A i \in Numbers(p) :
        /\ p.nodes[i].pos \in Points(m)
        /\ p.nodes[i].total = p.nodes[i].cost + Left(m, j, p.nodes[i])
        /\ p.nodes[i].pidx # 0 =>
              \E l \in Range(m.links[p.nodes[p.nodes[i].pidx].id]) : l.to = p.nodes[i].id

(* Every way on from a closed node was taken, if no node was missing.      *)
WaysTaken(m, g, j, p) ==
    \A i \in Numbers(p) : p.nodes[i].flags = {"CLOSED"} =>
        \A l \in Range(m.links[p.nodes[i].id]) :
            IsLeft(m, g, l) /\ PassFilter(j.filter, m, l.to) =>
                \E k \in Numbers(p) : p.nodes[k].id = l.to

(* What a search is between two of its steps; r has its locals.            *)
SearchOK(m, g, j, p, r, found) ==
    /\ j \in Jobs(m)
    /\ j.start \in Polys(m) /\ j.end \in Polys(m) /\ j.start # j.end
    /\ Len(p.nodes) >= 1 /\ p.nodes[1].id = j.start
    /\ NodesSearched(m, j, p)
    /\ r.last \in Numbers(p)
    /\ found => p.nodes[r.last].id = j.end
    /\ ~found => /\ r.lastCost = Left(m, j, p.nodes[r.last])
                 /\ \A i \in Numbers(p) : r.lastCost <= Left(m, j, p.nodes[i])
                 /\ \A i \in Numbers(p) : p.nodes[i].id = j.end =>
                                             p.nodes[i].flags = {"OPEN"}
                 /\ r.full \in BOOLEAN
                 /\ ~r.full => WaysTaken(m, g, j, p)

-------------------------------------------------------------------------------
(* One expansion *)

(* The state between the steps of a search with a best node to expand.     *)
Expanding(j, r) ==
    /\ mesh \in Meshes /\ PoolInv(mesh, pool)
    /\ OpenList(pool, heap, Opens(pool)) /\ heap # EmptyQueue
    /\ SearchOK(mesh, gone, j, pool, r, FALSE)
    /\ Job = j /\ Searching
    /\ Search!NoRing

Best == Top(heap)
BestKey == KeyOf(pool, Best)

(* The search's entries are the nodes.                                     *)
LEMMA EntriesAre ==
    ASSUME Searching, mesh \in Meshes, PoolInv(mesh, pool)
    PROVE  /\ Entries = MapOf(pool)
           /\ DOMAIN Entries = {KeyOf(pool, i) : i \in Numbers(pool)}
           /\ \A i \in Numbers(pool) : Entries[KeyOf(pool, i)] = EntryOf(pool, i)
<1>1. Entries = MapOf(pool)
  BY DEF Entries, MapOf, NodeOf, Nodes, KeyOf, EntryOf, Numbers
<1> QED BY <1>1, MapIs

(* The root of the open list is an open node of least total, and not its   *)
(* own parent.                                                             *)
LEMMA BestIs ==
    ASSUME NEW j, NEW r, Expanding(j, r)
    PROVE  /\ Best \in Numbers(pool) /\ Best \in Opens(pool)
           /\ pool.nodes[Best].flags = {"OPEN"}
           /\ pool.nodes[Best].id = BestId /\ BestId \in Polys(mesh)
           /\ \A i \in Opens(pool) : pool.nodes[Best].total <= pool.nodes[i].total
           /\ pool.nodes[Best].pidx # Best
<1>1. Best \in Opens(pool) /\ \A i \in Opens(pool) : TotalOf(pool, Best) <= TotalOf(pool, i)
  BY RootLeast DEF Expanding, Best
<1>2. Best \in Numbers(pool) BY <1>1 DEF Opens
<1>3. pool.nodes[Best].flags = {"OPEN"}
  <2>1. pool.nodes[Best].flags \in {{"OPEN"}, {"CLOSED"}} BY <1>2 DEF Expanding, PoolInv
  <2>2. "OPEN" \in pool.nodes[Best].flags BY <1>1 DEF Opens
  <2>3. "OPEN" # "CLOSED" OBVIOUS
  <2> QED BY <2>1, <2>2, <2>3
<1>4. pool.nodes[Best].id = BestId /\ BestId \in Polys(mesh)
  BY <1>2, NodeIs DEF Expanding, Best, BestId
<1>5. pool.nodes[Best].pidx # Best
  <2> SUFFICES ASSUME pool.nodes[Best].pidx = Best PROVE FALSE
    OBVIOUS
  <2>1. /\ KeyOf(pool, Best) \in DOMAIN Entries
        /\ Entries[KeyOf(pool, Best)] = EntryOf(pool, Best)
    BY <1>2, EntriesAre DEF Expanding
  <2>2. Best # 0 BY <1>2 DEF Numbers
  <2>3. Entries[KeyOf(pool, Best)].parent = KeyOf(pool, Best)
    BY <2>1, <2>2 DEF EntryOf
  <2> DEFINE ring == {KeyOf(pool, Best)}
  <2>4. ring \in SUBSET DOMAIN Entries /\ \A k \in ring : Entries[k].parent \in ring
    BY <2>1, <2>3
  <2>5. ring = {} BY <2>4 DEF Expanding, Search!NoRing
  <2> QED BY <2>5
<1> QED BY <1>1, <1>2, <1>3, <1>4, <1>5 DEF TotalOf

(* A link that an expansion of the best node follows, and where to.        *)
Back(l) ==
    /\ pool.nodes[Best].pidx # 0
    /\ l.to = pool.nodes[pool.nodes[Best].pidx].id

Goes(j, l) ==
    IsLeft(mesh, gone, l) /\ ~Back(l) /\ PassFilter(j.filter, mesh, l.to)

ToKey(j, l) == <<l.to, IF j.sliced THEN 0 ELSE CrossSide(l)>>

Siblings(j) ==
    {m \in DOMAIN Entries : /\ j.sliced
                            /\ Entries[m].parent # <<>>
                            /\ Entries[m].parent = Entries[BestKey].parent}

Links == mesh.links[BestId]

StepsBy(j, k) ==
    {ToKey(j, Links[n]) : n \in {n \in 1..k : Goes(j, Links[n])}} \ Siblings(j)

(* The best node's entry.                                                  *)
LEMMA BestEntry ==
    ASSUME NEW j, NEW r, Expanding(j, r)
    PROVE  /\ BestKey \in DOMAIN Entries /\ Entries[BestKey] = EntryOf(pool, Best)
           /\ BestKey[1] = BestId
           /\ BestKey \in OpenNodes
<1>1. Best \in Numbers(pool) /\ Best \in Opens(pool) /\ pool.nodes[Best].id = BestId
  BY BestIs
<1>2. BestKey \in DOMAIN Entries /\ Entries[BestKey] = EntryOf(pool, Best)
  BY <1>1, EntriesAre DEF Expanding, BestKey
<1>3. BestKey[1] = BestId BY <1>1 DEF BestKey, KeyOf
<1>4. Range(heap) = Opens(pool) BY OpenListIs DEF Expanding
<1>5. BestKey \in OpenNodes BY <1>1, <1>4 DEF OpenNodes, Expanding, NodeOf, BestKey, KeyOf
<1> QED BY <1>2, <1>3, <1>5

(* The links of the best node are a finite list.                           *)
LEMMA LinksAre ==
    ASSUME NEW j, NEW r, Expanding(j, r)
    PROVE  /\ Links \in Seq(Range(Links)) /\ Len(Links) \in Nat
           /\ \A n \in 1..Len(Links) : Links[n] \in Range(Links)
           /\ \A l \in Range(Links) : \E n \in 1..Len(Links) : l = Links[n]
<1>1. BestId \in Polys(mesh) /\ mesh \in Meshes BY BestIs DEF Expanding
<1>2. Links \in Seq(Range(Links)) BY <1>1, MeshAssumption DEF Links
<1>3. Len(Links) \in Nat /\ DOMAIN Links = 1..Len(Links) BY <1>2
<1> QED BY <1>2, <1>3 DEF Range

(* The steps of the search from the best entry are the links an expansion  *)
(* goes.                                                                   *)
LEMMA StepsAre ==
    ASSUME NEW j, NEW r, Expanding(j, r)
    PROVE  Search!Steps(BestKey) = StepsBy(j, Len(Links))
<1> DEFINE followed == {l \in Range(Links) : Goes(j, l)}
           reached == {ToKey(j, Links[n]) : n \in {n \in 1..Len(Links) : Goes(j, Links[n])}}
<1>1. /\ BestKey[1] = BestId /\ Entries[BestKey] = EntryOf(pool, Best)
  BY BestEntry
<1>2. Best \in Numbers(pool) /\ pool.nodes[Best].pidx \in 0..Len(pool.nodes)
  BY BestIs, NodeIs DEF Expanding
<1>3. Job = j BY DEF Expanding
<1>4. ASSUME NEW l
      PROVE  (Entries[BestKey].parent # Search!NoKey => l.to # Entries[BestKey].parent[1])
                <=> ~Back(l)
  <2>1. CASE pool.nodes[Best].pidx = 0
    <3>1. Entries[BestKey].parent = <<>> BY <1>1, <2>1 DEF EntryOf
    <3> QED BY <2>1, <3>1 DEF Back, Search!NoKey
  <2>2. CASE pool.nodes[Best].pidx # 0
    <3>1. Entries[BestKey].parent = KeyOf(pool, pool.nodes[Best].pidx)
      BY <1>1, <2>2 DEF EntryOf
    <3>2. /\ Entries[BestKey].parent # <<>>
          /\ Entries[BestKey].parent[1] = pool.nodes[pool.nodes[Best].pidx].id
      BY <3>1 DEF KeyOf
    <3> QED BY <2>2, <3>2 DEF Back, Search!NoKey
  <2> QED BY <2>1, <2>2
<1>5. {l \in Search!Range(mesh.links[BestKey[1]]) :
          /\ mesh.tile[l.to] \notin gone
          /\ Search!PassFilter(Job.filter, mesh, l.to)
          /\ Entries[BestKey].parent # Search!NoKey => l.to # Entries[BestKey].parent[1]}
        = followed
  <2>1. Search!Range(mesh.links[BestKey[1]]) = Range(Links)
    BY <1>1 DEF Search!Range, Range, Links
  <2>2. \A l : Search!PassFilter(Job.filter, mesh, l.to) = PassFilter(j.filter, mesh, l.to)
    BY <1>3 DEF Search!PassFilter, PassFilter
  <2> QED BY <1>4, <2>1, <2>2 DEF Goes, IsLeft
<1>6. \A l : <<l.to, Search!StateOf(l)>> = ToKey(j, l)
  BY <1>3 DEF Search!StateOf, ToKey, CrossSide, Search!Inside, Inside
<1>7. {m \in DOMAIN Entries : /\ Job.sliced
                              /\ Entries[m].parent # Search!NoKey
                              /\ Entries[m].parent = Entries[BestKey].parent} = Siblings(j)
  BY <1>3 DEF Siblings, Search!NoKey
<1>8. {ToKey(j, l) : l \in followed} = reached
  <2>1. ASSUME NEW l \in followed PROVE ToKey(j, l) \in reached
    <3>1. PICK n \in 1..Len(Links) : l = Links[n] BY LinksAre
    <3> QED BY <3>1
  <2>2. ASSUME NEW n \in 1..Len(Links), Goes(j, Links[n])
        PROVE  ToKey(j, Links[n]) \in {ToKey(j, l) : l \in followed}
    <3>1. Links[n] \in followed BY <2>2, LinksAre
    <3> HIDE DEF followed
    <3> QED BY <3>1
  <2> HIDE DEF followed
  <2> QED BY <2>1, <2>2
<1>9. Search!Steps(BestKey)
        = {<<l.to, Search!StateOf(l)>> : l \in
              {l \in Search!Range(mesh.links[BestKey[1]]) :
                  /\ mesh.tile[l.to] \notin gone
                  /\ Search!PassFilter(Job.filter, mesh, l.to)
                  /\ Entries[BestKey].parent # Search!NoKey => l.to # Entries[BestKey].parent[1]}}
            \ {m \in DOMAIN Entries : /\ Job.sliced
                                      /\ Entries[m].parent # Search!NoKey
                                      /\ Entries[m].parent = Entries[BestKey].parent}
  BY DEF Search!Steps
<1> HIDE DEF followed, reached
<1>10. {<<l.to, Search!StateOf(l)>> : l \in followed} = {ToKey(j, l) : l \in followed}
  BY <1>6
<1>11. Search!Steps(BestKey) = reached \ Siblings(j)
  BY <1>5, <1>7, <1>8, <1>9, <1>10
<1> QED BY <1>11 DEF StepsBy, reached

(* What the best node offers an entry k of a polygon it is linked to.      *)
LEMMA CandidateIs ==
    ASSUME NEW j, NEW r, Expanding(j, r), NEW k,
           NEW l \in Range(Links), k[1] = l.to
    PROVE  LET b == pool.nodes[Best]
               pos == Search!PositionFrom(BestKey, k)
               way == GetCost(j.filter, mesh, b.pos, pos, b.id)
               rest == GetCost(j.filter, mesh, pos, mesh.spot[j.end], k[1])
               c == Search!Candidate(BestKey, k)
           IN  /\ pos \in Points(mesh) /\ way \in Nat /\ rest \in Nat
               /\ Heuristic(pos, mesh.spot[j.end]) \in Nat
               /\ c = [pos |-> c.pos, cost |-> c.cost, total |-> c.total, parent |-> BestKey]
               /\ c.pos = pos
               /\ c.cost = b.cost + way + (IF k[1] = j.end THEN rest ELSE 0)
               /\ c.total = c.cost + (IF k[1] = j.end THEN 0
                                      ELSE Heuristic(pos, mesh.spot[j.end]))
<1> DEFINE b == pool.nodes[Best]
           pos == Search!PositionFrom(BestKey, k)
           way == GetCost(j.filter, mesh, b.pos, pos, b.id)
           rest == GetCost(j.filter, mesh, pos, mesh.spot[j.end], k[1])
           c == Search!Candidate(BestKey, k)
<1>1. /\ Job = j /\ mesh \in Meshes /\ BestId \in Polys(mesh) /\ b.id = BestId
      /\ Best \in Numbers(pool) /\ BestKey[1] = BestId
      /\ Entries[BestKey] = EntryOf(pool, Best)
  BY BestIs, BestEntry DEF Expanding
<1>2. NodesSearched(mesh, j, pool) /\ j \in Jobs(mesh) BY DEF Expanding, SearchOK
<1>3. pos \in Points(mesh)
  <2>1. CASE k \in DOMAIN Entries
    <3>1. PICK i \in Numbers(pool) : k = KeyOf(pool, i)
      BY <2>1, EntriesAre DEF Expanding
    <3>2. Entries[k] = EntryOf(pool, i) BY <3>1, EntriesAre DEF Expanding
    <3>3. pos = pool.nodes[i].pos BY <2>1, <3>2 DEF Search!PositionFrom, EntryOf
    <3> QED BY <1>2, <3>3 DEF NodesSearched
  <2>2. CASE k \notin DOMAIN Entries
    <3>1. pos = GetEdgeMidPoint(mesh, BestId, l.to)
      BY <1>1, <2>2 DEF Search!PositionFrom, Search!GetEdgeMidPoint, GetEdgeMidPoint
    <3> QED BY <1>1, <3>1, LinkIs DEF Links
  <2> QED BY <2>1, <2>2
<1>4. /\ b.pos \in Points(mesh) /\ mesh.spot[j.end] \in Points(mesh)
      /\ j.filter \in Filters /\ l.to \in Polys(mesh)
  BY <1>1, <1>2, SpotIn, LinkIs DEF NodesSearched, Jobs, Links
<1>5. way \in Nat /\ rest \in Nat /\ Heuristic(pos, mesh.spot[j.end]) \in Nat
  BY <1>1, <1>3, <1>4, CostsNat
<1>6. Entries[BestKey].cost = b.cost /\ Entries[BestKey].pos = b.pos
  BY <1>1 DEF EntryOf
<1>7. c = [pos |-> pos,
           cost |-> b.cost + way + (IF k[1] = j.end THEN rest ELSE 0),
           total |-> b.cost + way + (IF k[1] = j.end THEN rest ELSE 0)
                       + (IF k[1] = j.end THEN 0 ELSE Heuristic(pos, mesh.spot[j.end])),
           parent |-> BestKey]
  <2>1. way = Search!GetCost(Job.filter, mesh, Entries[BestKey].pos, pos, BestKey[1])
    BY <1>1, <1>6 DEF GetCost, Search!GetCost
  <2>2. rest = Search!GetCost(Job.filter, mesh, pos, Search!Goal(Job), k[1])
    BY <1>1 DEF GetCost, Search!GetCost, Search!Goal
  <2>3. Heuristic(pos, mesh.spot[j.end]) = Search!Heuristic(pos, Search!Goal(Job))
    BY <1>1 DEF Heuristic, HScale, Search!Heuristic, Search!HScale, Search!Goal
  <2> HIDE DEF way, rest, b
  <2> QED BY <1>1, <1>6, <2>1, <2>2, <2>3 DEF Search!Candidate
<1> HIDE DEF b, pos, way, rest, c
<1>8. /\ c = [pos |-> c.pos, cost |-> c.cost, total |-> c.total, parent |-> BestKey]
      /\ c.pos = pos
      /\ c.cost = b.cost + way + (IF k[1] = j.end THEN rest ELSE 0)
      /\ c.total = c.cost + (IF k[1] = j.end THEN 0 ELSE Heuristic(pos, mesh.spot[j.end]))
  BY <1>7
<1> QED BY <1>3, <1>5, <1>8 DEF b, pos, way, rest, c

(* The best node once it is closed.                                        *)
ClosedBest == [pool.nodes[Best] EXCEPT !.flags = {"CLOSED"}]
Popped == Changed(pool, Best, ClosedBest)

(* Taking the best node from the open list closes it and changes nothing   *)
(* else.                                                                   *)
LEMMA PoppedIs ==
    ASSUME NEW j, NEW r, Expanding(j, r)
    PROVE  /\ PoolInv(mesh, Popped) /\ Popped.max = pool.max
           /\ Numbers(Popped) = Numbers(pool) /\ Len(Popped.nodes) = Len(pool.nodes)
           /\ Popped.nodes[Best] = ClosedBest
           /\ \A i \in Numbers(pool) : i # Best => Popped.nodes[i] = pool.nodes[i]
           /\ \A i \in Numbers(pool) : KeyOf(Popped, i) = KeyOf(pool, i)
           /\ \A i \in Numbers(pool) :
                 /\ Popped.nodes[i].id = pool.nodes[i].id
                 /\ Popped.nodes[i].pidx = pool.nodes[i].pidx
                 /\ Popped.nodes[i].pos = pool.nodes[i].pos
                 /\ Popped.nodes[i].cost = pool.nodes[i].cost
                 /\ Popped.nodes[i].total = pool.nodes[i].total
           /\ ClosedBest.flags = {"CLOSED"}
<1>1. Best \in Numbers(pool) /\ PoolInv(mesh, pool) BY BestIs DEF Expanding
<1>2. pool.nodes[Best] \in NodeSet(Polys(mesh), Places(mesh))
      /\ pool.nodes[Best].pidx \in 0..Len(pool.nodes)
  BY <1>1, NodeIs
<1>3. /\ ClosedBest \in NodeSet(Polys(mesh), Places(mesh))
      /\ ClosedBest.id = pool.nodes[Best].id
      /\ ClosedBest.state = pool.nodes[Best].state
      /\ ClosedBest.pidx = pool.nodes[Best].pidx
      /\ ClosedBest.pos = pool.nodes[Best].pos
      /\ ClosedBest.cost = pool.nodes[Best].cost
      /\ ClosedBest.total = pool.nodes[Best].total
      /\ ClosedBest.flags = {"CLOSED"}
  BY <1>2 DEF ClosedBest, NodeSet
<1> HIDE DEF ClosedBest
<1>4. /\ PoolInv(mesh, Popped) /\ Popped.max = pool.max
      /\ Numbers(Popped) = Numbers(pool) /\ Len(Popped.nodes) = Len(pool.nodes)
      /\ Popped.nodes[Best] = ClosedBest
      /\ \A i \in Numbers(pool) : i # Best => Popped.nodes[i] = pool.nodes[i]
      /\ \A i \in Numbers(pool) : KeyOf(Popped, i) = KeyOf(pool, i)
  <2>1. ChangeIs(mesh, pool, Best, ClosedBest, Popped)
    <3>1. PoolBut(mesh, pool, Best) BY <1>1 DEF PoolInv, PoolBut
    <3>2. ClosedBest.state \in 0..3 BY <1>1, <1>3, NodeIs
    <3> QED BY <1>1, <1>2, <1>3, <3>1, <3>2, ChangedOK DEF Popped
  <2> QED BY <2>1 DEF ChangeIs
<1>5. \A i \in Numbers(pool) :
         /\ Popped.nodes[i].id = pool.nodes[i].id
         /\ Popped.nodes[i].pidx = pool.nodes[i].pidx
         /\ Popped.nodes[i].pos = pool.nodes[i].pos
         /\ Popped.nodes[i].cost = pool.nodes[i].cost
         /\ Popped.nodes[i].total = pool.nodes[i].total
  <2> TAKE i \in Numbers(pool)
  <2>1. CASE i = Best BY <1>3, <1>4, <2>1
  <2>2. CASE i # Best BY <1>4, <2>2
  <2> QED BY <2>1, <2>2
<1> QED BY <1>3, <1>4, <1>5

(* What a step of the expansion offers node i is what the search offers    *)
(* the entry: to a node that is new, that was there, or that an earlier    *)
(* link of the same expansion reached.                                     *)
LEMMA OfferIs ==
    ASSUME NEW j, NEW r, Expanding(j, r), NEW nodes, nodes[Best] = ClosedBest,
           NEW l \in Range(Links), NEW i, nodes[i].id = l.to, NEW k, k[1] = l.to,
           \/ nodes[i].flags = {} /\ k \notin DOMAIN Entries
           \/ nodes[i].flags # {} /\ nodes[i].pos = Search!PositionFrom(BestKey, k)
    PROVE  LET o == Offer(j, nodes, Best, i)
               c == Search!Candidate(BestKey, k)
           IN  /\ c.pos \in Points(mesh) /\ c.cost \in Nat /\ c.total \in Nat
               /\ c.pos = Search!PositionFrom(BestKey, k)
               /\ c = [pos |-> c.pos, cost |-> c.cost, total |-> c.total, parent |-> BestKey]
               /\ o.pos = c.pos /\ o.cost = c.cost
               /\ o.toGo \in Nat /\ o.cost + o.toGo = c.total
               /\ o.toGo = IF l.to = j.end THEN 0
                           ELSE Heuristic(c.pos, mesh.spot[j.end])
               /\ c.cost >= pool.nodes[Best].cost
<1> DEFINE b == pool.nodes[Best]
           pos == Search!PositionFrom(BestKey, k)
           way == GetCost(j.filter, mesh, b.pos, pos, b.id)
           rest == GetCost(j.filter, mesh, pos, mesh.spot[j.end], k[1])
           c == Search!Candidate(BestKey, k)
           o == Offer(j, nodes, Best, i)
           toGo == Heuristic(pos, mesh.spot[j.end])
<1>1. /\ pos \in Points(mesh) /\ way \in Nat /\ rest \in Nat /\ toGo \in Nat
      /\ c = [pos |-> c.pos, cost |-> c.cost, total |-> c.total, parent |-> BestKey]
      /\ c.pos = pos
      /\ c.cost = b.cost + way + (IF k[1] = j.end THEN rest ELSE 0)
      /\ c.total = c.cost + (IF k[1] = j.end THEN 0 ELSE toGo)
  BY CandidateIs
<1>2. /\ b.cost \in Nat /\ b.id = BestId /\ BestKey[1] = BestId
      /\ b \in NodeSet(Polys(mesh), Places(mesh))
  BY BestIs, BestEntry, NodeIs DEF Expanding
<1>3. ClosedBest.id = b.id /\ ClosedBest.pos = b.pos /\ ClosedBest.cost = b.cost
  BY <1>2 DEF ClosedBest, NodeSet
<1>4. (IF nodes[i].flags = {} THEN GetEdgeMidPoint(mesh, b.id, nodes[i].id)
       ELSE nodes[i].pos) = pos
  BY <1>2 DEF Search!PositionFrom, Search!GetEdgeMidPoint, GetEdgeMidPoint
<1>5. o = IF k[1] = j.end THEN [pos |-> pos, cost |-> b.cost + way + rest, toGo |-> 0]
          ELSE [pos |-> pos, cost |-> b.cost + way, toGo |-> toGo]
  BY <1>3, <1>4 DEF Offer
<1> HIDE DEF b, pos, way, rest, c, o, toGo
<1>6. /\ o.pos = pos /\ o.toGo = IF k[1] = j.end THEN 0 ELSE toGo
      /\ o.cost = b.cost + way + (IF k[1] = j.end THEN rest ELSE 0)
  <2>1. CASE k[1] = j.end BY <1>1, <1>2, <1>5, <2>1
  <2>2. CASE k[1] # j.end BY <1>1, <1>2, <1>5, <2>2
  <2> QED BY <2>1, <2>2
<1>7. /\ c.cost \in Nat /\ c.cost >= b.cost /\ o.toGo \in Nat
      /\ o.cost = c.cost /\ c.total = c.cost + o.toGo /\ c.total \in Nat
  <2>1. CASE k[1] = j.end BY <1>1, <1>2, <1>6, <2>1
  <2>2. CASE k[1] # j.end BY <1>1, <1>2, <1>6, <2>2
  <2> QED BY <2>1, <2>2
<1>8. o.toGo = IF l.to = j.end THEN 0 ELSE Heuristic(c.pos, mesh.spot[j.end])
  BY <1>1, <1>6 DEF toGo
<1> QED BY <1>1, <1>6, <1>7, <1>8 DEF o, c, pos, b

(* How far an expansion has come after k links.                            *)
Kept(j, p, k, i) ==
    /\ i \in Numbers(pool) /\ p.nodes[i] = Popped.nodes[i]
    /\ KeyOf(p, i) \in StepsBy(j, k) => ~Search!Improves(BestKey, KeyOf(p, i))

Bettered(j, p, k, i) ==
    /\ i # Best
    /\ KeyOf(p, i) \in StepsBy(j, k) /\ Search!Improves(BestKey, KeyOf(p, i))
    /\ EntryOf(p, i) = Search!Candidate(BestKey, KeyOf(p, i))
    /\ p.nodes[i].pidx = Best /\ p.nodes[i].flags = {"OPEN"}

NearestKept(j, p, last, lastCost) ==
    /\ last \in Numbers(p) /\ lastCost = Left(mesh, j, p.nodes[last])
    /\ \A i \in Numbers(p) : lastCost <= Left(mesh, j, p.nodes[i])

Progress(j, r, s, k) ==
    /\ s = [pool |-> s.pool, heap |-> s.heap, last |-> s.last,
            lastCost |-> s.lastCost, full |-> s.full]
    /\ PoolInv(mesh, s.pool) /\ s.pool.max = pool.max
    /\ Numbers(pool) \subseteq Numbers(s.pool)
    /\ \A i \in Numbers(pool) : KeyOf(s.pool, i) = KeyOf(pool, i)
    /\ \A i \in Numbers(s.pool) : Kept(j, s.pool, k, i) \/ Bettered(j, s.pool, k, i)
    /\ \A key \in StepsBy(j, k) :
          \/ \E i \in Numbers(s.pool) : KeyOf(s.pool, i) = key
          \/ Len(s.pool.nodes) = s.pool.max /\ s.full
    /\ OpenList(s.pool, s.heap, Opens(s.pool))
    /\ NearestKept(j, s.pool, s.last, s.lastCost)
    /\ NodesSearched(mesh, j, s.pool)
    /\ s.full \in BOOLEAN /\ (r.full => s.full)

(* What another link adds to where an expansion has been.                  *)
LEMMA StepsGrow ==
    ASSUME NEW j, NEW k \in Nat
    PROVE  /\ StepsBy(j, 0) = {}
           /\ StepsBy(j, k) \subseteq StepsBy(j, k + 1)
           /\ StepsBy(j, k + 1) \subseteq StepsBy(j, k) \cup {ToKey(j, Links[k + 1])}
           /\ ~Goes(j, Links[k + 1]) => StepsBy(j, k + 1) = StepsBy(j, k)
           /\ Goes(j, Links[k + 1]) /\ ToKey(j, Links[k + 1]) \notin Siblings(j) =>
                 ToKey(j, Links[k + 1]) \in StepsBy(j, k + 1)
           /\ ToKey(j, Links[k + 1]) \in Siblings(j) => StepsBy(j, k + 1) = StepsBy(j, k)
<1> DEFINE By(n) == {q \in 1..n : Goes(j, Links[q])}
           Keys(n) == {ToKey(j, Links[q]) : q \in By(n)}
<1>1. By(0) = {} /\ By(k) \subseteq By(k + 1) /\ By(k + 1) \subseteq By(k) \cup {k + 1}
  OBVIOUS
<1>2. /\ ~Goes(j, Links[k + 1]) => By(k + 1) = By(k)
      /\ Goes(j, Links[k + 1]) => k + 1 \in By(k + 1)
  <2>1. \A q \in 1..(k + 1) : q \in 1..k \/ q = k + 1 OBVIOUS
  <2>2. k + 1 \in 1..(k + 1) /\ 1..k \subseteq 1..(k + 1) OBVIOUS
  <2> QED BY <2>1, <2>2
<1>3. \A n : StepsBy(j, n) = Keys(n) \ Siblings(j) BY DEF StepsBy
<1> HIDE DEF By
<1>4. /\ Keys(0) = {} /\ Keys(k) \subseteq Keys(k + 1)
      /\ Keys(k + 1) \subseteq Keys(k) \cup {ToKey(j, Links[k + 1])}
      /\ ~Goes(j, Links[k + 1]) => Keys(k + 1) = Keys(k)
      /\ Goes(j, Links[k + 1]) => ToKey(j, Links[k + 1]) \in Keys(k + 1)
  BY <1>1, <1>2
<1> HIDE DEF Keys
<1> QED BY <1>3, <1>4

(* Before the first link.                                                  *)
LEMMA PopBestIs ==
    ASSUME NEW j, NEW r, Expanding(j, r)
    PROVE  PopBest(Locals(r)) = [pool |-> Popped, heap |-> Pop(pool, heap), last |-> r.last,
                                 lastCost |-> r.lastCost, full |-> r.full]
<1> DEFINE flags == (pool.nodes[Best].flags \ {"OPEN"}) \cup {"CLOSED"}
<1>1. flags = {"CLOSED"}
  <2>1. pool.nodes[Best].flags = {"OPEN"} BY BestIs
  <2> QED BY <2>1
<1> DEFINE closed == [pool.nodes[Best] EXCEPT !.flags = flags]
           popped == [pool EXCEPT !.nodes = [pool.nodes EXCEPT ![Best] = closed]]
           s == Locals(r)
           t == [s EXCEPT !.heap = Pop(s.pool, @)]
<1>2. s = [pool |-> pool, heap |-> heap, last |-> r.last,
           lastCost |-> r.lastCost, full |-> r.full]
  BY DEF Locals
<1>3. s.pool = pool /\ s.heap = heap BY <1>2
<1>4. PopBest(s) = [t EXCEPT !.pool.nodes[Top(s.heap)].flags
                                = (@ \ {"OPEN"}) \cup {"CLOSED"}]
  BY DEF PopBest
<1> HIDE DEF s
<1>5. t = [pool |-> pool, heap |-> Pop(pool, heap), last |-> r.last,
           lastCost |-> r.lastCost, full |-> r.full]
  BY <1>2, <1>3
<1>6. t.pool = pool /\ Top(s.heap) = Best BY <1>3, <1>5 DEF Best
<1> HIDE DEF t
<1>7. PopBest(s) = [t EXCEPT !.pool = popped]
  BY <1>4, <1>6
<1> HIDE DEF popped
<1>8. PopBest(s) = [pool |-> popped, heap |-> Pop(pool, heap), last |-> r.last,
                    lastCost |-> r.lastCost, full |-> r.full]
  BY <1>5, <1>7
<1>9. popped = Popped BY <1>1 DEF Popped, Changed, ClosedBest, popped
<1> QED BY <1>8, <1>9 DEF s

(* The open list without the best node is that of the pool with it closed. *)
LEMMA OpensPopped ==
    ASSUME NEW j, NEW r, Expanding(j, r)
    PROVE  /\ Opens(Popped) = Opens(pool) \ {Best}
           /\ OpenList(Popped, Pop(pool, heap), Opens(Popped))
<1>1. /\ Numbers(Popped) = Numbers(pool) /\ Best \in Numbers(pool)
      /\ Popped.nodes[Best].flags = {"CLOSED"}
      /\ \A i \in Numbers(pool) : i # Best => Popped.nodes[i] = pool.nodes[i]
      /\ \A i \in Numbers(pool) : Popped.nodes[i].total = pool.nodes[i].total
  BY PoppedIs, BestIs
<1>2. "OPEN" \notin {"CLOSED"} OBVIOUS
<1>3. Opens(Popped) = Opens(pool) \ {Best} BY <1>1, <1>2 DEF Opens
<1>4. OpenList(pool, Pop(pool, heap), Opens(pool) \ {Best})
  BY PopOK DEF Expanding, Best
<1>5. \A i \in Opens(pool) \ {Best} : TotalOf(Popped, i) = TotalOf(pool, i)
  BY <1>1 DEF Opens, TotalOf
<1>6. OpenList(Popped, Pop(pool, heap), Opens(pool) \ {Best})
  BY <1>4, <1>5, OpenListSame
<1> QED BY <1>3, <1>6

(* An expansion that has followed no link yet.                             *)
LEMMA Starts ==
    ASSUME NEW j, NEW r, Expanding(j, r)
    PROVE  Progress(j, r, PopBest(Locals(r)), 0)
<1> DEFINE s == PopBest(Locals(r))
<1>1. /\ s = [pool |-> s.pool, heap |-> s.heap, last |-> s.last,
              lastCost |-> s.lastCost, full |-> s.full]
      /\ s.pool = Popped /\ s.heap = Pop(pool, heap) /\ s.last = r.last
      /\ s.lastCost = r.lastCost /\ s.full = r.full
  <2>1. s = [pool |-> Popped, heap |-> Pop(pool, heap), last |-> r.last,
             lastCost |-> r.lastCost, full |-> r.full]
    BY PopBestIs
  <2> HIDE DEF s
  <2> QED BY <2>1
<1> HIDE DEF s
<1>2. /\ PoolInv(mesh, Popped) /\ Popped.max = pool.max /\ Numbers(Popped) = Numbers(pool)
      /\ \A i \in Numbers(pool) : KeyOf(Popped, i) = KeyOf(pool, i)
      /\ \A i \in Numbers(pool) :
            /\ Popped.nodes[i].id = pool.nodes[i].id
            /\ Popped.nodes[i].pidx = pool.nodes[i].pidx
            /\ Popped.nodes[i].pos = pool.nodes[i].pos
            /\ Popped.nodes[i].cost = pool.nodes[i].cost
            /\ Popped.nodes[i].total = pool.nodes[i].total
  BY PoppedIs
<1>3. StepsBy(j, 0) = {} BY StepsGrow
<1>4. \A i \in Numbers(Popped) : Kept(j, Popped, 0, i) BY <1>2, <1>3 DEF Kept
<1>5. \A i \in Numbers(pool) : Left(mesh, j, Popped.nodes[i]) = Left(mesh, j, pool.nodes[i])
  BY <1>2 DEF Left
<1>6. SearchOK(mesh, gone, j, pool, r, FALSE) BY DEF Expanding
<1>7. NearestKept(j, Popped, r.last, r.lastCost)
  BY <1>2, <1>5, <1>6 DEF NearestKept, SearchOK
<1>8. NodesSearched(mesh, j, Popped)
  <2> SUFFICES ASSUME NEW i \in Numbers(pool)
               PROVE  /\ Popped.nodes[i].pos \in Points(mesh)
                      /\ Popped.nodes[i].total
                           = Popped.nodes[i].cost + Left(mesh, j, Popped.nodes[i])
                      /\ Popped.nodes[i].pidx # 0 =>
                            \E l \in Range(mesh.links[Popped.nodes[Popped.nodes[i].pidx].id]) :
                                l.to = Popped.nodes[i].id
    BY <1>2 DEF NodesSearched
  <2>1. /\ pool.nodes[i].pos \in Points(mesh)
        /\ pool.nodes[i].total = pool.nodes[i].cost + Left(mesh, j, pool.nodes[i])
        /\ pool.nodes[i].pidx # 0 =>
              \E l \in Range(mesh.links[pool.nodes[pool.nodes[i].pidx].id]) :
                  l.to = pool.nodes[i].id
    BY <1>6 DEF SearchOK, NodesSearched
  <2>2. pool.nodes[i].pidx # 0 => pool.nodes[i].pidx \in Numbers(pool)
    BY NodeIs DEF Expanding, Numbers
  <2>3. pool.nodes[i].pidx # 0 =>
           Popped.nodes[Popped.nodes[i].pidx].id = pool.nodes[pool.nodes[i].pidx].id
    BY <1>2, <2>2
  <2> QED BY <1>2, <1>5, <2>1, <2>3
<1>9. r.full \in BOOLEAN BY <1>6 DEF SearchOK
<1>10. OpenList(Popped, Pop(pool, heap), Opens(Popped)) BY OpensPopped
<1> QED BY <1>1, <1>2, <1>3, <1>4, <1>7, <1>8, <1>9, <1>10 DEF Progress, s

(* One link more.                                                          *)
LEMMA KeptOn ==
    ASSUME NEW j, NEW k \in Nat, NEW p, NEW q, NEW i,
           q.nodes[i] = p.nodes[i], EntryOf(q, i) = EntryOf(p, i),
           KeyOf(p, i) \in StepsBy(j, k + 1) =>
              KeyOf(p, i) \in StepsBy(j, k) \/ ~Search!Improves(BestKey, KeyOf(p, i))
    PROVE  /\ Kept(j, p, k, i) => Kept(j, q, k + 1, i)
           /\ Bettered(j, p, k, i) => Bettered(j, q, k + 1, i)
<1>1. KeyOf(q, i) = KeyOf(p, i) BY DEF KeyOf
<1>2. Kept(j, p, k, i) => Kept(j, q, k + 1, i) BY <1>1 DEF Kept
<1>3. StepsBy(j, k) \subseteq StepsBy(j, k + 1) BY StepsGrow
<1>4. Bettered(j, p, k, i) => Bettered(j, q, k + 1, i) BY <1>1, <1>3 DEF Bettered
<1> QED BY <1>2, <1>4

(* A link that is not followed, or leads nowhere new, leaves the expansion *)
(* as it is.                                                               *)
LEMMA NoneReached ==
    ASSUME NEW j, NEW r, NEW s, NEW k \in Nat, Progress(j, r, s, k),
           NEW t, t = [s EXCEPT !.full = TRUE] \/ t = s,
           \A i \in Numbers(s.pool) : Kept(j, s.pool, k + 1, i) \/ Bettered(j, s.pool, k + 1, i),
           \A key \in StepsBy(j, k + 1) :
              \/ \E i \in Numbers(s.pool) : KeyOf(s.pool, i) = key
              \/ Len(s.pool.nodes) = s.pool.max /\ t.full
    PROVE  Progress(j, r, t, k + 1)
<1>1. s = [pool |-> s.pool, heap |-> s.heap, last |-> s.last,
           lastCost |-> s.lastCost, full |-> s.full] /\ s.full \in BOOLEAN
  BY DEF Progress
<1>2. /\ t.pool = s.pool /\ t.heap = s.heap /\ t.last = s.last /\ t.lastCost = s.lastCost
      /\ t.full \in BOOLEAN /\ (s.full => t.full)
      /\ t = [pool |-> t.pool, heap |-> t.heap, last |-> t.last,
              lastCost |-> t.lastCost, full |-> t.full]
  BY <1>1
<1> QED BY <1>2 DEF Progress

(* What `Reached` makes of the locals of a search.                         *)
LEMMA ReachedIs ==
    ASSUME NEW s, NEW q, NEW best, NEW i, NEW offer,
           s = [pool |-> s.pool, heap |-> s.heap, last |-> s.last,
                lastCost |-> s.lastCost, full |-> s.full]
    PROVE  LET set == SetNode(q, best, i, offer)
               nearer == offer.toGo < s.lastCost
           IN  Reached([s EXCEPT !.pool = q], best, i, offer)
                 = [pool |-> set,
                    heap |-> IF "OPEN" \in q.nodes[i].flags THEN Modify(set, s.heap, i)
                             ELSE Push(set, s.heap, i),
                    last |-> IF nearer THEN i ELSE s.last,
                    lastCost |-> IF nearer THEN offer.toGo ELSE s.lastCost,
                    full |-> s.full]
<1> DEFINE t == [s EXCEPT !.pool = q]
<1>1. /\ t.pool = q /\ t.heap = s.heap /\ t.last = s.last /\ t.lastCost = s.lastCost
      /\ t = [pool |-> q, heap |-> s.heap, last |-> s.last,
              lastCost |-> s.lastCost, full |-> s.full]
  OBVIOUS
<1> HIDE DEF t
<1>2. Reached(t, best, i, offer)
        = [t EXCEPT
             !.pool = SetNode(q, best, i, offer),
             !.heap = IF "OPEN" \in q.nodes[i].flags
                      THEN Modify(SetNode(q, best, i, offer), s.heap, i)
                      ELSE Push(SetNode(q, best, i, offer), s.heap, i),
             !.last = IF offer.toGo < s.lastCost THEN i ELSE s.last,
             !.lastCost = IF offer.toGo < s.lastCost THEN offer.toGo ELSE s.lastCost]
  BY <1>1 DEF Reached
<1> QED BY <1>1, <1>2 DEF t

Node(p, i, offer) ==
    [p.nodes[i] EXCEPT !.pos = offer.pos, !.pidx = Best, !.cost = offer.cost,
                       !.total = offer.cost + offer.toGo, !.flags = {"OPEN"}]

(* What `SetNode` makes of a node.                                         *)
LEMMA SetNodeIs ==
    ASSUME NEW p, NEW i, NEW offer
    PROVE  SetNode(p, Best, i, offer) = Changed(p, i, Node(p, i, offer))
BY DEF SetNode, Changed, Node

(* Node i of q, the pool after a link asked for its node, is for link l.   *)
Asked(j, p, l, q, i) ==
    /\ i \in Numbers(q) /\ PoolBut(mesh, q, i) /\ q.max = p.max
    /\ KeyOf(q, i) = ToKey(j, l) /\ ToKey(j, l)[2] \in 0..3
    /\ Numbers(q) = Numbers(p) \cup {i} /\ Len(p.nodes) <= Len(q.nodes)
    /\ \A n \in Numbers(p) : q.nodes[n] = p.nodes[n]

OfferFor(j, l, offer) ==
    LET c == Search!Candidate(BestKey, ToKey(j, l))
    IN  /\ c.pos \in Points(mesh) /\ c.cost \in Nat /\ c.total \in Nat
        /\ c = [pos |-> c.pos, cost |-> c.cost, total |-> c.total, parent |-> BestKey]
        /\ offer.pos = c.pos /\ offer.cost = c.cost
        /\ offer.toGo \in Nat /\ offer.cost + offer.toGo = c.total
        /\ offer.toGo = IF l.to = j.end THEN 0 ELSE Heuristic(c.pos, mesh.spot[j.end])

(* How far an expansion has come, from what it says node by node.          *)
LEMMA ProgressIs ==
    ASSUME NEW j, NEW r, Expanding(j, r), NEW s, NEW k, Progress(j, r, s, k)
    PROVE  /\ PoolInv(mesh, s.pool) /\ Len(s.pool.nodes) \in Nat
           /\ Best \in Numbers(s.pool) /\ Best # 0
           /\ s.pool.nodes[Best] = ClosedBest
           /\ s.pool.nodes[Best].id = BestId /\ KeyOf(s.pool, Best) = BestKey
           /\ \A i \in Numbers(s.pool) :
                 /\ s.pool.nodes[i].pidx = 0 \/ s.pool.nodes[i].pidx \in Numbers(s.pool)
                 /\ s.pool.nodes[i].flags # {}
<1>1. PoolInv(mesh, s.pool) /\ Best \in Numbers(pool) /\ pool.nodes[Best].id = BestId
  BY BestIs DEF Progress
<1>2. Len(s.pool.nodes) \in Nat BY <1>1, NodeIs
<1>3. Best \in Numbers(s.pool) /\ Best # 0 BY <1>1 DEF Progress, Numbers
<1>4. s.pool.nodes[Best] = ClosedBest
  <2>1. Kept(j, s.pool, k, Best) \/ Bettered(j, s.pool, k, Best) BY <1>3 DEF Progress
  <2>2. Popped.nodes[Best] = ClosedBest BY PoppedIs
  <2> QED BY <2>1, <2>2 DEF Kept, Bettered
<1>5. KeyOf(s.pool, Best) = BestKey BY <1>1 DEF Progress, BestKey
<1>6. s.pool.nodes[Best].id = BestId BY <1>1, <1>5 DEF KeyOf, BestKey
<1>7. \A i \in Numbers(s.pool) :
         /\ s.pool.nodes[i].pidx = 0 \/ s.pool.nodes[i].pidx \in Numbers(s.pool)
         /\ s.pool.nodes[i].flags # {}
  <2> TAKE i \in Numbers(s.pool)
  <2>1. /\ s.pool.nodes[i].pidx \in 0..Len(s.pool.nodes)
        /\ s.pool.nodes[i].flags \in {{"OPEN"}, {"CLOSED"}}
    BY <1>1, NodeIs
  <2>2. {"OPEN"} # {} /\ {"CLOSED"} # {} OBVIOUS
  <2>3. s.pool.nodes[i].pidx = 0 \/ s.pool.nodes[i].pidx \in Numbers(s.pool)
    BY <1>2, <2>1 DEF Numbers
  <2>4. s.pool.nodes[i].flags # {} BY <2>1, <2>2
  <2> QED BY <2>3, <2>4
<1> QED BY <1>1, <1>2, <1>3, <1>4, <1>5, <1>6, <1>7

(* An expansion goes on when a node is added or bettered.                  *)
LEMMA ReachedOK ==
    ASSUME NEW j, NEW r, Expanding(j, r), NEW s, NEW k \in Nat, Progress(j, r, s, k),
           NEW l \in Range(Links), l = Links[k + 1], NEW q, NEW i, Asked(j, s.pool, l, q, i),
           NEW offer, OfferFor(j, l, offer), i # Best,
           ToKey(j, l) \in StepsBy(j, k + 1), Search!Improves(BestKey, ToKey(j, l)),
           \/ i \notin Numbers(s.pool) /\ q.nodes[i].flags = {}
           \/ /\ i \in Numbers(s.pool)
              /\ q.nodes[i].pos = offer.pos /\ offer.cost + offer.toGo <= q.nodes[i].total
    PROVE  Progress(j, r, Reached([s EXCEPT !.pool = q], Best, i, offer), k + 1)
<1> DEFINE p == s.pool
           key == ToKey(j, l)
           c == Search!Candidate(BestKey, key)
           node == Node(q, i, offer)
           set == SetNode(q, Best, i, offer)
           nearer == offer.toGo < s.lastCost
           heap1 == IF "OPEN" \in q.nodes[i].flags THEN Modify(set, s.heap, i)
                    ELSE Push(set, s.heap, i)
           last1 == IF nearer THEN i ELSE s.last
           lastCost1 == IF nearer THEN offer.toGo ELSE s.lastCost
           t == Reached([s EXCEPT !.pool = q], Best, i, offer)
<1>1. /\ PoolInv(mesh, p) /\ Len(p.nodes) \in Nat
      /\ Best \in Numbers(p) /\ Best # 0
      /\ p.nodes[Best].id = BestId /\ KeyOf(p, Best) = BestKey
      /\ \A n \in Numbers(p) :
            /\ p.nodes[n].pidx = 0 \/ p.nodes[n].pidx \in Numbers(p)
  BY ProgressIs
<1>2. /\ t = [pool |-> t.pool, heap |-> t.heap, last |-> t.last,
              lastCost |-> t.lastCost, full |-> t.full]
      /\ t.pool = set /\ t.heap = heap1 /\ t.last = last1 /\ t.lastCost = lastCost1
      /\ t.full = s.full
  <2>1. t = [pool |-> set, heap |-> heap1, last |-> last1, lastCost |-> lastCost1,
             full |-> s.full]
    BY ReachedIs DEF Progress
  <2> HIDE DEF t, set, heap1, last1, lastCost1
  <2> QED BY <2>1
<1>3. /\ c.pos \in Points(mesh) /\ c.cost \in Nat /\ c.total \in Nat
      /\ c = [pos |-> c.pos, cost |-> c.cost, total |-> c.total, parent |-> BestKey]
      /\ offer.pos = c.pos /\ offer.cost = c.cost
      /\ offer.toGo \in Nat /\ offer.cost + offer.toGo = c.total
      /\ offer.toGo = IF l.to = j.end THEN 0 ELSE Heuristic(c.pos, mesh.spot[j.end])
  BY DEF OfferFor
<1>4. /\ i \in Numbers(q) /\ PoolBut(mesh, q, i) /\ q.max = p.max
      /\ KeyOf(q, i) = key /\ key[2] \in 0..3
      /\ Numbers(q) = Numbers(p) \cup {i} /\ Len(p.nodes) <= Len(q.nodes)
      /\ \A n \in Numbers(p) : q.nodes[n] = p.nodes[n]
  BY DEF Asked
<1>5. /\ q.nodes[i] \in NodeSet(Polys(mesh), Places(mesh))
      /\ q.nodes[i].id = l.to /\ q.nodes[i].state = key[2]
      /\ Len(q.nodes) \in Nat
  <2>1. PoolTyped(q, Polys(mesh), Places(mesh)) BY <1>4 DEF PoolBut, PoolOK
  <2> QED BY <1>4, <2>1, NodesTyped DEF Numbers, KeyOf, ToKey
<1> HIDE DEF c
<1>6. /\ node \in NodeSet(Polys(mesh), Places(mesh))
      /\ node.id = q.nodes[i].id /\ node.state = q.nodes[i].state
      /\ node.pos = c.pos /\ node.pidx = Best /\ node.cost = c.cost
      /\ node.total = c.total /\ node.flags = {"OPEN"}
      /\ Best \in 0..Len(q.nodes)
  <2>1. c.pos \in Places(mesh) /\ Best \in Nat /\ Best \in 0..Len(q.nodes)
    BY <1>1, <1>3, <1>4, <1>5 DEF Places, Numbers
  <2>2. node \in NodeSet(Polys(mesh), Places(mesh))
    BY <1>3, <1>5, <2>1 DEF Node, NodeSet
  <2>3. /\ node.id = q.nodes[i].id /\ node.state = q.nodes[i].state
        /\ node.pos = c.pos /\ node.pidx = Best /\ node.cost = c.cost
        /\ node.total = c.total /\ node.flags = {"OPEN"}
    BY <1>3, <1>5 DEF Node, NodeSet
  <2> QED BY <2>1, <2>2, <2>3
<1> HIDE DEF node
<1>7. ChangeIs(mesh, q, i, node, set)
  <2>1. set = Changed(q, i, node) BY SetNodeIs DEF node
  <2> HIDE DEF set
  <2> QED BY <1>4, <1>5, <1>6, <2>1, ChangedOK
<1> HIDE DEF set, t
<1>8. /\ PoolInv(mesh, set) /\ set.max = p.max
      /\ Numbers(set) = Numbers(p) \cup {i}
      /\ set.nodes[i] = node
      /\ \A n \in Numbers(p) : n # i => set.nodes[n] = p.nodes[n]
      /\ KeyOf(set, i) = key
      /\ Len(set.nodes) = Len(q.nodes)
  BY <1>4, <1>7 DEF ChangeIs
<1>9. \A n \in Numbers(p) : KeyOf(set, n) = KeyOf(p, n) /\ set.nodes[n].id = p.nodes[n].id
  <2> SUFFICES ASSUME NEW n \in Numbers(p)
               PROVE  KeyOf(set, n) = KeyOf(p, n) /\ set.nodes[n].id = p.nodes[n].id
    OBVIOUS
  <2>1. CASE n = i BY <1>4, <1>6, <1>8, <2>1 DEF KeyOf
  <2>2. CASE n # i BY <1>8, <2>2 DEF KeyOf
  <2> QED BY <2>1, <2>2
<1>10. \A n \in Numbers(p) : n # i => EntryOf(set, n) = EntryOf(p, n)
  <2> SUFFICES ASSUME NEW n \in Numbers(p), n # i PROVE EntryOf(set, n) = EntryOf(p, n)
    OBVIOUS
  <2>1. set.nodes[n] = p.nodes[n] BY <1>8
  <2>2. p.nodes[n].pidx # 0 => KeyOf(set, p.nodes[n].pidx) = KeyOf(p, p.nodes[n].pidx)
    BY <1>1, <1>9
  <2> QED BY <2>1, <2>2 DEF EntryOf
<1>11. \A n \in Numbers(set) : n # i => Kept(j, set, k + 1, n) \/ Bettered(j, set, k + 1, n)
  <2> SUFFICES ASSUME NEW n \in Numbers(p), n # i
               PROVE  Kept(j, set, k + 1, n) \/ Bettered(j, set, k + 1, n)
    BY <1>8
  <2>1. Kept(j, p, k, n) \/ Bettered(j, p, k, n) BY DEF Progress
  <2>2. KeyOf(set, n) # key BY <1>8, KeysApart
  <2>3. KeyOf(p, n) \in StepsBy(j, k + 1) => KeyOf(p, n) \in StepsBy(j, k)
    BY <1>9, <2>2, StepsGrow
  <2>4. set.nodes[n] = p.nodes[n] /\ EntryOf(set, n) = EntryOf(p, n) BY <1>8, <1>10
  <2> QED BY <2>1, <2>3, <2>4, KeptOn
<1>12. Bettered(j, set, k + 1, i)
  <2>1. KeyOf(set, Best) = BestKey BY <1>1, <1>9
  <2>2. EntryOf(set, i) = [pos |-> c.pos, cost |-> c.cost, total |-> c.total,
                           parent |-> BestKey]
    BY <1>1, <1>6, <1>8, <2>1 DEF EntryOf
  <2>3. EntryOf(set, i) = Search!Candidate(BestKey, KeyOf(set, i))
    BY <1>3, <1>8, <2>2 DEF c
  <2> QED BY <1>6, <1>8, <2>3 DEF Bettered
<1>13. \A kk \in StepsBy(j, k + 1) :
          \/ \E n \in Numbers(set) : KeyOf(set, n) = kk
          \/ Len(set.nodes) = set.max /\ s.full
  <2> SUFFICES ASSUME NEW kk \in StepsBy(j, k + 1)
               PROVE  \/ \E n \in Numbers(set) : KeyOf(set, n) = kk
                      \/ Len(set.nodes) = set.max /\ s.full
    OBVIOUS
  <2>1. CASE kk = key BY <1>8, <2>1
  <2>2. CASE kk # key
    <3>1. kk \in StepsBy(j, k) BY <2>2, StepsGrow
    <3>2. CASE \E n \in Numbers(p) : KeyOf(p, n) = kk BY <1>8, <1>9, <3>2
    <3>3. CASE Len(p.nodes) = p.max /\ s.full
      <4>1. Len(set.nodes) <= set.max /\ set.max \in Nat
        BY <1>8, NodeIs, PoolSizesAssumption
      <4> QED BY <1>1, <1>4, <1>5, <1>8, <3>3, <4>1
    <3> QED BY <3>1, <3>2, <3>3 DEF Progress
  <2> QED BY <2>1, <2>2
<1>14. Opens(set) = Opens(p) \cup {i}
  <2>1. i \in Opens(set) BY <1>6, <1>8 DEF Opens
  <2>2. \A n \in Numbers(p) : n # i => (n \in Opens(set) <=> n \in Opens(p))
    BY <1>8 DEF Opens
  <2>3. Opens(set) \subseteq Numbers(p) \cup {i} /\ Opens(p) \subseteq Numbers(p)
    BY <1>8 DEF Opens
  <2> QED BY <2>1, <2>2, <2>3
<1>15. OpenList(set, heap1, Opens(set))
  <2>1. OpenList(p, s.heap, Opens(p)) BY DEF Progress
  <2>2. \A n \in Opens(p) \ {i} : TotalOf(set, n) = TotalOf(p, n)
    BY <1>8 DEF Opens, TotalOf
  <2>3. TotalOf(set, i) = c.total /\ c.total \in Nat BY <1>3, <1>6, <1>8 DEF TotalOf
  <2>4. CASE "OPEN" \in q.nodes[i].flags
    <3>1. i \in Numbers(p) /\ c.total <= q.nodes[i].total BY <1>3, <2>4
    <3>2. i \in Opens(p) /\ TotalOf(set, i) <= TotalOf(p, i)
      BY <1>4, <2>3, <2>4, <3>1 DEF Opens, TotalOf
    <3>3. OpenList(set, Modify(set, s.heap, i), Opens(p))
      BY <2>1, <2>2, <2>3, <3>2, ModifyOK
    <3>4. Opens(set) = Opens(p) BY <1>14, <3>2
    <3> QED BY <2>4, <3>3, <3>4
  <2>5. CASE "OPEN" \notin q.nodes[i].flags
    <3>1. i \notin Opens(p) BY <1>4, <2>5 DEF Opens
    <3>2. OpenList(set, s.heap, Opens(p)) BY <2>1, <2>2, <3>1, OpenListSame
    <3>3. OpenList(set, Push(set, s.heap, i), Opens(p) \cup {i})
      BY <2>3, <3>1, <3>2, PushOK
    <3> QED BY <1>14, <2>5, <3>3
  <2> QED BY <2>4, <2>5
<1>16. Left(mesh, j, set.nodes[i]) = offer.toGo
  BY <1>3, <1>5, <1>6, <1>8 DEF Left
<1>17. \A n \in Numbers(p) : Left(mesh, j, set.nodes[n]) = Left(mesh, j, p.nodes[n])
  <2> SUFFICES ASSUME NEW n \in Numbers(p)
               PROVE  Left(mesh, j, set.nodes[n]) = Left(mesh, j, p.nodes[n])
    OBVIOUS
  <2>1. CASE n = i
    <3>1. p.nodes[i].pos = offer.pos BY <1>4, <2>1
    <3> QED BY <1>3, <1>4, <1>6, <1>8, <2>1, <3>1 DEF Left
  <2>2. CASE n # i BY <1>8, <2>2
  <2> QED BY <2>1, <2>2
<1>18. NearestKept(j, set, last1, lastCost1)
  <2>1. /\ s.last \in Numbers(p) /\ s.lastCost = Left(mesh, j, p.nodes[s.last])
        /\ \A n \in Numbers(p) : s.lastCost <= Left(mesh, j, p.nodes[n])
    BY DEF Progress, NearestKept
  <2>2. \A n \in Numbers(p) : Left(mesh, j, p.nodes[n]) \in Nat
    BY LeftNat DEF Progress, NodesSearched, Expanding, SearchOK
  <2>3. CASE nearer
    <3>1. last1 = i /\ lastCost1 = offer.toGo BY <2>3
    <3>2. \A n \in Numbers(p) : offer.toGo <= Left(mesh, j, set.nodes[n])
      BY <1>3, <1>17, <2>1, <2>2, <2>3
    <3> QED BY <1>3, <1>8, <1>16, <3>1, <3>2 DEF NearestKept
  <2>4. CASE ~nearer
    <3>1. last1 = s.last /\ lastCost1 = s.lastCost BY <2>4
    <3>2. s.lastCost <= offer.toGo BY <1>3, <2>1, <2>2, <2>4
    <3> QED BY <1>8, <1>16, <1>17, <2>1, <3>1, <3>2 DEF NearestKept
  <2> QED BY <2>3, <2>4
<1>19. NodesSearched(mesh, j, set)
  <2> SUFFICES ASSUME NEW n \in Numbers(set)
               PROVE  /\ set.nodes[n].pos \in Points(mesh)
                      /\ set.nodes[n].total = set.nodes[n].cost + Left(mesh, j, set.nodes[n])
                      /\ set.nodes[n].pidx # 0 =>
                            \E m \in Range(mesh.links[set.nodes[set.nodes[n].pidx].id]) :
                                m.to = set.nodes[n].id
    BY DEF NodesSearched
  <2>1. CASE n = i
    <3>1. set.nodes[n].pos \in Points(mesh) BY <1>3, <1>6, <1>8, <2>1
    <3>2. set.nodes[n].total = set.nodes[n].cost + Left(mesh, j, set.nodes[n])
      BY <1>3, <1>6, <1>8, <1>16, <2>1
    <3>3. set.nodes[set.nodes[n].pidx].id = BestId
      BY <1>1, <1>6, <1>8, <1>9, <2>1
    <3>4. l.to = set.nodes[n].id BY <1>5, <1>6, <1>8, <2>1
    <3> QED BY <3>1, <3>2, <3>3, <3>4 DEF Links
  <2>2. CASE n # i
    <3>1. n \in Numbers(p) /\ set.nodes[n] = p.nodes[n] BY <1>8, <2>2
    <3>2. /\ p.nodes[n].pos \in Points(mesh)
          /\ p.nodes[n].total = p.nodes[n].cost + Left(mesh, j, p.nodes[n])
          /\ p.nodes[n].pidx # 0 =>
                \E m \in Range(mesh.links[p.nodes[p.nodes[n].pidx].id]) :
                    m.to = p.nodes[n].id
      BY <3>1 DEF Progress, NodesSearched
    <3>3. p.nodes[n].pidx # 0 => set.nodes[p.nodes[n].pidx].id = p.nodes[p.nodes[n].pidx].id
      BY <1>1, <1>9, <3>1
    <3>4. /\ set.nodes[n].pos = p.nodes[n].pos /\ set.nodes[n].cost = p.nodes[n].cost
          /\ set.nodes[n].total = p.nodes[n].total /\ set.nodes[n].pidx = p.nodes[n].pidx
          /\ set.nodes[n].id = p.nodes[n].id
          /\ Left(mesh, j, set.nodes[n]) = Left(mesh, j, p.nodes[n])
      BY <3>1
    <3> HIDE DEF p
    <3> QED BY <3>2, <3>3, <3>4
  <2> QED BY <2>1, <2>2
<1>20. /\ PoolInv(mesh, set) /\ set.max = pool.max
       /\ Numbers(pool) \subseteq Numbers(set)
       /\ \A n \in Numbers(pool) : KeyOf(set, n) = KeyOf(pool, n)
       /\ s.full \in BOOLEAN /\ (r.full => s.full)
  BY <1>8, <1>9 DEF Progress
<1> HIDE DEF heap1, last1, lastCost1
<1> QED BY <1>2, <1>11, <1>12, <1>13, <1>15, <1>18, <1>19, <1>20 DEF Progress, t

(* What getNode gives an expansion: a node it had, or a new one at the     *)
(* end.                                                                    *)
LEMMA GotIs ==
    ASSUME NEW j, NEW r, Expanding(j, r), NEW s, NEW k, Progress(j, r, s, k),
           NEW l \in Range(Links), NEW state, ToKey(j, l) = <<l.to, state>>
    PROVE  LET p == s.pool
               q == GetNode(p, l.to, state)
               i == NodeIdx(p, l.to, state)
           IN  /\ ~CanGetNode(p, l.to, state) =>
                     /\ Len(p.nodes) = p.max
                     /\ \A n \in Numbers(p) : KeyOf(p, n) # ToKey(j, l)
               /\ CanGetNode(p, l.to, state) =>
                     /\ Asked(j, p, l, q, i) /\ q.nodes[i].id = l.to
                     /\ \/ i \in Numbers(p) /\ q = p
                        \/ /\ i \notin Numbers(p) /\ q.nodes[i] = Fresh(l.to, state)
                           /\ \A n \in Numbers(p) : KeyOf(p, n) # ToKey(j, l)
<1> DEFINE p == s.pool
           q == GetNode(p, l.to, state)
           i == NodeIdx(p, l.to, state)
           key == ToKey(j, l)
<1>1. /\ mesh \in Meshes /\ PoolInv(mesh, p) /\ Len(p.nodes) \in Nat
      /\ BestId \in Polys(mesh)
  BY ProgressIs, BestIs DEF Expanding
<1>2. l.to \in Polys(mesh) /\ CrossSide(l) \in 0..3 BY <1>1, LinkIs DEF Links
<1>3. state \in 0..3
  <2>1. state = IF j.sliced THEN 0 ELSE CrossSide(l) BY DEF ToKey
  <2> QED BY <1>2, <2>1
<1>4. /\ HashesTo(Polys(mesh)) /\ <<>> \in Places(mesh)
      /\ PoolOK(p, Polys(mesh), Places(mesh)) /\ p.max \in PoolSizes
      /\ Len(p.nodes) <= p.max /\ p.max \in Nat
  BY <1>1, HashesPolys, NodeIs, PoolSizesAssumption DEF PoolInv
<1>5. \A n \in Numbers(p) : KeyOf(p, n) = key <=> IsNodeOf(p, n, l.to, state)
  BY DEF KeyOf, IsNodeOf
<1>6. ASSUME ~CanGetNode(p, l.to, state)
      PROVE  /\ Len(p.nodes) = p.max
             /\ \A n \in Numbers(p) : KeyOf(p, n) # key
  <2>1. FindNode(p, l.to, state) = 0 /\ ~(Len(p.nodes) < p.max)
    BY <1>6 DEF CanGetNode
  <2>2. \A n \in 1..Len(p.nodes) : ~IsNodeOf(p, n, l.to, state)
    BY <1>2, <1>4, <2>1, FindNodeIs
  <2> QED BY <1>1, <1>4, <1>5, <2>1, <2>2 DEF Numbers
<1>7. ASSUME CanGetNode(p, l.to, state)
      PROVE  /\ Asked(j, p, l, q, i) /\ q.nodes[i].id = l.to
             /\ \/ i \in Numbers(p) /\ q = p
                \/ /\ i \notin Numbers(p) /\ q.nodes[i] = Fresh(l.to, state)
                   /\ \A n \in Numbers(p) : KeyOf(p, n) # key
  <2>1. /\ i \in 1..Len(q.nodes)
        /\ \/ q = p /\ i \in 1..Len(p.nodes) /\ IsNodeOf(p, i, l.to, state)
           \/ /\ i = Len(p.nodes) + 1
              /\ \A n \in 1..Len(p.nodes) : ~IsNodeOf(p, n, l.to, state)
              /\ q.nodes = Append(p.nodes, Fresh(l.to, state))
              /\ Len(p.nodes) < p.max
        /\ q.max = p.max
        /\ PoolOK(q, Polys(mesh), Places(mesh))
    <3>1. state \in Nat BY <1>3
    <3> HIDE DEF p
    <3> QED BY <1>2, <1>4, <1>7, <3>1, GetNodeIs
  <2> HIDE DEF q, i
  <2>2. CASE q = p /\ i \in 1..Len(p.nodes) /\ IsNodeOf(p, i, l.to, state)
    <3>1. PoolBut(mesh, q, i) BY <1>1, <2>2 DEF PoolInv, PoolBut
    <3>2. KeyOf(q, i) = key /\ q.nodes[i].id = l.to BY <2>2 DEF KeyOf, IsNodeOf
    <3>3. Asked(j, p, l, q, i) BY <1>1, <1>3, <2>2, <3>1, <3>2 DEF Asked, Numbers
    <3> QED BY <2>2, <3>2, <3>3 DEF Numbers
  <2>3. CASE /\ i = Len(p.nodes) + 1
             /\ \A n \in 1..Len(p.nodes) : ~IsNodeOf(p, n, l.to, state)
             /\ q.nodes = Append(p.nodes, Fresh(l.to, state))
             /\ Len(p.nodes) < p.max
    <3>1. p.nodes \in Seq(NodeSet(Polys(mesh), Places(mesh))) BY <1>1, NodeIs
    <3>2. /\ Len(q.nodes) = Len(p.nodes) + 1
          /\ q.nodes[i] = Fresh(l.to, state)
          /\ \A n \in Numbers(p) : q.nodes[n] = p.nodes[n]
      <4>1. \A e : /\ Len(Append(p.nodes, e)) = Len(p.nodes) + 1
                   /\ Append(p.nodes, e)[Len(p.nodes) + 1] = e
                   /\ \A n \in 1..Len(p.nodes) : Append(p.nodes, e)[n] = p.nodes[n]
        BY <3>1
      <4> HIDE DEF p
      <4> QED BY <2>3, <4>1 DEF Numbers
    <3>3. Numbers(q) = Numbers(p) \cup {i} /\ i \notin Numbers(p)
      BY <1>1, <2>3, <3>2 DEF Numbers
    <3>4. q.nodes[i].id = l.to /\ q.nodes[i].state = state BY <3>2 DEF Fresh
    <3>5. PoolBut(mesh, q, i)
      <4>1. ASSUME NEW n \in Numbers(q) \ {i}
            PROVE  /\ q.nodes[n].state \in 0..3
                   /\ q.nodes[n].pidx \in 0..Len(q.nodes)
                   /\ q.nodes[n].flags \in {{"OPEN"}, {"CLOSED"}}
        <5>1. n \in Numbers(p) /\ q.nodes[n] = p.nodes[n] BY <3>2, <3>3
        <5>2. /\ p.nodes[n].state \in 0..3 /\ p.nodes[n].pidx \in 0..Len(p.nodes)
              /\ p.nodes[n].flags \in {{"OPEN"}, {"CLOSED"}}
          BY <1>1, <5>1, NodeIs
        <5>3. q.nodes[n].pidx \in 0..Len(q.nodes) BY <1>1, <3>2, <5>1, <5>2
        <5> QED BY <5>1, <5>2, <5>3
      <4> QED BY <1>4, <2>1, <4>1 DEF PoolBut
    <3>6. Asked(j, p, l, q, i)
      <4>1. KeyOf(q, i) = key BY <3>4 DEF KeyOf
      <4>2. Len(p.nodes) <= Len(q.nodes) BY <1>1, <3>2
      <4>3. i \in Numbers(q) /\ key[2] \in 0..3 BY <1>3, <2>1 DEF Numbers
      <4> QED BY <2>1, <3>2, <3>3, <3>5, <4>1, <4>2, <4>3 DEF Asked
    <3>7. \A n \in Numbers(p) : KeyOf(p, n) # key BY <1>5, <2>3 DEF Numbers
    <3> QED BY <3>2, <3>3, <3>4, <3>6, <3>7
  <2> QED BY <2>1, <2>2, <2>3
<1> QED BY <1>6, <1>7 DEF p, q, i

(* A node that was there has its entry's position, or a candidate's.       *)
LEMMA PositionKept ==
    ASSUME NEW j, NEW r, Expanding(j, r), NEW s, NEW k, Progress(j, r, s, k),
           NEW l \in Range(Links), NEW i \in Numbers(s.pool), KeyOf(s.pool, i) = ToKey(j, l)
    PROVE  /\ s.pool.nodes[i].pos = Search!PositionFrom(BestKey, ToKey(j, l))
           /\ Kept(j, s.pool, k, i) =>
                 /\ ToKey(j, l) \in DOMAIN Entries
                 /\ Entries[ToKey(j, l)] = EntryOf(pool, i)
                 /\ i \in Numbers(pool)
                 /\ Entries[ToKey(j, l)].total = s.pool.nodes[i].total
                 /\ s.pool.nodes[i].pidx = pool.nodes[i].pidx
           /\ Bettered(j, s.pool, k, i) =>
                 s.pool.nodes[i].total = Search!Candidate(BestKey, ToKey(j, l)).total
<1> DEFINE p == s.pool
           key == ToKey(j, l)
<1>1. key[1] = l.to BY DEF ToKey
<1>2. ASSUME Kept(j, p, k, i)
      PROVE  /\ p.nodes[i].pos = Search!PositionFrom(BestKey, key)
             /\ key \in DOMAIN Entries /\ i \in Numbers(pool)
             /\ Entries[key] = EntryOf(pool, i)
             /\ Entries[key].total = p.nodes[i].total
             /\ p.nodes[i].pidx = pool.nodes[i].pidx
  <2>1. i \in Numbers(pool) /\ p.nodes[i] = Popped.nodes[i] BY <1>2 DEF Kept
  <2>2. key = KeyOf(pool, i) BY <2>1 DEF Progress
  <2>3. key \in DOMAIN Entries /\ Entries[key] = EntryOf(pool, i)
    BY <2>1, <2>2, EntriesAre DEF Expanding
  <2>4. /\ p.nodes[i].pos = pool.nodes[i].pos /\ p.nodes[i].total = pool.nodes[i].total
        /\ p.nodes[i].pidx = pool.nodes[i].pidx
    BY <2>1, PoppedIs
  <2>5. Entries[key].pos = pool.nodes[i].pos /\ Entries[key].total = pool.nodes[i].total
    BY <2>3 DEF EntryOf
  <2>6. Search!PositionFrom(BestKey, key) = Entries[key].pos
    BY <2>3 DEF Search!PositionFrom
  <2> QED BY <2>1, <2>3, <2>4, <2>5, <2>6
<1>3. ASSUME Bettered(j, p, k, i)
      PROVE  /\ p.nodes[i].pos = Search!PositionFrom(BestKey, key)
             /\ p.nodes[i].total = Search!Candidate(BestKey, key).total
  <2>1. EntryOf(p, i) = Search!Candidate(BestKey, key) BY <1>3 DEF Bettered
  <2>2. EntryOf(p, i).pos = p.nodes[i].pos /\ EntryOf(p, i).total = p.nodes[i].total
    BY DEF EntryOf
  <2>3. Search!Candidate(BestKey, key).pos = Search!PositionFrom(BestKey, key)
    BY <1>1, CandidateIs
  <2> QED BY <2>1, <2>2, <2>3
<1>4. Kept(j, p, k, i) \/ Bettered(j, p, k, i) BY DEF Progress
<1> QED BY <1>2, <1>3, <1>4

Worse(o, node) == node.flags # {} /\ o.cost + o.toGo >= node.total

(* What an expansion makes of one link, case by case.                      *)
LEMMA RelaxIs ==
    ASSUME NEW j, NEW r, Expanding(j, r), NEW s, NEW k, Progress(j, r, s, k),
           NEW l \in Range(Links)
    PROVE  LET state == IF j.sliced THEN 0 ELSE CrossSide(l)
               q == GetNode(s.pool, l.to, state)
               i == NodeIdx(s.pool, l.to, state)
               offer == Offer(j, q.nodes, Best, i)
           IN  Relax(j, Best, s, l)
                 = IF ~Goes(j, l) THEN s
                   ELSE IF ~CanGetNode(s.pool, l.to, state) THEN [s EXCEPT !.full = TRUE]
                   ELSE IF Sibling(j, q.nodes, Best, i) \/ Worse(offer, q.nodes[i]) THEN s
                   ELSE Reached([s EXCEPT !.pool = q], Best, i, offer)
<1>1. /\ Best \in Numbers(pool) /\ PoolInv(mesh, pool)
      /\ pool.nodes[Best].pidx \in 0..Len(pool.nodes) /\ Len(pool.nodes) \in Nat
  BY BestIs, NodeIs DEF Expanding
<1>2. s.pool.nodes[Best].pidx = pool.nodes[Best].pidx
  BY <1>1, ProgressIs, PoppedIs
<1>3. pool.nodes[Best].pidx # 0 =>
         s.pool.nodes[pool.nodes[Best].pidx].id = pool.nodes[pool.nodes[Best].pidx].id
  <2> SUFFICES ASSUME pool.nodes[Best].pidx # 0
               PROVE  s.pool.nodes[pool.nodes[Best].pidx].id
                        = pool.nodes[pool.nodes[Best].pidx].id
    OBVIOUS
  <2>1. pool.nodes[Best].pidx \in Numbers(pool) BY <1>1 DEF Numbers
  <2>2. KeyOf(s.pool, pool.nodes[Best].pidx) = KeyOf(pool, pool.nodes[Best].pidx)
    BY <2>1 DEF Progress
  <2> QED BY <2>2 DEF KeyOf
<1>4. (\/ ~IsLeft(mesh, gone, l)
       \/ s.pool.nodes[Best].pidx # 0 /\ l.to = s.pool.nodes[s.pool.nodes[Best].pidx].id
       \/ ~PassFilter(j.filter, mesh, l.to)) <=> ~Goes(j, l)
  BY <1>2, <1>3 DEF Goes, Back
<1> QED BY <1>4 DEF Relax, Worse

(* An expansion goes on across one link.                                   *)
LEMMA RelaxOK ==
    ASSUME NEW j, NEW r, Expanding(j, r), NEW s, NEW k \in Nat, k < Len(Links),
           Progress(j, r, s, k)
    PROVE  Progress(j, r, Relax(j, Best, s, Links[k + 1]), k + 1)
<1> DEFINE l == Links[k + 1]
           p == s.pool
           key == ToKey(j, l)
           state == IF j.sliced THEN 0 ELSE CrossSide(l)
           q == GetNode(p, l.to, state)
           i == NodeIdx(p, l.to, state)
           offer == Offer(j, q.nodes, Best, i)
           c == Search!Candidate(BestKey, key)
           t == Relax(j, Best, s, l)
<1>1. l \in Range(Links)
  <2>1. k + 1 \in 1..Len(Links) BY LinksAre
  <2> QED BY <2>1, LinksAre
<1>2. key = <<l.to, state>> /\ key[1] = l.to BY DEF ToKey
<1>3. t = IF ~Goes(j, l) THEN s
          ELSE IF ~CanGetNode(p, l.to, state) THEN [s EXCEPT !.full = TRUE]
          ELSE IF Sibling(j, q.nodes, Best, i) \/ Worse(offer, q.nodes[i]) THEN s
          ELSE Reached([s EXCEPT !.pool = q], Best, i, offer)
  BY <1>1, RelaxIs
<1>4. /\ PoolInv(mesh, p) /\ s.full \in BOOLEAN
      /\ \A n \in Numbers(p) : Kept(j, p, k, n) \/ Bettered(j, p, k, n)
      /\ \A kk \in StepsBy(j, k) :
            \/ \E n \in Numbers(p) : KeyOf(p, n) = kk
            \/ Len(p.nodes) = p.max /\ s.full
      /\ Numbers(pool) \subseteq Numbers(p)
      /\ \A n \in Numbers(pool) : KeyOf(p, n) = KeyOf(pool, n)
  BY DEF Progress
<1>5. /\ ~CanGetNode(p, l.to, state) =>
            /\ Len(p.nodes) = p.max
            /\ \A n \in Numbers(p) : KeyOf(p, n) # key
      /\ CanGetNode(p, l.to, state) =>
            /\ Asked(j, p, l, q, i) /\ q.nodes[i].id = l.to
            /\ \/ i \in Numbers(p) /\ q = p
               \/ /\ i \notin Numbers(p) /\ q.nodes[i] = Fresh(l.to, state)
                  /\ \A n \in Numbers(p) : KeyOf(p, n) # key
  BY <1>1, <1>2, GotIs
<1> HIDE DEF l, state, t, offer, c, q, i, key
<1>6. ASSUME StepsBy(j, k + 1) = StepsBy(j, k), t = s PROVE Progress(j, r, t, k + 1)
  <2>1. \A n \in Numbers(p) : Kept(j, p, k + 1, n) \/ Bettered(j, p, k + 1, n)
    BY <1>4, <1>6, KeptOn
  <2> QED BY <1>4, <1>6, <2>1, NoneReached
<1>7. CASE ~Goes(j, l)
  <2>1. StepsBy(j, k + 1) = StepsBy(j, k) BY <1>7, StepsGrow DEF l
  <2> QED BY <1>3, <1>6, <1>7, <2>1 DEF t, l
<1>8. CASE Goes(j, l) /\ ~CanGetNode(p, l.to, state)
  <2>1. t = [s EXCEPT !.full = TRUE] /\ t.full
    <3>1. s = [pool |-> s.pool, heap |-> s.heap, last |-> s.last,
               lastCost |-> s.lastCost, full |-> s.full]
      BY DEF Progress
    <3> QED BY <1>3, <1>8, <3>1
  <2>2. StepsBy(j, k + 1) \subseteq StepsBy(j, k) \cup {key} BY StepsGrow DEF l, key
  <2>3. \A n \in Numbers(p) : KeyOf(p, n) \in StepsBy(j, k + 1) => KeyOf(p, n) \in StepsBy(j, k)
    BY <1>5, <1>8, <2>2
  <2>4. \A n \in Numbers(p) : Kept(j, p, k + 1, n) \/ Bettered(j, p, k + 1, n)
    BY <1>4, <2>3, KeptOn
  <2>5. \A kk \in StepsBy(j, k + 1) :
           \/ \E n \in Numbers(p) : KeyOf(p, n) = kk
           \/ Len(p.nodes) = p.max /\ t.full
    BY <1>4, <1>5, <1>8, <2>1, <2>2
  <2> QED BY <2>1, <2>4, <2>5, NoneReached DEF t, l
<1>9. CASE Goes(j, l) /\ CanGetNode(p, l.to, state)
  <2>1. /\ Asked(j, p, l, q, i) /\ q.nodes[i].id = l.to
        /\ \/ i \in Numbers(p) /\ q = p
           \/ /\ i \notin Numbers(p) /\ q.nodes[i] = Fresh(l.to, state)
              /\ \A n \in Numbers(p) : KeyOf(p, n) # key
    BY <1>5, <1>9
  <2>2. /\ Best \in Numbers(p) /\ p.nodes[Best] = ClosedBest
        /\ \A n \in Numbers(p) : p.nodes[n].flags # {}
        /\ Best \in Numbers(pool) /\ pool.nodes[Best].pidx # Best
    BY ProgressIs, BestIs
  <2>3. q.nodes[Best] = ClosedBest BY <2>1, <2>2 DEF Asked
  <2>4. CASE i \in Numbers(p) /\ q = p
    <3>1. KeyOf(p, i) = key BY <2>1, <2>4 DEF Asked, key
    <3>2. /\ p.nodes[i].pos = Search!PositionFrom(BestKey, key)
          /\ Kept(j, p, k, i) =>
                /\ key \in DOMAIN Entries
                /\ Entries[key] = EntryOf(pool, i)
                /\ i \in Numbers(pool)
                /\ Entries[key].total = p.nodes[i].total
                /\ p.nodes[i].pidx = pool.nodes[i].pidx
          /\ Bettered(j, p, k, i) => p.nodes[i].total = c.total
      BY <1>1, <2>4, <3>1, PositionKept DEF key, c
    <3>3. /\ offer.cost + offer.toGo = c.total /\ c.total \in Nat
          /\ offer.pos = c.pos /\ OfferFor(j, l, offer)
          /\ c.pos = Search!PositionFrom(BestKey, key)
          /\ c.cost >= pool.nodes[Best].cost /\ c.cost \in Nat
      BY <1>1, <1>2, <2>1, <2>2, <2>3, <2>4, <3>2, OfferIs
      DEF OfferFor, offer, c, key
    <3>4. p.nodes[i].total \in Nat BY <1>4, <2>4, NodeIs
    <3>5. Kept(j, p, k, i) \/ Bettered(j, p, k, i) BY <1>4, <2>4
    <3>6. pool.nodes[Best].pidx = p.nodes[Best].pidx
      BY <2>2, PoppedIs
    <3>7. CASE Sibling(j, q.nodes, Best, i)
      <4>1. j.sliced /\ p.nodes[i].pidx # 0 /\ p.nodes[i].pidx = pool.nodes[Best].pidx
        BY <2>4, <3>6, <3>7 DEF Sibling
      <4>2. Kept(j, p, k, i)
        <5>1. p.nodes[i].pidx # Best BY <2>2, <4>1
        <5> QED BY <3>5, <5>1 DEF Bettered
      <4>3. Entries[key].parent = KeyOf(pool, pool.nodes[Best].pidx)
        BY <3>2, <4>1, <4>2 DEF EntryOf
      <4>4. Entries[BestKey].parent = KeyOf(pool, pool.nodes[Best].pidx)
        BY <4>1, BestEntry DEF EntryOf
      <4>5. Entries[key].parent # <<>> BY <4>3 DEF KeyOf
      <4>6. key \in Siblings(j) BY <3>2, <4>1, <4>2, <4>3, <4>4, <4>5 DEF Siblings
      <4>7. StepsBy(j, k + 1) = StepsBy(j, k) BY <4>6, StepsGrow DEF key, l
      <4> QED BY <1>3, <1>6, <1>9, <3>7, <4>7 DEF t, l
    <3>8. CASE ~Sibling(j, q.nodes, Best, i) /\ Worse(offer, q.nodes[i])
      <4>1. t = s BY <1>3, <1>9, <3>8
      <4>2. c.total >= p.nodes[i].total BY <2>4, <3>3, <3>8 DEF Worse
      <4>3. ASSUME NEW n \in Numbers(p)
            PROVE  Kept(j, p, k + 1, n) \/ Bettered(j, p, k + 1, n)
        <5>1. CASE n = i
          <6>1. CASE Kept(j, p, k, i)
            <7>1. ~Search!Improves(BestKey, key)
              <8>1. ~(c.total < Entries[key].total) BY <3>2, <3>3, <3>4, <4>2, <6>1
              <8> QED BY <3>2, <6>1, <8>1 DEF Search!Improves, c
            <7> QED BY <3>1, <5>1, <6>1, <7>1 DEF Kept
          <6>2. CASE Bettered(j, p, k, i)
            <7>1. StepsBy(j, k) \subseteq StepsBy(j, k + 1) BY StepsGrow
            <7> QED BY <5>1, <6>2, <7>1 DEF Bettered
          <6> QED BY <3>5, <6>1, <6>2
        <5>2. CASE n # i
          <6>1. KeyOf(p, n) # key BY <1>4, <2>4, <3>1, <5>2, KeysApart
          <6>2. KeyOf(p, n) \in StepsBy(j, k + 1) => KeyOf(p, n) \in StepsBy(j, k)
            BY <6>1, StepsGrow DEF key, l
          <6> QED BY <1>4, <6>2, KeptOn
        <5> QED BY <5>1, <5>2
      <4>4. \A kk \in StepsBy(j, k + 1) :
               \/ \E n \in Numbers(p) : KeyOf(p, n) = kk
               \/ Len(p.nodes) = p.max /\ t.full
        <5>1. StepsBy(j, k + 1) \subseteq StepsBy(j, k) \cup {key} BY StepsGrow DEF l, key
        <5> QED BY <1>4, <2>4, <3>1, <4>1, <5>1
      <4> QED BY <4>1, <4>3, <4>4, NoneReached DEF t, l
    <3>9. CASE ~Sibling(j, q.nodes, Best, i) /\ ~Worse(offer, q.nodes[i])
      <4>1. t = Reached([s EXCEPT !.pool = q], Best, i, offer)
        BY <1>3, <1>9, <3>9
      <4>2. c.total < p.nodes[i].total
        BY <2>2, <2>4, <3>3, <3>4, <3>9 DEF Worse
      <4>3. Kept(j, p, k, i)
        BY <3>2, <3>3, <3>4, <3>5, <4>2
      <4>4. Search!Improves(BestKey, key)
        BY <3>2, <4>2, <4>3 DEF Search!Improves, c
      <4>5. key \notin Siblings(j)
        <5> SUFFICES ASSUME key \in Siblings(j) PROVE FALSE
          OBVIOUS
        <5>1. /\ j.sliced /\ Entries[key].parent # <<>>
              /\ Entries[key].parent = Entries[BestKey].parent
          BY DEF Siblings
        <5>2. Entries[key].parent = IF pool.nodes[i].pidx = 0 THEN <<>>
                                    ELSE KeyOf(pool, pool.nodes[i].pidx)
          BY <3>2, <4>3 DEF EntryOf
        <5>3. Entries[BestKey].parent = IF pool.nodes[Best].pidx = 0 THEN <<>>
                                        ELSE KeyOf(pool, pool.nodes[Best].pidx)
          BY BestEntry DEF EntryOf
        <5>4. /\ pool.nodes[i].pidx # 0 /\ pool.nodes[Best].pidx # 0
              /\ KeyOf(pool, pool.nodes[i].pidx) = KeyOf(pool, pool.nodes[Best].pidx)
          BY <5>1, <5>2, <5>3
        <5>5. pool.nodes[i].pidx \in Numbers(pool) /\ pool.nodes[Best].pidx \in Numbers(pool)
          <6>1. /\ pool.nodes[i].pidx \in 0..Len(pool.nodes)
                /\ pool.nodes[Best].pidx \in 0..Len(pool.nodes)
                /\ Len(pool.nodes) \in Nat
            BY <2>2, <3>2, <4>3, NodeIs DEF Expanding
          <6>2. \A x, n : n \in Nat /\ x \in 0..n /\ x # 0 => x \in 1..n OBVIOUS
          <6> QED BY <5>4, <6>1, <6>2 DEF Numbers
        <5>6. pool.nodes[i].pidx = pool.nodes[Best].pidx
          BY <5>4, <5>5, KeysApart DEF Expanding
        <5> QED BY <2>4, <3>2, <3>6, <3>9, <4>3, <5>1, <5>4, <5>6 DEF Sibling
      <4>6. key \in StepsBy(j, k + 1) BY <1>9, <4>5, StepsGrow DEF key, l
      <4>7. i # Best
        <5> SUFFICES ASSUME i = Best PROVE FALSE
          OBVIOUS
        <5>1. /\ p.nodes[Best].total = p.nodes[Best].cost + Left(mesh, j, p.nodes[Best])
              /\ p.nodes[Best].pos \in Points(mesh)
          BY <2>2 DEF Progress, NodesSearched
        <5>2. p.nodes[Best].cost = pool.nodes[Best].cost BY <2>2, PoppedIs
        <5>3. p.nodes[Best].id = l.to BY <2>1, <2>4
        <5>4. offer.toGo = Left(mesh, j, p.nodes[Best])
          BY <3>2, <3>3, <5>3 DEF Left, OfferFor, c, key
        <5>5. Left(mesh, j, p.nodes[Best]) \in Nat
          BY <5>1, LeftNat DEF Expanding, SearchOK
        <5>6. pool.nodes[Best].cost \in Nat BY <2>2, NodeIs DEF Expanding
        <5>7. offer.cost = c.cost BY <3>3 DEF OfferFor, c, key
        <5> QED BY <3>3, <4>2, <5>1, <5>2, <5>4, <5>5, <5>6, <5>7
      <4>8. q.nodes[i].pos = offer.pos /\ offer.cost + offer.toGo <= q.nodes[i].total
        BY <2>4, <3>2, <3>3, <3>4, <4>2
      <4>9. Progress(j, r, Reached([s EXCEPT !.pool = q], Best, i, offer), k + 1)
        <5>1. OfferFor(j, l, offer) /\ Asked(j, p, l, q, i) BY <2>1, <3>3
        <5>2. i \in Numbers(p) BY <2>4
        <5> QED BY <1>1, <4>4, <4>6, <4>7, <4>8, <5>1, <5>2, ReachedOK DEF l, key
      <4> QED BY <4>1, <4>9 DEF t, l
    <3> QED BY <3>7, <3>8, <3>9
  <2>5. CASE /\ i \notin Numbers(p) /\ q.nodes[i] = Fresh(l.to, state)
             /\ \A n \in Numbers(p) : KeyOf(p, n) # key
    <3>1. q.nodes[i].flags = {} /\ q.nodes[i].pidx = 0 BY <2>5 DEF Fresh
    <3>2. t = Reached([s EXCEPT !.pool = q], Best, i, offer)
      BY <1>3, <1>9, <3>1 DEF Sibling, Worse
    <3>3. key \notin DOMAIN Entries
      BY <1>4, <2>5, EntriesAre DEF Expanding
    <3>4. Search!Improves(BestKey, key) BY <3>3 DEF Search!Improves
    <3>5. key \notin Siblings(j) BY <3>3 DEF Siblings
    <3>6. key \in StepsBy(j, k + 1) BY <1>9, <3>5, StepsGrow DEF key, l
    <3>7. OfferFor(j, l, offer)
      BY <1>1, <1>2, <2>1, <2>3, <3>1, <3>3, OfferIs DEF OfferFor, offer, c, key
    <3>8. i # Best BY <2>2, <2>5
    <3> QED BY <1>1, <2>1, <2>5, <3>1, <3>2, <3>4, <3>6, <3>7, <3>8, ReachedOK
        DEF t, l, key
  <2> QED BY <2>1, <2>4, <2>5
<1> QED BY <1>7, <1>8, <1>9 DEF t, l

(* All of them, in the order of the list.                                  *)
After_(j, r) ==
    CHOOSE g : g = [k \in 0..Len(Links) |->
        IF k = 0 THEN PopBest(Locals(r))
        ELSE CHOOSE t \in {Relax(j, Best, acc, Links[k]) : acc \in {g[k - 1]}} : TRUE]

(* The expansion is the last of its steps, each made from the one before.  *)
LEMMA AfterIs ==
    ASSUME NEW j, NEW r, Expanding(j, r)
    PROVE  /\ Expand(j, Locals(r)) = After_(j, r)[Len(Links)]
           /\ After_(j, r)[0] = PopBest(Locals(r))
           /\ \A k \in 1..Len(Links) :
                 After_(j, r)[k] = Relax(j, Best, After_(j, r)[k - 1], Links[k])
<1> DEFINE Next_(acc, k) == CHOOSE t \in {Relax(j, Best, a, Links[k]) : a \in {acc}} : TRUE
           Is(f, n) == f = [k \in 0..n |-> IF k = 0 THEN PopBest(Locals(r))
                                           ELSE Next_(f[k - 1], k)]
           T == {n \in Nat : \E f : Is(f, n)}
<1>1. Len(Links) \in Nat BY LinksAre
<1>2. \A acc, k : Next_(acc, k) = Relax(j, Best, acc, Links[k])
  <2> TAKE acc, k
  <2>1. {Relax(j, Best, a, Links[k]) : a \in {acc}} = {Relax(j, Best, acc, Links[k])}
    OBVIOUS
  <2> QED BY <2>1
<1> HIDE DEF Next_
<1>3. 0 \in T
  <2> DEFINE f == [k \in 0..0 |-> PopBest(Locals(r))]
  <2>1. Is(f, 0)
    <3>1. \A k \in 0..0 : k = 0 OBVIOUS
    <3> QED BY <3>1
  <2> QED BY <2>1
<1>4. ASSUME NEW n \in Nat, n \in T PROVE n + 1 \in T
  <2>1. PICK f : Is(f, n) BY <1>4
  <2> DEFINE h == [k \in 0..(n + 1) |-> IF k = n + 1 THEN Next_(f[n], n + 1) ELSE f[k]]
  <2>2. \A k \in 0..n : h[k] = f[k] OBVIOUS
  <2>3. ASSUME NEW k \in 0..(n + 1)
        PROVE  h[k] = IF k = 0 THEN PopBest(Locals(r)) ELSE Next_(h[k - 1], k)
    <3>1. CASE k = n + 1
      <4>1. h[k] = Next_(f[n], n + 1) BY <3>1
      <4>2. k - 1 = n /\ k # 0 /\ h[k - 1] = f[n] BY <3>1, <2>2
      <4> QED BY <3>1, <4>1, <4>2
    <3>2. CASE k # n + 1
      <4>1. k \in 0..n /\ h[k] = f[k] BY <3>2, <2>2
      <4>2. f[k] = IF k = 0 THEN PopBest(Locals(r)) ELSE Next_(f[k - 1], k)
        BY <2>1, <4>1
      <4>3. k # 0 => h[k - 1] = f[k - 1] BY <2>2, <4>1
      <4> QED BY <4>1, <4>2, <4>3
    <3> QED BY <3>1, <3>2
  <2>4. h = [k \in 0..(n + 1) |-> h[k]] OBVIOUS
  <2> HIDE DEF h
  <2>5. Is(h, n + 1) BY <2>3, <2>4
  <2> QED BY <2>5
<1>5. \E f : Is(f, Len(Links))
  <2> HIDE DEF T
  <2>1. Nat \subseteq T BY <1>3, <1>4, NatInd
  <2> QED BY <1>1, <2>1 DEF T
<1>6. Is(After_(j, r), Len(Links))
  <2>1. After_(j, r) = CHOOSE g : Is(g, Len(Links)) BY DEF After_, Next_
  <2> QED BY <1>5, <2>1
<1>7. Expand(j, Locals(r)) = After_(j, r)[Len(Links)]
  <2>1. /\ Top(Locals(r).heap) = Best
        /\ mesh.links[Locals(r).pool.nodes[Best].id] = Links
    BY BestIs DEF Locals, Best, Links
  <2> QED BY <2>1 DEF Expand, After_
<1>8. After_(j, r)[0] = PopBest(Locals(r)) BY <1>1, <1>6
<1>9. ASSUME NEW k \in 1..Len(Links)
      PROVE  After_(j, r)[k] = Relax(j, Best, After_(j, r)[k - 1], Links[k])
  <2>1. After_(j, r)[k] = Next_(After_(j, r)[k - 1], k) BY <1>1, <1>6
  <2> QED BY <1>2, <2>1
<1> QED BY <1>7, <1>8, <1>9

(* An expansion goes all its links.                                        *)
LEMMA ExpandOK ==
    ASSUME NEW j, NEW r, Expanding(j, r)
    PROVE  Progress(j, r, Expand(j, Locals(r)), Len(Links))
<1> DEFINE A == After_(j, r)
           T == {k \in Nat : k <= Len(Links) => Progress(j, r, A[k], k)}
<1>1. Len(Links) \in Nat BY LinksAre
<1>2. 0 \in T BY Starts, AfterIs
<1>3. ASSUME NEW k \in Nat, k \in T PROVE k + 1 \in T
  <2> SUFFICES ASSUME k + 1 <= Len(Links) PROVE Progress(j, r, A[k + 1], k + 1)
    OBVIOUS
  <2>1. k < Len(Links) /\ k + 1 \in 1..Len(Links) /\ (k + 1) - 1 = k BY <1>1
  <2>2. Progress(j, r, A[k], k) BY <1>1, <1>3, <2>1
  <2>3. A[k + 1] = Relax(j, Best, A[k], Links[k + 1]) BY <2>1, AfterIs
  <2> HIDE DEF A
  <2>4. Progress(j, r, Relax(j, Best, A[k], Links[k + 1]), k + 1)
    BY <2>1, <2>2, RelaxOK
  <2> QED BY <2>3, <2>4
<1>4. Nat \subseteq T
  <2> HIDE DEF T
  <2> QED BY <1>2, <1>3, NatInd
<1>5. Progress(j, r, A[Len(Links)], Len(Links)) BY <1>1, <1>4
<1> QED BY <1>5, AfterIs

(* What an expansion makes of the map is what the search asks for.         *)
LEMMA SettledIs ==
    ASSUME NEW j, NEW r, Expanding(j, r)
    PROVE  LET e == Expand(j, Locals(r))
               kept == DOMAIN MapOf(e.pool)
               all == DOMAIN Entries \cup Search!Steps(BestKey)
               better == {m \in Search!Steps(BestKey) \cap kept : Search!Improves(BestKey, m)}
           IN  /\ DOMAIN Entries \subseteq kept /\ kept \subseteq all
               /\ kept # all => Cardinality(kept) = pool.max
               /\ MapOf(e.pool) = [k \in kept |-> IF k \in better
                                                  THEN Search!Candidate(BestKey, k)
                                                  ELSE Entries[k]]
               /\ {KeyOf(e.pool, i) : i \in Opens(e.pool)}
                     = (OpenNodes \ {BestKey}) \cup better
               /\ KeyOf(e.pool, e.last) \in kept
               /\ \A k \in kept : Search!ToGo(KeyOf(e.pool, e.last),
                                              MapOf(e.pool)[KeyOf(e.pool, e.last)])
                                    <= Search!ToGo(k, MapOf(e.pool)[k])
<1> DEFINE e == Expand(j, Locals(r))
           q == e.pool
           kept == DOMAIN MapOf(q)
           steps == Search!Steps(BestKey)
           all == DOMAIN Entries \cup steps
           better == {m \in steps \cap kept : Search!Improves(BestKey, m)}
<1>1. Progress(j, r, e, Len(Links)) BY ExpandOK
<1>2. steps = StepsBy(j, Len(Links)) BY StepsAre
<1> HIDE DEF e, steps
<1>3. /\ PoolInv(mesh, q) /\ q.max = pool.max
      /\ Numbers(pool) \subseteq Numbers(q)
      /\ \A i \in Numbers(pool) : KeyOf(q, i) = KeyOf(pool, i)
      /\ \A i \in Numbers(q) : Kept(j, q, Len(Links), i) \/ Bettered(j, q, Len(Links), i)
      /\ \A k \in steps : \/ \E i \in Numbers(q) : KeyOf(q, i) = k
                          \/ Len(q.nodes) = q.max /\ e.full
      /\ NearestKept(j, q, e.last, e.lastCost)
  BY <1>1, <1>2 DEF Progress
<1>4. /\ mesh \in Meshes /\ PoolInv(mesh, pool) /\ Job = j /\ Searching
      /\ DOMAIN Entries = {KeyOf(pool, i) : i \in Numbers(pool)}
      /\ \A i \in Numbers(pool) : Entries[KeyOf(pool, i)] = EntryOf(pool, i)
  BY EntriesAre DEF Expanding
<1>5. /\ kept = {KeyOf(q, i) : i \in Numbers(q)}
      /\ \A i \in Numbers(q) : MapOf(q)[KeyOf(q, i)] = EntryOf(q, i)
  BY <1>3, <1>4, MapIs
<1>6. DOMAIN Entries \subseteq kept
  <2> SUFFICES ASSUME NEW i \in Numbers(pool) PROVE KeyOf(pool, i) \in kept
    BY <1>4
  <2> QED BY <1>3, <1>5
<1>7. \A i \in Numbers(q) :
         /\ Kept(j, q, Len(Links), i) =>
               /\ i \in Numbers(pool) /\ KeyOf(q, i) \notin better
               /\ KeyOf(q, i) \in DOMAIN Entries
               /\ EntryOf(q, i) = Entries[KeyOf(q, i)]
         /\ Bettered(j, q, Len(Links), i) =>
               /\ KeyOf(q, i) \in better
               /\ EntryOf(q, i) = Search!Candidate(BestKey, KeyOf(q, i))
  <2> SUFFICES ASSUME NEW i \in Numbers(q)
               PROVE  /\ Kept(j, q, Len(Links), i) =>
                            /\ i \in Numbers(pool) /\ KeyOf(q, i) \notin better
                            /\ KeyOf(q, i) \in DOMAIN Entries
                            /\ EntryOf(q, i) = Entries[KeyOf(q, i)]
                      /\ Bettered(j, q, Len(Links), i) =>
                            /\ KeyOf(q, i) \in better
                            /\ EntryOf(q, i) = Search!Candidate(BestKey, KeyOf(q, i))
    OBVIOUS
  <2>1. ASSUME Kept(j, q, Len(Links), i)
        PROVE  /\ i \in Numbers(pool) /\ KeyOf(q, i) \notin better
               /\ KeyOf(q, i) \in DOMAIN Entries
               /\ EntryOf(q, i) = Entries[KeyOf(q, i)]
    <3>1. /\ i \in Numbers(pool) /\ q.nodes[i] = Popped.nodes[i]
          /\ KeyOf(q, i) \notin better
      BY <1>2, <2>1 DEF Kept
    <3>2. KeyOf(q, i) = KeyOf(pool, i) /\ KeyOf(q, i) \in DOMAIN Entries
      BY <1>3, <1>4, <3>1
    <3>3. /\ q.nodes[i].pos = pool.nodes[i].pos /\ q.nodes[i].cost = pool.nodes[i].cost
          /\ q.nodes[i].total = pool.nodes[i].total /\ q.nodes[i].pidx = pool.nodes[i].pidx
      BY <3>1, PoppedIs
    <3>4. pool.nodes[i].pidx # 0 =>
             KeyOf(q, pool.nodes[i].pidx) = KeyOf(pool, pool.nodes[i].pidx)
      <4>1. pool.nodes[i].pidx \in 0..Len(pool.nodes) /\ Len(pool.nodes) \in Nat
        BY <1>4, <3>1, NodeIs
      <4>2. pool.nodes[i].pidx # 0 => pool.nodes[i].pidx \in Numbers(pool)
        BY <4>1 DEF Numbers
      <4> QED BY <1>3, <4>2
    <3>5. EntryOf(q, i) = EntryOf(pool, i) BY <3>3, <3>4 DEF EntryOf
    <3> QED BY <1>4, <3>1, <3>2, <3>5
  <2>2. ASSUME Bettered(j, q, Len(Links), i)
        PROVE  /\ KeyOf(q, i) \in better
               /\ EntryOf(q, i) = Search!Candidate(BestKey, KeyOf(q, i))
    BY <1>2, <1>5, <2>2 DEF Bettered
  <2> QED BY <2>1, <2>2
<1>8. kept \subseteq all
  <2> SUFFICES ASSUME NEW i \in Numbers(q) PROVE KeyOf(q, i) \in all
    BY <1>5
  <2> QED BY <1>3, <1>7
<1>9. kept # all => Cardinality(kept) = pool.max
  <2> SUFFICES ASSUME kept # all PROVE Cardinality(kept) = pool.max
    OBVIOUS
  <2>1. PICK k \in steps : k \notin kept BY <1>6, <1>8
  <2>2. Len(q.nodes) = q.max BY <1>3, <1>5, <2>1
  <2>3. Cardinality({KeyOf(q, i) : i \in Numbers(q)}) = Len(q.nodes) BY <1>3, KeysCount
  <2> HIDE DEF kept, q
  <2> QED BY <1>3, <1>5, <2>2, <2>3
<1>10. MapOf(q) = [k \in kept |-> IF k \in better THEN Search!Candidate(BestKey, k)
                                  ELSE Entries[k]]
  <2>1. ASSUME NEW k \in kept
        PROVE  MapOf(q)[k] = IF k \in better THEN Search!Candidate(BestKey, k)
                             ELSE Entries[k]
    <3>1. PICK i \in Numbers(q) : k = KeyOf(q, i) BY <1>5
    <3>2. MapOf(q)[k] = EntryOf(q, i) BY <1>5, <3>1
    <3> HIDE DEF better, q
    <3> QED BY <1>3, <1>7, <3>1, <3>2
  <2>2. MapOf(q) = [k \in kept |-> MapOf(q)[k]]
    BY DEF MapOf
  <2> HIDE DEF better, kept
  <2> QED BY <2>1, <2>2
<1>11. {KeyOf(q, i) : i \in Opens(q)} = (OpenNodes \ {BestKey}) \cup better
  <2>1. OpenNodes = {KeyOf(pool, i) : i \in Opens(pool)}
    <3>1. Range(heap) = Opens(pool) BY OpenListIs DEF Expanding
    <3> QED BY <1>4, <3>1 DEF OpenNodes, NodeOf, KeyOf
  <2>2. Best \in Numbers(pool) /\ Best \in Opens(pool) BY BestIs
  <2>3. \A i \in Numbers(pool) : KeyOf(pool, i) = BestKey => i = Best
    BY <1>4, <2>2, KeysApart DEF BestKey
  <2>4. \A i \in Numbers(q) : Kept(j, q, Len(Links), i) =>
           (i \in Opens(q) <=> i # Best /\ i \in Opens(pool))
    <3> SUFFICES ASSUME NEW i \in Numbers(q), Kept(j, q, Len(Links), i)
                 PROVE  i \in Opens(q) <=> i # Best /\ i \in Opens(pool)
      OBVIOUS
    <3>1. i \in Numbers(pool) /\ q.nodes[i] = Popped.nodes[i] BY DEF Kept
    <3>2. Opens(Popped) = Opens(pool) \ {Best} /\ Numbers(Popped) = Numbers(pool)
      BY OpensPopped, PoppedIs
    <3>3. i \in Opens(q) <=> i \in Opens(Popped) BY <3>1, <3>2 DEF Opens
    <3> QED BY <3>2, <3>3
  <2>5. \A i \in Numbers(q) : Bettered(j, q, Len(Links), i) =>
           i \in Opens(q) /\ KeyOf(q, i) \in better
    BY <1>7 DEF Bettered, Opens
  <2>6. ASSUME NEW i \in Opens(q)
        PROVE  KeyOf(q, i) \in (OpenNodes \ {BestKey}) \cup better
    <3>1. i \in Numbers(q) BY DEF Opens
    <3>2. CASE Kept(j, q, Len(Links), i)
      <4>1. i # Best /\ i \in Opens(pool) /\ i \in Numbers(pool)
        BY <1>7, <2>4, <3>1, <3>2
      <4>2. KeyOf(q, i) = KeyOf(pool, i) /\ KeyOf(pool, i) # BestKey
        BY <1>3, <2>3, <4>1
      <4> QED BY <2>1, <4>1, <4>2
    <3>3. CASE Bettered(j, q, Len(Links), i) BY <2>5, <3>1, <3>3
    <3> QED BY <1>3, <3>1, <3>2, <3>3
  <2>7. ASSUME NEW k \in OpenNodes, k # BestKey
        PROVE  \E i \in Opens(q) : k = KeyOf(q, i)
    <3>1. PICK i \in Opens(pool) : k = KeyOf(pool, i) BY <2>1
    <3>2. i \in Numbers(pool) /\ i \in Numbers(q) /\ k = KeyOf(q, i) /\ i # Best
      BY <1>3, <2>7, <3>1 DEF Opens, BestKey
    <3>3. i \in Opens(q) BY <1>3, <2>4, <2>5, <3>1, <3>2
    <3> QED BY <3>2, <3>3
  <2>8. ASSUME NEW k \in better PROVE \E i \in Opens(q) : k = KeyOf(q, i)
    <3>1. PICK i \in Numbers(q) : k = KeyOf(q, i) BY <1>5
    <3>2. Bettered(j, q, Len(Links), i) BY <1>3, <1>7, <3>1
    <3> QED BY <2>5, <3>1, <3>2
  <2> HIDE DEF better, q
  <2> QED BY <2>6, <2>7, <2>8
<1>12. \A i \in Numbers(q) :
          Search!ToGo(KeyOf(q, i), MapOf(q)[KeyOf(q, i)]) = Left(mesh, j, q.nodes[i])
  <2> TAKE i \in Numbers(q)
  <2>0. MapOf(q)[KeyOf(q, i)] = EntryOf(q, i) BY <1>5
  <2>1. MapOf(q)[KeyOf(q, i)].pos = q.nodes[i].pos BY <2>0 DEF EntryOf
  <2>2. KeyOf(q, i)[1] = q.nodes[i].id BY DEF KeyOf
  <2> QED BY <1>4, <2>1, <2>2
      DEF Search!ToGo, Search!Goal, Search!Heuristic, Search!HScale, Heuristic, HScale, Left
<1>13. KeyOf(q, e.last) \in kept BY <1>3, <1>5 DEF NearestKept
<1>14. \A k \in kept : Search!ToGo(KeyOf(q, e.last), MapOf(q)[KeyOf(q, e.last)])
                         <= Search!ToGo(k, MapOf(q)[k])
  <2> SUFFICES ASSUME NEW i \in Numbers(q)
               PROVE  Search!ToGo(KeyOf(q, e.last), MapOf(q)[KeyOf(q, e.last)])
                         <= Search!ToGo(KeyOf(q, i), MapOf(q)[KeyOf(q, i)])
    BY <1>5
  <2>1. e.last \in Numbers(q) /\ e.lastCost = Left(mesh, j, q.nodes[e.last])
        /\ e.lastCost <= Left(mesh, j, q.nodes[i])
    BY <1>3 DEF NearestKept
  <2> QED BY <1>12, <2>1
<1> QED BY <1>6, <1>8, <1>9, <1>10, <1>11, <1>13, <1>14 DEF e, steps

(* The best node's entry is a least one of the search.                     *)
LEMMA LeastBest ==
    ASSUME NEW j, NEW r, Expanding(j, r)
    PROVE  /\ Search!Least(BestKey) /\ BestKey \in OpenNodes /\ BestKey[1] = BestId
           /\ OpenNodes = {KeyOf(pool, i) : i \in Opens(pool)}
<1>1. Range(heap) = Opens(pool) BY OpenListIs DEF Expanding
<1>2. OpenNodes = {KeyOf(pool, i) : i \in Opens(pool)}
  BY <1>1 DEF OpenNodes, NodeOf, KeyOf, Expanding
<1>3. BestKey \in OpenNodes /\ Entries[BestKey] = EntryOf(pool, Best) /\ BestKey[1] = BestId
  BY BestEntry
<1>4. ASSUME NEW k \in OpenNodes PROVE Entries[BestKey].total <= Entries[k].total
  <2>1. PICK i \in Opens(pool) : k = KeyOf(pool, i) BY <1>2
  <2>2. i \in Numbers(pool) BY <2>1 DEF Opens
  <2>3. pool.nodes[Best].total <= pool.nodes[i].total BY <2>1, BestIs
  <2>4. Entries[k] = EntryOf(pool, i) BY <2>1, <2>2, EntriesAre DEF Expanding
  <2>5. Entries[k].total = pool.nodes[i].total BY <2>4 DEF EntryOf
  <2>6. Entries[BestKey].total = pool.nodes[Best].total BY <1>3 DEF EntryOf
  <2> QED BY <2>3, <2>5, <2>6
<1> QED BY <1>2, <1>3, <1>4 DEF Search!Least

(* What is searched is no empty job.                                       *)
LEMMA JobIs ==
    ASSUME NEW m, NEW j \in Jobs(m)
    PROVE  j # Search!NoJob /\ DOMAIN j = {"start", "end", "filter", "sliced"}
<1>1. DOMAIN j = {"start", "end", "filter", "sliced"} BY DEF Jobs
<1>2. DOMAIN Search!NoJob = {"start"} BY DEF Search!NoJob
<1> QED BY <1>1, <1>2

(* An expansion is the step of the search that settles the best entry.     *)
LEMMA Settles ==
    ASSUME NEW j, NEW r, Expanding(j, r), BestId # j.end,
           pool' = Expand(j, Locals(r)).pool, heap' = Expand(j, Locals(r)).heap,
           Searching', Job' = j, LastNode' = Expand(j, Locals(r)).last,
           ~EndFound, EndFound' = FALSE, mesh' = mesh, gone' = gone
    PROVE  Search!Settle(BestKey)
<1> DEFINE e == Expand(j, Locals(r))
           kept == DOMAIN MapOf(e.pool)
           all == DOMAIN Entries \cup Search!Steps(BestKey)
           better == {m \in Search!Steps(BestKey) \cap kept : Search!Improves(BestKey, m)}
<1>1. /\ DOMAIN Entries \subseteq kept /\ kept \subseteq all
      /\ kept # all => Cardinality(kept) = pool.max
      /\ MapOf(e.pool) = [k \in kept |-> IF k \in better THEN Search!Candidate(BestKey, k)
                                         ELSE Entries[k]]
      /\ {KeyOf(e.pool, i) : i \in Opens(e.pool)} = (OpenNodes \ {BestKey}) \cup better
      /\ KeyOf(e.pool, e.last) \in kept
      /\ \A k \in kept : Search!ToGo(KeyOf(e.pool, e.last),
                                     MapOf(e.pool)[KeyOf(e.pool, e.last)])
                           <= Search!ToGo(k, MapOf(e.pool)[k])
  BY SettledIs
<1>2. PoolInv(mesh, e.pool) /\ e.pool.max = pool.max /\ OpenList(e.pool, e.heap, Opens(e.pool))
  BY ExpandOK DEF Progress
<1> HIDE DEF e
<1>3. Entries' = MapOf(e.pool)
  BY DEF Entries, MapOf, NodeOf, Nodes, KeyOf, EntryOf, Numbers, e
<1>4. OpenNodes' = {KeyOf(e.pool, i) : i \in Opens(e.pool)}
  <2>1. Range(e.heap) = Opens(e.pool) BY <1>2, OpenListIs
  <2>2. OpenNodes' = {KeyOf(e.pool, i) : i \in Range(e.heap)}
    BY DEF OpenNodes, NodeOf, KeyOf, e
  <2> QED BY <2>1, <2>2
<1>5. NearNode' = KeyOf(e.pool, e.last) BY DEF NearNode, NodeOf, KeyOf, e
<1>6. pool'.max = pool.max BY <1>2 DEF e
<1>7. Job = j /\ Job' = Job /\ Job # Search!NoJob
  BY JobIs DEF Expanding, SearchOK
<1>8. Search!Least(BestKey) BY LeastBest
<1>9. BestKey[1] # Job.end BY <1>7, BestEntry
<1>10. Search!Nearest(NearNode', Entries') BY <1>1, <1>3, <1>5 DEF Search!Nearest
<1>11. LET k2 == DOMAIN Entries'
           b2 == {m \in Search!Steps(BestKey) \cap k2 : Search!Improves(BestKey, m)}
       IN  /\ DOMAIN Entries \subseteq k2 /\ k2 \subseteq all
           /\ k2 # all => Search!Cardinality(k2) = pool.max
           /\ Entries' = [k \in k2 |-> IF k \in b2 THEN Search!Candidate(BestKey, k)
                                       ELSE Entries[k]]
           /\ OpenNodes' = (OpenNodes \ {BestKey}) \cup b2
  <2>1. DOMAIN Entries' = kept BY <1>3
  <2>2. Search!Cardinality(kept) = Cardinality(kept) BY DEF Search!Cardinality, Cardinality
  <2> HIDE DEF kept, all
  <2> QED BY <1>1, <1>3, <1>4, <2>1, <2>2
<1>12. /\ mesh' = mesh /\ gone' = gone /\ pool'.max = pool.max /\ Job' = Job
       /\ EndFound' = EndFound
  <2>1. EndFound \in BOOLEAN BY DEF EndFound
  <2> QED BY <1>6, <1>7, <2>1
<1> HIDE DEF kept, better
<1> QED BY <1>7, <1>8, <1>9, <1>10, <1>11, <1>12 DEF Search!Settle

(* An expansion leaves a search between two steps.                         *)
LEMMA Expanded ==
    ASSUME NEW j, NEW r, Expanding(j, r), BestId # j.end,
           NEW e, e = Expand(j, Locals(r))
    PROVE  /\ PoolInv(mesh, e.pool) /\ OpenList(e.pool, e.heap, Opens(e.pool))
           /\ SearchOK(mesh, gone, j, e.pool, e, FALSE)
<1> DEFINE q == e.pool
<1>1. Progress(j, r, e, Len(Links)) BY ExpandOK
<1>2. /\ PoolInv(mesh, q) /\ OpenList(q, e.heap, Opens(q))
      /\ Numbers(pool) \subseteq Numbers(q)
      /\ \A i \in Numbers(pool) : KeyOf(q, i) = KeyOf(pool, i)
      /\ \A i \in Numbers(q) : Kept(j, q, Len(Links), i) \/ Bettered(j, q, Len(Links), i)
      /\ \A k \in StepsBy(j, Len(Links)) :
            \/ \E i \in Numbers(q) : KeyOf(q, i) = k
            \/ Len(q.nodes) = q.max /\ e.full
      /\ NearestKept(j, q, e.last, e.lastCost) /\ NodesSearched(mesh, j, q)
      /\ e.full \in BOOLEAN /\ (r.full => e.full)
  BY <1>1 DEF Progress
<1>3. /\ PoolInv(mesh, pool) /\ Len(pool.nodes) \in Nat
      /\ SearchOK(mesh, gone, j, pool, r, FALSE)
  BY NodeIs DEF Expanding
<1>4. /\ j \in Jobs(mesh) /\ j.start \in Polys(mesh) /\ j.end \in Polys(mesh)
      /\ j.start # j.end
      /\ Len(pool.nodes) >= 1 /\ pool.nodes[1].id = j.start
      /\ \A i \in Numbers(pool) : pool.nodes[i].id = j.end => pool.nodes[i].flags = {"OPEN"}
      /\ ~r.full => WaysTaken(mesh, gone, j, pool)
  BY <1>3 DEF SearchOK
<1>5. \A i \in Numbers(pool) : q.nodes[i].id = pool.nodes[i].id BY <1>2 DEF KeyOf
<1>6. Len(q.nodes) >= 1 /\ q.nodes[1].id = j.start
  <2>1. 1 \in Numbers(pool) BY <1>3, <1>4 DEF Numbers
  <2>2. 1 \in Numbers(q) /\ Len(q.nodes) \in Nat BY <1>2, <2>1, NodeIs
  <2> QED BY <1>4, <1>5, <2>1, <2>2 DEF Numbers
<1>7. Best \in Numbers(pool) /\ pool.nodes[Best].id = BestId BY BestIs
<1>8. \A i \in Numbers(q) : Kept(j, q, Len(Links), i) =>
         /\ i \in Numbers(pool)
         /\ i # Best => q.nodes[i].flags = pool.nodes[i].flags
  BY PoppedIs DEF Kept
<1>9. ASSUME NEW i \in Numbers(q), q.nodes[i].id = j.end PROVE q.nodes[i].flags = {"OPEN"}
  <2>1. CASE Kept(j, q, Len(Links), i)
    <3>1. i \in Numbers(pool) /\ pool.nodes[i].id = j.end BY <1>5, <1>8, <1>9, <2>1
    <3>2. i # Best BY <1>7, <3>1
    <3> QED BY <1>4, <1>8, <2>1, <3>1, <3>2
  <2>2. CASE Bettered(j, q, Len(Links), i) BY <2>2 DEF Bettered
  <2> QED BY <1>2, <2>1, <2>2
<1>10. ASSUME ~e.full PROVE WaysTaken(mesh, gone, j, q)
  <2>1. ~r.full /\ WaysTaken(mesh, gone, j, pool) BY <1>2, <1>4, <1>10
  <2> SUFFICES ASSUME NEW i \in Numbers(q), q.nodes[i].flags = {"CLOSED"},
                      NEW l \in Range(mesh.links[q.nodes[i].id]),
                      IsLeft(mesh, gone, l), PassFilter(j.filter, mesh, l.to)
               PROVE  \E k \in Numbers(q) : q.nodes[k].id = l.to
    BY DEF WaysTaken
  <2>2. Kept(j, q, Len(Links), i)
    <3>1. {"CLOSED"} # {"OPEN"} OBVIOUS
    <3>2. ~Bettered(j, q, Len(Links), i) BY <3>1 DEF Bettered
    <3> QED BY <1>2, <3>2
  <2>3. i \in Numbers(pool) /\ q.nodes[i].id = pool.nodes[i].id BY <1>5, <1>8, <2>2
  <2>4. CASE i # Best
    <3>1. pool.nodes[i].flags = {"CLOSED"} BY <1>8, <2>2, <2>4
    <3>2. PICK k \in Numbers(pool) : pool.nodes[k].id = l.to
      BY <2>1, <2>3, <3>1 DEF WaysTaken
    <3> QED BY <1>2, <1>5, <3>2
  <2>5. CASE i = Best
    <3>1. l \in Range(Links) BY <1>7, <2>3, <2>5 DEF Links
    <3>2. PICK n \in 1..Len(Links) : l = Links[n] BY <3>1, LinksAre
    <3>3. CASE Back(l)
      <4>1. /\ pool.nodes[Best].pidx \in 0..Len(pool.nodes) /\ pool.nodes[Best].pidx # 0
            /\ l.to = pool.nodes[pool.nodes[Best].pidx].id
        BY <1>3, <1>7, <3>3, NodeIs DEF Back
      <4>2. pool.nodes[Best].pidx \in Numbers(pool) BY <1>3, <4>1 DEF Numbers
      <4> QED BY <1>2, <1>5, <4>1, <4>2
    <3>4. CASE ToKey(j, l) \in Siblings(j)
      <4>1. ToKey(j, l) \in DOMAIN Entries BY <3>4 DEF Siblings
      <4>2. PICK k \in Numbers(pool) : ToKey(j, l) = KeyOf(pool, k)
        BY <4>1, EntriesAre DEF Expanding
      <4>3. pool.nodes[k].id = l.to BY <4>2 DEF ToKey, KeyOf
      <4> QED BY <1>2, <1>5, <4>3
    <3>5. CASE ~Back(l) /\ ToKey(j, l) \notin Siblings(j)
      <4>1. Goes(j, l) BY <3>5 DEF Goes
      <4>2. ToKey(j, l) \in StepsBy(j, Len(Links)) BY <3>2, <3>5, <4>1 DEF StepsBy
      <4>3. PICK k \in Numbers(q) : KeyOf(q, k) = ToKey(j, l) BY <1>2, <1>10, <4>2
      <4>4. q.nodes[k].id = l.to BY <4>3 DEF ToKey, KeyOf
      <4> QED BY <4>4
    <3> QED BY <3>3, <3>4, <3>5
  <2> QED BY <2>4, <2>5
<1>11. SearchOK(mesh, gone, j, q, e, FALSE)
  BY <1>2, <1>4, <1>6, <1>9, <1>10 DEF SearchOK, NearestKept
<1> QED BY <1>2, <1>11

-------------------------------------------------------------------------------
(* The start of a search *)

Root(j) ==
    [id |-> j.start, state |-> 0, pidx |-> 0, pos |-> mesh.spot[j.start], cost |-> 0,
     total |-> Heuristic(mesh.spot[j.start], mesh.spot[j.end]), flags |-> {"OPEN"}]

StartedOK(j, s) ==
    /\ PoolInv(mesh, s.pool) /\ s.pool.max = pool.max
    /\ s.pool.nodes = <<Root(j)>>
    /\ s.last = 1 /\ s.full = FALSE
    /\ OpenList(s.pool, s.heap, Opens(s.pool)) /\ Opens(s.pool) = {1}
    /\ SearchOK(mesh, gone, j, s.pool, s, FALSE)

(* A search starts with the start's node alone.                            *)
LEMMA StartNodeOK ==
    ASSUME mesh \in Meshes, PoolInv(mesh, pool), NEW j \in Jobs(mesh),
           j.start \in Polys(mesh), j.end \in Polys(mesh), j.start # j.end
    PROVE  StartedOK(j, StartNode(j))
<1> DEFINE fresh == ClearPool(pool)
           i == NodeIdx(fresh, j.start, 0)
           g == GetNode(fresh, j.start, 0)
           toGo == Heuristic(mesh.spot[j.start], mesh.spot[j.end])
           node == [g.nodes[i] EXCEPT !.pos = mesh.spot[j.start], !.total = toGo,
                                      !.flags = {"OPEN"}]
           q == Changed(g, i, node)
           s == StartNode(j)
<1>1. /\ HashesTo(Polys(mesh)) /\ <<>> \in Places(mesh)
      /\ PoolTyped(pool, Polys(mesh), Places(mesh))
      /\ pool.max \in PoolSizes /\ pool.max \in Nat /\ pool.max > 0
  <2>1. HashesTo(Polys(mesh)) /\ <<>> \in Places(mesh) BY HashesPolys
  <2>2. PoolTyped(pool, Polys(mesh), Places(mesh)) /\ pool.max \in PoolSizes
    BY DEF PoolInv, PoolOK
  <2>3. \A n \in Nat \ 0..3 : n \in Nat /\ n > 0 OBVIOUS
  <2> QED BY <2>1, <2>2, <2>3, PoolSizesAssumption
<1>2. /\ PoolOK(fresh, Polys(mesh), Places(mesh))
      /\ fresh.max = pool.max /\ fresh.nodes = <<>>
  BY <1>1, ClearPoolOK
<1> HIDE DEF fresh
<1>3. CanGetNode(fresh, j.start, 0)
  <2>1. Len(fresh.nodes) = 0 BY <1>2
  <2> QED BY <1>1, <1>2, <2>1 DEF CanGetNode
<1>4. /\ i \in 1..Len(g.nodes)
      /\ \/ /\ g = fresh /\ i \in 1..Len(fresh.nodes)
            /\ IsNodeOf(fresh, i, j.start, 0)
         \/ /\ i = Len(fresh.nodes) + 1
            /\ \A n \in 1..Len(fresh.nodes) : ~IsNodeOf(fresh, n, j.start, 0)
            /\ g.nodes = Append(fresh.nodes, Fresh(j.start, 0))
            /\ Len(fresh.nodes) < fresh.max
      /\ g.max = fresh.max
      /\ PoolOK(g, Polys(mesh), Places(mesh))
  BY <1>1, <1>2, <1>3, GetNodeIs
<1> HIDE DEF i, g
<1>5. i = 1 /\ g.nodes = <<Fresh(j.start, 0)>> /\ Numbers(g) = {1}
  <2>1. Len(fresh.nodes) = 0 BY <1>2
  <2>2. i = 1 /\ g.nodes = Append(<<>>, Fresh(j.start, 0)) BY <1>2, <1>4, <2>1
  <2>3. g.nodes = <<Fresh(j.start, 0)>> BY <2>2
  <2>4. Len(g.nodes) = 1 BY <2>3
  <2> QED BY <2>2, <2>3, <2>4 DEF Numbers
<1>6. /\ mesh.spot[j.start] \in Points(mesh) /\ mesh.spot[j.end] \in Points(mesh)
      /\ toGo \in Nat
  <2>1. j.start \in DOMAIN mesh.spot /\ j.end \in DOMAIN mesh.spot BY DEF Jobs
  <2>2. mesh.spot[j.start] \in Points(mesh) /\ mesh.spot[j.end] \in Points(mesh)
    BY <2>1, SpotIn
  <2> QED BY <2>2, MeshAssumption DEF Heuristic, HScale
<1> HIDE DEF toGo
<1>7. g.nodes[i] = Fresh(j.start, 0) BY <1>5
<1>8. node = [id |-> j.start, state |-> 0, pidx |-> 0, pos |-> mesh.spot[j.start],
              cost |-> 0, total |-> toGo, flags |-> {"OPEN"}]
  <2>1. node = [Fresh(j.start, 0) EXCEPT !.pos = mesh.spot[j.start], !.total = toGo,
                                         !.flags = {"OPEN"}]
    BY <1>7
  <2> HIDE DEF node
  <2> QED BY <2>1 DEF Fresh
<1> HIDE DEF node
<1>9. node = Root(j) BY <1>8 DEF Root, toGo
<1>10. node \in NodeSet(Polys(mesh), Places(mesh)) BY <1>6, <1>8 DEF NodeSet, Places
<1>11. ChangeIs(mesh, g, i, node, q)
  <2>1. PoolBut(mesh, g, i) BY <1>1, <1>2, <1>4, <1>5 DEF PoolBut
  <2>2. i \in Numbers(g) BY <1>5
  <2>3. node.id = g.nodes[i].id /\ node.state = g.nodes[i].state BY <1>7, <1>8 DEF Fresh
  <2>4. node.state \in 0..3 /\ node.pidx \in 0..Len(g.nodes)
        /\ node.flags \in {{"OPEN"}, {"CLOSED"}}
    BY <1>5, <1>8
  <2> QED BY <1>10, <2>1, <2>2, <2>3, <2>4, ChangedOK
<1>12. /\ PoolInv(mesh, q) /\ q.max = pool.max /\ q.nodes = <<node>>
       /\ Numbers(q) = {1} /\ q.nodes[1] = node
  <2>1. q.nodes = [g.nodes EXCEPT ![i] = node] BY <1>11 DEF ChangeIs
  <2>2. q.nodes = <<node>> BY <1>5, <2>1
  <2> QED BY <1>2, <1>4, <1>5, <1>11, <2>2 DEF ChangeIs
<1> HIDE DEF q
<1>13. s = [pool |-> q, heap |-> Push(q, EmptyQueue, i), last |-> i,
            lastCost |-> toGo, full |-> FALSE]
  <2>1. [g EXCEPT !.nodes[i] = [@ EXCEPT !.pos = mesh.spot[j.start],
                                         !.total = toGo, !.flags = {"OPEN"}]] = q
    BY DEF q, Changed, node
  <2> QED BY <2>1 DEF StartNode, fresh, g, i, toGo
<1> HIDE DEF s
<1>14. /\ s.pool = q /\ s.heap = Push(q, EmptyQueue, 1) /\ s.last = 1
       /\ s.lastCost = toGo /\ s.full = FALSE
  BY <1>5, <1>13
<1>15. Opens(q) = {1} BY <1>8, <1>12 DEF Opens
<1>16. OpenList(q, Push(q, EmptyQueue, 1), {1})
  <2>1. OpenList(q, EmptyQueue, {}) BY EmptyOpenList
  <2>2. TotalOf(q, 1) \in Nat BY <1>6, <1>8, <1>12 DEF TotalOf
  <2>3. 1 \notin {} /\ {} \cup {1} = {1} OBVIOUS
  <2> QED BY <2>1, <2>2, <2>3, PushOK
<1>17. Left(mesh, j, node) = toGo
  BY <1>8 DEF Left, toGo
<1>18. NodesSearched(mesh, j, q)
  <2>1. node.pos \in Points(mesh) /\ node.total = node.cost + toGo /\ node.pidx = 0
    BY <1>6, <1>8
  <2> QED BY <1>12, <1>17, <2>1 DEF NodesSearched
<1>19. WaysTaken(mesh, gone, j, q)
  <2>1. {"OPEN"} # {"CLOSED"} OBVIOUS
  <2> QED BY <1>8, <1>12, <2>1 DEF WaysTaken
<1>20. SearchOK(mesh, gone, j, q, s, FALSE)
  <2>1. Len(q.nodes) >= 1 /\ q.nodes[1].id = j.start BY <1>8, <1>12
  <2>2. toGo <= toGo BY <1>6
  <2>3. \A n \in Numbers(q) : q.nodes[n].id # j.end BY <1>8, <1>12
  <2> QED BY <1>12, <1>14, <1>17, <1>18, <1>19, <2>1, <2>2, <2>3 DEF SearchOK
<1> QED BY <1>9, <1>12, <1>14, <1>15, <1>16, <1>20 DEF StartedOK, s

(* Starting a search begins one.                                           *)
LEMMA Begins ==
    ASSUME mesh \in Meshes, NEW j \in Jobs(mesh), NEW s, StartedOK(j, s), j.start # j.end,
           IsValidPolyRef(mesh, gone, j.start), IsValidPolyRef(mesh, gone, j.end),
           Job = Search!NoJob \/ (Job.sliced /\ j.sliced),
           pool' = s.pool, heap' = s.heap, Searching', Job' = j, LastNode' = s.last,
           EndFound' = FALSE, mesh' = mesh, gone' = gone
    PROVE  Search!Begin(j.start, j.end, j.filter, j.sliced)
<1> DEFINE key == <<j.start, 0>>
           toGo == Heuristic(mesh.spot[j.start], mesh.spot[j.end])
<1>1. /\ PoolInv(mesh, s.pool) /\ s.pool.max = pool.max /\ s.pool.nodes = <<Root(j)>>
      /\ s.last = 1 /\ OpenList(s.pool, s.heap, Opens(s.pool)) /\ Opens(s.pool) = {1}
  BY DEF StartedOK
<1>2. Numbers(s.pool) = {1} /\ KeyOf(s.pool, 1) = key
  <2>1. Len(s.pool.nodes) = 1 /\ s.pool.nodes[1] = Root(j) BY <1>1
  <2> QED BY <2>1 DEF Numbers, KeyOf, Root
<1>3. EntryOf(s.pool, 1) = [pos |-> mesh.spot[j.start], cost |-> 0, total |-> toGo,
                            parent |-> <<>>]
  <2>1. s.pool.nodes[1] = Root(j) BY <1>1
  <2> QED BY <2>1 DEF EntryOf, Root
<1>4. Entries' = [k \in {key} |-> [pos |-> mesh.spot[j.start], cost |-> 0,
                                   total |-> toGo, parent |-> <<>>]]
  <2>1. Entries' = MapOf(s.pool)
    BY DEF Entries, MapOf, NodeOf, Nodes, KeyOf, EntryOf, Numbers
  <2>2. DOMAIN MapOf(s.pool) = {KeyOf(s.pool, i) : i \in Numbers(s.pool)}
        /\ \A i \in Numbers(s.pool) : MapOf(s.pool)[KeyOf(s.pool, i)] = EntryOf(s.pool, i)
    BY <1>1, MapIs
  <2>3. DOMAIN MapOf(s.pool) = {key} /\ MapOf(s.pool)[key] = EntryOf(s.pool, 1)
    BY <1>2, <2>2
  <2>4. MapOf(s.pool) = [k \in DOMAIN MapOf(s.pool) |-> MapOf(s.pool)[k]] BY DEF MapOf
  <2> QED BY <1>3, <2>1, <2>3, <2>4
<1>5. OpenNodes' = {key}
  <2>1. Range(s.heap) = {1} BY <1>1, OpenListIs
  <2>2. OpenNodes' = {KeyOf(s.pool, i) : i \in Range(s.heap)}
    BY DEF OpenNodes, NodeOf, KeyOf
  <2> QED BY <1>2, <2>1, <2>2
<1>6. NearNode' = key BY <1>1, <1>2 DEF NearNode, NodeOf, KeyOf
<1>7. j = [start |-> j.start, end |-> j.end, filter |-> j.filter, sliced |-> j.sliced]
  BY DEF Jobs
<1>8. Search!Heuristic(mesh.spot[j.start], mesh.spot[j.end]) = toGo
  BY DEF Search!Heuristic, Search!HScale, Heuristic, HScale
<1>9. /\ Search!IsValidPolyRef(mesh, gone, j.start) /\ Search!IsValidPolyRef(mesh, gone, j.end)
  BY DEF Search!IsValidPolyRef, Search!Polys, IsValidPolyRef, Polys
<1>10. pool'.max = pool.max BY <1>1
<1>11. Search!StartKey(Job') = key BY DEF Search!StartKey
<1> HIDE DEF toGo, key
<1> QED BY <1>4, <1>5, <1>6, <1>7, <1>8, <1>9, <1>10, <1>11 DEF Search!Begin, Search!NoKey

(* The end is the best node.                                               *)
LEMMA ReachedEnd ==
    ASSUME NEW j, NEW r, Expanding(j, r), BestId = j.end, NEW s, s.last = Best
    PROVE  /\ PoolInv(mesh, Popped) /\ OpenList(Popped, Pop(pool, heap), Opens(Popped))
           /\ SearchOK(mesh, gone, j, Popped, s, TRUE)
<1>1. /\ PoolInv(mesh, Popped) /\ Numbers(Popped) = Numbers(pool)
      /\ Len(Popped.nodes) = Len(pool.nodes)
      /\ \A i \in Numbers(pool) : Popped.nodes[i].id = pool.nodes[i].id
  BY PoppedIs
<1>2. OpenList(Popped, Pop(pool, heap), Opens(Popped)) BY OpensPopped
<1>3. NodesSearched(mesh, j, Popped)
  <2>1. PopBest(Locals(r)).pool = Popped BY PopBestIs
  <2> QED BY <2>1, Starts DEF Progress
<1>4. /\ j \in Jobs(mesh) /\ j.start \in Polys(mesh) /\ j.end \in Polys(mesh)
      /\ j.start # j.end
      /\ Len(pool.nodes) >= 1 /\ pool.nodes[1].id = j.start /\ Len(pool.nodes) \in Nat
  BY NodeIs DEF Expanding, SearchOK
<1>5. Popped.nodes[1].id = j.start
  <2>1. 1 \in Numbers(pool) BY <1>4 DEF Numbers
  <2> QED BY <1>1, <1>4, <2>1
<1>6. Best \in Numbers(Popped) /\ Popped.nodes[Best].id = j.end BY <1>1, BestIs
<1> QED BY <1>1, <1>2, <1>3, <1>4, <1>5, <1>6 DEF SearchOK

(* Taking the end from the open list reaches it.                           *)
LEMMA Reaches ==
    ASSUME NEW j, NEW r, Expanding(j, r), BestId = j.end,
           pool' = Popped, heap' = Pop(pool, heap), Searching', Job' = j, LastNode' = Best,
           ~EndFound, EndFound' = TRUE, mesh' = mesh, gone' = gone
    PROVE  Search!Reach(BestKey)
<1>1. /\ PoolInv(mesh, Popped) /\ Popped.max = pool.max /\ Numbers(Popped) = Numbers(pool)
      /\ \A i \in Numbers(pool) : KeyOf(Popped, i) = KeyOf(pool, i)
      /\ \A i \in Numbers(pool) :
            /\ Popped.nodes[i].pidx = pool.nodes[i].pidx
            /\ Popped.nodes[i].pos = pool.nodes[i].pos
            /\ Popped.nodes[i].cost = pool.nodes[i].cost
            /\ Popped.nodes[i].total = pool.nodes[i].total
  BY PoppedIs
<1>2. /\ mesh \in Meshes /\ PoolInv(mesh, pool) /\ Job = j /\ Searching
      /\ Best \in Numbers(pool) /\ Best \in Opens(pool)
  BY BestIs DEF Expanding
<1> HIDE DEF Popped
<1>3. \A i \in Numbers(pool) : EntryOf(Popped, i) = EntryOf(pool, i)
  <2> TAKE i \in Numbers(pool)
  <2>1. pool.nodes[i].pidx \in 0..Len(pool.nodes) /\ Len(pool.nodes) \in Nat BY <1>2, NodeIs
  <2>2. pool.nodes[i].pidx # 0 => pool.nodes[i].pidx \in Numbers(pool) BY <2>1 DEF Numbers
  <2> QED BY <1>1, <2>2 DEF EntryOf
<1>4. MapOf(Popped) = MapOf(pool)
  <2>1. DOMAIN MapOf(Popped) = DOMAIN MapOf(pool)
    BY <1>1, <1>2, MapIs
  <2>2. ASSUME NEW k \in DOMAIN MapOf(pool) PROVE MapOf(Popped)[k] = MapOf(pool)[k]
    <3>0. DOMAIN MapOf(pool) = {KeyOf(pool, n) : n \in Numbers(pool)} BY <1>2, MapIs
    <3>1. PICK i \in Numbers(pool) : k = KeyOf(pool, i) BY <3>0
    <3>2. k = KeyOf(Popped, i) /\ i \in Numbers(Popped) BY <1>1, <3>1
    <3>3. MapOf(pool)[k] = EntryOf(pool, i) BY <1>2, <3>1, MapIs
    <3>4. MapOf(Popped)[k] = EntryOf(Popped, i) BY <1>1, <1>2, <3>2, MapIs
    <3> QED BY <1>3, <3>3, <3>4
  <2>3. MapOf(pool) = [k \in DOMAIN MapOf(pool) |-> MapOf(pool)[k]] BY DEF MapOf
  <2>4. MapOf(Popped) = [k \in DOMAIN MapOf(Popped) |-> MapOf(Popped)[k]] BY DEF MapOf
  <2> QED BY <2>1, <2>2, <2>3, <2>4
<1>5. Entries' = Entries
  <2>1. Entries' = MapOf(Popped)
    BY DEF Entries, MapOf, NodeOf, Nodes, KeyOf, EntryOf, Numbers
  <2> QED BY <1>2, <1>4, <2>1, EntriesAre
<1>6. OpenNodes' = OpenNodes \ {BestKey}
  <2>1. Opens(Popped) = Opens(pool) \ {Best} BY OpensPopped
  <2>2. Range(Pop(pool, heap)) = Opens(Popped) BY OpensPopped, OpenListIs
  <2>3. OpenNodes' = {KeyOf(Popped, i) : i \in Opens(Popped)}
    BY <2>2 DEF OpenNodes, NodeOf, KeyOf
  <2>4. OpenNodes = {KeyOf(pool, i) : i \in Opens(pool)} BY LeastBest
  <2>5. Opens(pool) \subseteq Numbers(pool) BY DEF Opens
  <2>6. \A i \in Numbers(pool) : KeyOf(pool, i) = BestKey <=> i = Best
    BY <1>2, KeysApart DEF BestKey
  <2>7. \A i \in Opens(Popped) : KeyOf(Popped, i) = KeyOf(pool, i)
    BY <1>1, <2>1, <2>5
  <2>8. {KeyOf(Popped, i) : i \in Opens(Popped)} = {KeyOf(pool, i) : i \in Opens(pool) \ {Best}}
    BY <2>1, <2>7
  <2>9. {KeyOf(pool, i) : i \in Opens(pool) \ {Best}}
           = {KeyOf(pool, i) : i \in Opens(pool)} \ {BestKey}
    BY <2>5, <2>6
  <2> QED BY <2>3, <2>4, <2>8, <2>9
<1>7. NearNode' = BestKey
  <2>1. NearNode' = KeyOf(Popped, Best) BY DEF NearNode, NodeOf, KeyOf
  <2> QED BY <1>1, <1>2, <2>1 DEF BestKey
<1>8. Job # Search!NoJob /\ Job' = Job
  BY <1>2, JobIs DEF Expanding, SearchOK
<1>9. Search!Least(BestKey) /\ BestKey[1] = Job.end BY <1>2, LeastBest
<1>10. pool'.max = pool.max BY <1>1
<1> QED BY <1>5, <1>6, <1>7, <1>8, <1>9, <1>10 DEF Search!Reach

-------------------------------------------------------------------------------
(* Between two steps *)

NodesInv ==
    /\ mesh \in Meshes
    /\ PoolInv(mesh, pool)
    /\ OpenList(pool, heap, Opens(pool))

CallRuns ==
    /\ query = NoQuery
    /\ call = [start |-> call.start, end |-> call.end, job |-> call.job,
               max |-> call.max, found |-> call.found, last |-> call.last,
               lastCost |-> call.lastCost, full |-> call.full]
    /\ call.max \in PathSizes /\ call.found \in BOOLEAN
    /\ call.job.start = call.start /\ call.job.end = call.end /\ call.job.sliced = FALSE
    /\ SearchOK(mesh, gone, call.job, pool, call, call.found)

(* The end of a sliced search was found, or the open list ran empty first. *)
QueryFound ==
    query.status.code = "SUCCESS" /\ pool.nodes[query.last].id = query.end

QueryRuns ==
    /\ query = [status |-> query.status, start |-> query.start, end |-> query.end,
                filter |-> query.filter, last |-> query.last,
                lastCost |-> query.lastCost, full |-> query.full]
    /\ query.status.code \in {"IN_PROGRESS", "SUCCESS"}
    /\ query.status.details = Details(query.full)
    /\ SearchOK(mesh, gone, QueryJob, pool, query, QueryFound)
    /\ query.status.code = "IN_PROGRESS" => heap # EmptyQueue
    /\ query.status.code = "SUCCESS" /\ ~QueryFound => heap = EmptyQueue

QueryIdle ==
    \/ query.status.code = "FAILURE"
    \/ /\ query.start = query.end /\ query.status.code \in {"NONE", "SUCCESS"}
       /\ query.status.details = {}

StateOK ==
    /\ NodesInv
    /\ call = NoCall \/ CallRuns
    /\ QueryIdle \/ QueryRuns

Running(j, r, found) ==
    /\ Searching /\ Job = j /\ LastNode = r.last /\ EndFound = found
    /\ SearchOK(mesh, gone, j, pool, r, found)

(* A query that is reset is idle.                                          *)
LEMMA NoQueryIs == query = NoQuery => QueryIdle /\ ~SliceUnderWay
BY DEF NoQuery, QueryIdle, SliceUnderWay, Status

(* An idle query is not under way.                                         *)
LEMMA QueryIdleIs == QueryIdle => ~SliceUnderWay
BY DEF QueryIdle, SliceUnderWay

(* A running one is.                                                       *)
LEMMA QueryRunsIs ==
    QueryRuns => /\ SliceUnderWay /\ QueryJob \in Jobs(mesh)
                 /\ query.start # query.end
<1> SUFFICES ASSUME QueryRuns PROVE SliceUnderWay /\ QueryJob \in Jobs(mesh)
                                    /\ query.start # query.end
  OBVIOUS
<1>1. QueryJob \in Jobs(mesh) /\ QueryJob.start # QueryJob.end
  BY DEF QueryRuns, SearchOK
<1>2. QueryJob.start = query.start /\ QueryJob.end = query.end BY DEF QueryJob
<1> QED BY <1>1, <1>2 DEF QueryRuns, SliceUnderWay

(* While findPath runs, its search is the one under way.                   *)
LEMMA CallRunning ==
    ASSUME StateOK, call # NoCall
    PROVE  CallRuns /\ Running(call.job, call, call.found)
<1>1. CallRuns BY DEF StateOK
<1>2. Searching /\ Job = call.job /\ LastNode = call.last BY DEF Searching, Job, LastNode
<1>3. EndFound = call.found
  <2>1. call.found \in BOOLEAN BY <1>1 DEF CallRuns
  <2>2. EndFound <=> call.found BY DEF EndFound
  <2>3. EndFound \in BOOLEAN BY DEF EndFound
  <2> QED BY <2>1, <2>2, <2>3
<1> QED BY <1>1, <1>2, <1>3 DEF Running, CallRuns

(* Between findPaths, the sliced search is.                                *)
LEMMA QueryRunning ==
    ASSUME StateOK, call = NoCall, SliceUnderWay
    PROVE  QueryRuns /\ Running(QueryJob, query, QueryFound)
<1>1. QueryRuns BY QueryIdleIs DEF StateOK
<1>2. Searching /\ Job = QueryJob /\ LastNode = query.last
  BY DEF Searching, Job, LastNode
<1>3. EndFound = QueryFound BY DEF EndFound, QueryFound
<1> QED BY <1>1, <1>2, <1>3 DEF Running, QueryRuns

(* A search whose open list is not empty has a best node to expand.        *)
LEMMA RunningExpands ==
    ASSUME StateOK, Search!NoRing, NEW j, NEW r, Running(j, r, FALSE), heap # EmptyQueue
    PROVE  Expanding(j, r)
BY DEF StateOK, NodesInv, Running, Expanding

(* Between searches there is nothing to see of one,                        *)
LEMMA IdleIs ==
    ASSUME ~Searching
    PROVE  /\ Job = Search!NoJob /\ Entries = Search!NoEntry /\ OpenNodes = {}
           /\ NearNode = <<>> /\ EndFound = FALSE
<1>1. call = NoCall /\ ~SliceUnderWay BY DEF Searching
<1>2. Job = Search!NoJob BY <1>1 DEF Job, Search!NoJob
<1>3. Entries = Search!NoEntry
  <2>1. {NodeOf(i) : i \in Nodes} = {} BY DEF Nodes
  <2> QED BY <2>1 DEF Entries, Search!NoEntry
<1>4. OpenNodes = {} /\ NearNode = <<>> BY DEF OpenNodes, NearNode
<1>5. EndFound = FALSE BY <1>1 DEF EndFound
<1> QED BY <1>2, <1>3, <1>4, <1>5

(* nor after a step that ends one.                                         *)
LEMMA IdleNext ==
    ASSUME ~Searching'
    PROVE  /\ Job' = Search!NoJob /\ Entries' = Search!NoEntry /\ OpenNodes' = {}
           /\ NearNode' = <<>> /\ EndFound' = FALSE
<1>1. call' = NoCall /\ ~SliceUnderWay' BY DEF Searching, NoCall
<1>2. Job' = Search!NoJob BY <1>1 DEF Job, Search!NoJob, NoCall
<1>3. Entries' = Search!NoEntry
  <2>1. {NodeOf(i) : i \in Nodes}' = {} BY DEF Nodes
  <2> QED BY <2>1 DEF Entries, Search!NoEntry
<1>4. OpenNodes' = {} /\ NearNode' = <<>> BY DEF OpenNodes, NearNode
<1>5. EndFound' = FALSE BY <1>1 DEF EndFound, NoCall
<1> QED BY <1>2, <1>3, <1>4, <1>5

(* Nothing the search sees changes between searches.                       *)
LEMMA Unmoved ==
    ASSUME ~Searching, ~Searching', mesh' = mesh, gone' = gone, pool'.max = pool.max
    PROVE  UNCHANGED Search!searchVars
BY IdleIs, IdleNext DEF Search!searchVars

(* A step that leaves no search under way ends it.                         *)
LEMMA Ends ==
    ASSUME NEW j, NEW r, NEW found, Running(j, r, found), j.sliced \/ found \/ OpenNodes = {},
           ~Searching', mesh' = mesh, gone' = gone, pool'.max = pool.max
    PROVE  Search!End
<1>1. Job = j /\ Job # Search!NoJob /\ EndFound = found BY JobIs DEF Running, SearchOK
<1> QED BY <1>1, IdleNext DEF Search!End, Search!NoKey

(* A new size of the pool is one of the search's capacity.                 *)
LEMMA Resizes ==
    ASSUME ~Searching, ~Searching', mesh' = mesh, gone' = gone, pool'.max \in Nat
    PROVE  Search!Resize
BY IdleIs, IdleNext DEF Search!Resize

(* What a search is depends on four of its locals.                         *)
LEMMA SameLocals ==
    ASSUME NEW m, NEW g, NEW j, NEW p, NEW r, NEW found, SearchOK(m, g, j, p, r, found),
           NEW s, s.last = r.last, s.lastCost = r.lastCost, s.full = r.full
    PROVE  SearchOK(m, g, j, p, s, found)
BY DEF SearchOK

(* An empty queue holds nothing.                                           *)
LEMMA EmptyQueueIs == Range(EmptyQueue) = {} /\ (heap = EmptyQueue => OpenNodes = {})
BY DEF EmptyQueue, Range, OpenNodes

-------------------------------------------------------------------------------
(* What every action does to the search, and to what is between two steps  *)

Moves == StateOK' /\ [Search!SearchNext]_(Search!searchVars)

(* init changes the capacity, or nothing.                                  *)
LEMMA InitQueryMoves ==
    ASSUME StateOK, NEW n \in PoolSizes, InitQuery(n)
    PROVE  Moves
<1>1. /\ call = NoCall /\ query = NoQuery /\ call' = NoCall /\ query' = NoQuery
      /\ mesh' = mesh /\ gone' = gone /\ heap' = EmptyQueue
      /\ pool' = IF pool.max < n THEN NodePool(n, NextPow2(n \div 4)) ELSE ClearPool(pool)
  BY DEF InitQuery
<1>2. mesh \in Meshes /\ PoolInv(mesh, pool) BY DEF StateOK, NodesInv
<1>3. n \in Nat /\ n >= 4
  <2>1. \A k \in Nat \ 0..3 : k \in Nat /\ k >= 4 OBVIOUS
  <2> QED BY <2>1, PoolSizesAssumption
<1>4. /\ PoolOK(pool', Polys(mesh), Places(mesh)) /\ pool'.max \in PoolSizes
      /\ pool'.nodes = <<>>
  <2>1. CASE pool.max < n BY <1>1, <1>3, <2>1, NodePoolOK
  <2>2. CASE ~(pool.max < n)
    <3>1. PoolTyped(pool, Polys(mesh), Places(mesh)) /\ pool.max \in PoolSizes
      BY <1>2 DEF PoolInv, PoolOK
    <3> QED BY <1>1, <2>2, <3>1, ClearPoolOK
  <2> QED BY <2>1, <2>2
<1>5. Numbers(pool') = {} /\ Opens(pool') = {}
  <2>1. Len(pool'.nodes) = 0 BY <1>4
  <2> QED BY <2>1 DEF Numbers, Opens
<1>6. PoolInv(mesh, pool') BY <1>4, <1>5 DEF PoolInv
<1>7. OpenList(pool', heap', Opens(pool')) BY <1>1, <1>5, EmptyOpenList
<1>8. QueryIdle' BY <1>1 DEF NoQuery, QueryIdle, Status
<1>9. StateOK' BY <1>1, <1>2, <1>6, <1>7, <1>8 DEF StateOK, NodesInv, NoCall
<1>10. ~Searching /\ ~Searching'
  BY <1>1 DEF Searching, SliceUnderWay, NoQuery, NoCall, Status
<1>11. Search!Resize
  <2>1. pool'.max \in Nat BY <1>4, PoolSizesAssumption
  <2> QED BY <1>1, <1>10, <2>1, Resizes
<1> QED BY <1>9, <1>11 DEF Moves, Search!SearchNext

(* A valid reference is a polygon's.                                       *)
LEMMA ValidPoly ==
    ASSUME NEW m, NEW g, NEW ref, IsValidPolyRef(m, g, ref)
    PROVE  ref \in Polys(m)
BY DEF IsValidPolyRef

(* findPath begins a search, or answers without one.                       *)
LEMMA FindPathMoves ==
    ASSUME StateOK, NEW start \in DOMAIN mesh.spot, NEW end \in DOMAIN mesh.spot,
           NEW filter \in Filters, NEW n \in PathSizes, FindPath(start, end, filter, n)
    PROVE  Moves
<1>1. /\ call = NoCall /\ query = NoQuery /\ mesh' = mesh /\ gone' = gone /\ query' = query
      /\ mesh \in Meshes /\ PoolInv(mesh, pool) /\ OpenList(pool, heap, Opens(pool))
      /\ QueryIdle
  BY NoQueryIs DEF FindPath, StateOK, NodesInv
<1>2. QueryIdle' /\ ~SliceUnderWay /\ ~SliceUnderWay' /\ ~Searching
  BY <1>1 DEF QueryIdle, SliceUnderWay, NoQuery, Searching, NoCall, Status
<1>3. CASE \/ ~IsValidPolyRef(mesh, gone, start)
           \/ ~IsValidPolyRef(mesh, gone, end)
           \/ start = end
  <2>1. pool' = pool /\ heap' = heap /\ call' = call
    BY <1>3 DEF FindPath
  <2>2. StateOK' BY <1>1, <1>2, <2>1 DEF StateOK, NodesInv, NoCall
  <2>3. ~Searching' BY <1>1, <1>2, <2>1 DEF Searching, NoCall
  <2>4. UNCHANGED Search!searchVars BY <1>1, <1>2, <2>1, <2>3, Unmoved
  <2> QED BY <2>2, <2>4 DEF Moves
<1>4. CASE /\ IsValidPolyRef(mesh, gone, start) /\ IsValidPolyRef(mesh, gone, end)
           /\ start # end
  <2> DEFINE j == [start |-> start, end |-> end, filter |-> filter, sliced |-> FALSE]
             s == StartNode(j)
  <2>1. /\ pool' = s.pool /\ heap' = s.heap
        /\ call' = [start |-> start, end |-> end, job |-> j, max |-> n, found |-> FALSE,
                    last |-> s.last, lastCost |-> s.lastCost, full |-> FALSE]
    BY <1>4 DEF FindPath
  <2>2. j \in Jobs(mesh) /\ j.start = start /\ j.end = end /\ j.filter = filter
        /\ j.sliced = FALSE
    BY DEF Jobs
  <2> HIDE DEF j
  <2>3. StartedOK(j, s)
    BY <1>1, <1>4, <2>2, ValidPoly, StartNodeOK
  <2> HIDE DEF s
  <2>4. /\ call'.start = start /\ call'.end = end /\ call'.job = j /\ call'.max = n
        /\ call'.found = FALSE /\ call'.last = s.last /\ call'.lastCost = s.lastCost
        /\ call'.full = FALSE
        /\ call' # NoCall
    <3>1. DOMAIN call' = {"start", "end", "job", "max", "found", "last", "lastCost", "full"}
      BY <2>1
    <3>2. DOMAIN NoCall = {"start"} BY DEF NoCall
    <3>3. call' # NoCall BY <3>1, <3>2
    <3> QED BY <2>1, <3>3
  <2>5. SearchOK(mesh, gone, j, pool', call', FALSE)
    BY <2>1, <2>3, <2>4, SameLocals DEF StartedOK
  <2>6. CallRuns'
    BY <1>1, <2>1, <2>2, <2>4, <2>5 DEF CallRuns
  <2>7. StateOK'
    <3>1. NodesInv' BY <1>1, <2>1, <2>3 DEF NodesInv, StartedOK
    <3> QED BY <1>2, <2>6, <3>1 DEF StateOK
  <2>8. Searching' /\ Job' = j /\ LastNode' = s.last /\ EndFound' = FALSE
    <3>1. call' # [start |-> NoRef] BY <2>4 DEF NoCall
    <3>2. Searching' BY <2>4 DEF Searching, NoCall
    <3>3. Job' = j BY <2>4 DEF Job, NoCall
    <3>4. LastNode' = s.last BY <2>4 DEF LastNode, NoCall
    <3>5. EndFound' = FALSE BY <2>4 DEF EndFound, NoCall
    <3> QED BY <3>2, <3>3, <3>4, <3>5
  <2>9. Job = Search!NoJob BY <1>2, IdleIs
  <2>10. Search!Begin(j.start, j.end, j.filter, j.sliced)
    BY <1>1, <1>4, <2>1, <2>2, <2>3, <2>8, <2>9, Begins
  <2>11. Search!SearchNext BY <2>2, <2>10 DEF Search!SearchNext
  <2> QED BY <2>7, <2>11 DEF Moves
<1> QED BY <1>3, <1>4

(* A turn of findPath's loop settles the best entry or reaches the end.    *)
LEMMA FindPathStepMoves ==
    ASSUME StateOK, Search!NoRing, FindPathStep
    PROVE  Moves
<1> DEFINE j == call.job
           s == IF BestId = call.end
                THEN [PopBest(Locals(call)) EXCEPT !.last = Top(heap)]
                ELSE Expand(j, Locals(call))
<1>1. /\ call # NoCall /\ ~call.found /\ heap # EmptyQueue
      /\ pool' = s.pool /\ heap' = s.heap
      /\ call' = [call EXCEPT !.found = BestId = call.end, !.last = s.last,
                              !.lastCost = s.lastCost, !.full = s.full]
      /\ mesh' = mesh /\ gone' = gone /\ query' = query /\ answer' = answer
  BY DEF FindPathStep
<1>2. CallRuns /\ Running(j, call, call.found) BY <1>1, CallRunning
<1>3. call.found = FALSE BY <1>1, <1>2 DEF CallRuns
<1>4. Expanding(j, call) BY <1>1, <1>2, <1>3, RunningExpands
<1>5. /\ query = NoQuery /\ call.job.end = call.end /\ mesh \in Meshes
      /\ call = [start |-> call.start, end |-> call.end, job |-> call.job,
                 max |-> call.max, found |-> call.found, last |-> call.last,
                 lastCost |-> call.lastCost, full |-> call.full]
  BY <1>2, <1>4 DEF CallRuns, Expanding
<1> HIDE DEF s
<1>6. /\ call' = [start |-> call.start, end |-> call.end, job |-> j,
                  max |-> call.max, found |-> BestId = call.end, last |-> s.last,
                  lastCost |-> s.lastCost, full |-> s.full]
  BY <1>1, <1>5
<1>7. /\ call'.start = call.start /\ call'.end = call.end /\ call'.job = j
      /\ call'.max = call.max /\ call'.found = (BestId = call.end) /\ call'.last = s.last
      /\ call'.lastCost = s.lastCost /\ call'.full = s.full
      /\ call' # NoCall
  <2>1. DOMAIN call' = {"start", "end", "job", "max", "found", "last", "lastCost", "full"}
    BY <1>6
  <2>2. DOMAIN NoCall = {"start"} BY DEF NoCall
  <2>3. call' # NoCall BY <2>1, <2>2
  <2> QED BY <1>6, <2>3
<1>8. /\ Searching' /\ Job' = j /\ LastNode' = s.last /\ EndFound' = (BestId = call.end)
      /\ ~EndFound
  <2>1. Searching' BY <1>7 DEF Searching, NoCall
  <2>2. Job' = j BY <1>7 DEF Job, NoCall
  <2>3. LastNode' = s.last BY <1>7 DEF LastNode, NoCall
  <2>4. EndFound' = (BestId = call.end) BY <1>7 DEF EndFound, NoCall
  <2>5. ~EndFound BY <1>1 DEF EndFound
  <2> QED BY <2>1, <2>2, <2>3, <2>4, <2>5
<1>9. ASSUME PoolInv(mesh, s.pool), OpenList(s.pool, s.heap, Opens(s.pool)),
             SearchOK(mesh, gone, j, s.pool, s, BestId = call.end)
      PROVE  StateOK'
  <2>1. NodesInv' BY <1>1, <1>5, <1>9 DEF NodesInv
  <2>2. SearchOK(mesh, gone, j, s.pool, call', BestId = call.end)
    BY <1>7, <1>9, SameLocals
  <2>3. /\ query' = NoQuery /\ call'.max \in PathSizes /\ call'.found \in BOOLEAN
        /\ call'.job.start = call'.start /\ call'.job.end = call'.end
        /\ call'.job.sliced = FALSE
    BY <1>1, <1>2, <1>7 DEF CallRuns
  <2>4. CallRuns' BY <1>1, <1>6, <1>7, <2>2, <2>3 DEF CallRuns, NoQuery
  <2>5. QueryIdle' BY <2>3 DEF QueryIdle, NoQuery, Status
  <2> QED BY <2>1, <2>4, <2>5 DEF StateOK
<1>10. CASE BestId = call.end
  <2>1. /\ s.pool = Popped /\ s.heap = Pop(pool, heap) /\ s.last = Best
    <3>1. PopBest(Locals(call))
            = [pool |-> Popped, heap |-> Pop(pool, heap), last |-> call.last,
               lastCost |-> call.lastCost, full |-> call.full]
      BY <1>4, PopBestIs
    <3>2. s = [PopBest(Locals(call)) EXCEPT !.last = Best] BY <1>10 DEF s, Best
    <3> QED BY <3>1, <3>2
  <2>2. PoolInv(mesh, s.pool) /\ OpenList(s.pool, s.heap, Opens(s.pool))
        /\ SearchOK(mesh, gone, j, s.pool, s, TRUE)
    BY <1>4, <1>5, <1>10, <2>1, ReachedEnd
  <2>3. (BestId = call.end) = TRUE BY <1>10
  <2>4. StateOK' BY <1>9, <2>2, <2>3
  <2>5. Search!Reach(BestKey)
    BY <1>1, <1>4, <1>5, <1>8, <1>10, <2>1, <2>3, Reaches
  <2>6. BestKey \in OpenNodes BY <1>4, LeastBest
  <2> QED BY <2>4, <2>5, <2>6 DEF Moves, Search!SearchNext
<1>11. CASE BestId # call.end
  <2>1. s = Expand(j, Locals(call)) BY <1>11 DEF s
  <2>2. (BestId = call.end) = FALSE BY <1>11
  <2>3. PoolInv(mesh, s.pool) /\ OpenList(s.pool, s.heap, Opens(s.pool))
        /\ SearchOK(mesh, gone, j, s.pool, s, FALSE)
    BY <1>4, <1>5, <1>11, <2>1, Expanded
  <2>4. StateOK' BY <1>9, <2>2, <2>3
  <2>5. Search!Settle(BestKey)
    BY <1>1, <1>4, <1>5, <1>8, <1>11, <2>1, <2>2, Settles
  <2>6. BestKey \in OpenNodes BY <1>4, LeastBest
  <2> QED BY <2>4, <2>5, <2>6 DEF Moves, Search!SearchNext
<1> QED BY <1>10, <1>11

(* findPath's return ends the search.                                      *)
LEMMA FindPathReturnsMoves ==
    ASSUME StateOK, FindPathReturns
    PROVE  Moves
<1>1. /\ call # NoCall /\ (call.found \/ heap = EmptyQueue) /\ call' = NoCall
      /\ mesh' = mesh /\ gone' = gone /\ pool' = pool /\ heap' = heap /\ query' = query
  BY DEF FindPathReturns
<1>2. CallRuns /\ Running(call.job, call, call.found) BY <1>1, CallRunning
<1>3. query = NoQuery BY <1>2 DEF CallRuns
<1>4. QueryIdle' /\ ~Searching'
  BY <1>1, <1>3 DEF NoQuery, QueryIdle, Status, Searching, SliceUnderWay, NoCall
<1>5. StateOK' BY <1>1, <1>4 DEF StateOK, NodesInv, NoCall
<1>6. call.found \/ OpenNodes = {} BY <1>1, EmptyQueueIs
<1>7. Search!End BY <1>1, <1>2, <1>4, <1>6, Ends
<1> QED BY <1>5, <1>7 DEF Moves, Search!SearchNext

(* initSlicedFindPath begins a search, or ends the one it replaces.        *)
LEMMA InitSlicedMoves ==
    ASSUME StateOK, NEW start \in DOMAIN mesh.spot, NEW end \in DOMAIN mesh.spot,
           NEW filter \in Filters, InitSlicedFindPath(start, end, filter)
    PROVE  Moves
<1>1. /\ call = NoCall /\ mesh' = mesh /\ gone' = gone /\ call' = call
      /\ mesh \in Meshes /\ PoolInv(mesh, pool) /\ OpenList(pool, heap, Opens(pool))
  BY DEF InitSlicedFindPath, StateOK, NodesInv
<1>2. CASE \/ ~IsValidPolyRef(mesh, gone, start)
           \/ ~IsValidPolyRef(mesh, gone, end)
           \/ start = end
  <2>1. /\ pool' = pool /\ heap' = heap
        /\ \/ query' = [NoQuery EXCEPT !.status = Status("FAILURE", {}),
                                       !.start = start, !.end = end]
           \/ /\ query' = [NoQuery EXCEPT !.status = Status("SUCCESS", {}),
                                          !.start = start, !.end = end]
              /\ start = end
    BY <1>2 DEF InitSlicedFindPath
  <2>2. QueryIdle'
    <3>1. CASE query' = [NoQuery EXCEPT !.status = Status("FAILURE", {}),
                                        !.start = start, !.end = end]
      <4>1. query'.status.code = "FAILURE" BY <3>1 DEF NoQuery, Status
      <4> QED BY <4>1 DEF QueryIdle
    <3>2. CASE /\ query' = [NoQuery EXCEPT !.status = Status("SUCCESS", {}),
                                           !.start = start, !.end = end]
               /\ start = end
      <4>1. query'.status.code = "SUCCESS" /\ query'.status.details = {}
            /\ query'.start = start /\ query'.end = end
        BY <3>2 DEF NoQuery, Status
      <4> QED BY <3>2, <4>1 DEF QueryIdle
    <3> QED BY <2>1, <3>1, <3>2
  <2>3. ~Searching' BY <1>1, <2>2 DEF QueryIdle, Searching, SliceUnderWay, NoCall
  <2>4. StateOK' BY <1>1, <2>1, <2>2 DEF StateOK, NodesInv, NoCall
  <2>5. CASE Searching
    <3>1. Running(QueryJob, query, QueryFound)
      BY <1>1, <2>5, QueryRunning DEF Searching
    <3>2. QueryJob.sliced = TRUE BY DEF QueryJob
    <3>3. Search!End BY <1>1, <2>1, <2>3, <3>1, <3>2, Ends
    <3> QED BY <2>4, <3>3 DEF Moves, Search!SearchNext
  <2>6. CASE ~Searching
    <3>1. UNCHANGED Search!searchVars BY <1>1, <2>1, <2>3, <2>6, Unmoved
    <3> QED BY <2>4, <3>1 DEF Moves
  <2> QED BY <2>5, <2>6
<1>3. CASE /\ IsValidPolyRef(mesh, gone, start) /\ IsValidPolyRef(mesh, gone, end)
           /\ start # end
  <2> DEFINE j == [start |-> start, end |-> end, filter |-> filter, sliced |-> TRUE]
             s == StartNode(j)
  <2>1. /\ pool' = s.pool /\ heap' = s.heap
        /\ query' = [status |-> Status("IN_PROGRESS", {}), start |-> start, end |-> end,
                     filter |-> filter, last |-> s.last, lastCost |-> s.lastCost,
                     full |-> FALSE]
    BY <1>3 DEF InitSlicedFindPath
  <2>2. j \in Jobs(mesh) /\ j.start = start /\ j.end = end /\ j.filter = filter
        /\ j.sliced = TRUE
    BY DEF Jobs
  <2>3. QueryJob' = j BY <2>1 DEF QueryJob
  <2> HIDE DEF j
  <2>4. StartedOK(j, s) BY <1>1, <1>3, <2>2, ValidPoly, StartNodeOK
  <2> HIDE DEF s
  <2>5. /\ query'.start = start /\ query'.end = end /\ query'.filter = filter
        /\ query'.status = Status("IN_PROGRESS", {}) /\ query'.last = s.last
        /\ query'.lastCost = s.lastCost /\ query'.full = FALSE
        /\ query'.status.code = "IN_PROGRESS" /\ query'.status.details = {}
    BY <2>1 DEF Status
  <2>6. SearchOK(mesh, gone, j, pool', query', FALSE)
    <3>1. SearchOK(mesh, gone, j, s.pool, s, FALSE) /\ s.full = FALSE
      BY <2>4 DEF StartedOK
    <3> QED BY <2>1, <2>5, <3>1, SameLocals
  <2>7. QueryFound' = FALSE BY <2>5 DEF QueryFound
  <2>8. heap' # EmptyQueue
    <3>1. Range(heap') = {1} BY <2>1, <2>4, OpenListIs DEF StartedOK
    <3> QED BY <3>1, EmptyQueueIs
  <2>9. QueryRuns'
    BY <1>1, <2>1, <2>3, <2>5, <2>6, <2>7, <2>8 DEF QueryRuns, Details
  <2>10. NodesInv' BY <1>1, <2>1, <2>4 DEF NodesInv, StartedOK
  <2>11. StateOK' BY <1>1, <2>9, <2>10 DEF StateOK, NoCall
  <2>12. SliceUnderWay' BY <1>3, <2>5 DEF SliceUnderWay
  <2>13. Searching' /\ Job' = j /\ LastNode' = s.last /\ EndFound' = FALSE
    <3>1. call' = NoCall BY <1>1
    <3>2. Searching' BY <2>12 DEF Searching
    <3>3. Job' = j BY <2>3, <2>12, <3>1 DEF Job, NoCall
    <3>4. LastNode' = s.last BY <2>5, <3>1 DEF LastNode, NoCall
    <3>5. EndFound' = FALSE BY <2>5, <3>1 DEF EndFound, NoCall
    <3> QED BY <3>2, <3>3, <3>4, <3>5
  <2>14. Job = Search!NoJob \/ (Job.sliced /\ j.sliced)
    <3>1. CASE Searching
      <4>1. Job = QueryJob BY <1>1, <3>1, QueryRunning DEF Searching, Running
      <4> QED BY <2>2, <4>1 DEF QueryJob
    <3>2. CASE ~Searching BY <3>2, IdleIs
    <3> QED BY <3>1, <3>2
  <2>15. Search!Begin(j.start, j.end, j.filter, j.sliced)
    BY <1>1, <1>3, <2>1, <2>2, <2>4, <2>13, <2>14, Begins
  <2>16. Search!SearchNext BY <2>2, <2>15 DEF Search!SearchNext
  <2> QED BY <2>11, <2>16 DEF Moves
<1> QED BY <1>2, <1>3

(* What a slice leaves in the query.                                       *)
LEMMA SearchedIs ==
    ASSUME call' = NoCall, QueryRuns, NEW s, NEW code \in {"IN_PROGRESS", "SUCCESS"},
           Searched(s, code)
    PROVE  /\ pool' = s.pool /\ heap' = s.heap
           /\ query' = [status |-> query'.status, start |-> query'.start,
                        end |-> query'.end, filter |-> query'.filter,
                        last |-> query'.last, lastCost |-> query'.lastCost,
                        full |-> query'.full]
           /\ query'.status.code = code /\ query'.status.details = Details(query'.full)
           /\ query'.start = query.start /\ query'.end = query.end
           /\ query'.last = s.last /\ query'.lastCost = s.lastCost /\ query'.full = s.full
           /\ QueryJob' = QueryJob /\ QueryJob.end = query.end
           /\ Searching' /\ Job' = QueryJob /\ LastNode' = s.last
           /\ EndFound' = (code = "SUCCESS" /\ s.pool.nodes[s.last].id = query.end)
           /\ QueryFound' = EndFound'
<1>1. query = [status |-> query.status, start |-> query.start, end |-> query.end,
               filter |-> query.filter, last |-> query.last,
               lastCost |-> query.lastCost, full |-> query.full]
  BY DEF QueryRuns
<1>2. query' = [query EXCEPT !.status = Status(code, Details(s.full)),
                             !.last = s.last, !.lastCost = s.lastCost, !.full = s.full]
      /\ pool' = s.pool /\ heap' = s.heap
  BY DEF Searched
<1>3. query' = [status |-> Status(code, Details(s.full)), start |-> query.start,
                end |-> query.end, filter |-> query.filter, last |-> s.last,
                lastCost |-> s.lastCost, full |-> s.full]
  BY <1>1, <1>2
<1>4. /\ query'.status = Status(code, Details(s.full))
      /\ query'.start = query.start /\ query'.end = query.end
      /\ query'.filter = query.filter /\ query'.last = s.last
      /\ query'.lastCost = s.lastCost /\ query'.full = s.full
  BY <1>3
<1>5. query'.status.code = code /\ query'.status.details = Details(query'.full)
  BY <1>4 DEF Status
<1>6. QueryJob' = QueryJob /\ QueryJob.end = query.end BY <1>4 DEF QueryJob
<1>7. SliceUnderWay' BY <1>4, <1>5, QueryRunsIs DEF SliceUnderWay
<1>8. Searching' BY <1>7 DEF Searching
<1>9. Job' = QueryJob BY <1>6, <1>7 DEF Job, NoCall
<1>10. LastNode' = s.last BY <1>4 DEF LastNode, NoCall
<1>11. EndFound' = (code = "SUCCESS" /\ s.pool.nodes[s.last].id = query.end)
  BY <1>2, <1>4, <1>5, <1>7 DEF EndFound, NoCall
<1>12. QueryFound' = EndFound'
  BY <1>2, <1>4, <1>5, <1>11 DEF QueryFound
<1> QED BY <1>2, <1>3, <1>4, <1>5, <1>6, <1>8, <1>9, <1>10, <1>11, <1>12

(* A slice settles the best entry, reaches the end, or gives the search    *)
(* up.                                                                     *)
LEMMA UpdateMoves ==
    ASSUME StateOK, Search!NoRing, UpdateSlicedFindPath
    PROVE  Moves
<1>1. /\ call = NoCall /\ query.status.code = "IN_PROGRESS"
      /\ mesh' = mesh /\ gone' = gone /\ call' = NoCall
      /\ mesh \in Meshes /\ PoolInv(mesh, pool) /\ OpenList(pool, heap, Opens(pool))
  BY DEF UpdateSlicedFindPath, StateOK, NodesInv
<1>2. QueryRuns /\ SliceUnderWay
  <2>1. ~QueryIdle BY <1>1 DEF QueryIdle
  <2> QED BY <2>1, QueryRunsIs DEF StateOK
<1>3. /\ Running(QueryJob, query, FALSE) /\ heap # EmptyQueue /\ EndFound = FALSE
      /\ QueryJob.sliced = TRUE /\ QueryJob.end = query.end
  <2>1. Running(QueryJob, query, QueryFound) BY <1>1, <1>2, QueryRunning
  <2>2. QueryFound = FALSE BY <1>1 DEF QueryFound
  <2>3. heap # EmptyQueue BY <1>1, <1>2 DEF QueryRuns
  <2> QED BY <2>1, <2>2, <2>3 DEF Running, QueryJob
<1>4. Expanding(QueryJob, query) BY <1>3, RunningExpands
<1>5. PopBest(Locals(query)) = [pool |-> Popped, heap |-> Pop(pool, heap),
                                last |-> query.last, lastCost |-> query.lastCost,
                                full |-> query.full]
  BY <1>4, PopBestIs
<1>6. ASSUME query' = [query EXCEPT !.status = Status("FAILURE", {})],
             PoolInv(mesh, pool'), OpenList(pool', heap', Opens(pool')),
             pool'.max = pool.max
      PROVE  Moves
  <2>1. query'.status.code = "FAILURE" BY <1>2, <1>6 DEF QueryRuns, Status
  <2>2. QueryIdle' /\ ~Searching'
    BY <1>1, <2>1 DEF QueryIdle, Searching, SliceUnderWay, NoCall
  <2>3. StateOK' BY <1>1, <1>6, <2>2 DEF StateOK, NodesInv, NoCall
  <2>4. Search!End BY <1>1, <1>3, <1>6, <2>2, Ends
  <2> QED BY <2>3, <2>4 DEF Moves, Search!SearchNext
<1>7. CASE /\ query' = [query EXCEPT !.status = Status("FAILURE", {})]
           /\ UNCHANGED <<pool, heap>>
  BY <1>1, <1>6, <1>7
<1>8. CASE /\ BestId = query.end
           /\ Searched([PopBest(Locals(query)) EXCEPT !.last = Top(heap)], "SUCCESS")
  <2> DEFINE s == [PopBest(Locals(query)) EXCEPT !.last = Top(heap)]
  <2>1. s.pool = Popped /\ s.heap = Pop(pool, heap) /\ s.last = Best
    BY <1>5 DEF Best
  <2>2. Searched(s, "SUCCESS") BY <1>8
  <2> HIDE DEF s
  <2>3. PoolInv(mesh, s.pool) /\ OpenList(s.pool, s.heap, Opens(s.pool))
        /\ SearchOK(mesh, gone, QueryJob, s.pool, s, TRUE)
    BY <1>3, <1>4, <1>8, <2>1, ReachedEnd
  <2>4. s.pool.nodes[s.last].id = query.end
    BY <1>3, <2>3 DEF SearchOK
  <2>5. /\ pool' = s.pool /\ heap' = s.heap
        /\ query' = [status |-> query'.status, start |-> query'.start,
                     end |-> query'.end, filter |-> query'.filter,
                     last |-> query'.last, lastCost |-> query'.lastCost,
                     full |-> query'.full]
        /\ query'.status.code = "SUCCESS" /\ query'.status.details = Details(query'.full)
        /\ query'.start = query.start /\ query'.end = query.end
        /\ query'.last = s.last /\ query'.lastCost = s.lastCost /\ query'.full = s.full
        /\ QueryJob' = QueryJob
        /\ Searching' /\ Job' = QueryJob /\ LastNode' = s.last
        /\ EndFound' = TRUE /\ QueryFound' = TRUE
    BY <1>1, <1>2, <2>2, <2>4, SearchedIs
  <2>6. SearchOK(mesh, gone, QueryJob, pool', query', TRUE)
    BY <2>3, <2>5, SameLocals
  <2>7. QueryRuns' BY <1>1, <2>5, <2>6 DEF QueryRuns
  <2>8. NodesInv' BY <1>1, <2>3, <2>5 DEF NodesInv
  <2>9. StateOK' BY <1>1, <2>7, <2>8 DEF StateOK, NoCall
  <2>10. Search!Reach(BestKey)
    BY <1>1, <1>3, <1>4, <1>8, <2>1, <2>5, Reaches
  <2>11. BestKey \in OpenNodes BY <1>4, LeastBest
  <2> QED BY <2>9, <2>10, <2>11 DEF Moves, Search!SearchNext
<1>9. CASE /\ pool' = PopBest(Locals(query)).pool /\ heap' = PopBest(Locals(query)).heap
           /\ query' = [query EXCEPT !.status = Status("FAILURE", {})]
  <2>1. pool' = Popped /\ heap' = Pop(pool, heap) BY <1>5, <1>9
  <2>2. PoolInv(mesh, Popped) /\ Popped.max = pool.max
        /\ OpenList(Popped, Pop(pool, heap), Opens(Popped))
    BY <1>4, PoppedIs, OpensPopped
  <2> QED BY <1>6, <1>9, <2>1, <2>2
<1>10. CASE BestId # query.end /\
            LET s == IF heap = EmptyQueue THEN Locals(query)
                     ELSE Expand(QueryJob, Locals(query))
            IN  Searched(s, IF s.heap = EmptyQueue THEN "SUCCESS" ELSE "IN_PROGRESS")
  <2> DEFINE s == Expand(QueryJob, Locals(query))
             code == IF s.heap = EmptyQueue THEN "SUCCESS" ELSE "IN_PROGRESS"
  <2>1. Searched(s, code) BY <1>3, <1>10
  <2>2. PoolInv(mesh, s.pool) /\ OpenList(s.pool, s.heap, Opens(s.pool))
        /\ SearchOK(mesh, gone, QueryJob, s.pool, s, FALSE)
    BY <1>3, <1>4, <1>10, Expanded
  <2>3. code \in {"IN_PROGRESS", "SUCCESS"} /\ (code = "SUCCESS" <=> s.heap = EmptyQueue)
    OBVIOUS
  <2> HIDE DEF code
  <2>4. ~(code = "SUCCESS" /\ s.pool.nodes[s.last].id = query.end)
    <3> SUFFICES ASSUME s.heap = EmptyQueue, s.pool.nodes[s.last].id = query.end
                 PROVE  FALSE
      BY <2>3
    <3>1. s.last \in Numbers(s.pool) /\ s.pool.nodes[s.last].flags = {"OPEN"}
      BY <1>3, <2>2 DEF SearchOK
    <3>2. s.last \in Opens(s.pool) BY <3>1 DEF Opens
    <3>3. Range(s.heap) = Opens(s.pool) BY <2>2, OpenListIs
    <3> QED BY <3>2, <3>3, EmptyQueueIs
  <2> HIDE DEF s
  <2>5. /\ pool' = s.pool /\ heap' = s.heap
        /\ query' = [status |-> query'.status, start |-> query'.start,
                     end |-> query'.end, filter |-> query'.filter,
                     last |-> query'.last, lastCost |-> query'.lastCost,
                     full |-> query'.full]
        /\ query'.status.code = code /\ query'.status.details = Details(query'.full)
        /\ query'.start = query.start /\ query'.end = query.end
        /\ query'.last = s.last /\ query'.lastCost = s.lastCost /\ query'.full = s.full
        /\ QueryJob' = QueryJob
        /\ Searching' /\ Job' = QueryJob /\ LastNode' = s.last
        /\ EndFound' = FALSE /\ QueryFound' = FALSE
    BY <1>1, <1>2, <2>1, <2>3, <2>4, SearchedIs
  <2>6. SearchOK(mesh, gone, QueryJob, pool', query', FALSE)
    BY <2>2, <2>5, SameLocals
  <2>7. QueryRuns' BY <1>1, <2>3, <2>5, <2>6 DEF QueryRuns
  <2>8. NodesInv' BY <1>1, <2>2, <2>5 DEF NodesInv
  <2>9. StateOK' BY <1>1, <2>7, <2>8 DEF StateOK, NoCall
  <2>10. Search!Settle(BestKey)
    BY <1>1, <1>3, <1>4, <1>10, <2>5, Settles DEF s
  <2>11. BestKey \in OpenNodes BY <1>4, LeastBest
  <2> QED BY <2>9, <2>10, <2>11 DEF Moves, Search!SearchNext
<1> QED BY <1>3, <1>7, <1>8, <1>9, <1>10 DEF UpdateSlicedFindPath

(* The parents of the nodes form no ring, since the search's do not.       *)
LEMMA NodesAcyclic ==
    ASSUME mesh \in Meshes, PoolInv(mesh, pool), Searching, Search!NoRing
    PROVE  Acyclic(pool.nodes)
<1>1. /\ Len(pool.nodes) \in Nat
      /\ \A i \in 1..Len(pool.nodes) : pool.nodes[i].pidx \in 0..Len(pool.nodes)
  BY NodeIs DEF Numbers
<1>2. ASSUME NEW ring \in SUBSET (1..Len(pool.nodes)),
             \A k \in ring : pool.nodes[k].pidx \in ring
      PROVE  ring = {}
  <2> DEFINE keys == {KeyOf(pool, i) : i \in ring}
  <2>1. \A i \in ring : i \in Numbers(pool) /\ pool.nodes[i].pidx # 0
    BY <1>2 DEF Numbers
  <2>2. keys \in SUBSET DOMAIN Entries BY <2>1, EntriesAre
  <2>3. ASSUME NEW i \in ring
        PROVE  Entries[KeyOf(pool, i)].parent = KeyOf(pool, pool.nodes[i].pidx)
    <3>1. Entries[KeyOf(pool, i)] = EntryOf(pool, i) BY <2>1, EntriesAre
    <3> QED BY <2>1, <3>1 DEF EntryOf
  <2>4. ASSUME NEW k \in keys PROVE Entries[k].parent \in keys
    <3>1. PICK i \in ring : k = KeyOf(pool, i) OBVIOUS
    <3>2. Entries[k].parent = KeyOf(pool, pool.nodes[i].pidx) BY <2>3, <3>1
    <3>3. pool.nodes[i].pidx \in ring BY <1>2
    <3> QED BY <3>2, <3>3
  <2> HIDE DEF keys
  <2>5. keys = {} BY <2>2, <2>4 DEF Search!NoRing
  <2> QED BY <2>5 DEF keys
<1> QED BY <1>1, <1>2 DEF Acyclic

(* The furthest polygon visited has a node, or there is none.              *)
LEMMA FurthestIn ==
    ASSUME mesh \in Meshes, PoolInv(mesh, pool), NEW existing \in Existing
    PROVE  Furthest(existing) \in 0..Len(pool.nodes)
<1>1. PICK a \in DOMAIN mesh.spot, b \in DOMAIN mesh.spot : existing = <<a, b>>
  BY DEF Existing
<1>2. Len(pool.nodes) \in Nat BY NodeIs
<1>3. \A k \in 1..2 : FindNodes(pool, existing[k], 1) \in Seq(1..Len(pool.nodes))
  <2> TAKE k \in 1..2
  <2>1. existing[k] \in DOMAIN mesh.spot BY <1>1
  <2>2. HashRef(existing[k]) \in Nat BY <2>1, PolysAssumption
  <2>3. PoolOK(pool, Polys(mesh), Places(mesh)) BY DEF PoolInv
  <2> QED BY <2>2, <2>3, FindNodesIn
<1> DEFINE seen == {k \in 1..Len(existing) : FindNodes(pool, existing[k], 1) # <<>>}
<1>4. seen \subseteq 1..2 BY <1>1
<1>5. CASE seen = {} BY <1>2, <1>5 DEF Furthest
<1>6. CASE seen # {}
  <2>1. \E x \in seen : \A y \in seen : x >= y
    <3>1. CASE 2 \in seen
      <4> HIDE DEF seen
      <4> QED BY <1>4, <3>1
    <3>2. CASE 2 \notin seen
      <4> HIDE DEF seen
      <4>1. \A x \in seen : x = 1 BY <1>4, <3>2
      <4>2. 1 \in seen BY <1>6, <4>1
      <4> QED BY <4>1, <4>2
    <3> HIDE DEF seen
    <3> QED BY <3>1, <3>2
  <2>2. Max(seen) \in seen BY <2>1 DEF Max
  <2>3. FindNodes(pool, existing[Max(seen)], 1) # <<>> BY <2>2
  <2>4. FindNodes(pool, existing[Max(seen)], 1) \in Seq(1..Len(pool.nodes))
    BY <1>3, <1>4, <2>2
  <2>5. Furthest(existing) = Head(FindNodes(pool, existing[Max(seen)], 1))
    BY <1>6 DEF Furthest
  <2> HIDE DEF seen
  <2> DEFINE fs == FindNodes(pool, existing[Max(seen)], 1)
             S == 1..Len(pool.nodes)
  <2>6. Head(fs) \in S
    <3>1. fs # <<>> /\ fs \in Seq(S) BY <2>3, <2>4
    <3> HIDE DEF fs, S
    <3> QED BY <3>1
  <2> QED BY <1>2, <2>5, <2>6
<1> QED BY <1>5, <1>6

(* Turning the parents along a trail round leaves a pool a pool.           *)
Turned(p, trail) == [p EXCEPT !.nodes = Reversed(p.nodes, trail)]

NodesKept(m, p, h, q) ==
    PoolInv(m, q) /\ OpenList(q, h, Opens(q)) /\ q.max = p.max

(* Neither the ids nor the flags change, so the heap stays in order too.   *)
LEMMA ReversedOK ==
    ASSUME NEW m, NEW p, NEW h, PoolInv(m, p), OpenList(p, h, Opens(p)),
           NEW trail \in Seq(1..Len(p.nodes))
    PROVE  NodesKept(m, p, h, Turned(p, trail))
<1> DEFINE L == Len(p.nodes)
           N == NodeSet(Polys(m), Places(m))
           to(i) == LET k == CHOOSE k \in 1..Len(trail) : trail[k] = i
                    IN  IF k = Len(trail) THEN 0 ELSE trail[k + 1]
           ns == Reversed(p.nodes, trail)
           q == Turned(p, trail)
<1>1. /\ L \in Nat /\ p.nodes \in Seq(N)
      /\ \A i \in 1..L : p.nodes[i] \in N /\ p.nodes[i].pidx \in 0..L
  BY NodeIs DEF Numbers
<1>2. ASSUME NEW i \in Range(trail) PROVE to(i) \in 0..L
  <2> DEFINE k == CHOOSE k \in 1..Len(trail) : trail[k] = i
  <2>1. \E b \in 1..Len(trail) : trail[b] = i
    <3>1. \E b \in DOMAIN trail : trail[b] = i BY DEF Range
    <3>2. DOMAIN trail = 1..Len(trail) OBVIOUS
    <3> QED BY <3>1, <3>2
  <2>2. k \in 1..Len(trail) BY <2>1
  <2> HIDE DEF k
  <2>3. CASE k = Len(trail) BY <1>1, <2>3 DEF k
  <2>4. CASE k # Len(trail)
    <3>1. k + 1 \in 1..Len(trail) BY <2>2, <2>4
    <3>2. trail[k + 1] \in 1..L BY <3>1
    <3>3. to(i) = trail[k + 1] BY <2>4 DEF k
    <3> HIDE DEF to
    <3> QED BY <1>1, <3>2, <3>3
  <2> QED BY <2>3, <2>4
<1>3. /\ ns = [i \in 1..L |-> IF i \notin Range(trail) THEN p.nodes[i]
                              ELSE [p.nodes[i] EXCEPT !.pidx = to(i)]]
  BY DEF Reversed
<1> HIDE DEF to, ns
<1>4. \A i \in 1..L : /\ ns[i] \in N
                      /\ ns[i].id = p.nodes[i].id /\ ns[i].state = p.nodes[i].state
                      /\ ns[i].total = p.nodes[i].total /\ ns[i].flags = p.nodes[i].flags
                      /\ ns[i].pidx \in 0..L
  <2> TAKE i \in 1..L
  <2>1. CASE i \notin Range(trail) BY <1>1, <1>3, <2>1
  <2>2. CASE i \in Range(trail)
    <3>1. ns[i] = [p.nodes[i] EXCEPT !.pidx = to(i)] BY <1>3, <2>2
    <3>2. to(i) \in 0..L /\ to(i) \in Nat BY <1>1, <1>2, <2>2
    <3>3. p.nodes[i] \in N BY <1>1
    <3> HIDE DEF L
    <3> QED BY <3>1, <3>2, <3>3 DEF NodeSet
  <2> QED BY <2>1, <2>2
<1>5. ns \in Seq(N) /\ Len(ns) = L
  <2>1. ns \in [1..L -> N] BY <1>3, <1>4
  <2>2. L \in Nat BY <1>1
  <2> HIDE DEF N, L
  <2> QED BY <2>1, <2>2
<1>6. q = [p EXCEPT !.nodes = ns] BY DEF ns, Turned
<1> HIDE DEF q
<1>7. PoolTyped(p, Polys(m), Places(m)) /\ PoolOK(p, Polys(m), Places(m))
  BY DEF PoolInv, PoolOK
<1>8. q.nodes = ns /\ q.max = p.max BY <1>6, <1>7 DEF PoolTyped
<1>9. PoolOK(q, Polys(m), Places(m))
  <2>1. \A i \in 1..Len(ns) : ns[i].id = p.nodes[i].id /\ ns[i].state = p.nodes[i].state
    BY <1>4, <1>5
  <2> QED BY <1>5, <1>6, <1>7, <2>1, NodesChange
<1>10. PoolInv(m, q)
  <2>1. \A i \in Numbers(q) : /\ q.nodes[i].state \in 0..3
                              /\ q.nodes[i].pidx \in 0..Len(q.nodes)
                              /\ q.nodes[i].flags \in {{"OPEN"}, {"CLOSED"}}
    <3>1. \A i \in 1..L : p.nodes[i].state \in 0..3 /\ p.nodes[i].flags \in {{"OPEN"}, {"CLOSED"}}
      BY NodeIs DEF Numbers
    <3>2. Numbers(q) = 1..L /\ Len(q.nodes) = L BY <1>5, <1>8 DEF Numbers
    <3> HIDE DEF L
    <3> QED BY <1>4, <1>8, <3>1, <3>2
  <2> QED BY <1>8, <1>9, <2>1 DEF PoolInv
<1>11. Opens(q) = Opens(p) BY <1>4, <1>5, <1>8 DEF Opens, Numbers
<1>12. OpenList(q, h, Opens(p))
  <2>1. \A i \in Opens(p) : TotalOf(q, i) = TotalOf(p, i)
    BY <1>4, <1>8 DEF Opens, Numbers, TotalOf
  <2> QED BY <2>1, OpenListSame
<1> QED BY <1>8, <1>10, <1>11, <1>12 DEF NodesKept, q

(* Finalizing a search ends it.                                            *)
LEMMA FinalizedMoves ==
    ASSUME StateOK, Search!NoRing, call = NoCall, SliceUnderWay,
           NEW op, NEW i \in Numbers(pool), NEW partial, NEW n, Finalized(op, i, partial, n),
           query' = NoQuery, UNCHANGED <<mesh, gone, heap, call>>
    PROVE  Moves
<1>1. /\ mesh' = mesh /\ gone' = gone /\ heap' = heap /\ call' = NoCall
      /\ mesh \in Meshes /\ PoolInv(mesh, pool) /\ OpenList(pool, heap, Opens(pool))
  BY DEF StateOK, NodesInv
<1>2. Running(QueryJob, query, QueryFound) /\ Searching BY QueryRunning DEF Running
<1>3. Acyclic(pool.nodes) BY <1>1, <1>2, NodesAcyclic
<1>4. Trail(pool.nodes, i) \in Seq(1..Len(pool.nodes))
  BY <1>3, TrailOK DEF TrailTo, Numbers
<1>5. pool' = [pool EXCEPT !.nodes = Reversed(@, Trail(pool.nodes, i))]
  BY DEF Finalized
<1>6. PoolInv(mesh, pool') /\ OpenList(pool', heap, Opens(pool')) /\ pool'.max = pool.max
  <2>1. pool' = Turned(pool, Trail(pool.nodes, i)) BY <1>5 DEF Turned
  <2>2. NodesKept(mesh, pool, heap, Turned(pool, Trail(pool.nodes, i)))
    BY <1>1, <1>4, ReversedOK
  <2> QED BY <2>1, <2>2 DEF NodesKept
<1>7. QueryIdle' /\ ~Searching'
  BY <1>1 DEF NoQuery, QueryIdle, Status, Searching, SliceUnderWay, NoCall
<1>8. StateOK' BY <1>1, <1>6, <1>7 DEF StateOK, NodesInv, NoCall
<1>9. QueryJob.sliced = TRUE BY DEF QueryJob
<1>10. Search!End BY <1>1, <1>2, <1>6, <1>7, <1>9, Ends
<1> QED BY <1>8, <1>10 DEF Moves, Search!SearchNext

(* Finalizing none changes nothing the search sees.                        *)
LEMMA UnfinalizedMoves ==
    ASSUME StateOK, call = NoCall, ~SliceUnderWay, pool' = pool,
           query' = NoQuery, UNCHANGED <<mesh, gone, heap, call>>
    PROVE  Moves
<1>1. /\ mesh' = mesh /\ gone' = gone /\ heap' = heap /\ call' = NoCall
      /\ mesh \in Meshes /\ PoolInv(mesh, pool) /\ OpenList(pool, heap, Opens(pool))
  BY DEF StateOK, NodesInv
<1>2. QueryIdle' /\ ~Searching' /\ ~Searching
  BY <1>1 DEF NoQuery, QueryIdle, Status, Searching, SliceUnderWay, NoCall
<1>3. StateOK' BY <1>1, <1>2 DEF StateOK, NodesInv, NoCall
<1>4. UNCHANGED Search!searchVars BY <1>1, <1>2, Unmoved
<1> QED BY <1>3, <1>4 DEF Moves

(* finalizeSlicedFindPath ends the search, if there is one,                *)
LEMMA FinalizeMoves ==
    ASSUME StateOK, Search!NoRing, NEW n \in PathSizes, FinalizeSlicedFindPath(n)
    PROVE  Moves
<1>1. call = NoCall /\ query' = NoQuery /\ UNCHANGED <<mesh, gone, heap, call>>
  BY DEF FinalizeSlicedFindPath
<1>2. CASE Failed("sliced", n)
  <2>1. ~SliceUnderWay /\ pool' = pool BY <1>2 DEF Failed, SliceUnderWay
  <2> QED BY <1>1, <2>1, UnfinalizedMoves
<1>3. CASE SamePoly("sliced", n)
  <2>1. ~SliceUnderWay /\ pool' = pool BY <1>3 DEF SamePoly, SliceUnderWay
  <2> QED BY <1>1, <2>1, UnfinalizedMoves
<1>4. CASE /\ SliceUnderWay
           /\ Finalized("sliced", query.last, pool.nodes[query.last].id # query.end, n)
  <2>1. query.last \in Numbers(pool) BY <1>1, <1>4, QueryRunning DEF Running, SearchOK
  <2> QED BY <1>1, <1>4, <2>1, FinalizedMoves
<1> QED BY <1>2, <1>3, <1>4 DEF FinalizeSlicedFindPath

(* and so does finalizeSlicedFindPathPartial.                              *)
LEMMA FinalizePartialMoves ==
    ASSUME StateOK, Search!NoRing, NEW n \in PathSizes, NEW e \in Existing,
           FinalizeSlicedFindPathPartial(e, n)
    PROVE  Moves
<1>1. call = NoCall /\ query' = NoQuery /\ UNCHANGED <<mesh, gone, heap, call>>
  BY DEF FinalizeSlicedFindPathPartial
<1>2. CASE Failed("partial", n)
  <2>1. ~SliceUnderWay /\ pool' = pool BY <1>2 DEF Failed, SliceUnderWay
  <2> QED BY <1>1, <2>1, UnfinalizedMoves
<1>3. CASE SamePoly("partial", n)
  <2>1. ~SliceUnderWay /\ pool' = pool BY <1>3 DEF SamePoly, SliceUnderWay
  <2> QED BY <1>1, <2>1, UnfinalizedMoves
<1>4. CASE /\ SliceUnderWay
           /\ LET i == Furthest(e)
              IN  Finalized("partial", IF i # 0 THEN i ELSE query.last, i = 0, n)
  <2> DEFINE i == IF Furthest(e) # 0 THEN Furthest(e) ELSE query.last
  <2>1. query.last \in Numbers(pool) BY <1>1, <1>4, QueryRunning DEF Running, SearchOK
  <2>2. Furthest(e) \in 0..Len(pool.nodes) BY FurthestIn DEF StateOK, NodesInv
  <2>3. i \in Numbers(pool)
    <3>1. Len(pool.nodes) \in Nat BY NodeIs DEF StateOK, NodesInv
    <3> QED BY <2>1, <2>2, <3>1 DEF Numbers
  <2>4. Finalized("partial", i, Furthest(e) = 0, n) BY <1>4
  <2> HIDE DEF i
  <2> QED BY <1>1, <1>4, <2>3, <2>4, FinalizedMoves
<1> QED BY <1>2, <1>3, <1>4 DEF FinalizeSlicedFindPathPartial

(* A tile that goes is lost to the search.                                 *)
LEMMA RemoveTileMoves ==
    ASSUME StateOK, NEW t \in Range(mesh.tile), RemoveTile(t)
    PROVE  Moves
<1>1. /\ call = NoCall /\ call' = call /\ mesh' = mesh /\ gone' = gone \cup {t}
      /\ pool' = pool /\ heap' = heap /\ query' = query
  BY DEF RemoveTile
<1>2. NodesInv' BY <1>1 DEF StateOK, NodesInv
<1>3. QueryIdle => QueryIdle' BY <1>1 DEF QueryIdle
<1>4. ASSUME QueryRuns PROVE QueryRuns'
  <2>1. QueryJob' = QueryJob /\ QueryFound' = QueryFound
    BY <1>1 DEF QueryJob, QueryFound
  <2>2. WaysTaken(mesh, gone, QueryJob, pool) => WaysTaken(mesh', gone', QueryJob', pool')
    BY <1>1, <2>1 DEF WaysTaken, IsLeft
  <2>3. SearchOK(mesh, gone, QueryJob, pool, query, QueryFound)
          => SearchOK(mesh', gone', QueryJob', pool', query', QueryFound')
    <3> HIDE DEF QueryJob, QueryFound, WaysTaken
    <3> QED BY <1>1, <2>1, <2>2 DEF SearchOK
  <2> QED BY <1>1, <1>4, <2>1, <2>3 DEF QueryRuns
<1>5. StateOK' BY <1>1, <1>2, <1>3, <1>4 DEF StateOK, NoCall
<1>6. UNCHANGED <<pool, heap, query, call, mesh>> BY <1>1
<1>7. /\ Job' = Job /\ Entries' = Entries /\ OpenNodes' = OpenNodes
      /\ NearNode' = NearNode /\ EndFound' = EndFound
  <2>1. Searching' = Searching BY <1>6 DEF Searching, SliceUnderWay
  <2>2. Job' = Job BY <1>6 DEF Job, SliceUnderWay, QueryJob
  <2>3. Nodes' = Nodes BY <1>6, <2>1 DEF Nodes
  <2>4. Entries' = Entries BY <1>6, <2>3 DEF Entries, NodeOf
  <2>5. OpenNodes' = OpenNodes BY <1>6, <2>1 DEF OpenNodes, NodeOf
  <2>6. NearNode' = NearNode BY <1>6, <2>1 DEF NearNode, NodeOf, LastNode
  <2>7. EndFound' = EndFound BY <1>6 DEF EndFound, SliceUnderWay
  <2> QED BY <2>2, <2>4, <2>5, <2>6, <2>7
<1>8. Job = Search!NoJob \/ Job.sliced
  <2>1. CASE Searching
    <3>1. Job = QueryJob BY <1>1, <2>1, QueryRunning DEF Running, Searching
    <3>2. QueryJob.sliced = TRUE BY DEF QueryJob
    <3> QED BY <3>1, <3>2
  <2>2. CASE ~Searching BY <2>2, IdleIs
  <2> QED BY <2>1, <2>2
<1>9. Search!LoseTile(t) BY <1>1, <1>7, <1>8 DEF Search!LoseTile
<1>10. t \in Search!Range(mesh.tile) BY DEF Range, Search!Range
<1> QED BY <1>5, <1>9, <1>10 DEF Moves, Search!SearchNext

(* Nothing changes when nothing does.                                      *)
LEMMA StutterMoves ==
    ASSUME StateOK, UNCHANGED vars
    PROVE  Moves
<1>1. UNCHANGED <<mesh, gone, pool, heap, query, call>> BY DEF vars
<1>2. StateOK'
  <2>1. NodesInv' = NodesInv BY <1>1 DEF NodesInv
  <2>2. CallRuns' = CallRuns BY <1>1 DEF CallRuns
  <2>3. QueryRuns' = QueryRuns BY <1>1 DEF QueryRuns, QueryJob, QueryFound
  <2>4. QueryIdle' = QueryIdle BY <1>1 DEF QueryIdle
  <2> QED BY <1>1, <2>1, <2>2, <2>3, <2>4 DEF StateOK, NoCall
<1>3. UNCHANGED Search!searchVars
  <2>1. Searching' = Searching BY <1>1 DEF Searching, SliceUnderWay
  <2>2. Job' = Job BY <1>1 DEF Job, SliceUnderWay, QueryJob
  <2>3. Nodes' = Nodes BY <1>1, <2>1 DEF Nodes
  <2>4. Entries' = Entries BY <1>1, <2>3 DEF Entries, NodeOf
  <2>5. OpenNodes' = OpenNodes BY <1>1, <2>1 DEF OpenNodes, NodeOf
  <2>6. NearNode' = NearNode BY <1>1, <2>1 DEF NearNode, NodeOf, LastNode
  <2>7. EndFound' = EndFound BY <1>1 DEF EndFound, SliceUnderWay
  <2> QED BY <1>1, <2>2, <2>4, <2>5, <2>6, <2>7 DEF Search!searchVars
<1> QED BY <1>2, <1>3 DEF Moves

(* Every step of the program is a step of the search, or none of it.       *)
LEMMA StepMoves ==
    ASSUME StateOK, Search!NoRing, [Next]_vars
    PROVE  Moves
<1>1. ASSUME NEW n \in PoolSizes, InitQuery(n) PROVE Moves BY <1>1, InitQueryMoves
<1>2. ASSUME NEW p \in DOMAIN mesh.spot, NEW q \in DOMAIN mesh.spot, NEW f \in Filters,
             NEW n \in PathSizes, FindPath(p, q, f, n)
      PROVE  Moves
  BY <1>2, FindPathMoves
<1>3. CASE FindPathStep BY <1>3, FindPathStepMoves
<1>4. CASE FindPathReturns BY <1>4, FindPathReturnsMoves
<1>5. ASSUME NEW p \in DOMAIN mesh.spot, NEW q \in DOMAIN mesh.spot, NEW f \in Filters,
             InitSlicedFindPath(p, q, f)
      PROVE  Moves
  BY <1>5, InitSlicedMoves
<1>6. CASE UpdateSlicedFindPath BY <1>6, UpdateMoves
<1>7. ASSUME NEW n \in PathSizes, FinalizeSlicedFindPath(n) PROVE Moves
  BY <1>7, FinalizeMoves
<1>8. ASSUME NEW e \in Existing, NEW n \in PathSizes, FinalizeSlicedFindPathPartial(e, n)
      PROVE  Moves
  BY <1>8, FinalizePartialMoves
<1>9. ASSUME NEW t \in Range(mesh.tile), RemoveTile(t) PROVE Moves
  BY <1>9, RemoveTileMoves
<1>10. CASE UNCHANGED vars BY <1>10, StutterMoves
<1> QED BY <1>1, <1>2, <1>3, <1>4, <1>5, <1>6, <1>7, <1>8, <1>9, <1>10 DEF Next

-------------------------------------------------------------------------------
(* The parents of what NavSearch describes lead back to its start          *)
(* An entry that is improved keeps its position and what is left from it,  *)
(* so that its cost falls with its total: costs never rise.  And a parent  *)
(* given to an entry costs less than the entry did, as do all ancestors of *)
(* that parent: none of them can be the entry, nor be improved at the same *)
(* time.                                                                   *)

(* What is assumed of the meshes, as NavSearch names it.                   *)
LEMMA SearchMesh ==
    ASSUME NEW m \in Meshes
    PROVE  /\ \A p \in Search!Polys(m) : \A l \in Search!Range(m.links[p]) :
                 l.to \in Search!Polys(m) /\ <<p, l.to>> \in DOMAIN m.mid
           /\ \A a, b \in Search!Points(m) : Distance(a, b) \in Nat
           /\ \A filter \in Filters, p \in Search!Polys(m) :
                 filter.cost[m.area[p]] \in Nat
BY MeshAssumption
   DEF Search!Polys, Polys, Search!Points, Points, Search!Range, Range

(* What lies between two points of a mesh costs nothing less than nothing. *)
LEMMA SearchCosts ==
    ASSUME NEW m \in Meshes, NEW filter \in Filters, NEW p \in Search!Polys(m),
           NEW a \in Search!Points(m), NEW b \in Search!Points(m)
    PROVE  /\ Search!GetCost(filter, m, a, b, p) \in Nat
           /\ Search!Heuristic(a, b) \in Nat
<1>1. Distance(a, b) \in Nat BY SearchMesh
<1>2. filter.cost[m.area[p]] \in Nat BY SearchMesh
<1>3. \A x, y \in Nat : x * y \in Nat OBVIOUS
<1>4. Search!GetCost(filter, m, a, b, p) \in Nat BY <1>1, <1>2, <1>3 DEF Search!GetCost
<1>5. Search!Heuristic(a, b) \in Nat BY <1>1 DEF Search!Heuristic, Search!HScale
<1> QED BY <1>4, <1>5

(* Where one can start or end are points of the mesh.                      *)
LEMMA SearchSpots ==
    ASSUME NEW m \in Meshes, NEW p \in DOMAIN m.spot
    PROVE  m.spot[p] \in Search!Points(m)
BY DEF Search!Points, Search!Range

(* What an expansion leads to, and what it offers there.                   *)
LEMMA SearchOffers ==
    ASSUME Search!EntriesTyped, NEW n \in DOMAIN Entries, NEW k \in Search!Steps(n)
    PROVE  /\ k # Search!NoKey /\ k[1] \in Search!Polys(mesh)
           /\ Search!Candidate(n, k).parent = n
           /\ Search!Candidate(n, k).pos \in Search!Points(mesh)
           /\ k \in DOMAIN Entries => Search!Candidate(n, k).pos = Entries[k].pos
           /\ Search!Candidate(n, k).cost \in Nat
           /\ Search!Candidate(n, k).total
                = Search!Candidate(n, k).cost + Search!ToGo(k, Search!Candidate(n, k))
           /\ Search!ToGo(k, Search!Candidate(n, k)) \in Nat
           /\ Search!Candidate(n, k).cost >= Entries[n].cost
                + Search!GetCost(Job.filter, mesh, Entries[n].pos,
                          Search!Candidate(n, k).pos, n[1])
           /\ Search!Candidate(n, k).cost >= Entries[n].cost
<1>1. Job \in Search!Jobs(mesh) /\ mesh \in Meshes /\ n[1] \in Search!Polys(mesh)
  BY DEF Search!EntriesTyped
<1>2. PICK l \in Search!Range(mesh.links[n[1]]) : k = <<l.to, Search!StateOf(l)>>
  BY DEF Search!Steps
<1>3. l.to \in Search!Polys(mesh) /\ <<n[1], l.to>> \in DOMAIN mesh.mid
  BY <1>1, <1>2, SearchMesh
<1>4. k[1] = l.to /\ k # Search!NoKey
  BY <1>2 DEF Search!NoKey
<1>5. Search!PositionFrom(n, k) \in Search!Points(mesh)
  <2>1. CASE k \in DOMAIN Entries
    BY <2>1 DEF Search!PositionFrom, Search!EntriesTyped
  <2>2. CASE k \notin DOMAIN Entries
    BY <2>2, <1>3, <1>4 DEF Search!PositionFrom, Search!GetEdgeMidPoint, Search!Points, Search!Range
  <2> QED BY <2>1, <2>2
<1>6. Search!Goal(Job) \in Search!Points(mesh) /\ Job.filter \in Filters
  BY <1>1, SearchSpots DEF Search!Goal, Search!Jobs
<1>7. Entries[n].pos \in Search!Points(mesh) /\ Entries[n].cost \in Nat
  BY DEF Search!EntriesTyped
<1> DEFINE pos == Search!PositionFrom(n, k)
           way == Search!GetCost(Job.filter, mesh, Entries[n].pos, pos, n[1])
           rest == Search!GetCost(Job.filter, mesh, pos, Search!Goal(Job), k[1])
<1>8. way \in Nat /\ rest \in Nat /\ Search!Heuristic(pos, Search!Goal(Job)) \in Nat
  BY <1>1, <1>3, <1>4, <1>5, <1>6, <1>7, SearchCosts
<1>9. /\ Search!Candidate(n, k).parent = n
      /\ Search!Candidate(n, k).pos = pos
      /\ Search!Candidate(n, k).cost = Entries[n].cost + way + (IF k[1] = Job.end THEN rest ELSE 0)
      /\ Search!Candidate(n, k).total = Search!Candidate(n, k).cost
                     + (IF k[1] = Job.end THEN 0 ELSE Search!Heuristic(pos, Search!Goal(Job)))
  BY DEF Search!Candidate
<1>10. Search!ToGo(k, Search!Candidate(n, k))
         = IF k[1] = Job.end THEN 0 ELSE Search!Heuristic(pos, Search!Goal(Job))
  BY <1>9 DEF Search!ToGo
<1>11. k \in DOMAIN Entries => pos = Entries[k].pos
  BY DEF Search!PositionFrom
<1> HIDE DEF pos, way, rest
<1> QED
  BY <1>3, <1>4, <1>5, <1>7, <1>8, <1>9, <1>10, <1>11 DEF pos, way

(* An expansion raises no cost and moves no entry, and what it improves cost *)
(* more than the entry expanded.                                           *)
LEMMA SearchImproves ==
    ASSUME Search!EntriesTyped, NEW n \in DOMAIN Entries, NEW k \in Search!Steps(n),
           k \in DOMAIN Entries, Search!Improves(n, k)
    PROVE  /\ Search!Candidate(n, k).cost < Entries[k].cost
           /\ Entries[n].cost < Entries[k].cost
<1>1. Search!Candidate(n, k).total < Entries[k].total
  BY DEF Search!Improves
<1>2. /\ Search!Candidate(n, k).pos = Entries[k].pos
      /\ Search!Candidate(n, k).cost \in Nat
      /\ Search!Candidate(n, k).total
           = Search!Candidate(n, k).cost + Search!ToGo(k, Search!Candidate(n, k))
      /\ Search!ToGo(k, Search!Candidate(n, k)) \in Nat
      /\ Search!Candidate(n, k).cost >= Entries[n].cost
  BY SearchOffers
<1>3. Search!ToGo(k, Entries[k]) = Search!ToGo(k, Search!Candidate(n, k))
  BY <1>2 DEF Search!ToGo
<1>4. /\ Entries[k].total = Entries[k].cost + Search!ToGo(k, Entries[k])
      /\ Entries[k].cost \in Nat /\ Entries[n].cost \in Nat
  BY DEF Search!EntriesTyped
<1> QED BY <1>1, <1>2, <1>3, <1>4

(* With no search there is nothing to order.                               *)
LEMMA SearchInits == Search!SearchInit => Search!IInv
<1> SUFFICES ASSUME Search!SearchInit PROVE Search!IInv
  OBVIOUS
<1>1. mesh \in Meshes /\ DOMAIN Entries = {} /\ OpenNodes = {}
  BY DEF Search!SearchInit, Search!NoEntry
<1>2. \A ring \in SUBSET {} : ring = {}
  OBVIOUS
<1> QED BY <1>1, <1>2 DEF Search!IInv, Search!EntriesTyped, Search!CostsGrow, Search!NoRing

(* A search begins with its start alone.                                   *)
LEMMA SearchBegins ==
    ASSUME Search!EntriesTyped, NEW start \in DOMAIN mesh.spot, NEW end \in DOMAIN mesh.spot,
           NEW filter \in Filters, NEW s \in BOOLEAN, Search!Begin(start, end, filter, s)
    PROVE  Search!IInv'
<1> DEFINE key == Search!StartKey(Job')
<1>1. mesh \in Meshes /\ mesh' = mesh
  BY DEF Search!EntriesTyped, Search!Begin
<1>2. Job' = [start |-> start, end |-> end, filter |-> filter, sliced |-> s]
  BY DEF Search!Begin
<1>3. Job' \in Search!Jobs(mesh')
  BY <1>1, <1>2 DEF Search!Jobs
<1>4. key = <<start, 0>> /\ key # Search!NoKey /\ key[1] = start
  BY <1>2 DEF Search!StartKey, Search!NoKey
<1>5. start \in Search!Polys(mesh) /\ start # end
  BY DEF Search!Begin, Search!IsValidPolyRef
<1>6. mesh.spot[start] \in Search!Points(mesh) /\ mesh.spot[end] \in Search!Points(mesh)
  BY <1>1, SearchSpots
<1>7. Search!Heuristic(mesh.spot[start], mesh.spot[end]) \in Nat
  BY <1>1, <1>5, <1>6, SearchCosts
<1> DEFINE first == [pos |-> mesh.spot[start], cost |-> 0,
                     total |-> Search!Heuristic(mesh.spot[start], mesh.spot[end]),
                     parent |-> Search!NoKey]
<1>8. Entries' = [k \in {key} |-> first] /\ OpenNodes' = {key}
  BY DEF Search!Begin
<1>9. DOMAIN Entries' = {key} /\ Entries'[key] = first
  BY <1>8
<1>10. ASSUME NEW k, k = key
       PROVE  Search!ToGo(k, Entries[k])' = Search!Heuristic(mesh.spot[start], mesh.spot[end])
  <2>1. Entries'[k].pos = mesh.spot[start]
    BY <1>9, <1>10
  <2> QED BY <1>1, <1>2, <1>4, <1>5, <1>10, <2>1 DEF Search!ToGo, Search!Goal
<1> HIDE DEF key
<1>11. Search!EntriesTyped'
  <2>1. ASSUME NEW k \in DOMAIN Entries'
        PROVE  /\ k # Search!NoKey
               /\ k[1] \in Search!Polys(mesh')
               /\ Entries'[k].pos \in Search!Points(mesh')
               /\ Entries'[k].cost \in Nat
               /\ Entries'[k].total = Entries'[k].cost + Search!ToGo(k, Entries[k])'
    <3>1. k = key
      BY <1>9
    <3>2. Search!ToGo(k, Entries[k])' = Search!Heuristic(mesh.spot[start], mesh.spot[end])
      BY <1>10, <3>1
    <3> QED BY <1>1, <1>4, <1>5, <1>6, <1>7, <1>9, <3>1, <3>2
  <2> QED BY <1>1, <1>3, <1>8, <1>9, <2>1 DEF Search!EntriesTyped
<1>12. Search!CostsGrow'
  BY <1>9 DEF Search!CostsGrow, key
<1>13. Search!NoRing'
  BY <1>4, <1>9 DEF Search!NoRing
<1> QED BY <1>11, <1>12, <1>13 DEF Search!IInv

(* An expansion: what is improved gets the expanded entry as its parent.   *)
LEMMA SearchSettles ==
    ASSUME Search!IInv, NEW n \in OpenNodes, Search!Settle(n)
    PROVE  Search!IInv'
<1> USE DEF Search!IInv
<1> DEFINE kept == DOMAIN Entries'
           better == {m \in Search!Steps(n) \cap kept : Search!Improves(n, m)}
<1>1. /\ n \in DOMAIN Entries
      /\ UNCHANGED <<mesh, gone, pool.max, Job, EndFound>>
      /\ Job \in Search!Jobs(mesh)
  BY DEF Search!EntriesTyped, Search!Settle
<1>2. /\ DOMAIN Entries \subseteq kept
      /\ kept \subseteq DOMAIN Entries \cup Search!Steps(n)
      /\ Entries' = [k \in kept |-> IF k \in better THEN Search!Candidate(n, k) ELSE Entries[k]]
      /\ OpenNodes' = (OpenNodes \ {n}) \cup better
  BY DEF Search!Settle
<1>3. \A k \in kept : Entries'[k] = IF k \in better THEN Search!Candidate(n, k) ELSE Entries[k]
  BY <1>2
<1>4. \A k \in kept : k \notin better => k \in DOMAIN Entries
  BY <1>2 DEF Search!Improves
<1>5. \A k \in better : k \in DOMAIN Entries =>
          /\ Entries'[k].pos = Entries[k].pos
          /\ Entries'[k].cost < Entries[k].cost
          /\ Entries[n].cost < Entries[k].cost
  BY <1>1, <1>3, SearchOffers, SearchImproves
<1>6. \A k \in DOMAIN Entries :
          Entries[k].cost \in Nat /\ Entries'[k].cost \in Nat
  <2> TAKE k \in DOMAIN Entries
  <2>1. Entries[k].cost \in Nat BY DEF Search!EntriesTyped
  <2>2. CASE k \in better BY <1>1, <1>2, <1>3, <2>1, <2>2, SearchOffers
  <2>3. CASE k \notin better BY <1>2, <1>3, <2>1, <2>3
  <2> QED BY <2>2, <2>3
<1>7. \A k \in DOMAIN Entries :
          Entries'[k].pos = Entries[k].pos /\ Entries'[k].cost <= Entries[k].cost
  BY <1>2, <1>3, <1>5, <1>6
<1>8. n \notin better
  BY <1>1, <1>5, <1>6
<1>9. Search!EntriesTyped'
  <2>1. mesh' \in Meshes /\ Job' \in Search!Jobs(mesh')
    BY <1>1 DEF Search!EntriesTyped
  <2>2. OpenNodes' \subseteq DOMAIN Entries'
    BY <1>2 DEF Search!EntriesTyped
  <2>3. ASSUME NEW k \in kept
        PROVE  /\ k # Search!NoKey
               /\ k[1] \in Search!Polys(mesh')
               /\ Entries'[k].pos \in Search!Points(mesh')
               /\ Entries'[k].cost \in Nat
               /\ Entries'[k].total = Entries'[k].cost + Search!ToGo(k, Entries[k])'
    <3>1. CASE k \in better
      BY <1>1, <1>3, <3>1, SearchOffers DEF Search!ToGo, Search!Goal
    <3>2. CASE k \notin better
      BY <1>1, <1>3, <1>4, <3>2 DEF Search!EntriesTyped, Search!ToGo, Search!Goal
    <3> QED BY <3>1, <3>2
  <2> QED BY <2>1, <2>2, <2>3 DEF Search!EntriesTyped
<1>10. Search!CostsGrow'
  <2> SUFFICES ASSUME NEW k \in kept
               PROVE  IF Entries'[k].parent = Search!NoKey THEN k = Search!StartKey(Job')
                      ELSE /\ Entries'[k].parent \in kept
                           /\ Entries'[k].cost >= Entries'[Entries'[k].parent].cost
                                + Search!GetCost(Job'.filter, mesh',
                                                 Entries'[Entries'[k].parent].pos,
                                                 Entries'[k].pos, Entries'[k].parent[1])
    BY DEF Search!CostsGrow
  <2>1. CASE k \in better
    <3>1. Entries'[k].parent = n /\ n # Search!NoKey /\ n \in kept
      BY <1>1, <1>2, <1>3, <2>1, SearchOffers DEF Search!EntriesTyped
    <3>2. Entries'[k].cost >= Entries[n].cost
            + Search!GetCost(Job.filter, mesh, Entries[n].pos, Entries'[k].pos, n[1])
      BY <1>1, <1>3, <2>1, SearchOffers
    <3>3. Entries'[n] = Entries[n]
      BY <1>3, <1>8, <3>1
    <3> QED BY <1>1, <3>1, <3>2, <3>3
  <2>2. CASE k \notin better
    <3>1. Entries'[k] = Entries[k] /\ k \in DOMAIN Entries
      BY <1>3, <1>4, <2>2
    <3>2. CASE Entries[k].parent = Search!NoKey
      BY <1>1, <3>1, <3>2 DEF Search!CostsGrow
    <3>3. CASE Entries[k].parent # Search!NoKey
      <4> DEFINE from == Entries[k].parent
                 way == Search!GetCost(Job.filter, mesh, Entries[from].pos, Entries[k].pos, from[1])
      <4>1. from \in DOMAIN Entries /\ Entries[k].cost >= Entries[from].cost + way
        BY <3>1, <3>3 DEF Search!CostsGrow
      <4>2. /\ Entries'[from].pos = Entries[from].pos
            /\ Entries'[from].cost <= Entries[from].cost
            /\ Entries[from].cost \in Nat /\ Entries'[from].cost \in Nat
            /\ Entries[k].cost \in Nat
        BY <1>6, <1>7, <3>1, <4>1
      <4>3. way \in Nat
        BY <1>1, <3>1, <4>1, SearchCosts DEF Search!EntriesTyped, Search!Jobs
      <4>4. Entries[k].cost >= Entries'[from].cost + way
        <5> HIDE DEF way, from
        <5> QED BY <4>1, <4>2, <4>3
      <4>5. from \in kept
        BY <1>2, <4>1
      <4> QED BY <1>1, <3>1, <3>3, <4>2, <4>4, <4>5
    <3> QED BY <3>2, <3>3
  <2> QED BY <2>1, <2>2
<1>11. Search!NoRing'
  <2> SUFFICES ASSUME NEW ring \in SUBSET kept,
                      \A k \in ring : Entries'[k].parent \in ring,
                      ring # {}
               PROVE  FALSE
    BY DEF Search!NoRing
  \* A ring without improved entries was there before.
  <2>1. CASE ring \cap better = {}
    <3>1. \A k \in ring : k \in DOMAIN Entries /\ Entries[k].parent \in ring
      BY <1>3, <1>4, <2>1
    <3> QED BY <3>1 DEF Search!NoRing
  \* One with an improved entry has n, and all that n descends from.
  <2>2. CASE ring \cap better # {}
    <3> DEFINE before == {k \in ring \cap DOMAIN Entries : Entries[k].cost <= Entries[n].cost}
    <3>1. n \in ring
      BY <1>1, <1>3, <2>2, SearchOffers
    <3>2. n \in before
      BY <1>1, <1>6, <3>1
    <3>3. ASSUME NEW k \in before PROVE Entries[k].parent \in before
      <4>1. k \in DOMAIN Entries /\ k \in ring /\ Entries[k].cost <= Entries[n].cost
        OBVIOUS
      <4>2. k \notin better
        BY <1>1, <1>5, <1>6, <4>1
      <4>3. Entries[k].parent \in ring
        BY <1>3, <4>1, <4>2
      <4>4. Entries[k].parent # Search!NoKey
        BY <1>4, <1>3, <4>3, <1>9 DEF Search!EntriesTyped
      <4> DEFINE from == Entries[k].parent
                 way == Search!GetCost(Job.filter, mesh, Entries[from].pos, Entries[k].pos, from[1])
      <4>5. from \in DOMAIN Entries /\ Entries[k].cost >= Entries[from].cost + way
        BY <4>1, <4>4 DEF Search!CostsGrow
      <4>6. way \in Nat
        BY <1>1, <4>1, <4>5, SearchCosts DEF Search!EntriesTyped, Search!Jobs
      <4>7. Entries[from].cost \in Nat /\ Entries[k].cost \in Nat /\ Entries[n].cost \in Nat
        BY <1>1, <1>6, <4>1, <4>5
      <4>8. Entries[from].cost <= Entries[n].cost
        <5> HIDE DEF way, from
        <5> QED BY <4>1, <4>5, <4>6, <4>7
      <4> QED BY <4>3, <4>5, <4>8
    <3> QED BY <3>2, <3>3 DEF Search!NoRing
  <2> QED BY <2>1, <2>2
<1> QED BY <1>9, <1>10, <1>11

(* No other step gives an entry a cost or a parent.                        *)
LEMMA SearchKeeps ==
    ASSUME Search!IInv, UNCHANGED <<mesh, Job, Entries>>, OpenNodes' \subseteq OpenNodes
    PROVE  Search!IInv'
<1>1. Search!EntriesTyped'
  BY DEF Search!IInv, Search!EntriesTyped, Search!ToGo, Search!Goal
<1>2. Search!CostsGrow' /\ Search!NoRing'
  BY DEF Search!IInv, Search!CostsGrow, Search!NoRing
<1> QED BY <1>1, <1>2 DEF Search!IInv

(* Every step of the search keeps the order, so that parents make no ring. *)
LEMMA SearchStays == Search!IInv /\ [Search!SearchNext]_(Search!searchVars) => Search!IInv'
<1> SUFFICES ASSUME Search!IInv, [Search!SearchNext]_(Search!searchVars) PROVE Search!IInv'
  OBVIOUS
<1>1. ASSUME NEW start \in DOMAIN mesh.spot, NEW end \in DOMAIN mesh.spot,
             NEW filter \in Filters, NEW s \in BOOLEAN, Search!Begin(start, end, filter, s)
      PROVE  Search!IInv'
  BY <1>1, SearchBegins DEF Search!IInv
<1>2. ASSUME NEW n \in OpenNodes, Search!Settle(n) PROVE Search!IInv'
  BY <1>2, SearchSettles
<1>3. ASSUME NEW n \in OpenNodes, Search!Reach(n) PROVE Search!IInv'
  BY <1>3, SearchKeeps DEF Search!Reach
<1>4. CASE Search!End
  <2>1. mesh' = mesh /\ mesh \in Meshes /\ DOMAIN Entries' = {} /\ OpenNodes' = {}
    BY <1>4 DEF Search!End, Search!NoEntry, Search!IInv, Search!EntriesTyped
  <2> QED BY <2>1 DEF Search!IInv, Search!EntriesTyped, Search!CostsGrow, Search!NoRing
<1>5. CASE Search!Resize
  BY <1>5, SearchKeeps DEF Search!Resize
<1>6. ASSUME NEW t \in Search!Range(mesh.tile), Search!LoseTile(t) PROVE Search!IInv'
  BY <1>6, SearchKeeps DEF Search!LoseTile
<1>7. CASE UNCHANGED Search!searchVars
  BY <1>7, SearchKeeps DEF Search!searchVars
<1> QED BY <1>1, <1>2, <1>3, <1>4, <1>5, <1>6, <1>7 DEF Search!SearchNext

(* NavSearch's invariant has what is needed of it here.                    *)
LEMMA SearchRoots == Search!IInv => Search!CostsGrow /\ Search!NoRing
BY DEF Search!IInv

-------------------------------------------------------------------------------

(* The program starts between two steps, with no search.                   *)
LEMMA InitOK == Init => StateOK /\ Search!SearchInit
<1> SUFFICES ASSUME Init PROVE StateOK /\ Search!SearchInit
  OBVIOUS
<1>1. /\ mesh \in Meshes /\ gone = {} /\ heap = EmptyQueue /\ query = NoQuery
      /\ call = NoCall
  BY DEF Init
<1>2. PICK n \in PoolSizes : pool = NodePool(n, NextPow2(n \div 4)) BY DEF Init
<1>3. n \in Nat /\ n >= 4
  <2>1. \A k \in Nat \ 0..3 : k \in Nat /\ k >= 4 OBVIOUS
  <2> QED BY <2>1, PoolSizesAssumption
<1>4. /\ PoolOK(pool, Polys(mesh), Places(mesh)) /\ pool.max = n /\ pool.nodes = <<>>
  BY <1>2, <1>3, NodePoolOK
<1>5. Numbers(pool) = {} /\ Opens(pool) = {}
  <2>1. Len(pool.nodes) = 0 BY <1>4
  <2> QED BY <2>1 DEF Numbers, Opens
<1>6. PoolInv(mesh, pool) BY <1>4, <1>5 DEF PoolInv
<1>7. OpenList(pool, heap, Opens(pool)) BY <1>1, <1>5, EmptyOpenList
<1>8. StateOK BY <1>1, <1>6, <1>7, NoQueryIs DEF StateOK, NodesInv
<1>9. ~Searching BY <1>1, NoQueryIs DEF Searching
<1>10. Search!SearchInit
  BY <1>1, <1>3, <1>4, <1>9, IdleIs DEF Search!SearchInit, Search!NoKey
<1> QED BY <1>8, <1>10

Inv == StateOK /\ Search!IInv

(* The invariant holds at the start, and the search starts.                *)
LEMMA InitInv == Init => Inv /\ Search!SearchInit
<1>1. Search!SearchInit => Search!IInv
  BY SearchInits
<1> QED BY <1>1, InitOK DEF Inv

(* Every step keeps the invariant, and is a step of the search or none.    *)
LEMMA StepInv ==
    ASSUME Inv, [Next]_vars
    PROVE  Inv' /\ [Search!SearchNext]_(Search!searchVars)
<1>1. Search!NoRing BY SearchRoots DEF Inv
<1>2. Moves BY <1>1, StepMoves DEF Inv
<1>3. [Search!SearchNext]_(Search!searchVars) BY <1>2 DEF Moves
<1>4. Search!IInv'
  <2>1. Search!IInv /\ [Search!SearchNext]_(Search!searchVars) => Search!IInv'
    BY SearchStays
  <2> QED BY <1>3, <2>1 DEF Inv
<1> QED BY <1>2, <1>4 DEF Inv, Moves

(* The pool, the heap, the running search and its entries are sound        *)
(* throughout.                                                             *)
THEOREM Invariance == Spec => []Inv
BY InitInv, StepInv, PTL DEF Spec

(* findPath and the sliced search do what NavSearch says: nothing they     *)
(* found is lost from the nodes or from the open list, least totals go     *)
(* first, and the nearest node is kept (property Refines).                 *)
THEOREM SearchRefined == Spec => Refines
<1>1. Init => Inv /\ Search!SearchInit BY InitInv
<1>2. Inv /\ [Next]_vars => Inv' /\ [Search!SearchNext]_(Search!searchVars) BY StepInv
<1> QED BY <1>1, <1>2, PTL DEF Spec, Refines, Search!SearchSpec

(* No node of a search is its own ancestor, and only the start's has no    *)
(* parent (property Rooted).                                               *)
THEOREM NodesRooted == Spec => []Rooted
<1>1. Inv => Rooted BY SearchRoots DEF Inv, Rooted, Search!Rooted
<1> QED BY <1>1, Invariance, PTL

-------------------------------------------------------------------------------
(* What the calls answer *)

(* The nodes of the search under way, as PathOK wants them.                *)
LEMMA NodesLinked ==
    ASSUME Search!NoRing, Search!CostsGrow, mesh \in Meshes, PoolInv(mesh, pool),
           NEW j, NEW r, NEW found, Running(j, r, found)
    PROVE  /\ Acyclic(pool.nodes)
           /\ \A i \in 1..Len(pool.nodes) :
                IF pool.nodes[i].pidx = 0 THEN pool.nodes[i].id = j.start
                ELSE \E l \in Range(mesh.links[pool.nodes[pool.nodes[i].pidx].id]) :
                        l.to = pool.nodes[i].id
<1>1. Searching /\ Job = j /\ NodesSearched(mesh, j, pool) BY DEF Running, SearchOK
<1>2. Acyclic(pool.nodes) BY <1>1, NodesAcyclic
<1>3. ASSUME NEW i \in 1..Len(pool.nodes), pool.nodes[i].pidx = 0
      PROVE  pool.nodes[i].id = j.start
  <2>1. /\ KeyOf(pool, i) \in DOMAIN Entries /\ Entries[KeyOf(pool, i)] = EntryOf(pool, i)
    <3>1. i \in Numbers(pool) BY DEF Numbers
    <3> QED BY <1>1, <3>1, EntriesAre
  <2>2. Entries[KeyOf(pool, i)].parent = <<>> BY <1>3, <2>1 DEF EntryOf
  <2>3. KeyOf(pool, i) = <<Job.start, 0>>
    BY <2>1, <2>2 DEF Search!CostsGrow, Search!NoKey, Search!StartKey
  <2> QED BY <1>1, <2>3 DEF KeyOf
<1> QED BY <1>1, <1>2, <1>3 DEF NodesSearched, Numbers

(* The polygons reached in n steps, as one function of n.                  *)
Beyond_(k, ps) ==
    {q \in Polys(mesh) :
        /\ PassFilter(k.filter, mesh, q)
        /\ \E p \in ps : \E l \in Range(mesh.links[p]) : l.to = q /\ IsLeft(mesh, gone, l)}

Ball_(k) ==
    CHOOSE g : g = [n \in 0..Cardinality(Polys(mesh)) |->
        IF n = 0 THEN {k.start} ELSE g[n - 1] \cup Beyond_(k, g[n - 1])]

(* Each step adds what is one link away.                                   *)
LEMMA BallIs ==
    ASSUME mesh \in Meshes, NEW k
    PROVE  /\ Cardinality(Polys(mesh)) \in Nat
           /\ Reachable(k) = Ball_(k)[Cardinality(Polys(mesh))]
           /\ Ball_(k)[0] = {k.start}
           /\ \A n \in 1..Cardinality(Polys(mesh)) :
                 Ball_(k)[n] = Ball_(k)[n - 1] \cup Beyond_(k, Ball_(k)[n - 1])
<1> DEFINE N == Cardinality(Polys(mesh))
           Grown(b) == b \cup Beyond_(k, b)
           Is(f, n) == f = [x \in 0..n |-> IF x = 0 THEN {k.start} ELSE Grown(f[x - 1])]
           T == {n \in Nat : \E f : Is(f, n)}
<1>1. N \in Nat BY PolysAssumption, FS_CardinalityType
<1>2. 0 \in T
  <2> DEFINE f == [x \in 0..0 |-> {k.start}]
  <2>1. Is(f, 0)
    <3>1. \A x \in 0..0 : x = 0 OBVIOUS
    <3> QED BY <3>1
  <2> QED BY <2>1
<1>3. ASSUME NEW n \in Nat, n \in T PROVE n + 1 \in T
  <2> HIDE DEF Grown
  <2>1. PICK f : Is(f, n) BY <1>3
  <2> DEFINE h == [x \in 0..(n + 1) |-> IF x = n + 1 THEN Grown(f[n]) ELSE f[x]]
  <2>2. \A x \in 0..n : h[x] = f[x] OBVIOUS
  <2>3. ASSUME NEW x \in 0..(n + 1)
        PROVE  h[x] = IF x = 0 THEN {k.start} ELSE Grown(h[x - 1])
    <3>1. CASE x = n + 1
      <4>1. h[x] = Grown(f[n]) BY <3>1
      <4>2. x - 1 = n /\ x # 0 /\ h[x - 1] = f[n] BY <3>1, <2>2
      <4> QED BY <3>1, <4>1, <4>2
    <3>2. CASE x # n + 1
      <4>1. x \in 0..n /\ h[x] = f[x] BY <3>2, <2>2
      <4>2. f[x] = IF x = 0 THEN {k.start} ELSE Grown(f[x - 1]) BY <2>1, <4>1
      <4>3. x # 0 => h[x - 1] = f[x - 1] BY <2>2, <4>1
      <4> QED BY <4>1, <4>2, <4>3
    <3> QED BY <3>1, <3>2
  <2>4. h = [x \in 0..(n + 1) |-> h[x]] OBVIOUS
  <2> HIDE DEF h
  <2>5. Is(h, n + 1) BY <2>3, <2>4
  <2> QED BY <2>5
<1>4. \E f : Is(f, N)
  <2> HIDE DEF T
  <2>1. Nat \subseteq T BY <1>2, <1>3, NatInd
  <2> QED BY <1>1, <2>1 DEF T
<1>5. Is(Ball_(k), N)
  <2>1. Ball_(k) = CHOOSE g : Is(g, N) BY DEF Ball_
  <2> HIDE DEF Is
  <2> QED BY <1>4, <2>1
<1>6. Reachable(k) = Ball_(k)[N] BY DEF Reachable, Ball_, Beyond_
<1>7. Ball_(k)[0] = {k.start} BY <1>1, <1>5
<1>8. ASSUME NEW n \in 1..N PROVE Ball_(k)[n] = Grown(Ball_(k)[n - 1])
  <2> HIDE DEF Grown
  <2> QED BY <1>1, <1>5
<1> QED BY <1>1, <1>6, <1>7, <1>8

(* A search with nothing left to expand and none of its nodes missing has  *)
(* every polygon there is a way to; the end is not among them.             *)
LEMMA EndOutOfReach ==
    ASSUME mesh \in Meshes, PoolInv(mesh, pool), OpenList(pool, heap, Opens(pool)),
           heap = EmptyQueue, NEW j, NEW r, SearchOK(mesh, gone, j, pool, r, FALSE), ~r.full,
           NEW k, k.start = j.start, k.filter = j.filter
    PROVE  j.end \notin Reachable(k)
<1> DEFINE N == Cardinality(Polys(mesh))
           ids == {pool.nodes[i].id : i \in Numbers(pool)}
           B == Ball_(k)
           T == {n \in Nat : n <= N => B[n] \subseteq ids}
<1>1. \A i \in Numbers(pool) : pool.nodes[i].flags = {"CLOSED"}
  <2> TAKE i \in Numbers(pool)
  <2>1. Opens(pool) = {} BY OpenListIs, EmptyQueueIs
  <2>2. pool.nodes[i].flags \in {{"OPEN"}, {"CLOSED"}} BY NodeIs
  <2> QED BY <2>1, <2>2 DEF Opens
<1>2. N \in Nat /\ Reachable(k) = B[N] /\ B[0] = {k.start}
      /\ \A n \in 1..N : B[n] = B[n - 1] \cup Beyond_(k, B[n - 1])
  BY BallIs
<1>3. WaysTaken(mesh, gone, j, pool) /\ j.start \in ids /\ j.end \notin ids
  <2>1. 1 \in Numbers(pool) /\ pool.nodes[1].id = j.start
    <3>1. Len(pool.nodes) \in Nat BY NodeIs
    <3> QED BY <3>1 DEF SearchOK, Numbers
  <2>2. \A i \in Numbers(pool) : pool.nodes[i].id # j.end
    <3> TAKE i \in Numbers(pool)
    <3>1. pool.nodes[i].id = j.end => pool.nodes[i].flags = {"OPEN"} BY DEF SearchOK
    <3>2. {"OPEN"} # {"CLOSED"} OBVIOUS
    <3> QED BY <1>1, <3>1, <3>2
  <2> QED BY <2>1, <2>2 DEF SearchOK
<1>4. ASSUME NEW ps \in SUBSET ids PROVE Beyond_(k, ps) \subseteq ids
  <2> SUFFICES ASSUME NEW q \in Beyond_(k, ps) PROVE q \in ids
    OBVIOUS
  <2>1. PICK p \in ps : \E l \in Range(mesh.links[p]) : l.to = q /\ IsLeft(mesh, gone, l)
    BY DEF Beyond_
  <2>2. PICK l \in Range(mesh.links[p]) : l.to = q /\ IsLeft(mesh, gone, l) BY <2>1
  <2>3. PassFilter(j.filter, mesh, q) BY DEF Beyond_
  <2>4. PICK i \in Numbers(pool) : pool.nodes[i].id = p OBVIOUS
  <2>5. PICK o \in Numbers(pool) : pool.nodes[o].id = l.to
    BY <1>1, <1>3, <2>2, <2>3, <2>4 DEF WaysTaken
  <2> QED BY <2>2, <2>5
<1> HIDE DEF ids, B
<1>5. 0 \in T BY <1>2, <1>3
<1>6. ASSUME NEW n \in Nat, n \in T PROVE n + 1 \in T
  <2> SUFFICES ASSUME n + 1 <= N PROVE B[n + 1] \subseteq ids
    OBVIOUS
  <2>1. n <= N /\ n + 1 \in 1..N /\ (n + 1) - 1 = n BY <1>2
  <2>2. B[n] \in SUBSET ids BY <1>6, <2>1
  <2>3. B[n + 1] = B[n] \cup Beyond_(k, B[n]) BY <1>2, <2>1
  <2> QED BY <1>4, <2>2, <2>3
<1>7. Nat \subseteq T
  <2> HIDE DEF T
  <2> QED BY <1>5, <1>6, NatInd
<1>8. B[N] \subseteq ids BY <1>2, <1>7
<1> QED BY <1>2, <1>3, <1>8

AnswersOK ==
    /\ answer # NoAnswer => Len(answer.path) <= answer.max
    /\ PathLinked
    /\ Complete

(* No answer is a right one.                                               *)
LEMMA NoAnswerOK == answer' = NoAnswer => AnswersOK'
BY DEF AnswersOK, PathLinked, Complete, NoAnswer

(* An answer stays right while the mesh is the same.                       *)
LEMMA AnswerKept ==
    ASSUME AnswersOK, UNCHANGED <<mesh, gone, answer>>
    PROVE  AnswersOK'
<1>1. PathLinked' BY DEF AnswersOK, PathLinked, Linked, NoAnswer
<1>2. Complete' BY DEF AnswersOK, Complete, Reachable, IsLeft, NoAnswer
<1> QED BY <1>1, <1>2 DEF AnswersOK, NoAnswer

(* An answer without a search.                                             *)
LEMMA PlainAnswer ==
    ASSUME answer'.max \in PathSizes, "PARTIAL_RESULT" \notin answer'.status.details,
           \/ answer'.path = <<>>
           \/ answer'.path = <<answer'.start>> /\ answer'.start = answer'.end
    PROVE  AnswersOK'
<1>1. answer'.max \in Nat \ {0} BY PathSizesAssumption
<1>2. Len(answer'.path) <= answer'.max
  <2>1. CASE answer'.path = <<>>
    <3>1. Len(answer'.path) = 0 BY <2>1
    <3> QED BY <1>1, <3>1
  <2>2. CASE answer'.path = <<answer'.start>>
    <3>1. Len(answer'.path) = 1 BY <2>2
    <3> QED BY <1>1, <3>1
  <2> QED BY <2>1, <2>2
<1>3. PathLinked'
  <2> SUFFICES ASSUME answer'.path # <<>>, answer'.path = <<answer'.start>>,
                      answer'.start = answer'.end
               PROVE  PathLinked'
    BY DEF PathLinked, NoAnswer
  <2>1. Len(answer'.path) = 1 /\ answer'.path[1] = answer'.end BY DEF Status
  <2>2. Head(answer'.path) = answer'.start OBVIOUS
  <2>3. 1..(1 - 1) = {} OBVIOUS
  <2> QED BY <2>1, <2>2, <2>3 DEF PathLinked, NoAnswer
<1>4. Complete' BY DEF Complete, NoAnswer
<1> QED BY <1>2, <1>3, <1>4 DEF AnswersOK, NoAnswer

(* An answer of a search: the path to a node.                              *)
AnswerIs(a, to, cut) ==
    /\ PathIs(mesh.links, a.start, to, a.max, a.path, cut)
    /\ cut => "BUFFER_TOO_SMALL" \in a.status.details
    /\ a.op # "partial" => to = a.end \/ "PARTIAL_RESULT" \in a.status.details
    /\ a.op # "partial" /\ a.ended /\ "PARTIAL_RESULT" \in a.status.details
         /\ "OUT_OF_NODES" \notin a.status.details =>
           a.end \notin Reachable([start |-> a.start, filter |-> a.filter])

(* It is right.                                                            *)
LEMMA PathAnswer ==
    ASSUME mesh' = mesh, gone' = gone, NEW to, NEW cut, AnswerIs(answer', to, cut)
    PROVE  AnswersOK'
<1>1. /\ Len(answer'.path) <= answer'.max /\ Head(answer'.path) = answer'.start
      /\ \A k \in 1..(Len(answer'.path) - 1) :
            \E l \in Range(mesh.links[answer'.path[k]]) : l.to = answer'.path[k + 1]
      /\ ~cut => answer'.path[Len(answer'.path)] = to
  BY DEF PathIs, AnswerIs
<1>2. PathLinked'
  <2>1. \A k \in 1..(Len(answer'.path) - 1) :
           \E l \in Range(mesh'.links[answer'.path[k]]) : l.to = answer'.path[k + 1]
    BY <1>1
  <2>2. answer'.op # "partial" =>
           \/ answer'.path[Len(answer'.path)] = answer'.end
           \/ answer'.status.details \cap {"PARTIAL_RESULT", "BUFFER_TOO_SMALL"} # {}
    BY <1>1 DEF AnswerIs
  <2> QED BY <1>1, <2>1, <2>2 DEF PathLinked, NoAnswer, Linked
<1>3. \A k : Reachable(k)' = Reachable(k) BY DEF Reachable, IsLeft
<1>4. Complete' BY <1>3 DEF Complete, NoAnswer, AnswerIs
<1> QED BY <1>1, <1>2, <1>4 DEF AnswersOK, NoAnswer

(* findPath answers rightly where it does not search,                      *)
LEMMA FindPathAnswers ==
    ASSUME NEW start, NEW end, NEW filter, NEW n \in PathSizes, FindPath(start, end, filter, n)
    PROVE  AnswersOK'
<1>1. CASE answer' = NoAnswer BY <1>1, NoAnswerOK
<1>2. CASE answer' = [op |-> "find", start |-> start, end |-> end,
                      status |-> Status("FAILURE", {"INVALID_PARAM"}),
                      path |-> <<>>, max |-> n, ended |-> TRUE]
  <2>1. answer'.max = n /\ answer'.status.details = {"INVALID_PARAM"} /\ answer'.path = <<>>
    BY <1>2 DEF Status
  <2> QED BY <2>1, PlainAnswer
<1>3. CASE /\ start = end
           /\ answer' = [op |-> "find", start |-> start, end |-> end,
                         status |-> Status("SUCCESS", {}), path |-> <<start>>,
                         max |-> n, ended |-> TRUE]
  <2>1. /\ answer'.max = n /\ answer'.status.details = {} /\ answer'.path = <<start>>
        /\ answer'.start = start /\ answer'.end = end
    BY <1>3 DEF Status
  <2> QED BY <1>3, <2>1, PlainAnswer
<1> QED BY <1>1, <1>2, <1>3 DEF FindPath

(* and where it does.                                                      *)
LEMMA FindPathReturnsAnswers ==
    ASSUME StateOK, Search!NoRing, Search!CostsGrow, FindPathReturns
    PROVE  AnswersOK'
<1> DEFINE nodes == pool.nodes
           last == call.last
           trail == Trail(nodes, last)
           partial == nodes[last].id # call.end
           got == GetPathToNode(nodes, last, call.max)
<1>1. /\ call # NoCall /\ (call.found \/ heap = EmptyQueue)
      /\ mesh' = mesh /\ gone' = gone
      /\ answer' = [op |-> "find", start |-> call.start, end |-> call.end,
                    filter |-> call.job.filter,
                    status |-> Status("SUCCESS", got.details
                        \cup (IF partial THEN {"PARTIAL_RESULT"} ELSE {})
                        \cup (IF call.full THEN {"OUT_OF_NODES"} ELSE {})),
                    path |-> got.path, max |-> call.max, ended |-> TRUE]
  BY DEF FindPathReturns
<1>2. got.path = PathTo(nodes, last, call.max)
      /\ got.details = IF Len(trail) > call.max THEN {"BUFFER_TOO_SMALL"} ELSE {}
  BY DEF GetPathToNode, PathTo
<1>3. /\ CallRuns /\ Running(call.job, call, call.found) /\ call.max \in PathSizes
      /\ call.job.start = call.start /\ call.job.end = call.end
      /\ SearchOK(mesh, gone, call.job, pool, call, call.found)
      /\ last \in 1..Len(nodes)
      /\ mesh \in Meshes /\ PoolInv(mesh, pool) /\ OpenList(pool, heap, Opens(pool))
  BY <1>1, CallRunning DEF CallRuns, SearchOK, Numbers, StateOK, NodesInv
<1>4. call.max \in Nat \ {0} BY <1>3, PathSizesAssumption
<1> HIDE DEF got
<1>5. /\ answer'.op = "find" /\ answer'.start = call.start /\ answer'.end = call.end
      /\ answer'.filter = call.job.filter
      /\ answer'.path = PathTo(nodes, last, call.max) /\ answer'.max = call.max
      /\ answer'.status.details = got.details
                        \cup (IF partial THEN {"PARTIAL_RESULT"} ELSE {})
                        \cup (IF call.full THEN {"OUT_OF_NODES"} ELSE {})
  BY <1>1, <1>2 DEF Status
<1>6. PathIs(mesh.links, call.start, nodes[last].id, call.max, PathTo(nodes, last, call.max),
             Len(trail) > call.max)
  BY <1>3, <1>4, NodesLinked, PathOK
<1>7. Len(trail) > call.max => "BUFFER_TOO_SMALL" \in answer'.status.details
  BY <1>2, <1>5
<1>8. nodes[last].id = answer'.end \/ "PARTIAL_RESULT" \in answer'.status.details
  BY <1>5
<1>9. ASSUME "PARTIAL_RESULT" \in answer'.status.details,
             "OUT_OF_NODES" \notin answer'.status.details
      PROVE  answer'.end \notin Reachable([start |-> answer'.start, filter |-> answer'.filter])
  <2>1. nodes[last].id # call.end
    <3>1. "PARTIAL_RESULT" \notin got.details BY <1>2
    <3> QED BY <1>5, <1>9, <3>1
  <2>2. ~call.found BY <1>3, <2>1 DEF SearchOK
  <2>3. ~call.full BY <1>5, <1>9
  <2>4. heap = EmptyQueue BY <1>1, <2>2
  <2>5. call.found = FALSE BY <1>3, <2>2 DEF CallRuns
  <2> DEFINE k == [start |-> answer'.start, filter |-> answer'.filter]
  <2>6. k.start = call.job.start /\ k.filter = call.job.filter BY <1>3, <1>5
  <2> HIDE DEF k
  <2>7. call.job.end \notin Reachable(k)
    BY <1>3, <2>3, <2>4, <2>5, <2>6, EndOutOfReach
  <2> QED BY <1>3, <1>5, <2>7 DEF k
<1>10. AnswerIs(answer', nodes[last].id, Len(trail) > call.max)
  BY <1>5, <1>6, <1>7, <1>8, <1>9 DEF AnswerIs
<1> QED BY <1>1, <1>10, PathAnswer

(* Both finalize functions answer rightly with a search,                   *)
LEMMA FinalizedAnswers ==
    ASSUME StateOK, Search!NoRing, Search!CostsGrow, call = NoCall, SliceUnderWay,
           NEW op, NEW i \in Numbers(pool), NEW partial \in BOOLEAN, NEW n \in PathSizes,
           Finalized(op, i, partial, n), mesh' = mesh, gone' = gone,
           op # "partial" => /\ i = query.last
                             /\ partial <=> pool.nodes[query.last].id # query.end
    PROVE  AnswersOK'
<1> DEFINE nodes == pool.nodes
           trail == Trail(nodes, i)
           tooSmall == Len(trail) >= n
<1>1. answer' = [op |-> op, start |-> query.start, end |-> query.end,
                 filter |-> query.filter,
                 status |-> Status("SUCCESS", query.status.details
                     \cup (IF partial THEN {"PARTIAL_RESULT"} ELSE {})
                     \cup (IF tooSmall THEN {"BUFFER_TOO_SMALL"} ELSE {})),
                 path |-> PathTo(nodes, i, n), max |-> n,
                 ended |-> query.status.code = "SUCCESS"]
  BY DEF Finalized, PathTo
<1>2. /\ answer'.op = op /\ answer'.start = query.start /\ answer'.end = query.end
      /\ answer'.filter = query.filter
      /\ answer'.path = PathTo(nodes, i, n) /\ answer'.max = n
      /\ answer'.status.details = query.status.details
                     \cup (IF partial THEN {"PARTIAL_RESULT"} ELSE {})
                     \cup (IF tooSmall THEN {"BUFFER_TOO_SMALL"} ELSE {})
      /\ answer'.ended = (query.status.code = "SUCCESS")
  BY <1>1 DEF Status
<1>3. /\ QueryRuns /\ Running(QueryJob, query, QueryFound)
      /\ SearchOK(mesh, gone, QueryJob, pool, query, QueryFound)
      /\ i \in 1..Len(nodes) /\ n \in Nat \ {0}
      /\ mesh \in Meshes /\ PoolInv(mesh, pool) /\ OpenList(pool, heap, Opens(pool))
      /\ query.status.details = Details(query.full)
  BY QueryRunning, PathSizesAssumption DEF QueryRuns, Numbers, StateOK, NodesInv
<1>4. /\ QueryJob.start = query.start /\ QueryJob.end = query.end
      /\ QueryJob.filter = query.filter
  BY DEF QueryJob
<1>5. PathIs(mesh.links, query.start, nodes[i].id, n, PathTo(nodes, i, n), Len(trail) > n)
  BY <1>3, <1>4, NodesLinked, PathOK
<1>6. Len(trail) > n => "BUFFER_TOO_SMALL" \in answer'.status.details
  <2>1. Len(trail) \in Nat
    <3>1. TrailTo(nodes, i, trail) BY <1>3, NodesLinked, TrailOK
    <3> HIDE DEF trail
    <3> QED BY <3>1 DEF TrailTo
  <2>2. Len(trail) > n => tooSmall BY <1>3, <2>1
  <2> HIDE DEF tooSmall, trail
  <2> QED BY <1>2, <2>2
<1> HIDE DEF tooSmall
<1>7. op # "partial" =>
         nodes[i].id = answer'.end \/ "PARTIAL_RESULT" \in answer'.status.details
  BY <1>2
<1>8. ASSUME op # "partial", answer'.ended, "PARTIAL_RESULT" \in answer'.status.details,
             "OUT_OF_NODES" \notin answer'.status.details
      PROVE  answer'.end \notin Reachable([start |-> answer'.start, filter |-> answer'.filter])
  <2>1. "PARTIAL_RESULT" \notin query.status.details BY <1>3 DEF Details
  <2>2. nodes[query.last].id # query.end BY <1>2, <1>8, <2>1
  <2>3. QueryFound = FALSE BY <2>2 DEF QueryFound
  <2>4. heap = EmptyQueue BY <1>2, <1>3, <1>8, <2>3 DEF QueryRuns
  <2>5. ~query.full BY <1>2, <1>3, <1>8 DEF Details
  <2> DEFINE k == [start |-> answer'.start, filter |-> answer'.filter]
  <2>6. k.start = QueryJob.start /\ k.filter = QueryJob.filter BY <1>2, <1>4
  <2> HIDE DEF k
  <2>7. QueryJob.end \notin Reachable(k)
    BY <1>3, <2>3, <2>4, <2>5, <2>6, EndOutOfReach
  <2> QED BY <1>2, <1>4, <2>7 DEF k
<1>9. AnswerIs(answer', nodes[i].id, Len(trail) > n)
  BY <1>2, <1>5, <1>6, <1>7, <1>8 DEF AnswerIs
<1> QED BY <1>9, PathAnswer

(* and without one.                                                        *)
LEMMA UnfinalizedAnswers ==
    ASSUME StateOK, NEW op, NEW n \in PathSizes, Failed(op, n) \/ SamePoly(op, n)
    PROVE  AnswersOK'
<1>1. CASE Failed(op, n)
  <2>1. answer'.max = n /\ answer'.path = <<>> /\ answer'.status.details = {}
    BY <1>1 DEF Failed, Status
  <2> QED BY <2>1, PlainAnswer
<1>2. CASE SamePoly(op, n)
  <2>1. /\ query.status.code # "FAILURE" /\ query.start = query.end
        /\ answer'.max = n /\ answer'.path = <<query.start>>
        /\ answer'.start = query.start /\ answer'.end = query.end
        /\ answer'.status.details = query.status.details
    BY <1>2 DEF SamePoly, Status
  <2>2. query.status.details = {}
    BY <2>1, QueryRunsIs DEF StateOK, QueryIdle
  <2> QED BY <2>1, <2>2, PlainAnswer
<1> QED BY <1>1, <1>2

(* finalizeSlicedFindPath answers rightly,                                 *)
LEMMA FinalizeAnswers ==
    ASSUME StateOK, Search!NoRing, Search!CostsGrow, NEW n \in PathSizes,
           FinalizeSlicedFindPath(n)
    PROVE  AnswersOK'
<1>1. call = NoCall /\ mesh' = mesh /\ gone' = gone BY DEF FinalizeSlicedFindPath
<1>2. CASE Failed("sliced", n) \/ SamePoly("sliced", n) BY <1>2, UnfinalizedAnswers
<1>3. CASE /\ SliceUnderWay
           /\ Finalized("sliced", query.last, pool.nodes[query.last].id # query.end, n)
  <2>1. query.last \in Numbers(pool) BY <1>1, <1>3, QueryRunning DEF Running, SearchOK
  <2> DEFINE partial == pool.nodes[query.last].id # query.end
  <2>2. partial \in BOOLEAN OBVIOUS
  <2>3. partial <=> pool.nodes[query.last].id # query.end OBVIOUS
  <2> HIDE DEF partial
  <2>4. Finalized("sliced", query.last, partial, n) BY <1>3 DEF partial
  <2> QED BY <1>1, <1>3, <2>1, <2>2, <2>3, <2>4, FinalizedAnswers
<1> QED BY <1>2, <1>3 DEF FinalizeSlicedFindPath

(* and so does finalizeSlicedFindPathPartial.                              *)
LEMMA FinalizePartialAnswers ==
    ASSUME StateOK, Search!NoRing, Search!CostsGrow, NEW n \in PathSizes, NEW e \in Existing,
           FinalizeSlicedFindPathPartial(e, n)
    PROVE  AnswersOK'
<1>1. call = NoCall /\ mesh' = mesh /\ gone' = gone BY DEF FinalizeSlicedFindPathPartial
<1>2. CASE Failed("partial", n) \/ SamePoly("partial", n) BY <1>2, UnfinalizedAnswers
<1>3. CASE /\ SliceUnderWay
           /\ LET i == Furthest(e)
              IN  Finalized("partial", IF i # 0 THEN i ELSE query.last, i = 0, n)
  <2> DEFINE i == IF Furthest(e) # 0 THEN Furthest(e) ELSE query.last
             partial == Furthest(e) = 0
  <2>1. query.last \in Numbers(pool) BY <1>1, <1>3, QueryRunning DEF Running, SearchOK
  <2>2. Furthest(e) \in 0..Len(pool.nodes) BY FurthestIn DEF StateOK, NodesInv
  <2>3. i \in Numbers(pool)
    <3>1. Len(pool.nodes) \in Nat BY NodeIs DEF StateOK, NodesInv
    <3> QED BY <2>1, <2>2, <3>1 DEF Numbers
  <2>4. Finalized("partial", i, partial, n) /\ partial \in BOOLEAN BY <1>3
  <2> HIDE DEF i, partial
  <2> QED BY <1>1, <1>3, <2>3, <2>4, FinalizedAnswers
<1> QED BY <1>2, <1>3 DEF FinalizeSlicedFindPathPartial

(* Every call answers rightly.                                             *)
LEMMA StepAnswers ==
    ASSUME StateOK, Search!NoRing, Search!CostsGrow, AnswersOK, [Next]_vars
    PROVE  AnswersOK'
<1>1. ASSUME NEW n \in PoolSizes, InitQuery(n) PROVE AnswersOK'
  BY <1>1, NoAnswerOK DEF InitQuery
<1>2. ASSUME NEW p, NEW q, NEW f, NEW n \in PathSizes, FindPath(p, q, f, n) PROVE AnswersOK'
  BY <1>2, FindPathAnswers
<1>3. CASE FindPathStep BY <1>3, AnswerKept DEF FindPathStep
<1>4. CASE FindPathReturns BY <1>4, FindPathReturnsAnswers
<1>5. ASSUME NEW p, NEW q, NEW f, InitSlicedFindPath(p, q, f) PROVE AnswersOK'
  BY <1>5, NoAnswerOK DEF InitSlicedFindPath
<1>6. CASE UpdateSlicedFindPath BY <1>6, NoAnswerOK DEF UpdateSlicedFindPath
<1>7. ASSUME NEW n \in PathSizes, FinalizeSlicedFindPath(n) PROVE AnswersOK'
  BY <1>7, FinalizeAnswers
<1>8. ASSUME NEW e \in Existing, NEW n \in PathSizes, FinalizeSlicedFindPathPartial(e, n)
      PROVE  AnswersOK'
  BY <1>8, FinalizePartialAnswers
<1>9. ASSUME NEW t, RemoveTile(t) PROVE AnswersOK'
  BY <1>9, NoAnswerOK DEF RemoveTile
<1>10. CASE UNCHANGED vars BY <1>10, AnswerKept DEF vars
<1> QED BY <1>1, <1>2, <1>3, <1>4, <1>5, <1>6, <1>7, <1>8, <1>9, <1>10 DEF Next

(* What is so between two steps has all of NodesOK.                        *)
LEMMA StateNodesOK == StateOK /\ AnswersOK => NodesOK
<1> SUFFICES ASSUME StateOK, AnswersOK PROVE NodesOK
  OBVIOUS
<1>1. mesh \in Meshes /\ PoolInv(mesh, pool) /\ OpenList(pool, heap, Opens(pool))
  BY DEF StateOK, NodesInv
<1>2. /\ HeapOK(pool, heap) /\ IsInjective(heap) /\ Range(heap) = Opens(pool)
  BY <1>1, OpenListIs
<1>3. query.status.code \in {"NONE", "FAILURE", "IN_PROGRESS", "SUCCESS"}
  BY DEF StateOK, QueryIdle, QueryRuns
<1>4. TypeOK
  BY <1>1, <1>2, <1>3, NodeIs DEF TypeOK, AnswersOK, Numbers, Opens
<1>5. ChainsOK(pool) BY <1>1, HashesPolys, PoolChainsOK DEF PoolInv
<1>6. OpenOK(pool, heap) BY <1>2 DEF OpenOK, Opens, Numbers
<1> QED BY <1>2, <1>4, <1>5, <1>6 DEF NodesOK

(* What the calls answer with is right, at the start and after each step.  *)
LEMMA Answers == Spec => []AnswersOK
<1>1. Init => AnswersOK BY DEF Init, AnswersOK, PathLinked, Complete, NoAnswer
<1>2. Inv /\ AnswersOK /\ [Next]_vars => AnswersOK'
  BY SearchRoots, StepAnswers DEF Inv
<1> QED BY <1>1, <1>2, Invariance, PTL DEF Spec

(* Through every push, pop and lowered total, every order of the calls and *)
(* every size of the pool: the hash finds each node and one for each       *)
(* polygon and state, the heap has its least at the root and holds the     *)
(* open nodes, each once (property NodesOK).                               *)
THEOREM NodesCorrect == Spec => []NodesOK
BY Invariance, Answers, StateNodesOK, PTL DEF Inv

(* A path starts at the start, follows links, and ends at the end unless   *)
(* the answer says otherwise (property PathLinked).                        *)
THEOREM PathsLinked == Spec => []PathLinked
<1>1. AnswersOK => PathLinked BY DEF AnswersOK
<1> QED BY <1>1, Answers, PTL

(* Only where there is no way to the end does a search that had nodes      *)
(* enough answer with part of one (property Complete).                     *)
THEOREM SearchComplete == Spec => []Complete
<1>1. AnswersOK => Complete BY DEF AnswersOK
<1> QED BY <1>1, Answers, PTL
================================================================================
