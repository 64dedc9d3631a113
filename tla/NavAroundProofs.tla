---------------------------- MODULE NavAroundProofs ----------------------------
(***************************************************************************)
(* The searches round a point of dtNavMeshQuery find what can be walked to *)
(* within what they search, nearest first, for every mesh, filter, size of *)
(* the pool and order of calls; and the paths read back from them lead     *)
(* from their start.                                                       *)
(***************************************************************************)
EXTENDS NavAround, NavNodesProofs

-------------------------------------------------------------------------------
(* Nodes *)

Places(m) == Points(m) \cup {<<>>}
Numbers(p) == 1..Len(p.nodes)
Opens(p) == {i \in Numbers(p) : "OPEN" \in p.nodes[i].flags}
Closeds(p) == {i \in Numbers(p) : p.nodes[i].flags = {"CLOSED"}}

(* Node i may be half made, as it is when the arena has just given it.     *)
PoolBut(m, p, i) ==
    /\ PoolOK(p, Polys(m), Places(m))
    /\ p.max \in PoolSizes
    /\ \A k \in Numbers(p) : p.nodes[k].state = 0
    /\ \A k \in Numbers(p) \ {i} :
          /\ p.nodes[k].pidx \in 0..Len(p.nodes)
          /\ p.nodes[k].flags \in {{"OPEN"}, {"CLOSED"}}

(* What a pool is between two steps of a search.                           *)
PoolInv(m, p) == PoolBut(m, p, 0)

(* The polygons of a mesh have hashes.                                     *)
LEMMA HashesPolys ==
    ASSUME NEW m \in Meshes
    PROVE  HashesTo(Polys(m)) /\ <<>> \in Places(m) /\ IsFiniteSet(Polys(m))
BY MeshAssumption DEF HashesTo, Places

(* What the invariant of a pool says of one of its nodes.                  *)
LEMMA NodeIs ==
    ASSUME NEW m, NEW p, PoolInv(m, p)
    PROVE  /\ Len(p.nodes) \in Nat /\ p.max \in PoolSizes /\ Len(p.nodes) <= p.max
           /\ p.nodes \in Seq(NodeSet(Polys(m), Places(m)))
           /\ \A i \in Numbers(p) :
                 /\ p.nodes[i] \in NodeSet(Polys(m), Places(m))
                 /\ p.nodes[i].id \in Polys(m) /\ p.nodes[i].state = 0
                 /\ p.nodes[i].pidx \in 0..Len(p.nodes)
                 /\ p.nodes[i].pos \in Places(m)
                 /\ p.nodes[i].total \in Nat
                 /\ p.nodes[i].flags \in {{"OPEN"}, {"CLOSED"}}
<1>1. PoolTyped(p, Polys(m), Places(m)) BY DEF PoolInv, PoolBut, PoolOK
<1>2. Len(p.nodes) <= p.max BY <1>1 DEF PoolTyped
<1>3. Len(p.nodes) \in Nat BY <1>1, NodesTyped
<1>4. Numbers(p) \ {0} = Numbers(p) BY <1>3 DEF Numbers
<1> QED BY <1>1, <1>2, <1>4, NodesTyped DEF PoolInv, PoolBut, Numbers

(* No two nodes stand for one polygon.                                     *)
LEMMA IdsApart ==
    ASSUME NEW m, NEW p, PoolInv(m, p), NEW i \in Numbers(p), NEW k \in Numbers(p),
           p.nodes[i].id = p.nodes[k].id
    PROVE  i = k
<1>1. p.nodes[i].state = p.nodes[k].state BY NodeIs
<1> QED BY <1>1 DEF PoolInv, PoolBut, PoolOK, Apart, IsNodeOf, Numbers

(* To change one node and not what it stands for.                          *)
Changed(p, i, node) == [p EXCEPT !.nodes = [p.nodes EXCEPT ![i] = node]]

ChangeIs(m, p, i, node, q) ==
    /\ PoolInv(m, q)
    /\ q.nodes = [p.nodes EXCEPT ![i] = node] /\ q.max = p.max
    /\ Len(q.nodes) = Len(p.nodes) /\ Numbers(q) = Numbers(p)
    /\ q.nodes[i] = node
    /\ \A k \in Numbers(p) : k # i => q.nodes[k] = p.nodes[k]

(* A pool stays one when a node of it is changed.                          *)
LEMMA ChangedOK ==
    ASSUME NEW m, NEW p, NEW i \in Numbers(p), PoolBut(m, p, i),
           NEW node \in NodeSet(Polys(m), Places(m)),
           node.id = p.nodes[i].id, node.state = 0,
           node.pidx \in 0..Len(p.nodes), node.flags \in {{"OPEN"}, {"CLOSED"}}
    PROVE  ChangeIs(m, p, i, node, Changed(p, i, node))
<1> DEFINE ns == [p.nodes EXCEPT ![i] = node]
           q == Changed(p, i, node)
           L == Len(p.nodes)
<1>0. PoolTyped(p, Polys(m), Places(m)) BY DEF PoolBut, PoolOK
<1>1. /\ p.nodes \in Seq(NodeSet(Polys(m), Places(m))) /\ L \in Nat
      /\ \A k \in Numbers(p) : p.nodes[k].state = 0
      /\ \A k \in Numbers(p) \ {i} : /\ p.nodes[k].pidx \in 0..L
                                     /\ p.nodes[k].flags \in {{"OPEN"}, {"CLOSED"}}
  BY <1>0, NodesTyped DEF PoolBut
<1>2. /\ ns \in Seq(NodeSet(Polys(m), Places(m))) /\ Len(ns) = L
      /\ \A k \in 1..L : ns[k] = IF k = i THEN node ELSE p.nodes[k]
  BY <1>1 DEF Numbers
<1>3. q = [p EXCEPT !.nodes = ns] BY DEF Changed
<1>4. q.nodes = ns /\ q.max = p.max
  <2> HIDE DEF ns, q
  <2> QED BY <1>3, <1>0 DEF PoolTyped
<1> HIDE DEF ns, q
<1>5. \A k \in 1..Len(ns) : ns[k].id = p.nodes[k].id /\ ns[k].state = p.nodes[k].state
  BY <1>1, <1>2 DEF Numbers
<1>6. PoolOK(q, Polys(m), Places(m))
  <2>1. PoolOK(p, Polys(m), Places(m)) BY DEF PoolBut
  <2> QED BY <1>2, <1>3, <1>5, <2>1, NodesChange
<1>7. Numbers(q) = Numbers(p) /\ Len(q.nodes) = L BY <1>2, <1>4 DEF Numbers
<1>8. \A k \in Numbers(p) : q.nodes[k] = IF k = i THEN node ELSE p.nodes[k]
  BY <1>2, <1>4 DEF Numbers
<1>9. \A k \in Numbers(q) : /\ q.nodes[k].state = 0
                            /\ q.nodes[k].pidx \in 0..Len(q.nodes)
                            /\ q.nodes[k].flags \in {{"OPEN"}, {"CLOSED"}}
  <2> SUFFICES ASSUME NEW k \in Numbers(p)
               PROVE  /\ q.nodes[k].state = 0 /\ q.nodes[k].pidx \in 0..L
                      /\ q.nodes[k].flags \in {{"OPEN"}, {"CLOSED"}}
    BY <1>7
  <2>1. CASE k = i BY <1>8, <2>1
  <2>2. CASE k # i BY <1>1, <1>8, <2>2
  <2> QED BY <2>1, <2>2
<1>10. PoolInv(m, q) BY <1>4, <1>6, <1>9 DEF PoolInv, PoolBut
<1> QED BY <1>4, <1>7, <1>8, <1>10 DEF ChangeIs, q, ns

-------------------------------------------------------------------------------
(* What one can walk to *)

(* The polygons of a mesh reached in n steps, as one function of n.        *)
Grown(ways, ball) == ball \cup {w[2] : w \in {w \in ways : w[1] \in ball}}

Ball_(m, start, ways) ==
    LET Ball[n \in 0..Cardinality(Polys(m))] ==
            IF n = 0 THEN {start}
            ELSE LET ball == Ball[n - 1]
                 IN  ball \cup {w[2] : w \in {w \in ways : w[1] \in ball}}
    IN  Ball

Spread_(m, start, ways) == Ball_(m, start, ways)[Cardinality(Polys(m))]

(* What that function is.                                                  *)
LEMMA BallIs ==
    ASSUME NEW m \in Meshes, NEW start, NEW ways
    PROVE  /\ Cardinality(Polys(m)) \in Nat
           /\ Spread_(m, start, ways) = Ball_(m, start, ways)[Cardinality(Polys(m))]
           /\ Ball_(m, start, ways)[0] = {start}
           /\ \A n \in 1..Cardinality(Polys(m)) :
                 Ball_(m, start, ways)[n] = Grown(ways, Ball_(m, start, ways)[n - 1])
<1> DEFINE N == Cardinality(Polys(m))
           Is(f, n) == f = [x \in 0..n |-> IF x = 0 THEN {start} ELSE Grown(ways, f[x - 1])]
           T == {n \in Nat : \E f : Is(f, n)}
<1>1. N \in Nat BY MeshAssumption, FS_CardinalityType
<1>2. 0 \in T
  <2> DEFINE f == [x \in 0..0 |-> {start}]
  <2>1. Is(f, 0)
    <3>1. \A x \in 0..0 : x = 0 OBVIOUS
    <3> QED BY <3>1
  <2> QED BY <2>1
<1>3. ASSUME NEW n \in Nat, n \in T PROVE n + 1 \in T
  <2>1. PICK f : Is(f, n) BY <1>3
  <2> DEFINE h == [x \in 0..(n + 1) |-> IF x = n + 1 THEN Grown(ways, f[n]) ELSE f[x]]
  <2>2. \A x \in 0..n : h[x] = f[x] OBVIOUS
  <2>3. ASSUME NEW x \in 0..(n + 1)
        PROVE  h[x] = IF x = 0 THEN {start} ELSE Grown(ways, h[x - 1])
    <3>1. CASE x = n + 1
      <4>1. h[x] = Grown(ways, f[n]) BY <3>1
      <4>2. x - 1 = n /\ x # 0 /\ h[x - 1] = f[n] BY <3>1, <2>2
      <4> QED BY <3>1, <4>1, <4>2
    <3>2. CASE x # n + 1
      <4>1. x \in 0..n /\ h[x] = f[x] BY <3>2, <2>2
      <4>2. f[x] = IF x = 0 THEN {start} ELSE Grown(ways, f[x - 1]) BY <2>1, <4>1
      <4>3. x # 0 => h[x - 1] = f[x - 1] BY <2>2, <4>1
      <4> QED BY <4>1, <4>2, <4>3
    <3> QED BY <3>1, <3>2
  <2>4. h = [x \in 0..(n + 1) |-> h[x]] OBVIOUS
  <2> HIDE DEF h
  <2>5. Is(h, n + 1) BY <2>3, <2>4
  <2> QED BY <2>5
<1>4. \E f : Is(f, N)
  <2> HIDE DEF T
  <2>1. Nat \subseteq T BY <1>2, <1>3, NatInd
  <2> QED BY <1>1, <2>1 DEF T
<1>5. Is(Ball_(m, start, ways), N)
  <2>1. Ball_(m, start, ways) = CHOOSE g : Is(g, N) BY DEF Ball_, Grown
  <2> HIDE DEF Is
  <2> QED BY <1>4, <2>1
<1>6. Spread_(m, start, ways) = Ball_(m, start, ways)[N] BY DEF Spread_
<1>7. Ball_(m, start, ways)[0] = {start} BY <1>1, <1>5
<1>8. ASSUME NEW n \in 1..N
      PROVE  Ball_(m, start, ways)[n] = Grown(ways, Ball_(m, start, ways)[n - 1])
  <2> DEFINE B == Ball_(m, start, ways)
  <2>1. n \in 0..N /\ n # 0 BY <1>1
  <2>2. B = [x \in 0..N |-> IF x = 0 THEN {start} ELSE Grown(ways, B[x - 1])] BY <1>5
  <2> HIDE DEF B
  <2>3. B[n] = IF n = 0 THEN {start} ELSE Grown(ways, B[n - 1]) BY <2>1, <2>2
  <2> QED BY <2>1, <2>3 DEF B
<1> QED BY <1>1, <1>6, <1>7, <1>8

(* Closed under the steps.                                                 *)
Shut_(ways, ps) == \A w \in ways : w[1] \in ps => w[2] \in ps

(* What one can walk to has the start, and every step from it leads into   *)
(* it: as many steps as there are polygons are enough.                     *)
LEMMA SpreadShut ==
    ASSUME NEW m \in Meshes, NEW start \in Polys(m),
           NEW ways \in SUBSET (Polys(m) \X Polys(m))
    PROVE  /\ start \in Spread_(m, start, ways) /\ Spread_(m, start, ways) \subseteq Polys(m)
           /\ Shut_(ways, Spread_(m, start, ways))
<1> DEFINE N == Cardinality(Polys(m))
           B == Ball_(m, start, ways)
           Big(n) == Shut_(ways, B[n]) \/ Cardinality(B[n]) > n
           Right(n) == start \in B[n] /\ B[n] \subseteq Polys(m) /\ Big(n)
           T == {n \in Nat : n <= N => Right(n)}
<1>1. /\ N \in Nat /\ IsFiniteSet(Polys(m)) /\ Spread_(m, start, ways) = B[N]
      /\ B[0] = {start} /\ \A n \in 1..N : B[n] = Grown(ways, B[n - 1])
  BY BallIs, HashesPolys
<1>2. 0 \in T
  <2>1. Cardinality({start}) = 1 BY FS_Singleton
  <2>2. Cardinality(B[0]) > 0 BY <1>1, <2>1
  <2>3. start \in B[0] /\ B[0] \subseteq Polys(m) BY <1>1
  <2> HIDE DEF B
  <2>4. Right(0) BY <2>2, <2>3
  <2> HIDE DEF Right
  <2> QED BY <2>4
<1>3. ASSUME NEW n \in Nat, n \in T PROVE n + 1 \in T
  <2> SUFFICES ASSUME n + 1 <= N PROVE Right(n + 1)
    OBVIOUS
  <2> DEFINE b == B[n]
             c == B[n + 1]
  <2>1. start \in b /\ b \subseteq Polys(m) /\ Big(n) BY <1>1, <1>3
  <2>2. c = Grown(ways, b)
    <3>1. n + 1 \in 1..N /\ (n + 1) - 1 = n BY <1>1
    <3> HIDE DEF B
    <3> QED BY <1>1, <3>1
  <2> HIDE DEF b, c
  <2>3. b \subseteq c /\ c \subseteq Polys(m)
    <3>1. \A w \in ways : w[2] \in Polys(m) OBVIOUS
    <3> QED BY <2>1, <2>2, <3>1 DEF Grown
  <2>4. CASE Shut_(ways, b)
    <3>1. c = b BY <2>2, <2>4 DEF Grown, Shut_
    <3> QED BY <2>1, <2>3, <2>4, <3>1 DEF b, c
  <2>5. CASE ~Shut_(ways, b)
    <3>1. PICK w \in ways : w[1] \in b /\ w[2] \notin b BY <2>5 DEF Shut_
    <3>2. w[2] \in c BY <2>2, <3>1 DEF Grown
    <3>3. IsFiniteSet(b) /\ IsFiniteSet(c) BY <1>1, <2>1, <2>3, FS_Subset
    <3>4. Cardinality(b) > n BY <2>1, <2>5 DEF b
    <3>5. Cardinality(b \cup {w[2]}) = Cardinality(b) + 1
      BY <3>1, <3>3, FS_AddElement
    <3>6. b \cup {w[2]} \subseteq c BY <2>3, <3>2
    <3>7. Cardinality(b \cup {w[2]}) <= Cardinality(c) BY <3>3, <3>6, FS_Subset
    <3>8. Cardinality(b) \in Nat /\ Cardinality(c) \in Nat BY <3>3, FS_CardinalityType
    <3>9. Cardinality(c) > n + 1 BY <3>4, <3>5, <3>7, <3>8
    <3> QED BY <2>1, <2>3, <3>9 DEF c
  <2> QED BY <2>4, <2>5
<1>4. Right(N)
  <2> HIDE DEF T, Right
  <2>1. N \in T BY <1>1, <1>2, <1>3, NatInd
  <2> QED BY <1>1, <2>1 DEF T
<1>5. Shut_(ways, B[N])
  <2>1. IsFiniteSet(B[N]) /\ Cardinality(B[N]) <= N BY <1>1, <1>4, FS_Subset
  <2>2. Cardinality(B[N]) \in Nat BY <2>1, FS_CardinalityType
  <2>3. ~(Cardinality(B[N]) > N) BY <1>1, <2>1, <2>2
  <2> HIDE DEF B
  <2> QED BY <1>4, <2>3
<1> HIDE DEF B
<1> QED BY <1>1, <1>4, <1>5

(* It is in every set of which that is true.                               *)
LEMMA SpreadLeast ==
    ASSUME NEW m \in Meshes, NEW start, NEW ways, NEW ps, start \in ps, Shut_(ways, ps)
    PROVE  Spread_(m, start, ways) \subseteq ps
<1> DEFINE N == Cardinality(Polys(m))
           B == Ball_(m, start, ways)
           T == {n \in Nat : n <= N => B[n] \subseteq ps}
<1>1. /\ N \in Nat /\ Spread_(m, start, ways) = B[N]
      /\ B[0] = {start} /\ \A n \in 1..N : B[n] = Grown(ways, B[n - 1])
  BY BallIs
<1> HIDE DEF B
<1>2. 0 \in T BY <1>1
<1>3. ASSUME NEW n \in Nat, n \in T PROVE n + 1 \in T
  <2> SUFFICES ASSUME n + 1 <= N PROVE B[n + 1] \subseteq ps
    OBVIOUS
  <2>1. n + 1 \in 1..N /\ (n + 1) - 1 = n BY <1>1
  <2>2. B[n + 1] = Grown(ways, B[n]) BY <1>1, <2>1
  <2>3. B[n] \subseteq ps BY <1>1, <1>3
  <2> QED BY <2>2, <2>3 DEF Grown, Shut_
<1>4. N \in T
  <2> HIDE DEF T
  <2> QED BY <1>1, <1>2, <1>3, NatInd
<1> QED BY <1>1, <1>4

-------------------------------------------------------------------------------
(* What is measured *)

(* The square of a distance is no less than nothing.                       *)
LEMMA DistanceNat ==
    ASSUME NEW a \in Int \X Int, NEW b \in Int \X Int, NEW c \in Int \X Int
    PROVE  DistancePtSegSqr(a, b, c) \in Nat
<1> DEFINE Off(i) == a[i] - Clamp(a[i], Min({b[i], c[i]}), Max({b[i], c[i]}))
<1>1. \A x, y \in Int : Min({x, y}) \in Int /\ Max({x, y}) \in Int
  <2> TAKE x, y \in Int
  <2>1. /\ \E u \in {x, y} : \A v \in {x, y} : u <= v
        /\ \E u \in {x, y} : \A v \in {x, y} : u >= v
    OBVIOUS
  <2> QED BY <2>1 DEF Min, Max
<1>2. \A i \in {1, 2} : a[i] \in Int /\ b[i] \in Int /\ c[i] \in Int OBVIOUS
<1>3. Off(1) \in Int /\ Off(2) \in Int BY <1>1, <1>2 DEF Clamp
<1>4. \A x \in Int : x * x \in Nat OBVIOUS
<1>5. DistancePtSegSqr(a, b, c) = Off(1) * Off(1) + Off(2) * Off(2)
  BY DEF DistancePtSegSqr
<1> HIDE DEF Off
<1>6. Off(1) * Off(1) \in Nat /\ Off(2) * Off(2) \in Nat BY <1>3, <1>4
<1>7. \A x, y \in Nat : x + y \in Nat OBVIOUS
<1> QED BY <1>5, <1>6, <1>7

FarFrom(m, center, ref, n) ==
    DistancePtSegSqr(center, EdgeEnds(m, ref, n)[1], EdgeEnds(m, ref, n)[2])

(* How far an edge is.                                                     *)
LEMMA FarNat ==
    ASSUME NEW m \in Meshes, NEW p \in Polys(m), NEW n \in 0..(Len(m.verts[p]) - 1),
           NEW center \in Int \X Int
    PROVE  FarFrom(m, center, p, n) \in Nat
<1> DEFINE v == m.verts[p]
<1>1. v \in Seq(Int \X Int) BY MeshAssumption
<1> HIDE DEF v
<1>2. Len(v) \in Nat /\ n \in Int /\ n >= 0 /\ n < Len(v) BY <1>1 DEF v
<1>3. n + 1 \in 1..Len(v) /\ ((n + 1) % Len(v)) + 1 \in 1..Len(v) BY <1>2
<1>4. EdgeEnds(m, p, n) = <<v[n + 1], v[((n + 1) % Len(v)) + 1]>>
  BY DEF EdgeEnds, v
<1>5. v[n + 1] \in Int \X Int /\ v[((n + 1) % Len(v)) + 1] \in Int \X Int
  BY <1>1, <1>3
<1> DEFINE a == EdgeEnds(m, p, n)[1]
           b == EdgeEnds(m, p, n)[2]
<1>6. a \in Int \X Int /\ b \in Int \X Int BY <1>4, <1>5
<1> HIDE DEF a, b
<1>7. DistancePtSegSqr(center, a, b) \in Nat BY <1>6, DistanceNat
<1> QED BY <1>7 DEF FarFrom, a, b

-------------------------------------------------------------------------------
(* What a search was asked and has found *)

FoundSet(m) == [ref : Polys(m), parent : Polys(m) \cup {NoRef}, cost : Nat]

CircleSet(m) ==
    [op : {"circle"}, start : Polys(m), center : Points(m), radius : Nat,
     radiusSqr : Nat, filter : Filters, max : Nat, results : Seq(FoundSet(m)),
     small : BOOLEAN, full : BOOLEAN, ended : BOOLEAN]
ShapeSet(m) ==
    [op : {"shape"}, start : Polys(m), center : Points(m), shape : Shapes,
     filter : Filters, max : Nat, results : Seq(FoundSet(m)),
     small : BOOLEAN, full : BOOLEAN, ended : BOOLEAN]
RandomSet(m) ==
    [op : {"random"}, start : Polys(m), center : Points(m), radius : Nat,
     radiusSqr : Nat, filter : Filters, areaSum : Nat,
     picked : Polys(m) \cup {NoRef}, full : BOOLEAN, ended : BOOLEAN]
WallSet(m) ==
    [op : {"wall"}, start : Polys(m), center : Points(m) \cap (Int \X Int),
     radius : Nat, radiusSqr : Nat, filter : Filters,
     hit : {<<>>} \cup (Polys(m) \X Nat), full : BOOLEAN, ended : BOOLEAN]

SearchSet(m) ==
    {s \in CircleSet(m) \cup ShapeSet(m) \cup RandomSet(m) \cup WallSet(m) :
        s.op \in {"circle", "random"} => s.radiusSqr = Square(s.radius)}

Lists(s) == s.op \in {"circle", "shape"}

(* What is true of every search.                                           *)
LEMMA SearchIs ==
    ASSUME NEW m, NEW s \in SearchSet(m)
    PROVE  /\ s.op \in {"circle", "shape", "random", "wall"}
           /\ s.start \in Polys(m) /\ s.center \in Points(m) /\ s.filter \in Filters
           /\ s.full \in BOOLEAN /\ s.ended \in BOOLEAN
           /\ s.op # "shape" => s.radius \in Nat /\ s.radiusSqr \in Nat
           /\ s.op \in {"circle", "random"} => s.radiusSqr = Square(s.radius)
           /\ Lists(s) => s.max \in Nat /\ s.results \in Seq(FoundSet(m)) /\ s.small \in BOOLEAN
           /\ s.op = "random" => s.areaSum \in Nat /\ s.picked \in Polys(m) \cup {NoRef}
           /\ s.op = "wall" => s.center \in Int \X Int /\ s \in WallSet(m)
           /\ s # NoSearch
<1>1. s \in CircleSet(m) \/ s \in ShapeSet(m) \/ s \in RandomSet(m) \/ s \in WallSet(m)
  BY DEF SearchSet
<1>2. s.op \in {"circle", "random"} => s.radiusSqr = Square(s.radius) BY DEF SearchSet
<1>3. CASE s \in CircleSet(m) BY <1>2, <1>3 DEF CircleSet, Lists, NoSearch
<1>4. CASE s \in ShapeSet(m) BY <1>2, <1>4 DEF ShapeSet, Lists, NoSearch
<1>5. CASE s \in RandomSet(m) BY <1>2, <1>5 DEF RandomSet, Lists, NoSearch
<1>6. CASE s \in WallSet(m) BY <1>2, <1>6 DEF WallSet, Lists, NoSearch
<1> QED BY <1>1, <1>3, <1>4, <1>5, <1>6

(* The same was asked.                                                     *)
SameAsked(s, t) ==
    /\ t.op = s.op /\ t.start = s.start /\ t.center = s.center /\ t.filter = s.filter
    /\ s.op = "shape" => t.shape = s.shape
    /\ s.op # "shape" => t.radius = s.radius

(* And the same was found.                                                 *)
SameFound(s, t) ==
    /\ s.op # "shape" => t.radiusSqr = s.radiusSqr
    /\ Lists(s) => t.max = s.max /\ t.results = s.results /\ t.small = s.small
    /\ s.op = "random" => t.areaSum = s.areaSum /\ t.picked = s.picked
    /\ s.op = "wall" => t.hit = s.hit

(* A turn ends with its flags.                                             *)
Flagged(s, a, b) == [s EXCEPT !.full = a, !.ended = b]

(* The flags are all that this changes.                                    *)
LEMMA FlagsSet ==
    ASSUME NEW m, NEW s \in SearchSet(m), NEW a \in BOOLEAN, NEW b \in BOOLEAN,
           NEW t, t = Flagged(s, a, b)
    PROVE  /\ t \in SearchSet(m) /\ t.full = a /\ t.ended = b
           /\ SameAsked(s, t) /\ SameFound(s, t)
<1>1. s \in CircleSet(m) \/ s \in ShapeSet(m) \/ s \in RandomSet(m) \/ s \in WallSet(m)
  BY DEF SearchSet
<1>2. s.op \in {"circle", "random"} => s.radiusSqr = Square(s.radius) BY DEF SearchSet
<1> USE DEF SameAsked, SameFound, Lists
<1>3. CASE s \in CircleSet(m)
  <2>1. /\ t \in CircleSet(m) /\ t.full = a /\ t.ended = b
        /\ t.op = "circle" /\ s.op = "circle" /\ t.start = s.start /\ t.center = s.center
        /\ t.filter = s.filter /\ t.radius = s.radius /\ t.radiusSqr = s.radiusSqr
        /\ t.max = s.max /\ t.results = s.results /\ t.small = s.small
    BY <1>3 DEF CircleSet, Flagged
  <2> QED BY <1>2, <2>1 DEF SearchSet
<1>4. CASE s \in ShapeSet(m)
  <2>1. /\ t \in ShapeSet(m) /\ t.full = a /\ t.ended = b
        /\ t.op = "shape" /\ s.op = "shape" /\ t.start = s.start /\ t.center = s.center
        /\ t.filter = s.filter /\ t.shape = s.shape
        /\ t.max = s.max /\ t.results = s.results /\ t.small = s.small
    BY <1>4 DEF ShapeSet, Flagged
  <2> QED BY <1>2, <2>1 DEF SearchSet
<1>5. CASE s \in RandomSet(m)
  <2>1. /\ t \in RandomSet(m) /\ t.full = a /\ t.ended = b
        /\ t.op = "random" /\ s.op = "random" /\ t.start = s.start /\ t.center = s.center
        /\ t.filter = s.filter /\ t.radius = s.radius /\ t.radiusSqr = s.radiusSqr
        /\ t.areaSum = s.areaSum /\ t.picked = s.picked
    BY <1>5 DEF RandomSet, Flagged
  <2> QED BY <1>2, <2>1 DEF SearchSet
<1>6. CASE s \in WallSet(m)
  <2>1. /\ t \in WallSet(m) /\ t.full = a /\ t.ended = b
        /\ t.op = "wall" /\ s.op = "wall" /\ t.start = s.start /\ t.center = s.center
        /\ t.filter = s.filter /\ t.radius = s.radius /\ t.radiusSqr = s.radiusSqr
        /\ t.hit = s.hit
    BY <1>6 DEF WallSet, Flagged
  <2> QED BY <1>2, <2>1 DEF SearchSet
<1> QED BY <1>1, <1>3, <1>4, <1>5, <1>6

-------------------------------------------------------------------------------
(* Where a search may go *)

(* Whether a link may be followed within a radius, whatever it has shrunk  *)
(* to since.                                                               *)
FollowsAt(m, s, radiusSqr, from, link) ==
    LET seg == IF s.op = "wall" THEN EdgeEnds(m, from, link.edge)
               ELSE GetPortalPoints(m, from, link.to)
    IN  /\ PassFilter(s.filter, m, link.to)
        /\ s.op = "wall" => m.ground[link.to]
        /\ IF s.op = "shape" THEN IntersectSegmentPoly(seg[1], seg[2], s.shape)
           ELSE DistancePtSegSqr(s.center, seg[1], seg[2]) <= radiusSqr

(* The steps such links are.                                               *)
StepsAt(m, s, radiusSqr) ==
    {w \in Polys(m) \X Polys(m) : \E l \in Range(m.links[w[1]]) :
        l.to = w[2] /\ FollowsAt(m, s, radiusSqr, w[1], l)}

(* All a search may reach.                                                 *)
Area(m, s) == Spread_(m, s.start, StepsAt(m, s, Square(s.radius)))

(* The test of a link in the loops.                                        *)
LEMMA FollowedIs ==
    ASSUME NEW s, NEW from, NEW link
    PROVE  Followed(s, from, link) <=> FollowsAt(mesh, s, s.radiusSqr, from, link)
BY DEF Followed, FollowsAt, Touches, Crossed

(* What was asked says where it may go.                                    *)
LEMMA SameFollows ==
    ASSUME NEW m, NEW s, NEW t, SameAsked(s, t), NEW radiusSqr, NEW from, NEW link
    PROVE  FollowsAt(m, t, radiusSqr, from, link) <=> FollowsAt(m, s, radiusSqr, from, link)
BY DEF FollowsAt, SameAsked

(* And how far: the radius of a shape is never asked for.                  *)
LEMMA SameArea ==
    ASSUME NEW m, NEW s, NEW t, SameAsked(s, t)
    PROVE  Area(m, t) = Area(m, s)
<1>1. ASSUME NEW from, NEW link
      PROVE  FollowsAt(m, t, Square(t.radius), from, link)
               <=> FollowsAt(m, s, Square(s.radius), from, link)
  BY DEF FollowsAt, SameAsked
<1>2. StepsAt(m, t, Square(t.radius)) = StepsAt(m, s, Square(s.radius))
  BY <1>1 DEF StepsAt
<1>3. t.start = s.start BY DEF SameAsked
<1> QED BY <1>2, <1>3 DEF Area

(* A link that may be followed within a smaller radius may within a larger.*)
LEMMA FollowsWider ==
    ASSUME NEW m \in Meshes, NEW s \in SearchSet(m), NEW from \in Polys(m),
           NEW link \in Range(m.links[from]), NEW r \in Nat, NEW r2 \in Nat,
           s.op = "wall" => r <= r2, s.op # "wall" => r = r2,
           FollowsAt(m, s, r, from, link)
    PROVE  FollowsAt(m, s, r2, from, link)
<1>1. CASE s.op = "wall"
  <2>1. /\ PassFilter(s.filter, m, link.to) /\ m.ground[link.to]
        /\ FarFrom(m, s.center, from, link.edge) <= r
    BY <1>1 DEF FollowsAt, FarFrom
  <2>2. link.edge \in 0..(Len(m.verts[from]) - 1) BY <2>1, MeshAssumption
  <2>3. s.center \in Int \X Int BY <1>1, SearchIs
  <2>4. FarFrom(m, s.center, from, link.edge) \in Nat BY <2>2, <2>3, FarNat
  <2>5. FarFrom(m, s.center, from, link.edge) <= r2 BY <1>1, <2>1, <2>4
  <2> QED BY <1>1, <2>1, <2>5 DEF FollowsAt, FarFrom
<1>2. CASE s.op # "wall" BY <1>2
<1> QED BY <1>1, <1>2

(* A step within a radius leads on in what can be walked to.               *)
LEMMA AreaShut ==
    ASSUME NEW m \in Meshes, NEW s \in SearchSet(m)
    PROVE  /\ s.start \in Area(m, s) /\ Area(m, s) \subseteq Polys(m)
           /\ \A p \in Area(m, s) : \A l \in Range(m.links[p]) :
                 FollowsAt(m, s, Square(s.radius), p, l) => l.to \in Area(m, s)
<1> DEFINE steps == StepsAt(m, s, Square(s.radius))
           A == Spread_(m, s.start, steps)
<1>1. s.start \in Polys(m) BY SearchIs
<1>2. steps \in SUBSET (Polys(m) \X Polys(m)) BY DEF StepsAt
<1> HIDE DEF steps
<1>3. s.start \in A /\ A \subseteq Polys(m) /\ Shut_(steps, A) BY <1>1, <1>2, SpreadShut
<1>4. ASSUME NEW p \in A, NEW l \in Range(m.links[p]),
             FollowsAt(m, s, Square(s.radius), p, l)
      PROVE  l.to \in A
  <2>1. p \in Polys(m) BY <1>3
  <2>2. l.to \in Polys(m) BY <2>1, MeshAssumption
  <2>3. <<p, l.to>> \in steps BY <1>4, <2>1, <2>2 DEF steps, StepsAt
  <2> HIDE DEF A
  <2> QED BY <1>3, <2>3 DEF Shut_
<1> QED BY <1>3, <1>4 DEF Area, steps

(* What is entered over the links of a polygon is entered at a point of    *)
(* the mesh.                                                               *)
LEMMA MiddleIn ==
    ASSUME NEW m \in Meshes, NEW p \in Polys(m), NEW l \in Range(m.links[p])
    PROVE  Middle(GetPortalPoints(m, p, l.to)) \in Points(m)
BY DEF Points

(* What a step costs is no less than nothing.                              *)
LEMMA StepCostNat ==
    ASSUME mesh \in Meshes, NEW s \in SearchSet(mesh), NEW from, NEW pos \in Points(mesh),
           from.pos \in Points(mesh), from.id \in Polys(mesh)
    PROVE  StepCost(s, from, pos) \in Nat
<1>1. Distance(from.pos, pos) \in Nat BY MeshAssumption
<1>2. s.filter \in Filters BY SearchIs
<1>3. s.filter.cost[mesh.area[from.id]] \in Nat BY <1>2, MeshAssumption
<1>4. \A x, y \in Nat : x * y \in Nat OBVIOUS
<1>5. GetCost(s.filter, mesh, from.pos, pos, from.id) \in Nat BY <1>1, <1>3, <1>4 DEF GetCost
<1> QED BY <1>1, <1>5 DEF StepCost

-------------------------------------------------------------------------------
(* The nodes of a search *)

(* Node 1 is the start's, and is closed before there is another.  Every    *)
(* other node has a closed one as its parent, over a link, and lies where  *)
(* the search may go; none that is closed costs more than one still open.  *)
NodesInv(m, s, p) ==
    /\ PoolInv(m, p)
    /\ Len(p.nodes) >= 1 /\ p.nodes[1].id = s.start /\ p.nodes[1].pidx = 0
    /\ 1 \in Closeds(p) \/ Len(p.nodes) = 1
    /\ \A i \in Numbers(p) :
          /\ p.nodes[i].pos \in Points(m) /\ p.nodes[i].id \in Area(m, s)
          /\ i # 1 => /\ p.nodes[i].pidx \in Closeds(p)
                      /\ \E l \in Range(m.links[p.nodes[p.nodes[i].pidx].id]) :
                            l.to = p.nodes[i].id
    /\ \A i \in Closeds(p), k \in Opens(p) : p.nodes[i].total <= p.nodes[k].total
    /\ Acyclic(p.nodes)

(* There is a node for a polygon.                                          *)
Has(p, id) == \E k \in Numbers(p) : p.nodes[k].id = id

(* A pool has got on: more nodes, the closed ones as they were.            *)
GrownFrom(p, q) ==
    /\ Len(p.nodes) <= Len(q.nodes) /\ q.max = p.max
    /\ \A i \in Numbers(p) : i \in Numbers(q) /\ q.nodes[i].id = p.nodes[i].id
    /\ Closeds(q) = Closeds(p) /\ \A i \in Closeds(p) : q.nodes[i] = p.nodes[i]

(* A search between two links of the best node.                            *)
Between(m, s, b, r) ==
    /\ r = [heap |-> r.heap, full |-> r.full, pool |-> r.pool] /\ r.full \in BOOLEAN
    /\ NodesInv(m, s, r.pool)
    /\ OpenList(r.pool, r.heap, Opens(r.pool))
    /\ b \in Closeds(r.pool)
    /\ \A k \in Opens(r.pool) : r.pool.nodes[b].total <= r.pool.nodes[k].total
    /\ \A c \in Closeds(r.pool) : r.pool.nodes[c].total <= r.pool.nodes[b].total

(* Where one is over a link.                                               *)
Crossing(m, s, b, r, q, link) ==
    /\ Between(m, s, b, q) /\ GrownFrom(r.pool, q.pool)
    /\ r.full => q.full
    /\ ~q.full /\ FollowsAt(m, s, s.radiusSqr, r.pool.nodes[b].id, link)
         => Has(q.pool, link.to)

(* Pools that get on do so for good.                                       *)
LEMMA GrownTwice ==
    ASSUME NEW p, NEW q, NEW u, GrownFrom(p, q), GrownFrom(q, u),
           Len(p.nodes) \in Nat, Len(q.nodes) \in Nat, Len(u.nodes) \in Nat
    PROVE  GrownFrom(p, u)
BY DEF GrownFrom

(* And so does one that stays as it is.                                    *)
LEMMA GrownSame ==
    ASSUME NEW p, Len(p.nodes) \in Nat
    PROVE  GrownFrom(p, p)
BY DEF GrownFrom

(* A polygon that has a node keeps it.                                     *)
LEMMA HasStill ==
    ASSUME NEW p, NEW q, GrownFrom(p, q), NEW id, Has(p, id)
    PROVE  Has(q, id)
BY DEF Has, GrownFrom

(* Nodes that are open or closed are one and not the other.                *)
LEMMA OpenOrClosed ==
    ASSUME NEW m, NEW p, PoolInv(m, p), NEW i \in Numbers(p)
    PROVE  /\ i \in Closeds(p) <=> p.nodes[i].flags = {"CLOSED"}
           /\ i \in Opens(p) <=> p.nodes[i].flags = {"OPEN"}
           /\ i \in Closeds(p) \/ i \in Opens(p)
           /\ ~(i \in Closeds(p) /\ i \in Opens(p))
<1>1. p.nodes[i].flags \in {{"OPEN"}, {"CLOSED"}} BY NodeIs
<1>2. "OPEN" \in {"OPEN"} /\ "OPEN" \notin {"CLOSED"} /\ {"OPEN"} # {"CLOSED"} OBVIOUS
<1> QED BY <1>1, <1>2 DEF Opens, Closeds

(* No ring of parents comes with a node whose parent is closed.            *)
LEMMA AcyclicStill ==
    ASSUME NEW m, NEW p, NEW q, PoolInv(m, q), Acyclic(p.nodes), GrownFrom(p, q),
           q.nodes[1].pidx = 0,
           \A i \in Numbers(q) : i # 1 => q.nodes[i].pidx \in Closeds(q)
    PROVE  Acyclic(q.nodes)
<1>1. Len(q.nodes) \in Nat /\ \A i \in 1..Len(q.nodes) : q.nodes[i].pidx \in 0..Len(q.nodes)
  BY NodeIs DEF Numbers
<1>2. ASSUME NEW ring \in SUBSET (1..Len(q.nodes)), ring # {},
             \A k \in ring : q.nodes[k].pidx \in ring
      PROVE  FALSE
  <2> DEFINE shut == ring \cap Closeds(q)
  <2>1. ASSUME NEW k \in ring PROVE q.nodes[k].pidx \in shut
    <3>1. 0 \notin ring OBVIOUS
    <3>2. k # 1 BY <1>2, <3>1
    <3>3. k \in Numbers(q) BY DEF Numbers
    <3> QED BY <1>2, <3>2, <3>3
  <2>2. shut # {} BY <1>2, <2>1
  <2>3. \A k \in shut : p.nodes[k].pidx \in shut BY <2>1 DEF GrownFrom
  <2>4. shut \in SUBSET (1..Len(p.nodes)) BY DEF GrownFrom, Closeds, Numbers
  <2> HIDE DEF shut
  <2> QED BY <2>2, <2>3, <2>4 DEF Acyclic
<1> QED BY <1>1, <1>2 DEF Acyclic

(* One node more, or one that is open and reached at less.                 *)
Placing(m, s, b, p, q, i) ==
    /\ PoolInv(m, q) /\ q.max = p.max
    /\ i \in Numbers(q) /\ i \notin Closeds(p)
    /\ \/ Len(q.nodes) = Len(p.nodes)
       \/ Len(q.nodes) = Len(p.nodes) + 1 /\ i = Len(p.nodes) + 1
    /\ \A k \in Numbers(p) : k # i => q.nodes[k] = p.nodes[k]
    /\ i \in Numbers(p) => q.nodes[i].id = p.nodes[i].id
    /\ q.nodes[i].flags = {"OPEN"} /\ q.nodes[i].pidx = b
    /\ q.nodes[i].pos \in Points(m) /\ q.nodes[i].id \in Area(m, s)
    /\ q.nodes[i].total >= p.nodes[b].total
    /\ \E l \in Range(m.links[p.nodes[b].id]) : l.to = q.nodes[i].id

(* The nodes are as they should be with it.                                *)
LEMMA PlacedOK ==
    ASSUME NEW m \in Meshes, NEW s, NEW b, NEW p, NodesInv(m, s, p), b \in Closeds(p),
           \A k \in Opens(p) : p.nodes[b].total <= p.nodes[k].total,
           \A c \in Closeds(p) : p.nodes[c].total <= p.nodes[b].total,
           NEW q, NEW i, Placing(m, s, b, p, q, i)
    PROVE  /\ NodesInv(m, s, q) /\ GrownFrom(p, q) /\ Opens(q) = Opens(p) \cup {i}
           /\ b \in Closeds(q) /\ q.nodes[b] = p.nodes[b]
           /\ \A k \in Opens(q) : q.nodes[b].total <= q.nodes[k].total
           /\ \A c \in Closeds(q) : q.nodes[c].total <= q.nodes[b].total
<1>1. PoolInv(m, p) /\ PoolInv(m, q) BY DEF NodesInv, Placing
<1>2. /\ Len(p.nodes) \in Nat /\ Len(q.nodes) \in Nat
      /\ \A k \in Numbers(p) : p.nodes[k].total \in Nat
      /\ \A k \in Numbers(q) : q.nodes[k].total \in Nat
  BY <1>1, NodeIs
<1>3. Numbers(q) = Numbers(p) \cup {i} /\ Numbers(p) \subseteq Numbers(q)
  BY <1>2 DEF Placing, Numbers
<1>4. 1 \in Closeds(p)
  <2>1. b \in Numbers(p) BY DEF Closeds
  <2>2. Len(p.nodes) = 1 => b = 1 BY <2>1 DEF Numbers
  <2> QED BY <2>2 DEF NodesInv
<1>5. i # 1 /\ i # b BY <1>4 DEF Placing
<1>6. \A k \in Numbers(p) : k # i => q.nodes[k] = p.nodes[k] BY DEF Placing
<1>7. i \notin Closeds(q) /\ i \in Opens(q)
  <2>1. i \in Numbers(q) /\ q.nodes[i].flags = {"OPEN"} BY DEF Placing
  <2> QED BY <1>1, <2>1, OpenOrClosed
<1>8. Closeds(q) = Closeds(p) /\ \A k \in Closeds(p) : q.nodes[k] = p.nodes[k]
  <2>1. \A k \in Closeds(p) : k \in Numbers(p) /\ k # i BY DEF Placing, Closeds
  <2>2. \A k \in Closeds(q) : k \in Numbers(p) /\ k # i BY <1>3, <1>7 DEF Closeds
  <2> QED BY <1>3, <1>6, <2>1, <2>2 DEF Closeds
<1>9. Opens(q) = Opens(p) \cup {i}
  <2>1. \A k \in Numbers(p) : k # i => (k \in Opens(q) <=> k \in Opens(p))
    BY <1>3, <1>6 DEF Opens
  <2> QED BY <1>3, <1>7, <2>1 DEF Opens
<1>10. \A k \in Numbers(p) : q.nodes[k].id = p.nodes[k].id BY <1>6 DEF Placing
<1>11. GrownFrom(p, q)
  <2>1. Len(p.nodes) <= Len(q.nodes) /\ q.max = p.max BY <1>2 DEF Placing
  <2> QED BY <1>3, <1>8, <1>10, <2>1 DEF GrownFrom
<1>12. b \in Closeds(q) /\ q.nodes[b] = p.nodes[b] BY <1>8
<1>13. \A k \in Opens(q) : q.nodes[b].total <= q.nodes[k].total
  <2> TAKE k \in Opens(q)
  <2>1. CASE k = i
    BY <1>2, <1>12, <2>1 DEF Placing, Closeds
  <2>2. CASE k # i
    <3>1. k \in Opens(p) /\ k \in Numbers(p) BY <1>9, <2>2 DEF Opens
    <3> QED BY <1>6, <1>12, <2>2, <3>1
  <2> QED BY <2>1, <2>2
<1>14. ASSUME NEW k \in Numbers(q)
       PROVE  /\ q.nodes[k].pos \in Points(m) /\ q.nodes[k].id \in Area(m, s)
              /\ k # 1 => /\ q.nodes[k].pidx \in Closeds(q)
                          /\ \E l \in Range(m.links[q.nodes[q.nodes[k].pidx].id]) :
                                l.to = q.nodes[k].id
  <2>1. CASE k = i BY <1>12, <2>1 DEF Placing
  <2>2. CASE k # i
    <3>1. k \in Numbers(p) /\ q.nodes[k] = p.nodes[k] BY <1>3, <1>6, <2>2
    <3>2. /\ p.nodes[k].pos \in Points(m) /\ p.nodes[k].id \in Area(m, s)
          /\ k # 1 => /\ p.nodes[k].pidx \in Closeds(p)
                      /\ \E l \in Range(m.links[p.nodes[p.nodes[k].pidx].id]) :
                            l.to = p.nodes[k].id
      BY <3>1 DEF NodesInv
    <3> QED BY <1>8, <3>1, <3>2
  <2> QED BY <2>1, <2>2
<1>15. \A c \in Closeds(q), k \in Opens(q) : q.nodes[c].total <= q.nodes[k].total
  <2> TAKE c \in Closeds(q), k \in Opens(q)
  <2>1. c \in Closeds(p) /\ q.nodes[c] = p.nodes[c] /\ c \in Numbers(p) BY <1>8 DEF Closeds
  <2>2. CASE k = i
    <3>1. p.nodes[c].total <= p.nodes[b].total BY <2>1
    <3>2. p.nodes[b].total <= q.nodes[k].total BY <2>2 DEF Placing
    <3>3. b \in Numbers(p) /\ k \in Numbers(q) BY <2>2 DEF Closeds, Placing
    <3> QED BY <1>2, <2>1, <3>1, <3>2, <3>3
  <2>3. CASE k # i
    <3>1. k \in Opens(p) /\ q.nodes[k] = p.nodes[k] BY <1>6, <1>9, <2>3 DEF Opens
    <3>2. p.nodes[c].total <= p.nodes[k].total BY <2>1, <3>1 DEF NodesInv
    <3> QED BY <2>1, <3>1, <3>2
  <2> QED BY <2>2, <2>3
<1>16. q.nodes[1].id = s.start /\ q.nodes[1].pidx = 0
  BY <1>4, <1>8 DEF NodesInv
<1>17. Acyclic(q.nodes) BY <1>1, <1>11, <1>14, <1>16, AcyclicStill DEF NodesInv
<1>18. Len(q.nodes) >= 1 BY <1>2, <1>11 DEF GrownFrom, NodesInv
<1>19. \A c \in Closeds(q) : q.nodes[c].total <= q.nodes[b].total BY <1>8, <1>12
<1>20. NodesInv(m, s, q)
  BY <1>1, <1>4, <1>8, <1>14, <1>15, <1>16, <1>17, <1>18 DEF NodesInv
<1> QED BY <1>9, <1>11, <1>12, <1>13, <1>19, <1>20

PlaceFor(p, b, i, link) ==
    IF p.nodes[i].flags = {} THEN Middle(GetPortalPoints(mesh, p.nodes[b].id, link.to))
    ELSE p.nodes[i].pos
TotalFor(s, p, b, i, link) ==
    p.nodes[b].total + StepCost(s, p.nodes[b], PlaceFor(p, b, i, link))
SetFor(s, p, b, i, link) ==
    [p EXCEPT !.nodes[i].pos = PlaceFor(p, b, i, link), !.nodes[i].pidx = b,
              !.nodes[i].total = TotalFor(s, p, b, i, link),
              !.nodes[i].flags = {"OPEN"}]
NodeFor(s, p, b, i, link) ==
    [p.nodes[i] EXCEPT !.pos = PlaceFor(p, b, i, link), !.pidx = b,
                       !.total = TotalFor(s, p, b, i, link), !.flags = {"OPEN"}]

(* What becomes of a node that a link leads to.                            *)
LEMMA ReachedIs ==
    ASSUME NEW s, NEW b, NEW t, NEW i, NEW link
    PROVE  LET set == SetFor(s, t.pool, b, i, link)
               to == t.pool.nodes[i]
           IN  Reached(s, b, t, i, link)
                 = IF "CLOSED" \in to.flags THEN t
                   ELSE IF to.flags = {} THEN [t EXCEPT !.pool = set, !.heap = Push(set, @, i)]
                   ELSE IF set.nodes[i].total >= to.total THEN t
                   ELSE [t EXCEPT !.pool = set, !.heap = Modify(set, @, i)]
BY DEF Reached, SetFor, PlaceFor, TotalFor

(* To change a node again is to change it once.                            *)
LEMMA ChangedTwice ==
    ASSUME NEW p, NEW i \in Numbers(p), NEW P, NEW X, PoolTyped(p, P, X), NEW x, NEW y
    PROVE  /\ Changed(p, i, x).nodes[i] = x
           /\ Changed(Changed(p, i, x), i, y) = Changed(p, i, y)
<1>1. p.nodes \in Seq(NodeSet(P, X)) /\ i \in DOMAIN p.nodes BY NodesTyped DEF Numbers
<1>2. p = [max |-> p.max, nodes |-> p.nodes, next |-> p.next, first |-> p.first]
  BY DEF PoolTyped
<1> DEFINE a == [p.nodes EXCEPT ![i] = x]
<1>3. a[i] = x /\ [a EXCEPT ![i] = y] = [p.nodes EXCEPT ![i] = y] BY <1>1
<1>4. Changed(p, i, x) = [max |-> p.max, nodes |-> a, next |-> p.next, first |-> p.first]
  BY <1>2 DEF Changed
<1>5. Changed(p, i, y) = [max |-> p.max, nodes |-> [p.nodes EXCEPT ![i] = y],
                          next |-> p.next, first |-> p.first]
  BY <1>2 DEF Changed
<1> DEFINE q == Changed(p, i, x)
<1>6. q.nodes = a /\ q.max = p.max /\ q.next = p.next /\ q.first = p.first
      /\ q = [max |-> q.max, nodes |-> q.nodes, next |-> q.next, first |-> q.first]
  <2> HIDE DEF a
  <2> QED BY <1>4
<1> HIDE DEF q
<1>7. Changed(q, i, y) = [max |-> q.max, nodes |-> [q.nodes EXCEPT ![i] = y],
                          next |-> q.next, first |-> q.first]
  BY <1>6 DEF Changed
<1> HIDE DEF a
<1> QED BY <1>3, <1>5, <1>6, <1>7 DEF q

(* It is one node that changes.                                            *)
LEMMA SetForIs ==
    ASSUME NEW s, NEW p, NEW b, NEW i \in Numbers(p), NEW link, NEW P, NEW X,
           PoolTyped(p, P, X)
    PROVE  SetFor(s, p, b, i, link) = Changed(p, i, NodeFor(s, p, b, i, link))
<1> DEFINE pos == PlaceFor(p, b, i, link)
           total == TotalFor(s, p, b, i, link)
           n1 == [p.nodes[i] EXCEPT !.pos = pos]
           q1 == Changed(p, i, n1)
           n2 == [n1 EXCEPT !.pidx = b]
           q2 == Changed(p, i, n2)
           n3 == [n2 EXCEPT !.total = total]
           q3 == Changed(p, i, n3)
           n4 == [n3 EXCEPT !.flags = {"OPEN"}]
<1>1. SetFor(s, p, b, i, link)
        = [[[q1 EXCEPT !.nodes[i].pidx = b] EXCEPT !.nodes[i].total = total]
             EXCEPT !.nodes[i].flags = {"OPEN"}]
  BY DEF SetFor, Changed
<1> HIDE DEF pos, total
<1>2. [q1 EXCEPT !.nodes[i].pidx = b] = q2
  <2>1. [q1 EXCEPT !.nodes[i].pidx = b] = Changed(q1, i, [q1.nodes[i] EXCEPT !.pidx = b])
    BY DEF Changed
  <2> HIDE DEF n1
  <2>2. q1.nodes[i] = n1 /\ \A y : Changed(q1, i, y) = Changed(p, i, y) BY ChangedTwice
  <2> HIDE DEF q1
  <2> QED BY <2>1, <2>2
<1>3. [q2 EXCEPT !.nodes[i].total = total] = q3
  <2>1. [q2 EXCEPT !.nodes[i].total = total] = Changed(q2, i, [q2.nodes[i] EXCEPT !.total = total])
    BY DEF Changed
  <2> HIDE DEF n2
  <2>2. q2.nodes[i] = n2 /\ \A y : Changed(q2, i, y) = Changed(p, i, y) BY ChangedTwice
  <2> HIDE DEF q2
  <2> QED BY <2>1, <2>2
<1>4. [q3 EXCEPT !.nodes[i].flags = {"OPEN"}] = Changed(p, i, n4)
  <2>1. [q3 EXCEPT !.nodes[i].flags = {"OPEN"}]
          = Changed(q3, i, [q3.nodes[i] EXCEPT !.flags = {"OPEN"}])
    BY DEF Changed
  <2> HIDE DEF n3
  <2>2. q3.nodes[i] = n3 /\ \A y : Changed(q3, i, y) = Changed(p, i, y) BY ChangedTwice
  <2> HIDE DEF q3
  <2> QED BY <2>1, <2>2
<1>5. NodeFor(s, p, b, i, link) = n4 BY DEF NodeFor, pos, total
<1> HIDE DEF q1, q2, q3, n4
<1> QED BY <1>1, <1>2, <1>3, <1>4, <1>5

(* What a link leads to is a place of its pool, open or new.               *)
LEMMA ReachedOK ==
    ASSUME mesh \in Meshes, NEW s \in SearchSet(mesh), NEW b, NEW r, Between(mesh, s, b, r),
           NEW link \in Range(mesh.links[r.pool.nodes[b].id]),
           FollowsAt(mesh, s, Square(s.radius), r.pool.nodes[b].id, link),
           CanGetNode(r.pool, link.to, 0)
    PROVE  LET q == Reached(s, b, [r EXCEPT !.pool = GetNode(@, link.to, 0)],
                            NodeIdx(r.pool, link.to, 0), link)
           IN  /\ Between(mesh, s, b, q) /\ GrownFrom(r.pool, q.pool) /\ q.full = r.full
               /\ Has(q.pool, link.to)
<1> DEFINE p == r.pool
           g == GetNode(p, link.to, 0)
           i == NodeIdx(p, link.to, 0)
           t == [r EXCEPT !.pool = g]
           q == Reached(s, b, t, i, link)
           from == g.nodes[b]
           to == g.nodes[i]
           pos == PlaceFor(g, b, i, link)
           total == TotalFor(s, g, b, i, link)
           node == NodeFor(s, g, b, i, link)
           set == SetFor(s, g, b, i, link)
<1>1. /\ r = [heap |-> r.heap, full |-> r.full, pool |-> p] /\ r.full \in BOOLEAN
      /\ NodesInv(mesh, s, p) /\ OpenList(p, r.heap, Opens(p)) /\ b \in Closeds(p)
      /\ \A k \in Opens(p) : p.nodes[b].total <= p.nodes[k].total
      /\ \A c \in Closeds(p) : p.nodes[c].total <= p.nodes[b].total
  BY DEF Between
<1>2. PoolInv(mesh, p) /\ b \in Numbers(p) BY <1>1 DEF NodesInv, Closeds
<1>3. /\ Len(p.nodes) \in Nat
      /\ \A k \in Numbers(p) : /\ p.nodes[k] \in NodeSet(Polys(mesh), Places(mesh))
                               /\ p.nodes[k].id \in Polys(mesh) /\ p.nodes[k].state = 0
                               /\ p.nodes[k].total \in Nat
                               /\ p.nodes[k].flags \in {{"OPEN"}, {"CLOSED"}}
  BY <1>2, NodeIs
<1>4. link.to \in Polys(mesh) BY <1>2, <1>3, MeshAssumption
<1>5. /\ i \in 1..Len(g.nodes)
      /\ \/ /\ g = p /\ i \in 1..Len(p.nodes) /\ IsNodeOf(p, i, link.to, 0)
         \/ /\ i = Len(p.nodes) + 1 /\ g.nodes = Append(p.nodes, Fresh(link.to, 0))
      /\ g.max = p.max /\ PoolOK(g, Polys(mesh), Places(mesh))
  <2>1. /\ <<>> \in Places(mesh) /\ HashesTo(Polys(mesh)) /\ PoolOK(p, Polys(mesh), Places(mesh))
        /\ 0 \in Nat
    BY <1>2, HashesPolys DEF PoolInv, PoolBut
  <2> HIDE DEF p
  <2> QED BY <1>4, <2>1, GetNodeIs DEF p
<1> HIDE DEF p, g, i
<1>6. /\ PoolBut(mesh, g, i) /\ i \in Numbers(g)
      /\ to \in NodeSet(Polys(mesh), Places(mesh)) /\ to.id = link.to /\ to.state = 0
      /\ \/ Len(g.nodes) = Len(p.nodes)
         \/ Len(g.nodes) = Len(p.nodes) + 1 /\ i = Len(p.nodes) + 1
      /\ \A k \in Numbers(p) : g.nodes[k] = p.nodes[k]
      /\ to.flags = {} => i \notin Numbers(p)
      /\ to.flags # {} => g = p
  <2>1. CASE g = p /\ i \in 1..Len(p.nodes) /\ IsNodeOf(p, i, link.to, 0)
    <3>1. PoolBut(mesh, p, i) BY <1>2, <1>3 DEF PoolInv, PoolBut, Numbers
    <3>2. i \in Numbers(p) BY <2>1 DEF Numbers
    <3> QED BY <1>3, <2>1, <3>1, <3>2 DEF IsNodeOf
  <2>2. CASE i = Len(p.nodes) + 1 /\ g.nodes = Append(p.nodes, Fresh(link.to, 0))
    <3>1. /\ Len(g.nodes) = Len(p.nodes) + 1 /\ to = Fresh(link.to, 0)
          /\ \A k \in Numbers(p) : g.nodes[k] = p.nodes[k]
          /\ Numbers(g) = Numbers(p) \cup {i} /\ i \notin Numbers(p)
      <4>1. p.nodes \in Seq(NodeSet(Polys(mesh), Places(mesh))) BY <1>2, NodeIs
      <4> QED BY <1>3, <2>2, <4>1 DEF Numbers
    <3>2. /\ to.id = link.to /\ to.state = 0 /\ to.flags = {}
          /\ to \in NodeSet(Polys(mesh), Places(mesh))
      BY <1>4, <3>1, HashesPolys DEF Fresh, NodeSet
    <3>3. ASSUME NEW k \in Numbers(p)
          PROVE  /\ g.nodes[k].state = 0 /\ g.nodes[k].pidx \in 0..Len(g.nodes)
                 /\ g.nodes[k].flags \in {{"OPEN"}, {"CLOSED"}}
      <4>1. p.nodes[k].pidx \in 0..Len(p.nodes) BY <1>2, NodeIs
      <4> QED BY <1>3, <3>1, <4>1
    <3>4. g.max \in PoolSizes BY <1>2, <1>5, NodeIs
    <3>5. PoolBut(mesh, g, i) BY <1>5, <3>1, <3>2, <3>3, <3>4 DEF PoolBut
    <3>6. i \in Numbers(g) BY <3>1
    <3> HIDE DEF to
    <3> QED BY <2>2, <3>1, <3>2, <3>5, <3>6
  <2> QED BY <1>5, <2>1, <2>2
<1>7. from = p.nodes[b] BY <1>2, <1>6
<1>8. pos \in Points(mesh) /\ pos \in Places(mesh)
  <2>1. from.id \in Polys(mesh) /\ link \in Range(mesh.links[from.id])
    BY <1>2, <1>3, <1>7 DEF p
  <2>2. CASE to.flags = {}
    <3>1. pos = Middle(GetPortalPoints(mesh, from.id, link.to)) BY <2>2 DEF PlaceFor
    <3> QED BY <2>1, <3>1, MiddleIn DEF Places
  <2>3. CASE to.flags # {}
    <3>1. g = p /\ i \in Numbers(p) BY <1>6, <2>3
    <3>2. pos = to.pos BY <2>3 DEF PlaceFor
    <3> QED BY <1>1, <3>1, <3>2 DEF NodesInv, Places
  <2> QED BY <2>2, <2>3
<1>9. total \in Nat /\ total >= p.nodes[b].total
  <2>1. from.pos \in Points(mesh) /\ from.id \in Polys(mesh) /\ from.total \in Nat
    BY <1>1, <1>2, <1>3, <1>7 DEF NodesInv
  <2>2. total = from.total + StepCost(s, from, pos) BY DEF TotalFor
  <2> HIDE DEF pos, from, total
  <2>3. StepCost(s, from, pos) \in Nat BY <1>8, <2>1, StepCostNat
  <2> QED BY <1>7, <2>1, <2>2, <2>3
<1>10. /\ node \in NodeSet(Polys(mesh), Places(mesh))
       /\ node.id = link.to /\ node.state = 0 /\ node.pidx = b /\ node.pos = pos
       /\ node.total = total /\ node.flags = {"OPEN"}
  <2>1. b \in Nat BY <1>2, <1>3 DEF Numbers
  <2>2. node = [to EXCEPT !.pos = pos, !.pidx = b, !.total = total, !.flags = {"OPEN"}]
    BY DEF NodeFor
  <2> HIDE DEF pos, total, to, node
  <2> QED BY <1>6, <1>8, <1>9, <2>1, <2>2 DEF NodeSet
<1>11. b \in 0..Len(g.nodes) BY <1>2, <1>3, <1>6 DEF Numbers
<1>12. ChangeIs(mesh, g, i, node, set)
  <2>1. set = Changed(g, i, node) BY <1>5, <1>6, SetForIs DEF PoolOK
  <2> HIDE DEF node, set
  <2>2. node.pidx \in 0..Len(g.nodes) /\ node.flags \in {{"OPEN"}, {"CLOSED"}}
    BY <1>10, <1>11
  <2>3. node.id = g.nodes[i].id BY <1>6, <1>10
  <2> QED BY <1>6, <1>10, <2>1, <2>2, <2>3, ChangedOK
<1> HIDE DEF set, node, pos, total, q, t, to
<1>13. t = [heap |-> r.heap, full |-> r.full, pool |-> g] BY <1>1 DEF t
<1>14. q = IF "CLOSED" \in to.flags THEN t
           ELSE IF to.flags = {} THEN [t EXCEPT !.pool = set, !.heap = Push(set, @, i)]
           ELSE IF set.nodes[i].total >= to.total THEN t
           ELSE [t EXCEPT !.pool = set, !.heap = Modify(set, @, i)]
  <2>1. t.pool = g BY <1>13
  <2> QED BY <2>1, ReachedIs DEF q, set, to
<1>15. \/ g = p /\ q = r
       \/ to.flags = {} /\ q = [heap |-> Push(set, r.heap, i), full |-> r.full, pool |-> set]
       \/ /\ to.flags = {"OPEN"} /\ total < to.total
          /\ q = [heap |-> Modify(set, r.heap, i), full |-> r.full, pool |-> set]
  <2>1. set.nodes[i].total = total BY <1>10, <1>12 DEF ChangeIs
  <2>2. to.total \in Nat BY <1>6 DEF NodeSet
  <2>3. to.flags # {} => to.flags \in {{"OPEN"}, {"CLOSED"}}
    BY <1>3, <1>5, <1>6 DEF to, Numbers
  <2>4. g = p => t = r BY <1>1, <1>13
  <2>5. CASE "CLOSED" \in to.flags
    <3>1. to.flags # {} BY <2>5
    <3> QED BY <1>6, <1>14, <2>4, <2>5, <3>1
  <2>6. CASE to.flags = {}
    <3>1. "CLOSED" \notin to.flags BY <2>6
    <3> QED BY <1>13, <1>14, <2>6, <3>1
  <2>7. CASE to.flags # {} /\ "CLOSED" \notin to.flags
    <3>1. to.flags = {"OPEN"} BY <2>3, <2>7
    <3>2. CASE set.nodes[i].total >= to.total BY <1>6, <1>14, <2>4, <2>7, <3>2
    <3>3. CASE ~(set.nodes[i].total >= to.total)
      <4>1. total < to.total BY <1>9, <2>1, <2>2, <3>3
      <4>2. q = [t EXCEPT !.pool = set, !.heap = Modify(set, @, i)] BY <1>14, <2>7, <3>3
      <4>3. q = [heap |-> Modify(set, r.heap, i), full |-> r.full, pool |-> set]
        BY <1>13, <4>2
      <4> QED BY <3>1, <4>1, <4>3
    <3> QED BY <3>2, <3>3
  <2> QED BY <2>5, <2>6, <2>7
<1>16. CASE g = p /\ q = r
  <2>1. Has(p, link.to) BY <1>6, <1>16 DEF Has, to
  <2> QED BY <1>3, <1>16, <2>1, GrownSame DEF p, q, t, g, i
<1>17. ASSUME to.flags = {} \/ to.flags = {"OPEN"}
       PROVE  Placing(mesh, s, b, p, set, i)
  <2>1. i \notin Closeds(p)
    <3> SUFFICES ASSUME i \in Closeds(p) PROVE FALSE OBVIOUS
    <3>1. i \in Numbers(p) /\ p.nodes[i].flags = {"CLOSED"} BY DEF Closeds
    <3>2. to.flags = {"CLOSED"} BY <1>6, <3>1 DEF to
    <3> QED BY <1>17, <3>2
  <2>2. /\ PoolInv(mesh, set) /\ set.max = g.max /\ Len(set.nodes) = Len(g.nodes)
        /\ Numbers(set) = Numbers(g) /\ set.nodes[i] = node
        /\ \A k \in Numbers(g) : k # i => set.nodes[k] = g.nodes[k]
    BY <1>12 DEF ChangeIs
  <2>3. \A k \in Numbers(p) : k # i => set.nodes[k] = p.nodes[k]
    <3>1. Len(p.nodes) <= Len(g.nodes) /\ Len(g.nodes) \in Nat BY <1>3, <1>6
    <3>2. Numbers(p) \subseteq Numbers(g) BY <1>3, <3>1 DEF Numbers
    <3> QED BY <1>6, <2>2, <3>2
  <2>4. i \in Numbers(p) => set.nodes[i].id = p.nodes[i].id
    BY <1>6, <1>10, <2>2 DEF to
  <2>5. link.to \in Area(mesh, s)
    <3>1. p.nodes[b].id \in Area(mesh, s) BY <1>1, <1>2 DEF NodesInv
    <3> QED BY <3>1, AreaShut DEF p
  <2>6. \E l \in Range(mesh.links[p.nodes[b].id]) : l.to = link.to BY DEF p
  <2> QED BY <1>5, <1>6, <1>8, <1>9, <1>10, <2>1, <2>2, <2>3, <2>4, <2>5, <2>6 DEF Placing
<1>18. ASSUME to.flags = {} \/ to.flags = {"OPEN"}, q.full = r.full, q.pool = set,
              q = [heap |-> q.heap, full |-> q.full, pool |-> q.pool],
              OpenList(set, q.heap, Opens(p) \cup {i})
       PROVE  /\ Between(mesh, s, b, q) /\ GrownFrom(p, q.pool) /\ q.full = r.full
              /\ Has(q.pool, link.to)
  <2>1. Placing(mesh, s, b, p, set, i) BY <1>17, <1>18
  <2>2. /\ NodesInv(mesh, s, set) /\ GrownFrom(p, set) /\ Opens(set) = Opens(p) \cup {i}
        /\ b \in Closeds(set) /\ set.nodes[b] = p.nodes[b]
        /\ \A k \in Opens(set) : set.nodes[b].total <= set.nodes[k].total
        /\ \A c \in Closeds(set) : set.nodes[c].total <= set.nodes[b].total
    BY <1>1, <2>1, PlacedOK
  <2>3. Has(set, link.to) BY <1>10, <1>12, <2>1 DEF Has, ChangeIs, Placing
  <2> QED BY <1>1, <1>18, <2>2, <2>3 DEF Between
<1>19. CASE /\ to.flags = {}
            /\ q = [heap |-> Push(set, r.heap, i), full |-> r.full, pool |-> set]
  <2>1. Placing(mesh, s, b, p, set, i) BY <1>17, <1>19
  <2>2. i \notin Opens(p) BY <1>6, <1>19 DEF Opens
  <2>3. \A k \in Opens(p) : TotalOf(set, k) = TotalOf(p, k)
    BY <2>1, <2>2 DEF Placing, TotalOf, Opens
  <2>4. OpenList(set, r.heap, Opens(p)) BY <1>1, <2>3, OpenListSame
  <2>5. TotalOf(set, i) \in Nat BY <1>9, <1>10, <1>12 DEF ChangeIs, TotalOf
  <2>6. OpenList(set, Push(set, r.heap, i), Opens(p) \cup {i}) BY <2>2, <2>4, <2>5, PushOK
  <2> QED BY <1>18, <1>19, <2>6 DEF p, q, t, g, i
<1>20. CASE /\ to.flags = {"OPEN"} /\ total < to.total
            /\ q = [heap |-> Modify(set, r.heap, i), full |-> r.full, pool |-> set]
  <2>1. Placing(mesh, s, b, p, set, i) BY <1>17, <1>20
  <2>2. g = p BY <1>6, <1>20
  <2>3. i \in Opens(p) BY <1>6, <1>20, <2>2 DEF Opens, to
  <2>4. \A k \in Opens(p) \ {i} : TotalOf(set, k) = TotalOf(p, k)
    BY <2>1 DEF Placing, TotalOf, Opens
  <2>5. TotalOf(set, i) \in Nat /\ TotalOf(set, i) <= TotalOf(p, i)
    <3>1. TotalOf(set, i) = total BY <1>10, <1>12 DEF ChangeIs, TotalOf
    <3>2. TotalOf(p, i) = to.total /\ to.total \in Nat
      BY <1>6, <2>2 DEF TotalOf, to, NodeSet
    <3> QED BY <1>9, <1>20, <3>1, <3>2
  <2>6. OpenList(set, Modify(set, r.heap, i), Opens(p)) BY <1>1, <2>3, <2>4, <2>5, ModifyOK
  <2>7. Opens(p) \cup {i} = Opens(p) BY <2>3
  <2> QED BY <1>18, <1>20, <2>6, <2>7 DEF p, q, t, g, i
<1> QED BY <1>15, <1>16, <1>19, <1>20

(* Within what has not shrunk away is within what was asked.               *)
LEMMA FollowsOut ==
    ASSUME NEW m \in Meshes, NEW s \in SearchSet(m), NEW from \in Polys(m),
           NEW link \in Range(m.links[from]),
           s.op = "wall" => s.radiusSqr <= Square(s.radius),
           FollowsAt(m, s, s.radiusSqr, from, link)
    PROVE  FollowsAt(m, s, Square(s.radius), from, link)
<1>1. CASE s.op = "shape" BY <1>1 DEF FollowsAt
<1>2. CASE s.op # "shape"
  <2>1. s.radius \in Nat /\ s.radiusSqr \in Nat BY <1>2, SearchIs
  <2>2. \A x \in Nat : x * x \in Nat OBVIOUS
  <2>3. Square(s.radius) \in Nat BY <2>1, <2>2 DEF Square
  <2>4. s.op # "wall" => s.radiusSqr = Square(s.radius) BY <1>2, SearchIs
  <2> QED BY <2>1, <2>3, <2>4, FollowsWider
<1> QED BY <1>1, <1>2

Shrunk(s) == s.op = "wall" => s.radiusSqr <= Square(s.radius)

(* A link of the best node, whatever it leads to.                          *)
LEMMA RelaxOK ==
    ASSUME mesh \in Meshes, NEW s \in SearchSet(mesh), Shrunk(s), NEW b, NEW r,
           Between(mesh, s, b, r), NEW link \in Range(mesh.links[r.pool.nodes[b].id])
    PROVE  Crossing(mesh, s, b, r, Relax(s, b, r, link), link)
<1> DEFINE p == r.pool
           q == Relax(s, b, r, link)
           id == p.nodes[b].id
           Go == Followed(s, id, link)
           Crosses(t) == Crossing(mesh, s, b, r, t, link)
<1>1. /\ r = [heap |-> r.heap, full |-> r.full, pool |-> p] /\ r.full \in BOOLEAN
      /\ NodesInv(mesh, s, p) /\ b \in Closeds(p)
  BY DEF Between
<1>2. PoolInv(mesh, p) /\ b \in Numbers(p) BY <1>1 DEF NodesInv, Closeds
<1>3. Len(p.nodes) \in Nat /\ id \in Polys(mesh) BY <1>2, NodeIs
<1>4. link.to \in Polys(mesh) /\ link.to # NoRef BY <1>3, MeshAssumption
<1>5. Go <=> FollowsAt(mesh, s, s.radiusSqr, id, link) BY FollowedIs
<1> DEFINE full == [r EXCEPT !.full = TRUE]
           got == Reached(s, b, [r EXCEPT !.pool = GetNode(@, link.to, 0)],
                          NodeIdx(r.pool, link.to, 0), link)
<1>6. q = IF link.to = ParentRef(p.nodes, b) \/ ~Go THEN r
          ELSE IF ~CanGetNode(p, link.to, 0) THEN full ELSE got
  BY DEF Relax
<1> HIDE DEF Go, q, full, got
<1>7. GrownFrom(p, p) BY <1>3, GrownSame
<1>8. CASE link.to = ParentRef(p.nodes, b)
  <2>1. Has(p, link.to)
    <3>1. p.nodes[b].pidx \in 0..Len(p.nodes) BY <1>2, NodeIs
    <3>2. p.nodes[b].pidx # 0 BY <1>4, <1>8 DEF ParentRef
    <3>3. link.to = p.nodes[p.nodes[b].pidx].id BY <1>8, <3>2 DEF ParentRef
    <3>4. p.nodes[b].pidx \in Numbers(p) BY <1>3, <3>1, <3>2 DEF Numbers
    <3> QED BY <3>3, <3>4 DEF Has
  <2> QED BY <1>6, <1>7, <1>8, <2>1 DEF Crossing, q
<1>9. CASE ~Go
  <2>1. q = r BY <1>6, <1>9
  <2> QED BY <1>5, <1>7, <1>9, <2>1 DEF Crossing, q
<1>10. CASE link.to # ParentRef(p.nodes, b) /\ Go /\ ~CanGetNode(p, link.to, 0)
  <2>1. q = full BY <1>6, <1>10
  <2>2. full = [heap |-> r.heap, full |-> TRUE, pool |-> p]
    <3> DEFINE h == r.heap
               f == r.full
               v == TRUE
    <3>1. r = [heap |-> h, full |-> f, pool |-> p] BY <1>1
    <3> HIDE DEF p, h, f, v
    <3>2. [r EXCEPT !.full = v] = [heap |-> h, full |-> v, pool |-> p] BY <3>1
    <3> QED BY <3>2 DEF full, h, v
  <2>3. Between(mesh, s, b, full) BY <2>2 DEF Between
  <2>4. full.pool = p /\ full.full BY <2>2
  <2> QED BY <1>7, <2>1, <2>3, <2>4 DEF Crossing, q
<1>11. CASE link.to # ParentRef(p.nodes, b) /\ Go /\ CanGetNode(p, link.to, 0)
  <2>1. q = got BY <1>6, <1>11
  <2>2. FollowsAt(mesh, s, Square(s.radius), id, link)
    BY <1>3, <1>5, <1>11, FollowsOut DEF Shrunk
  <2>3. /\ Between(mesh, s, b, got) /\ GrownFrom(p, got.pool) /\ got.full = r.full
        /\ Has(got.pool, link.to)
    BY <1>11, <2>2, ReachedOK DEF got
  <2> QED BY <2>1, <2>3 DEF Crossing, q
<1> QED BY <1>8, <1>9, <1>10, <1>11 DEF q

(* The links of the best node, one after the other.                        *)
After_(s, b, c) ==
    CHOOSE g : g = [k \in 0..Len(mesh.links[c.pool.nodes[b].id]) |->
        IF k = 0 THEN c
        ELSE CHOOSE t \in {Relax(s, b, acc, mesh.links[c.pool.nodes[b].id][k]) :
                              acc \in {g[k - 1]}} : TRUE]

(* An expansion is the last of its steps, each made from the one before.   *)
LEMMA AfterIs ==
    ASSUME NEW s, NEW b, NEW c, NEW links, links = mesh.links[c.pool.nodes[b].id],
           Len(links) \in Nat
    PROVE  /\ Expand(s, c, b) = After_(s, b, c)[Len(links)]
           /\ After_(s, b, c)[0] = c
           /\ \A k \in 1..Len(links) :
                 After_(s, b, c)[k] = Relax(s, b, After_(s, b, c)[k - 1], links[k])
<1> DEFINE Next_(acc, k) == CHOOSE t \in {Relax(s, b, a, links[k]) : a \in {acc}} : TRUE
           Is(f, n) == f = [k \in 0..n |-> IF k = 0 THEN c ELSE Next_(f[k - 1], k)]
           T == {n \in Nat : \E f : Is(f, n)}
<1>2. \A acc, k : Next_(acc, k) = Relax(s, b, acc, links[k])
  <2> TAKE acc, k
  <2>1. {Relax(s, b, a, links[k]) : a \in {acc}} = {Relax(s, b, acc, links[k])}
    OBVIOUS
  <2> QED BY <2>1
<1> HIDE DEF Next_
<1>3. 0 \in T
  <2> DEFINE f == [k \in 0..0 |-> c]
  <2>1. Is(f, 0)
    <3>1. \A k \in 0..0 : k = 0 OBVIOUS
    <3> QED BY <3>1
  <2> QED BY <2>1
<1>4. ASSUME NEW n \in Nat, n \in T PROVE n + 1 \in T
  <2>1. PICK f : Is(f, n) BY <1>4
  <2> DEFINE h == [k \in 0..(n + 1) |-> IF k = n + 1 THEN Next_(f[n], n + 1) ELSE f[k]]
  <2>2. \A k \in 0..n : h[k] = f[k] OBVIOUS
  <2>3. ASSUME NEW k \in 0..(n + 1)
        PROVE  h[k] = IF k = 0 THEN c ELSE Next_(h[k - 1], k)
    <3>1. CASE k = n + 1
      <4>1. h[k] = Next_(f[n], n + 1) BY <3>1
      <4>2. k - 1 = n /\ k # 0 /\ h[k - 1] = f[n] BY <3>1, <2>2
      <4> QED BY <3>1, <4>1, <4>2
    <3>2. CASE k # n + 1
      <4>1. k \in 0..n /\ h[k] = f[k] BY <3>2, <2>2
      <4>2. f[k] = IF k = 0 THEN c ELSE Next_(f[k - 1], k)
        BY <2>1, <4>1
      <4>3. k # 0 => h[k - 1] = f[k - 1] BY <2>2, <4>1
      <4> QED BY <4>1, <4>2, <4>3
    <3> QED BY <3>1, <3>2
  <2>4. h = [k \in 0..(n + 1) |-> h[k]] OBVIOUS
  <2> HIDE DEF h
  <2>5. Is(h, n + 1) BY <2>3, <2>4
  <2> QED BY <2>5
<1>5. \E f : Is(f, Len(links))
  <2> HIDE DEF T
  <2>1. Nat \subseteq T BY <1>3, <1>4, NatInd
  <2> QED BY <2>1 DEF T
<1>6. Is(After_(s, b, c), Len(links))
  <2>1. After_(s, b, c) = CHOOSE g : Is(g, Len(links)) BY DEF After_, Next_
  <2> QED BY <1>5, <2>1
<1>7. Expand(s, c, b) = After_(s, b, c)[Len(links)] BY DEF Expand, InTurn, After_
<1>8. After_(s, b, c)[0] = c
  <2> DEFINE A == After_(s, b, c)
  <2>1. A = [x \in 0..Len(links) |-> IF x = 0 THEN c ELSE Next_(A[x - 1], x)] BY <1>6
  <2>2. 0 \in 0..Len(links) OBVIOUS
  <2> HIDE DEF A
  <2>3. A[0] = c BY <2>1, <2>2
  <2> QED BY <2>3 DEF A
<1>9. ASSUME NEW k \in 1..Len(links)
      PROVE  After_(s, b, c)[k] = Relax(s, b, After_(s, b, c)[k - 1], links[k])
  <2> DEFINE A == After_(s, b, c)
  <2>1. k \in 0..Len(links) /\ k # 0 OBVIOUS
  <2>2. A = [x \in 0..Len(links) |-> IF x = 0 THEN c ELSE Next_(A[x - 1], x)] BY <1>6
  <2> HIDE DEF A
  <2>3. A[k] = Next_(A[k - 1], k) BY <2>1, <2>2
  <2> QED BY <1>2, <2>3 DEF A
<1> QED BY <1>7, <1>8, <1>9

(* An expansion goes all its links, and what may be followed has a node    *)
(* after it unless the pool ran out.                                       *)
LEMMA ExpandOK ==
    ASSUME mesh \in Meshes, NEW s \in SearchSet(mesh), Shrunk(s), NEW b, NEW c,
           Between(mesh, s, b, c)
    PROVE  LET e == Expand(s, c, b)
           IN  /\ Between(mesh, s, b, e) /\ GrownFrom(c.pool, e.pool)
               /\ c.full => e.full
               /\ ~e.full => \A l \in Range(mesh.links[c.pool.nodes[b].id]) :
                    FollowsAt(mesh, s, s.radiusSqr, c.pool.nodes[b].id, l) => Has(e.pool, l.to)
<1> DEFINE id == c.pool.nodes[b].id
           links == mesh.links[id]
           A == After_(s, b, c)
           Right(k) == /\ Between(mesh, s, b, A[k]) /\ GrownFrom(c.pool, A[k].pool)
                       /\ c.full => A[k].full
                       /\ ~A[k].full => \A j \in 1..k :
                            FollowsAt(mesh, s, s.radiusSqr, id, links[j])
                              => Has(A[k].pool, links[j].to)
           T == {k \in Nat : k <= Len(links) => Right(k)}
<1>1. b \in Closeds(c.pool) /\ NodesInv(mesh, s, c.pool) BY DEF Between
<1>2. PoolInv(mesh, c.pool) /\ b \in Numbers(c.pool) BY <1>1 DEF NodesInv, Closeds
<1>3. id \in Polys(mesh) /\ Len(c.pool.nodes) \in Nat BY <1>2, NodeIs
<1>4. links \in Seq(Range(links)) BY <1>3, MeshAssumption
<1> HIDE DEF links
<1>5. Len(links) \in Nat /\ \A l \in Range(links) : \E j \in 1..Len(links) : l = links[j]
  BY <1>4 DEF Range
<1>6. \A j \in 1..Len(links) : links[j] \in Range(links) BY <1>4 DEF Range
<1>7. /\ Expand(s, c, b) = A[Len(links)] /\ A[0] = c
      /\ \A k \in 1..Len(links) : A[k] = Relax(s, b, A[k - 1], links[k])
  BY <1>5, AfterIs DEF links
<1> HIDE DEF A, id
<1>8. 0 \in T
  <2>1. Right(0) BY <1>3, <1>7, GrownSame
  <2> QED BY <2>1
<1>9. ASSUME NEW k \in Nat, k \in T PROVE k + 1 \in T
  <2> SUFFICES ASSUME k + 1 <= Len(links) PROVE Right(k + 1)
    OBVIOUS
  <2>1. k + 1 \in 1..Len(links) /\ (k + 1) - 1 = k /\ k <= Len(links) BY <1>5
  <2>2. Right(k) BY <1>9, <2>1
  <2> DEFINE a == A[k]
             q == A[k + 1]
             l == links[k + 1]
  <2>3. q = Relax(s, b, a, l) BY <1>7, <2>1
  <2>4. /\ Between(mesh, s, b, a) /\ GrownFrom(c.pool, a.pool)
        /\ c.full => a.full
        /\ ~a.full => \A j \in 1..k : FollowsAt(mesh, s, s.radiusSqr, id, links[j])
                                        => Has(a.pool, links[j].to)
    BY <2>2
  <2> HIDE DEF a, q, l
  <2>5. a.pool.nodes[b].id = id BY <1>1, <2>4 DEF GrownFrom, id
  <2>6. Crossing(mesh, s, b, a, q, l)
    <3>1. l \in Range(mesh.links[a.pool.nodes[b].id]) BY <1>6, <2>1, <2>5 DEF l, links
    <3> QED BY <2>3, <2>4, <3>1, RelaxOK
  <2>7. /\ Between(mesh, s, b, q) /\ GrownFrom(a.pool, q.pool)
        /\ a.full => q.full
        /\ ~q.full /\ FollowsAt(mesh, s, s.radiusSqr, id, l) => Has(q.pool, l.to)
    BY <2>5, <2>6 DEF Crossing
  <2>8. Len(a.pool.nodes) \in Nat /\ Len(q.pool.nodes) \in Nat
    <3>1. PoolInv(mesh, a.pool) /\ PoolInv(mesh, q.pool)
      BY <2>4, <2>7 DEF Between, NodesInv
    <3> QED BY <3>1, NodeIs
  <2>9. GrownFrom(c.pool, q.pool) BY <1>3, <2>4, <2>7, <2>8, GrownTwice
  <2>10. ASSUME ~q.full, NEW j \in 1..(k + 1), FollowsAt(mesh, s, s.radiusSqr, id, links[j])
         PROVE  Has(q.pool, links[j].to)
    <3>1. CASE j = k + 1 BY <2>7, <2>10, <3>1 DEF l
    <3>2. CASE j # k + 1
      <4>1. j \in 1..k /\ ~a.full BY <2>7, <2>10, <3>2
      <4>2. Has(a.pool, links[j].to) BY <2>4, <2>10, <4>1
      <4> QED BY <2>7, <4>2, HasStill
    <3> QED BY <3>1, <3>2
  <2>11. c.full => q.full BY <2>4, <2>7
  <2> QED BY <2>7, <2>9, <2>10, <2>11 DEF q
<1>10. Nat \subseteq T
  <2> HIDE DEF T
  <2> QED BY <1>8, <1>9, NatInd
<1>11. Right(Len(links)) BY <1>5, <1>10
<1> QED BY <1>5, <1>7, <1>11 DEF links, id

-------------------------------------------------------------------------------
(* What a search has found *)

(* The edges the loop takes for walls.                                     *)
SolidAt(m, filter, ref, n) ==
    LET nei == m.neis[ref][n + 1]
        over == {k \in 1..Len(m.links[ref]) : m.links[ref][k].edge = n}
    IN  CASE nei = Wall -> TRUE
          [] nei = Border ->
               over = {} \/ ~PassFilter(filter, m, m.links[ref][Min(over)].to)
          [] OTHER -> ~PassFilter(filter, m, nei)

WallsAt(m, filter, ref) ==
    {n \in 0..(Len(m.neis[ref]) - 1) : SolidAt(m, filter, ref, n)}

(* They are what the loop computes.                                        *)
LEMMA WallsAre ==
    ASSUME NEW filter, NEW ref
    PROVE  WallsOf(filter, ref) = WallsAt(mesh, filter, ref)
BY DEF WallsOf, WallsAt, Solid, SolidAt, LinksOver

(* A result is what a node was when it was closed.                         *)
OfNode(p, found, i) ==
    found = [ref |-> p.nodes[i].id, parent |-> ParentRef(p.nodes, i),
             cost |-> p.nodes[i].total]

Lists_(results, id) == \E k \in 1..Len(results) : results[k].ref = id

(* In the order of their costs, each once, parents first.                  *)
Ordered(results) ==
    \A k \in 1..Len(results) :
        /\ \A j \in 1..(k - 1) : /\ results[j].ref # results[k].ref
                                 /\ results[j].cost <= results[k].cost
        /\ IF k = 1 THEN results[k].parent = NoRef
           ELSE \E j \in 1..(k - 1) : results[j].ref = results[k].parent

(* The closed polygons are listed while there is room.                     *)
ResultsInv(p, s) ==
    Lists(s) =>
        /\ Len(s.results) <= s.max
        /\ \A k \in 1..Len(s.results) : \E i \in Closeds(p) : OfNode(p, s.results[k], i)
        /\ Ordered(s.results)
        /\ ~s.small => \A i \in Closeds(p) : Lists_(s.results, p.nodes[i].id)
        /\ s.small => /\ Len(s.results) = s.max
                      /\ \E i \in Closeds(p) : ~Lists_(s.results, p.nodes[i].id)

(* One of the closed polygons of the ground is picked, if there are any.   *)
RandomInv(m, p, s) ==
    s.op = "random" =>
        /\ s.picked = NoRef => /\ s.areaSum = 0
                               /\ \A i \in Closeds(p) : ~m.ground[p.nodes[i].id]
        /\ s.picked # NoRef => \E i \in Closeds(p) : /\ p.nodes[i].id = s.picked
                                                     /\ m.ground[s.picked]

(* The radius has shrunk to the nearest wall of the closed polygons.       *)
WallInv(m, p, s) ==
    s.op = "wall" =>
        /\ s.radiusSqr <= Square(s.radius)
        /\ \A i \in Closeds(p) : \A n \in WallsAt(m, s.filter, p.nodes[i].id) :
              s.radiusSqr <= FarFrom(m, s.center, p.nodes[i].id, n)
        /\ \/ s.radiusSqr = Square(s.radius)
           \/ /\ s.hit # <<>>
              /\ \E i \in Closeds(p) : \E n \in WallsAt(m, s.filter, p.nodes[i].id) :
                    s.radiusSqr = FarFrom(m, s.center, p.nodes[i].id, n)

FoundInv(m, p, s) == ResultsInv(p, s) /\ RandomInv(m, p, s) /\ WallInv(m, p, s)

(* Every polygon that a link of a closed one may be followed to has a      *)
(* node, unless the pool ran out.                                          *)
Heeded(m, p, s) ==
    ~s.full => \A i \in Closeds(p) : \A l \in Range(m.links[p.nodes[i].id]) :
        FollowsAt(m, s, s.radiusSqr, p.nodes[i].id, l) => Has(p, l.to)

(* A set of numbers has a least.                                           *)
LEMMA LeastOf ==
    ASSUME NEW S \in SUBSET Nat, S # {}
    PROVE  Min(S) \in S /\ \A x \in S : Min(S) <= x
<1> DEFINE T == {n \in Nat : \A x \in S : n <= x}
<1>1. \E n \in S : \A x \in S : n <= x
  <2> SUFFICES ASSUME ~\E n \in S : \A x \in S : n <= x PROVE FALSE
    OBVIOUS
  <2>1. 0 \in T OBVIOUS
  <2>2. ASSUME NEW n \in Nat, n \in T PROVE n + 1 \in T
    <3>1. \A x \in S : n <= x BY <2>2
    <3>2. n \notin S BY <3>1
    <3>3. \A x \in S : n + 1 <= x BY <3>1, <3>2
    <3> QED BY <3>3
  <2>3. Nat \subseteq T
    <3> HIDE DEF T
    <3> QED BY <2>1, <2>2, NatInd
  <2>4. PICK x \in S : TRUE OBVIOUS
  <2>5. x + 1 \in T BY <2>3, <2>4
  <2> QED BY <2>4, <2>5
<1> QED BY <1>1 DEF Min

(* What was found stays found as the pool gets on.                         *)
LEMMA FoundStill ==
    ASSUME NEW m, NEW s, NEW t, NEW p, NEW q, NodesInv(m, s, p), GrownFrom(p, q),
           SameAsked(s, t), SameFound(s, t), FoundInv(m, p, s)
    PROVE  FoundInv(m, q, t)
<1>1. /\ Closeds(q) = Closeds(p) /\ \A i \in Closeds(p) : q.nodes[i] = p.nodes[i]
  BY DEF GrownFrom
<1>2. ASSUME NEW i \in Closeds(p) PROVE ParentRef(q.nodes, i) = ParentRef(p.nodes, i)
  <2>1. i \in Numbers(p) BY DEF Closeds
  <2>2. p.nodes[i].pidx = 0 \/ p.nodes[i].pidx \in Closeds(p) BY <2>1 DEF NodesInv
  <2> QED BY <1>1, <2>2 DEF ParentRef
<1>3. \A i \in Closeds(p) : \A found : OfNode(q, found, i) <=> OfNode(p, found, i)
  BY <1>1, <1>2 DEF OfNode
<1>4. ResultsInv(q, t)
  <2>1. CASE Lists(s)
    <3>1. t.max = s.max /\ t.results = s.results /\ t.small = s.small
      BY <2>1 DEF SameFound
    <3> QED BY <1>1, <1>3, <2>1, <3>1 DEF ResultsInv, FoundInv
  <2>2. CASE ~Lists(s) BY <2>2 DEF ResultsInv, SameAsked, Lists
  <2> QED BY <2>1, <2>2
<1>5. RandomInv(m, q, t)
  BY <1>1 DEF RandomInv, FoundInv, SameAsked, SameFound
<1>6. WallInv(m, q, t)
  <2>1. CASE s.op = "wall"
    <3>1. /\ t.radiusSqr = s.radiusSqr /\ t.radius = s.radius /\ t.hit = s.hit
          /\ t.filter = s.filter /\ t.center = s.center
      BY <2>1 DEF SameAsked, SameFound
    <3> QED BY <1>1, <2>1, <3>1 DEF WallInv, FoundInv
  <2>2. CASE s.op # "wall" BY <2>2 DEF WallInv, SameAsked
  <2> QED BY <2>1, <2>2
<1> QED BY <1>4, <1>5, <1>6 DEF FoundInv

-------------------------------------------------------------------------------
(* The best node is closed *)

(* One open node, which costs no less than the closed, joins them.         *)
Closes(p, b, q) ==
    /\ b \in Opens(p) /\ Numbers(q) = Numbers(p)
    /\ Closeds(q) = Closeds(p) \cup {b} /\ Opens(q) = Opens(p) \ {b}
    /\ \A i \in Numbers(p) :
          /\ q.nodes[i].id = p.nodes[i].id /\ q.nodes[i].pidx = p.nodes[i].pidx
          /\ q.nodes[i].total = p.nodes[i].total /\ q.nodes[i].pos = p.nodes[i].pos
    /\ \A c \in Closeds(p) : p.nodes[c].total <= p.nodes[b].total
    /\ \A k \in Opens(p) : p.nodes[b].total <= p.nodes[k].total

(* The nodes are as they should be when it has.                            *)
LEMMA ClosesOK ==
    ASSUME NEW m, NEW s, NEW p, NodesInv(m, s, p), NEW b, NEW q, PoolInv(m, q),
           Len(q.nodes) = Len(p.nodes), Closes(p, b, q)
    PROVE  NodesInv(m, s, q)
<1>1. /\ PoolInv(m, p) /\ Len(p.nodes) >= 1
      /\ p.nodes[1].id = s.start /\ p.nodes[1].pidx = 0
      /\ 1 \in Closeds(p) \/ Len(p.nodes) = 1
      /\ \A c \in Closeds(p), k \in Opens(p) : p.nodes[c].total <= p.nodes[k].total
  BY DEF NodesInv
<1>2. Len(p.nodes) \in Nat BY <1>1, NodeIs
<1>3. 1 \in Numbers(p) BY <1>1, <1>2 DEF Numbers
<1>4. 1 \in Closeds(q) \/ Len(q.nodes) = 1 BY <1>1 DEF Closes
<1>5. q.nodes[1].id = s.start /\ q.nodes[1].pidx = 0 BY <1>1, <1>3 DEF Closes
<1>6. ASSUME NEW i \in Numbers(q)
      PROVE  /\ q.nodes[i].pos \in Points(m) /\ q.nodes[i].id \in Area(m, s)
             /\ i # 1 => /\ q.nodes[i].pidx \in Closeds(q)
                         /\ \E l \in Range(m.links[q.nodes[q.nodes[i].pidx].id]) :
                               l.to = q.nodes[i].id
  <2>1. i \in Numbers(p) BY DEF Closes
  <2>2. /\ p.nodes[i].pos \in Points(m) /\ p.nodes[i].id \in Area(m, s)
        /\ i # 1 => /\ p.nodes[i].pidx \in Closeds(p)
                    /\ \E l \in Range(m.links[p.nodes[p.nodes[i].pidx].id]) :
                          l.to = p.nodes[i].id
    BY <2>1 DEF NodesInv
  <2>3. p.nodes[i].pidx \in Closeds(p) => p.nodes[i].pidx \in Numbers(p) BY DEF Closeds
  <2> QED BY <2>1, <2>2, <2>3 DEF Closes
<1>7. ASSUME NEW c \in Closeds(q), NEW k \in Opens(q)
      PROVE  q.nodes[c].total <= q.nodes[k].total
  <2>1. c \in Numbers(p) /\ k \in Numbers(p) /\ k \in Opens(p)
    BY DEF Closes, Closeds, Opens
  <2>2. p.nodes[c].total <= p.nodes[k].total BY <1>1, <2>1 DEF Closes
  <2> QED BY <2>1, <2>2 DEF Closes
<1>8. Acyclic(q.nodes)
  <2>1. \A i \in 1..Len(p.nodes) : q.nodes[i].pidx = p.nodes[i].pidx
    BY DEF Closes, Numbers
  <2>2. Acyclic(p.nodes) BY DEF NodesInv
  <2> QED BY <2>1, <2>2 DEF Acyclic
<1> QED BY <1>1, <1>4, <1>5, <1>6, <1>7, <1>8 DEF NodesInv

(* The root of the open list, popped, is closed.                           *)
LEMMA ClosedOK ==
    ASSUME mesh \in Meshes, NEW s, NodesInv(mesh, s, pool),
           OpenList(pool, heap, Opens(pool)), heap # EmptyQueue, search.full \in BOOLEAN
    PROVE  /\ Between(mesh, s, Best, Closed) /\ Closed.full = search.full
           /\ Closes(pool, Best, Closed.pool)
<1> DEFINE p == pool
           b == Best
           node == [p.nodes[b] EXCEPT !.flags = {"CLOSED"}]
           q == Closed.pool
<1>1. PoolInv(mesh, p) BY DEF NodesInv
<1>2. b \in Opens(p) /\ \A k \in Opens(p) : TotalOf(p, b) <= TotalOf(p, k)
  BY RootLeast DEF Best
<1>3. b \in Numbers(p) BY <1>2 DEF Opens
<1>4. /\ Len(p.nodes) \in Nat /\ p.nodes[b] \in NodeSet(Polys(mesh), Places(mesh))
      /\ p.nodes[b].pidx \in 0..Len(p.nodes) /\ p.nodes[b].state = 0
      /\ \A k \in Numbers(p) : p.nodes[k].total \in Nat
  BY <1>1, <1>3, NodeIs
<1>5. p.nodes[b].flags = {"OPEN"} BY <1>1, <1>2, <1>3, OpenOrClosed
<1>6. /\ node \in NodeSet(Polys(mesh), Places(mesh))
      /\ node.id = p.nodes[b].id /\ node.pidx = p.nodes[b].pidx /\ node.state = 0
      /\ node.total = p.nodes[b].total /\ node.pos = p.nodes[b].pos
      /\ node.flags = {"CLOSED"}
  BY <1>4 DEF NodeSet
<1>7. q = Changed(p, b, node)
  <2>1. q = [p EXCEPT !.nodes[b].flags = (@ \ {"OPEN"}) \cup {"CLOSED"}]
    BY DEF Closed
  <2>2. (p.nodes[b].flags \ {"OPEN"}) \cup {"CLOSED"} = {"CLOSED"} BY <1>5
  <2>3. q = [p EXCEPT !.nodes =
                [p.nodes EXCEPT ![b] =
                   [p.nodes[b] EXCEPT !.flags = (p.nodes[b].flags \ {"OPEN"}) \cup {"CLOSED"}]]]
    BY <2>1
  <2> QED BY <2>2, <2>3 DEF Changed
<1>8. Closed = [heap |-> Pop(pool, heap), full |-> search.full, pool |-> q] BY DEF Closed
<1> HIDE DEF q, node, b
<1>9. ChangeIs(mesh, p, b, node, q)
  <2>1. PoolBut(mesh, p, b) BY <1>1, NodeIs DEF PoolInv, PoolBut
  <2> QED BY <1>3, <1>4, <1>6, <1>7, <2>1, ChangedOK
<1>10. /\ PoolInv(mesh, q) /\ Len(q.nodes) = Len(p.nodes) /\ Numbers(q) = Numbers(p)
       /\ q.nodes[b] = node /\ \A k \in Numbers(p) : k # b => q.nodes[k] = p.nodes[k]
  BY <1>9 DEF ChangeIs
<1>11. /\ b \in Closeds(q) /\ b \notin Opens(q) /\ b \notin Closeds(p)
  BY <1>1, <1>2, <1>3, <1>6, <1>10, OpenOrClosed
<1>12. Closeds(q) = Closeds(p) \cup {b}
  <2>1. \A k \in Numbers(p) : k # b => (k \in Closeds(q) <=> k \in Closeds(p))
    BY <1>10 DEF Closeds
  <2>2. \A k : (k \in Closeds(q) => k \in Numbers(p)) /\ (k \in Closeds(p) => k \in Numbers(p))
    BY <1>10 DEF Closeds
  <2> QED BY <1>11, <2>1, <2>2
<1>13. Opens(q) = Opens(p) \ {b}
  <2>1. \A k \in Numbers(p) : k # b => (k \in Opens(q) <=> k \in Opens(p))
    BY <1>10 DEF Opens
  <2>2. \A k : (k \in Opens(q) => k \in Numbers(p)) /\ (k \in Opens(p) => k \in Numbers(p))
    BY <1>10 DEF Opens
  <2> QED BY <1>11, <2>1, <2>2
<1>14. \A i \in Numbers(p) :
          /\ q.nodes[i].id = p.nodes[i].id /\ q.nodes[i].pidx = p.nodes[i].pidx
          /\ q.nodes[i].total = p.nodes[i].total /\ q.nodes[i].pos = p.nodes[i].pos
  <2> TAKE i \in Numbers(p)
  <2>1. CASE i = b BY <1>6, <1>10, <2>1
  <2>2. CASE i # b BY <1>10, <2>2
  <2> QED BY <2>1, <2>2
<1>15. \A c \in Closeds(p) : p.nodes[c].total <= p.nodes[b].total
  BY <1>2 DEF NodesInv
<1>16. Closes(p, b, q)
  BY <1>2, <1>10, <1>12, <1>13, <1>14, <1>15 DEF Closes, TotalOf
<1>17. NodesInv(mesh, s, q) BY <1>10, <1>16, ClosesOK
<1>18. OpenList(q, Pop(pool, heap), Opens(q))
  <2>1. OpenList(p, Pop(p, heap), Opens(p) \ {b}) BY PopOK DEF b, Best
  <2>2. \A k \in Opens(p) \ {b} : TotalOf(q, k) = TotalOf(p, k)
    BY <1>14 DEF TotalOf, Opens
  <2> QED BY <1>13, <2>1, <2>2, OpenListSame
<1>19. \A k \in Opens(q) : q.nodes[b].total <= q.nodes[k].total
  <2> TAKE k \in Opens(q)
  <2>1. k \in Opens(p) /\ k \in Numbers(p) BY <1>13 DEF Opens
  <2> QED BY <1>2, <1>3, <1>14, <2>1 DEF TotalOf
<1>20. \A c \in Closeds(q) : q.nodes[c].total <= q.nodes[b].total
  <2> TAKE c \in Closeds(q)
  <2>1. c \in Numbers(p) BY <1>10 DEF Closeds
  <2>2. CASE c = b
    <3>1. q.nodes[b].total \in Nat BY <1>3, <1>4, <1>14
    <3> QED BY <2>2, <3>1
  <2>3. CASE c # b BY <1>3, <1>12, <1>14, <1>15, <2>1, <2>3
  <2> QED BY <2>2, <2>3
<1>21. Between(mesh, s, b, Closed)
  <2> DEFINE c == Closed
  <2>1. c = [heap |-> Pop(pool, heap), full |-> search.full, pool |-> q] BY <1>8
  <2> HIDE DEF c
  <2>2. c = [heap |-> c.heap, full |-> c.full, pool |-> c.pool] /\ c.heap = Pop(pool, heap)
        /\ c.full = search.full /\ c.pool = q
    BY <2>1
  <2>3. Between(mesh, s, b, c)
    BY <1>11, <1>17, <1>18, <1>19, <1>20, <2>2 DEF Between
  <2> QED BY <2>3 DEF c
<1> QED BY <1>8, <1>16, <1>21 DEF q, b

(* What was asked says where the nodes may lie.                            *)
LEMMA NodesAsked ==
    ASSUME NEW m, NEW s, NEW t, NEW p, NodesInv(m, s, p), SameAsked(s, t)
    PROVE  NodesInv(m, t, p)
<1>1. Area(m, t) = Area(m, s) /\ t.start = s.start BY SameArea DEF SameAsked
<1> QED BY <1>1 DEF NodesInv

-------------------------------------------------------------------------------
(* And noted *)

(* What a loop makes of it before it looks on.                             *)
Noted(m, s, t, q) ==
    /\ t \in SearchSet(m) /\ SameAsked(s, t) /\ t.full = s.full
    /\ s.op = "wall" => t.radiusSqr <= s.radiusSqr
    /\ FoundInv(m, q, t)

(* A loop sets the results.                                                *)
LEMMA ResultsSet ==
    ASSUME NEW m, NEW s \in SearchSet(m), Lists(s), NEW rs \in Seq(FoundSet(m)),
           NEW t, t = [s EXCEPT !.results = rs]
    PROVE  /\ t \in SearchSet(m) /\ SameAsked(s, t) /\ t.full = s.full
           /\ t.max = s.max /\ t.small = s.small /\ t.results = rs
<1>1. s \in CircleSet(m) \/ s \in ShapeSet(m) \/ s \in RandomSet(m) \/ s \in WallSet(m)
  BY DEF SearchSet
<1>2. s.op \in {"circle", "random"} => s.radiusSqr = Square(s.radius) BY DEF SearchSet
<1>3. CASE s \in CircleSet(m)
  <2>1. /\ t \in CircleSet(m) /\ t.full = s.full
        /\ t.op = "circle" /\ s.op = "circle" /\ t.start = s.start /\ t.center = s.center
        /\ t.filter = s.filter /\ t.radius = s.radius /\ t.radiusSqr = s.radiusSqr
        /\ t.max = s.max /\ t.results = rs /\ t.small = s.small
    BY <1>3 DEF CircleSet
  <2> QED BY <1>2, <2>1 DEF SearchSet, SameAsked
<1>4. CASE s \in ShapeSet(m)
  <2>1. /\ t \in ShapeSet(m) /\ t.full = s.full
        /\ t.op = "shape" /\ s.op = "shape" /\ t.start = s.start /\ t.center = s.center
        /\ t.filter = s.filter /\ t.shape = s.shape
        /\ t.max = s.max /\ t.results = rs /\ t.small = s.small
    BY <1>4 DEF ShapeSet
  <2> QED BY <2>1 DEF SearchSet, SameAsked
<1> QED BY <1>1, <1>3, <1>4 DEF Lists, RandomSet, WallSet

(* Or that they were too many.                                             *)
LEMMA SmallSet ==
    ASSUME NEW m, NEW s \in SearchSet(m), Lists(s), NEW small \in BOOLEAN,
           NEW t, t = [s EXCEPT !.small = small]
    PROVE  /\ t \in SearchSet(m) /\ SameAsked(s, t) /\ t.full = s.full
           /\ t.max = s.max /\ t.small = small /\ t.results = s.results
<1>1. s \in CircleSet(m) \/ s \in ShapeSet(m) \/ s \in RandomSet(m) \/ s \in WallSet(m)
  BY DEF SearchSet
<1>2. s.op \in {"circle", "random"} => s.radiusSqr = Square(s.radius) BY DEF SearchSet
<1>3. CASE s \in CircleSet(m)
  <2>1. /\ t \in CircleSet(m) /\ t.full = s.full
        /\ t.op = "circle" /\ s.op = "circle" /\ t.start = s.start /\ t.center = s.center
        /\ t.filter = s.filter /\ t.radius = s.radius /\ t.radiusSqr = s.radiusSqr
        /\ t.max = s.max /\ t.results = s.results /\ t.small = small
    BY <1>3 DEF CircleSet
  <2> QED BY <1>2, <2>1 DEF SearchSet, SameAsked
<1>4. CASE s \in ShapeSet(m)
  <2>1. /\ t \in ShapeSet(m) /\ t.full = s.full
        /\ t.op = "shape" /\ s.op = "shape" /\ t.start = s.start /\ t.center = s.center
        /\ t.filter = s.filter /\ t.shape = s.shape
        /\ t.max = s.max /\ t.results = s.results /\ t.small = small
    BY <1>4 DEF ShapeSet
  <2> QED BY <2>1 DEF SearchSet, SameAsked
<1> QED BY <1>1, <1>3, <1>4 DEF Lists, RandomSet, WallSet

(* Or what it picked, of how much ground.                                  *)
Picking(s, sum, ref) == [s EXCEPT !.areaSum = sum, !.picked = ref]

(* A pick leaves the search a search of the same question.                 *)
LEMMA PickedSet ==
    ASSUME NEW m, NEW s \in SearchSet(m), s.op = "random", NEW sum \in Nat,
           NEW ref \in Polys(m) \cup {NoRef},
           NEW t, t = Picking(s, sum, ref)
    PROVE  /\ t \in SearchSet(m) /\ SameAsked(s, t) /\ t.full = s.full
           /\ t.areaSum = sum /\ t.picked = ref
<1>1. s \in RandomSet(m) /\ s.radiusSqr = Square(s.radius)
  BY DEF SearchSet, CircleSet, ShapeSet, WallSet
<1>2. /\ t \in RandomSet(m) /\ t.full = s.full
      /\ t.op = "random" /\ t.start = s.start /\ t.center = s.center
      /\ t.filter = s.filter /\ t.radius = s.radius /\ t.radiusSqr = s.radiusSqr
      /\ t.areaSum = sum /\ t.picked = ref
  BY <1>1 DEF RandomSet, Picking
<1> QED BY <1>1, <1>2 DEF SearchSet, SameAsked

(* Or how much ground only.                                                *)
LEMMA AreaSumSet ==
    ASSUME NEW m, NEW s \in SearchSet(m), s.op = "random", NEW sum \in Nat,
           NEW t, t = [s EXCEPT !.areaSum = sum]
    PROVE  /\ t \in SearchSet(m) /\ SameAsked(s, t) /\ t.full = s.full
           /\ t.areaSum = sum /\ t.picked = s.picked
<1>1. s \in RandomSet(m) /\ s.radiusSqr = Square(s.radius)
  BY DEF SearchSet, CircleSet, ShapeSet, WallSet
<1>2. /\ t \in RandomSet(m) /\ t.full = s.full
      /\ t.op = "random" /\ t.start = s.start /\ t.center = s.center
      /\ t.filter = s.filter /\ t.radius = s.radius /\ t.radiusSqr = s.radiusSqr
      /\ t.areaSum = sum /\ t.picked = s.picked
  BY <1>1 DEF RandomSet
<1> QED BY <1>1, <1>2 DEF SearchSet, SameAsked

(* Or what it hit, and how far away.                                       *)
Hitting(s, r, hit) == [s EXCEPT !.radiusSqr = r, !.hit = hit]

(* So does a nearer wall.                                                  *)
LEMMA HitSet ==
    ASSUME NEW m, NEW s \in SearchSet(m), s.op = "wall", NEW r \in Nat,
           NEW hit \in Polys(m) \X Nat,
           NEW t, t = Hitting(s, r, hit)
    PROVE  /\ t \in SearchSet(m) /\ SameAsked(s, t) /\ t.full = s.full
           /\ t.radiusSqr = r /\ t.hit = hit
<1>1. s \in WallSet(m) BY SearchIs
<1>2. /\ t \in WallSet(m) /\ t.full = s.full
      /\ t.op = "wall" /\ t.start = s.start /\ t.center = s.center
      /\ t.filter = s.filter /\ t.radius = s.radius /\ t.radiusSqr = r
      /\ t.hit = hit
  BY <1>1 DEF WallSet, Hitting
<1> QED BY <1>1, <1>2 DEF SearchSet, SameAsked

(* The polygon of the node just closed.                                    *)
LEMMA BestNode ==
    ASSUME NEW m \in Meshes, NEW p, PoolInv(m, p), NEW b, NEW q, Closes(p, b, q)
    PROVE  /\ b \in Numbers(p) /\ p.nodes[b].id \in Polys(m) /\ p.nodes[b].total \in Nat
           /\ p.nodes[b].id # NoRef
           /\ ParentRef(p.nodes, b) \in Polys(m) \cup {NoRef}
           /\ \A i \in Closeds(p) : i # b /\ p.nodes[i].id # p.nodes[b].id
           /\ \A i \in Closeds(q) : i \in Numbers(p) /\ q.nodes[i].id = p.nodes[i].id
           /\ Closeds(p) \subseteq Closeds(q)
           /\ \A i \in Numbers(p) : \A f : OfNode(q, f, i) <=> OfNode(p, f, i)
<1>1. b \in Numbers(p) /\ b \in Opens(p) BY DEF Closes, Opens
<1>2. /\ p.nodes[b].id \in Polys(m) /\ p.nodes[b].total \in Nat
      /\ Len(p.nodes) \in Nat
      /\ \A i \in Numbers(p) : p.nodes[i].pidx \in 0..Len(p.nodes) /\ p.nodes[i].id \in Polys(m)
  BY <1>1, NodeIs
<1>3. p.nodes[b].id # NoRef BY <1>2, MeshAssumption
<1>4. \A i \in Numbers(p) : p.nodes[i].pidx = 0 \/ p.nodes[i].pidx \in Numbers(p)
  BY <1>2 DEF Numbers
<1>5. ParentRef(p.nodes, b) \in Polys(m) \cup {NoRef} BY <1>1, <1>2, <1>4 DEF ParentRef
<1>6. ASSUME NEW i \in Closeds(p) PROVE i # b /\ p.nodes[i].id # p.nodes[b].id
  <2>1. i \in Numbers(p) BY DEF Closeds
  <2>2. i # b BY <1>1, <2>1, OpenOrClosed
  <2> QED BY <1>1, <2>1, <2>2, IdsApart
<1>7. \A i \in Closeds(q) : i \in Numbers(p) BY DEF Closeds, Closes
<1>8. \A i \in Numbers(p) : \A f : OfNode(q, f, i) <=> OfNode(p, f, i)
  BY <1>4 DEF OfNode, ParentRef, Closes
<1> QED BY <1>1, <1>2, <1>3, <1>5, <1>6, <1>7, <1>8 DEF Closes

(* The search before a turn, and the pool with its best node closed.       *)
Turning(q) ==
    /\ mesh \in Meshes /\ search \in SearchSet(mesh)
    /\ NodesInv(mesh, search, pool) /\ FoundInv(mesh, pool, search)
    /\ Closes(pool, Best, q)

(* A list with the best node at its end is in order.                       *)
LEMMA OrderedMore ==
    ASSUME NEW q, Turning(q), Lists(search), ~search.small,
           NEW found, OfNode(pool, found, Best), NEW rs, rs = Append(search.results, found)
    PROVE  Ordered(rs)
<1> DEFINE s == search
           b == Best
           L == Len(s.results)
<1>1. /\ mesh \in Meshes /\ PoolInv(mesh, pool) /\ Closes(pool, b, q)
      /\ NodesInv(mesh, s, pool)
  BY DEF Turning, NodesInv
<1>2. /\ b \in Numbers(pool) /\ pool.nodes[b].total \in Nat
      /\ \A i \in Closeds(pool) : i # b /\ pool.nodes[i].id # pool.nodes[b].id
  BY <1>1, BestNode
<1>3. s.results \in Seq(FoundSet(mesh)) BY SearchIs DEF Turning
<1>4. /\ \A k \in 1..L : \E i \in Closeds(pool) : OfNode(pool, s.results[k], i)
      /\ Ordered(s.results)
      /\ \A i \in Closeds(pool) : Lists_(s.results, pool.nodes[i].id)
  BY DEF Turning, FoundInv, ResultsInv
<1> HIDE DEF s, b
<1>5. /\ L \in Nat /\ Len(rs) = L + 1 /\ rs[L + 1] = found
      /\ \A k \in 1..L : rs[k] = s.results[k]
  BY <1>3 DEF s
<1>6. /\ found.ref = pool.nodes[b].id /\ found.cost = pool.nodes[b].total
      /\ found.parent = ParentRef(pool.nodes, b)
  BY DEF OfNode, b
<1>7. ASSUME NEW k \in 1..L
      PROVE  /\ \A j \in 1..(k - 1) : rs[j].ref # rs[k].ref /\ rs[j].cost <= rs[k].cost
             /\ IF k = 1 THEN rs[k].parent = NoRef
                ELSE \E j \in 1..(k - 1) : rs[j].ref = rs[k].parent
  <2>1. \A j \in 1..(k - 1) : j \in 1..L BY <1>5
  <2>2. /\ \A j \in 1..(k - 1) : /\ s.results[j].ref # s.results[k].ref
                                 /\ s.results[j].cost <= s.results[k].cost
        /\ IF k = 1 THEN s.results[k].parent = NoRef
           ELSE \E j \in 1..(k - 1) : s.results[j].ref = s.results[k].parent
    BY <1>4 DEF Ordered
  <2>3. CASE k = 1 BY <1>5, <2>1, <2>2, <2>3
  <2>4. CASE k # 1
    <3>1. PICK j \in 1..(k - 1) : s.results[j].ref = s.results[k].parent BY <2>2, <2>4
    <3>2. rs[j].ref = rs[k].parent BY <1>5, <2>1, <3>1
    <3> QED BY <1>5, <2>1, <2>2, <2>4, <3>2
  <2> QED BY <2>3, <2>4
<1>8. ASSUME NEW j \in 1..L
      PROVE  rs[j].ref # found.ref /\ rs[j].cost <= found.cost
  <2>1. PICK i \in Closeds(pool) : OfNode(pool, s.results[j], i) BY <1>4
  <2>2. rs[j].ref = pool.nodes[i].id /\ rs[j].cost = pool.nodes[i].total
    BY <1>5, <2>1 DEF OfNode
  <2>3. pool.nodes[i].total <= pool.nodes[b].total BY <1>1 DEF Closes
  <2> QED BY <1>2, <1>6, <2>2, <2>3
<1>9. IF L = 0 THEN found.parent = NoRef
      ELSE \E j \in 1..L : rs[j].ref = found.parent
  <2>1. 1 \in Closeds(pool) \/ Len(pool.nodes) = 1 BY <1>1 DEF NodesInv
  <2>2. Len(pool.nodes) = 1 => b = 1 BY <1>2 DEF Numbers
  <2>3. CASE L = 0
    <3>1. Closeds(pool) = {}
      <4>1. ~\E k \in 1..L : TRUE BY <2>3
      <4> QED BY <1>4, <4>1 DEF Lists_
    <3>2. b = 1 /\ pool.nodes[1].pidx = 0 BY <1>1, <2>1, <2>2, <3>1 DEF NodesInv
    <3>3. found.parent = NoRef BY <1>6, <3>2 DEF ParentRef
    <3> QED BY <2>3, <3>3
  <2>4. CASE L # 0
    <3>1. 1 \in Closeds(pool)
      <4>1. 1 \in 1..L BY <1>5, <2>4
      <4>2. PICK i \in Closeds(pool) : OfNode(pool, s.results[1], i) BY <1>4, <4>1
      <4>3. Len(pool.nodes) = 1 => i = 1 BY DEF Closeds, Numbers
      <4> QED BY <2>1, <4>2, <4>3
    <3>2. b # 1 BY <1>2, <3>1
    <3>3. pool.nodes[b].pidx \in Closeds(pool) BY <1>1, <1>2, <3>2 DEF NodesInv
    <3>4. pool.nodes[b].pidx # 0
      <4>1. \A i \in Closeds(pool) : i # 0 BY DEF Closeds, Numbers
      <4> QED BY <3>3, <4>1
    <3>5. found.parent = pool.nodes[pool.nodes[b].pidx].id BY <1>6, <3>4 DEF ParentRef
    <3>6. PICK j \in 1..L : s.results[j].ref = found.parent BY <1>4, <3>3, <3>5 DEF Lists_
    <3> QED BY <1>5, <2>4, <3>6
  <2> QED BY <2>3, <2>4
<1> DEFINE After(k) ==
        /\ \A j \in 1..(k - 1) : rs[j].ref # rs[k].ref /\ rs[j].cost <= rs[k].cost
        /\ IF k = 1 THEN rs[k].parent = NoRef
           ELSE \E j \in 1..(k - 1) : rs[j].ref = rs[k].parent
<1>10. After(L + 1)
  <2>1. (L + 1) - 1 = L /\ (L + 1 = 1 <=> L = 0) BY <1>5
  <2> QED BY <1>5, <1>8, <1>9, <2>1
<1>11. \A k \in 1..(L + 1) : After(k)
  <2> TAKE k \in 1..(L + 1)
  <2>1. k = L + 1 \/ k \in 1..L BY <1>5
  <2>2. CASE k = L + 1 BY <1>10, <2>2
  <2>3. CASE k \in 1..L BY <1>7, <2>3
  <2> QED BY <2>1, <2>2, <2>3
<1> QED BY <1>5, <1>11 DEF Ordered

(* findPolysAroundCircle and findPolysAroundShape list it, or say that they*)
(* had no room.                                                            *)
LEMMA RecordedOK ==
    ASSUME NEW q, Turning(q), Lists(search)
    PROVE  Noted(mesh, search, Recorded(search), q)
<1> DEFINE s == search
           b == Best
           L == Len(s.results)
           found == [ref |-> pool.nodes[b].id, parent |-> ParentRef(pool.nodes, b),
                     cost |-> pool.nodes[b].total]
           rs == Append(s.results, found)
           t == Recorded(s)
<1>1. /\ mesh \in Meshes /\ PoolInv(mesh, pool) /\ Closes(pool, b, q)
      /\ s \in SearchSet(mesh) /\ s.op # "wall" /\ s.op # "random" /\ Lists(s)
  BY DEF Turning, NodesInv, Lists
<1>2. /\ b \in Numbers(pool) /\ pool.nodes[b].id \in Polys(mesh)
      /\ pool.nodes[b].total \in Nat
      /\ ParentRef(pool.nodes, b) \in Polys(mesh) \cup {NoRef}
      /\ \A i \in Closeds(pool) : i # b /\ pool.nodes[i].id # pool.nodes[b].id
      /\ \A i \in Closeds(q) : i \in Numbers(pool) /\ q.nodes[i].id = pool.nodes[i].id
      /\ Closeds(pool) \subseteq Closeds(q)
      /\ \A i \in Numbers(pool) : \A f : OfNode(q, f, i) <=> OfNode(pool, f, i)
  BY <1>1, BestNode
<1>3. Closeds(q) = Closeds(pool) \cup {b} BY <1>1 DEF Closes
<1>4. /\ s.results \in Seq(FoundSet(mesh)) /\ s.max \in Nat /\ s.small \in BOOLEAN
  BY SearchIs DEF Turning
<1>5. /\ L <= s.max
      /\ \A k \in 1..L : \E i \in Closeds(pool) : OfNode(pool, s.results[k], i)
      /\ Ordered(s.results)
      /\ ~s.small => \A i \in Closeds(pool) : Lists_(s.results, pool.nodes[i].id)
      /\ s.small => L = s.max
  BY DEF Turning, FoundInv, ResultsInv
<1>6. found \in FoundSet(mesh) /\ OfNode(pool, found, b) BY <1>2 DEF FoundSet, OfNode
<1>7. t = IF L < s.max THEN [s EXCEPT !.results = rs] ELSE [s EXCEPT !.small = TRUE]
  BY DEF Recorded
<1>8. found.ref = pool.nodes[b].id OBVIOUS
<1> HIDE DEF s, b, found, t
<1>9. /\ L \in Nat /\ rs \in Seq(FoundSet(mesh)) /\ Len(rs) = L + 1 /\ rs[L + 1] = found
      /\ \A k \in 1..L : rs[k] = s.results[k]
  BY <1>4, <1>6
<1>10. \A i \in Closeds(pool) : i \in Numbers(pool) BY DEF Closeds
<1>11. CASE L < s.max
  <2>1. ~s.small BY <1>5, <1>9, <1>11
  <2>2. /\ t \in SearchSet(mesh) /\ SameAsked(s, t) /\ t.full = s.full
        /\ t.max = s.max /\ t.small = s.small /\ t.results = rs
    <3>1. t = [s EXCEPT !.results = rs] BY <1>7, <1>11
    <3> HIDE DEF rs
    <3> QED BY <1>1, <1>9, <3>1, ResultsSet
  <2>3. Ordered(rs)
    BY <1>6, <2>1, OrderedMore DEF s, b
  <2>4. \A k \in 1..Len(rs) : \E i \in Closeds(q) : OfNode(q, rs[k], i)
    <3> TAKE k \in 1..Len(rs)
    <3>1. CASE k = L + 1 BY <1>2, <1>3, <1>6, <1>9, <3>1
    <3>2. CASE k # L + 1
      <4>1. k \in 1..L BY <1>9, <3>2
      <4>2. PICK i \in Closeds(pool) : OfNode(pool, s.results[k], i) BY <1>5, <4>1
      <4> QED BY <1>2, <1>9, <1>10, <4>1, <4>2
    <3> QED BY <3>1, <3>2
  <2>5. \A i \in Closeds(q) : Lists_(rs, q.nodes[i].id)
    <3> TAKE i \in Closeds(q)
    <3>1. CASE i = b
      <4>1. L + 1 \in 1..Len(rs) BY <1>9
      <4> QED BY <1>2, <1>8, <1>9, <3>1, <4>1 DEF Lists_
    <3>2. CASE i # b
      <4>1. i \in Closeds(pool) BY <1>3, <3>2
      <4>2. PICK k \in 1..L : s.results[k].ref = pool.nodes[i].id
        BY <1>5, <2>1, <4>1 DEF Lists_
      <4>3. k \in 1..Len(rs) BY <1>9
      <4> QED BY <1>2, <1>9, <4>2, <4>3 DEF Lists_
    <3> QED BY <3>1, <3>2
  <2>6. Len(rs) <= s.max BY <1>4, <1>9, <1>11
  <2>7. ResultsInv(q, t) BY <2>1, <2>2, <2>3, <2>4, <2>5, <2>6 DEF ResultsInv
  <2>8. RandomInv(mesh, q, t) /\ WallInv(mesh, q, t)
    BY <1>1, <2>2 DEF RandomInv, WallInv, SameAsked
  <2> QED BY <1>1, <2>2, <2>7, <2>8 DEF Noted, FoundInv, s, t
<1>12. CASE ~(L < s.max)
  <2>1. L = s.max BY <1>4, <1>5, <1>9, <1>12
  <2>2. /\ t \in SearchSet(mesh) /\ SameAsked(s, t) /\ t.full = s.full
        /\ t.max = s.max /\ t.small = TRUE /\ t.results = s.results
    <3> DEFINE yes == TRUE
    <3>1. t = [s EXCEPT !.small = yes] /\ yes \in BOOLEAN BY <1>7, <1>12
    <3> HIDE DEF yes
    <3>2. /\ t \in SearchSet(mesh) /\ SameAsked(s, t) /\ t.full = s.full
          /\ t.max = s.max /\ t.small = yes /\ t.results = s.results
      BY <1>1, <3>1, SmallSet
    <3> QED BY <3>2 DEF yes
  <2>3. \A k \in 1..L : \E i \in Closeds(q) : OfNode(q, s.results[k], i)
    BY <1>2, <1>5, <1>10
  <2>4. ~Lists_(s.results, q.nodes[b].id)
    <3> SUFFICES ASSUME NEW k \in 1..L, s.results[k].ref = pool.nodes[b].id
                 PROVE  FALSE
      BY <1>2, <1>3 DEF Lists_
    <3>1. PICK i \in Closeds(pool) : OfNode(pool, s.results[k], i) BY <1>5
    <3>2. s.results[k].ref = pool.nodes[i].id BY <3>1 DEF OfNode
    <3> QED BY <1>2, <3>1, <3>2
  <2>5. ResultsInv(q, t) BY <1>3, <1>5, <2>1, <2>2, <2>3, <2>4 DEF ResultsInv
  <2>6. RandomInv(mesh, q, t) /\ WallInv(mesh, q, t)
    BY <1>1, <2>2 DEF RandomInv, WallInv, SameAsked
  <2> QED BY <1>1, <2>2, <2>5, <2>6 DEF Noted, FoundInv, s, t
<1> QED BY <1>11, <1>12

(* findRandomPointAroundCircle picks it, or keeps one it picked before.    *)
LEMMA SampledOK ==
    ASSUME NEW q, Turning(q), search.op = "random", NEW roll \in Rolls
    PROVE  Noted(mesh, search, Sampled(search, roll), q)
<1> DEFINE s == search
           b == Best
           ref == pool.nodes[b].id
           area == PolyArea(mesh.verts[ref])
           sum == s.areaSum + area
           t == Sampled(s, roll)
<1>1. /\ mesh \in Meshes /\ PoolInv(mesh, pool) /\ Closes(pool, b, q)
      /\ s \in SearchSet(mesh) /\ s.op = "random" /\ ~Lists(s)
  BY DEF Turning, NodesInv, Lists
<1>2. /\ b \in Numbers(pool) /\ ref \in Polys(mesh) /\ ref # NoRef
      /\ \A i \in Closeds(q) : i \in Numbers(pool) /\ q.nodes[i].id = pool.nodes[i].id
      /\ Closeds(pool) \subseteq Closeds(q)
  BY <1>1, BestNode
<1>3. Closeds(q) = Closeds(pool) \cup {b} BY <1>1 DEF Closes
<1>4. /\ s.picked = NoRef => /\ s.areaSum = 0
                             /\ \A i \in Closeds(pool) : ~mesh.ground[pool.nodes[i].id]
      /\ s.picked # NoRef => \E i \in Closeds(pool) : /\ pool.nodes[i].id = s.picked
                                                      /\ mesh.ground[s.picked]
  BY DEF Turning, FoundInv, RandomInv
<1>5. s.areaSum \in Nat /\ s.picked \in Polys(mesh) \cup {NoRef} BY <1>1, SearchIs
<1>6. mesh.ground[ref] => area \in Nat BY <1>1, <1>2, MeshAssumption
<1>7. t = IF ~mesh.ground[ref] THEN s
          ELSE IF roll * sum <= 100 * area
          THEN [s EXCEPT !.areaSum = sum, !.picked = ref]
          ELSE [s EXCEPT !.areaSum = sum]
  BY DEF Sampled
<1> DEFINE Picks(u) == /\ u \in SearchSet(mesh) /\ SameAsked(s, u) /\ u.full = s.full
                       /\ RandomInv(mesh, q, u)
<1>8. b \in Closeds(q) /\ q.nodes[b].id = ref BY <1>2, <1>3
<1> HIDE DEF s, b, t, area, ref, sum
<1>9. Picks(t)
  <2>1. CASE ~mesh.ground[ref]
    <3>1. t = s BY <1>7, <2>1
    <3>2. \A i \in Closeds(q) : i \in Closeds(pool) \/ i = b BY <1>3
    <3>3. s.picked = NoRef => \A i \in Closeds(q) : ~mesh.ground[q.nodes[i].id]
      BY <1>2, <1>4, <1>8, <2>1, <3>2
    <3>4. s.picked # NoRef => \E i \in Closeds(q) : /\ q.nodes[i].id = s.picked
                                                    /\ mesh.ground[s.picked]
      BY <1>2, <1>4
    <3> QED BY <1>1, <1>4, <3>1, <3>3, <3>4 DEF RandomInv, SameAsked
  <2>2. CASE mesh.ground[ref] /\ roll * sum <= 100 * area
    <3>1. sum \in Nat BY <1>5, <1>6, <2>2 DEF sum
    <3>2. t = Picking(s, sum, ref) BY <1>7, <2>2 DEF Picking
    <3>3. /\ t \in SearchSet(mesh) /\ SameAsked(s, t) /\ t.full = s.full
          /\ t.areaSum = sum /\ t.picked = ref
      BY <1>1, <1>2, <3>1, <3>2, PickedSet
    <3> QED BY <1>2, <1>8, <2>2, <3>3 DEF RandomInv
  <2>3. CASE mesh.ground[ref] /\ ~(roll * sum <= 100 * area)
    <3>1. sum \in Nat BY <1>5, <1>6, <2>3 DEF sum
    <3>2. t = [s EXCEPT !.areaSum = sum] BY <1>7, <2>3
    <3>3. /\ t \in SearchSet(mesh) /\ SameAsked(s, t) /\ t.full = s.full
          /\ t.areaSum = sum /\ t.picked = s.picked
      BY <1>1, <3>1, <3>2, AreaSumSet
    <3>4. s.picked # NoRef
      <4> SUFFICES ASSUME s.picked = NoRef PROVE FALSE
        OBVIOUS
      <4>1. sum = area BY <1>4, <1>6, <2>3 DEF sum
      <4>2. roll \in 0..99 /\ area \in Nat BY <1>6, <2>3, RollsAssumption
      <4>3. \A x \in 0..99, y \in Nat : x * y <= 100 * y
        <5> TAKE x \in 0..99, y \in Nat
        <5>1. (100 - x) * y \in Nat
          <6>1. 100 - x \in Nat OBVIOUS
          <6>2. \A u, v \in Nat : u * v \in Nat OBVIOUS
          <6> QED BY <6>1, <6>2
        <5>2. 100 * y - x * y = (100 - x) * y OBVIOUS
        <5> QED BY <5>1, <5>2
      <4> QED BY <2>3, <4>1, <4>2, <4>3
    <3>5. PICK i \in Closeds(pool) : pool.nodes[i].id = s.picked /\ mesh.ground[s.picked]
      BY <1>4, <3>4
    <3>6. i \in Closeds(q) /\ q.nodes[i].id = s.picked BY <1>2, <3>5
    <3> QED BY <3>3, <3>4, <3>5, <3>6 DEF RandomInv
  <2> QED BY <2>1, <2>2, <2>3
<1>10. ResultsInv(q, t) /\ WallInv(mesh, q, t)
  BY <1>1, <1>9 DEF ResultsInv, WallInv, SameAsked, Lists
<1> QED BY <1>1, <1>9, <1>10 DEF Noted, FoundInv, s, t

(* findDistanceToWall shrinks its radius to the nearest of its walls.      *)
LEMMA HitTestedOK ==
    ASSUME NEW q, Turning(q), search.op = "wall"
    PROVE  Noted(mesh, search, HitTested(search), q)
<1> DEFINE s == search
           b == Best
           ref == pool.nodes[b].id
           walls == WallsAt(mesh, s.filter, ref)
           F(n) == FarFrom(mesh, s.center, ref, n)
           hits == {n \in walls : F(n) <= s.radiusSqr}
           nearest == {n \in hits : \A k \in hits : F(n) <= F(k)}
           hit == Min(nearest)
           t == HitTested(s)
           R == Square(s.radius)
<1>1. /\ mesh \in Meshes /\ PoolInv(mesh, pool) /\ Closes(pool, b, q)
      /\ s \in SearchSet(mesh) /\ s.op = "wall" /\ ~Lists(s)
  BY DEF Turning, NodesInv, Lists
<1>2. /\ b \in Numbers(pool) /\ ref \in Polys(mesh)
      /\ \A i \in Closeds(q) : i \in Numbers(pool) /\ q.nodes[i].id = pool.nodes[i].id
      /\ Closeds(pool) \subseteq Closeds(q)
  BY <1>1, BestNode
<1>3. Closeds(q) = Closeds(pool) \cup {b} BY <1>1 DEF Closes
<1>4. /\ s.radiusSqr <= R
      /\ \A i \in Closeds(pool) : \A n \in WallsAt(mesh, s.filter, pool.nodes[i].id) :
            s.radiusSqr <= FarFrom(mesh, s.center, pool.nodes[i].id, n)
      /\ \/ s.radiusSqr = R
         \/ /\ s.hit # <<>>
            /\ \E i \in Closeds(pool) : \E n \in WallsAt(mesh, s.filter, pool.nodes[i].id) :
                  s.radiusSqr = FarFrom(mesh, s.center, pool.nodes[i].id, n)
  BY <1>1 DEF Turning, FoundInv, WallInv
<1>5. s.radiusSqr \in Nat /\ s.radius \in Nat /\ s.center \in Int \X Int
  BY <1>1, SearchIs
<1>6. R \in Nat
  <2>1. \A x \in Nat : x * x \in Nat OBVIOUS
  <2> QED BY <1>5, <2>1 DEF Square
<1>7. ASSUME NEW p \in Polys(mesh), NEW n \in WallsAt(mesh, s.filter, p)
      PROVE  n \in Nat /\ FarFrom(mesh, s.center, p, n) \in Nat
  <2>1. n \in 0..(Len(mesh.neis[p]) - 1) BY DEF WallsAt
  <2>2. /\ Len(mesh.neis[p]) \in 0..Len(mesh.verts[p]) /\ mesh.verts[p] \in Seq(Int \X Int)
    BY <1>1, MeshAssumption
  <2>3. Len(mesh.verts[p]) \in Nat BY <2>2
  <2>4. n \in 0..(Len(mesh.verts[p]) - 1) /\ n \in Nat BY <2>1, <2>2, <2>3
  <2> QED BY <1>1, <1>5, <2>4, FarNat
<1>8. t = IF hits = {} THEN s ELSE [s EXCEPT !.radiusSqr = F(hit), !.hit = <<ref, hit>>]
  <2>1. WallsOf(s.filter, ref) = walls BY WallsAre
  <2>2. \A n : Far(s, ref, n) = F(n) BY DEF Far, FarFrom
  <2>3. t = LET hs == {n \in WallsOf(s.filter, ref) : Far(s, ref, n) <= s.radiusSqr}
                near == {n \in hs : \A m \in hs : Far(s, ref, n) <= Far(s, ref, m)}
            IN  IF hs = {} THEN s
                ELSE [s EXCEPT !.radiusSqr = Far(s, ref, Min(near)),
                               !.hit = <<ref, Min(near)>>]
    BY DEF HitTested
  <2> HIDE DEF s, b, ref, walls, t, F
  <2> QED BY <2>1, <2>2, <2>3
<1>9. b \in Closeds(q) /\ q.nodes[b].id = ref BY <1>2, <1>3
<1>10. \A n \in walls : n \in Nat /\ F(n) \in Nat BY <1>2, <1>7
<1> HIDE DEF s, b, ref, walls, t, F, R, hit
<1>11. CASE hits = {}
  <2>1. t = s BY <1>8, <1>11
  <2>2. \A n \in walls : s.radiusSqr <= F(n) BY <1>5, <1>10, <1>11
  <2>3. \A i \in Closeds(q) : \A n \in WallsAt(mesh, s.filter, q.nodes[i].id) :
           s.radiusSqr <= FarFrom(mesh, s.center, q.nodes[i].id, n)
    <3> TAKE i \in Closeds(q)
    <3>1. CASE i = b BY <1>9, <2>2, <3>1 DEF walls, F
    <3>2. CASE i # b
      <4>1. i \in Closeds(pool) /\ q.nodes[i].id = pool.nodes[i].id BY <1>2, <1>3, <3>2
      <4> QED BY <1>4, <4>1
    <3> QED BY <3>1, <3>2
  <2>4. \/ s.radiusSqr = R
        \/ /\ s.hit # <<>>
           /\ \E i \in Closeds(q) : \E n \in WallsAt(mesh, s.filter, q.nodes[i].id) :
                 s.radiusSqr = FarFrom(mesh, s.center, q.nodes[i].id, n)
    <3>1. \A i \in Closeds(pool) : i \in Closeds(q) /\ q.nodes[i].id = pool.nodes[i].id
      BY <1>2
    <3> QED BY <1>4, <3>1
  <2>5. WallInv(mesh, q, s) BY <1>4, <2>3, <2>4 DEF WallInv, R
  <2>6. ResultsInv(q, s) /\ RandomInv(mesh, q, s) BY <1>1 DEF ResultsInv, RandomInv
  <2>7. SameAsked(s, s) BY DEF SameAsked
  <2>8. s.radiusSqr <= s.radiusSqr BY <1>5
  <2>9. Noted(mesh, s, s, q) BY <1>1, <2>5, <2>6, <2>7, <2>8 DEF Noted, FoundInv
  <2> QED BY <2>1, <2>9 DEF s, t
<1>12. CASE hits # {}
  <2>1. hit \in nearest
    <3> DEFINE D == {F(n) : n \in hits}
    <3>1. D \in SUBSET Nat /\ D # {} BY <1>10, <1>12
    <3>2. PICK d \in D : \A e \in D : d <= e
      <4> HIDE DEF D
      <4> QED BY <3>1, LeastOf
    <3>3. PICK n \in hits : d = F(n) OBVIOUS
    <3>4. n \in nearest BY <3>2, <3>3
    <3>5. nearest \in SUBSET Nat BY <1>10
    <3> HIDE DEF nearest
    <3> QED BY <3>4, <3>5, LeastOf DEF hit
  <2>2. /\ hit \in walls /\ F(hit) <= s.radiusSqr /\ \A n \in hits : F(hit) <= F(n)
        /\ hit \in Nat /\ F(hit) \in Nat
    BY <1>10, <2>1
  <2>3. t = [s EXCEPT !.radiusSqr = F(hit), !.hit = <<ref, hit>>] BY <1>8, <1>12
  <2> DEFINE r == F(hit)
             h == <<ref, hit>>
  <2>4. h \in Polys(mesh) \X Nat /\ h # <<>> BY <1>2, <2>2
  <2>5. r \in Nat /\ r <= s.radiusSqr BY <2>2
  <2>6. t = Hitting(s, r, h) BY <2>3 DEF Hitting
  <2>7. \A n \in walls : r <= F(n)
    <3> TAKE n \in walls
    <3>1. CASE n \in hits BY <2>2, <3>1
    <3>2. CASE n \notin hits
      <4>1. ~(F(n) <= s.radiusSqr) BY <3>2
      <4> QED BY <1>5, <1>10, <2>5, <4>1
    <3> QED BY <3>1, <3>2
  <2> HIDE DEF r, h, hits
  <2>8. /\ t \in SearchSet(mesh) /\ SameAsked(s, t) /\ t.full = s.full
        /\ t.radiusSqr = r /\ t.hit = h
    BY <1>1, <2>4, <2>5, <2>6, HitSet
  <2>9. t.filter = s.filter /\ t.center = s.center /\ t.radius = s.radius /\ t.op = "wall"
    BY <1>1, <2>8 DEF SameAsked
  <2>10. \A i \in Closeds(q) : \A n \in WallsAt(mesh, s.filter, q.nodes[i].id) :
            r <= FarFrom(mesh, s.center, q.nodes[i].id, n)
    <3> TAKE i \in Closeds(q)
    <3>1. CASE i = b BY <1>9, <2>7, <3>1 DEF walls, F
    <3>2. CASE i # b
      <4>1. i \in Closeds(pool) /\ q.nodes[i].id = pool.nodes[i].id BY <1>2, <1>3, <3>2
      <4>2. pool.nodes[i].id \in Polys(mesh)
        <5>1. i \in Numbers(pool) BY <4>1 DEF Closeds
        <5> QED BY <1>1, <5>1, NodeIs
      <4>3. ASSUME NEW n \in WallsAt(mesh, s.filter, pool.nodes[i].id)
            PROVE  r <= FarFrom(mesh, s.center, pool.nodes[i].id, n)
        <5>1. s.radiusSqr <= FarFrom(mesh, s.center, pool.nodes[i].id, n) BY <1>4, <4>1
        <5>2. FarFrom(mesh, s.center, pool.nodes[i].id, n) \in Nat BY <1>7, <4>2
        <5> QED BY <1>5, <2>5, <5>1, <5>2
      <4> QED BY <4>1, <4>3
    <3> QED BY <3>1, <3>2
  <2>11. r <= R BY <1>4, <1>5, <1>6, <2>5
  <2>12. \E i \in Closeds(q) : \E n \in WallsAt(mesh, s.filter, q.nodes[i].id) :
            r = FarFrom(mesh, s.center, q.nodes[i].id, n)
    BY <1>9, <2>2 DEF walls, F, r
  <2>13. WallInv(mesh, q, t)
    BY <2>4, <2>8, <2>9, <2>10, <2>11, <2>12 DEF WallInv, R
  <2>14. ResultsInv(q, t) /\ RandomInv(mesh, q, t)
    BY <2>9 DEF ResultsInv, RandomInv, Lists
  <2>15. Noted(mesh, s, t, q) BY <2>5, <2>8, <2>13, <2>14 DEF Noted, FoundInv
  <2> QED BY <2>15 DEF s, t
<1> QED BY <1>11, <1>12

-------------------------------------------------------------------------------
(* One turn of a loop *)

SearchInv(m, p, s) ==
    /\ s \in SearchSet(m)
    /\ NodesInv(m, s, p) /\ FoundInv(m, p, s) /\ Heeded(m, p, s)

(* A turn leaves every polygon that a link of a closed one leads to with a *)
(* node, unless the pool ran out.                                          *)
LEMMA HeededOK ==
    ASSUME mesh \in Meshes, SearchInv(mesh, pool, search), Closes(pool, Best, Closed.pool),
           Closed.full = search.full,
           NEW s, Noted(mesh, search, s, Closed.pool), NEW e,
           GrownFrom(Closed.pool, e.pool), e.full \in BOOLEAN, ~e.full => ~search.full,
           ~e.full => \A l \in Range(mesh.links[Closed.pool.nodes[Best].id]) :
               FollowsAt(mesh, s, s.radiusSqr, Closed.pool.nodes[Best].id, l)
                 => Has(e.pool, l.to),
           NEW t \in SearchSet(mesh), t.full = e.full, SameAsked(s, t), SameFound(s, t)
    PROVE  Heeded(mesh, e.pool, t)
<1> DEFINE p == pool
           q == Closed.pool
           b == Best
<1>1. /\ search \in SearchSet(mesh) /\ NodesInv(mesh, search, p)
      /\ PoolInv(mesh, p) /\ Heeded(mesh, p, search)
  BY DEF SearchInv, NodesInv
<1>2. /\ s \in SearchSet(mesh) /\ SameAsked(search, s)
      /\ search.op = "wall" => s.radiusSqr <= search.radiusSqr
  BY DEF Noted
<1>3. s.op # "shape" => t.radiusSqr = s.radiusSqr BY DEF SameFound
<1> HIDE DEF p, q, b
<1> SUFFICES ASSUME ~e.full, NEW i \in Closeds(e.pool),
                    NEW l \in Range(mesh.links[e.pool.nodes[i].id]),
                    FollowsAt(mesh, t, t.radiusSqr, e.pool.nodes[i].id, l)
             PROVE  Has(e.pool, l.to)
  BY DEF Heeded
<1>4. /\ i \in Closeds(q) /\ e.pool.nodes[i] = q.nodes[i] BY DEF GrownFrom, q
<1>5. Closeds(q) = Closeds(p) \cup {b} /\ b \in Numbers(p) /\ Numbers(q) = Numbers(p)
      /\ \A k \in Numbers(p) : q.nodes[k].id = p.nodes[k].id
  BY DEF Closes, p, q, b, Opens
<1>6. FollowsAt(mesh, s, t.radiusSqr, e.pool.nodes[i].id, l) BY SameFollows
<1>7. CASE i = b
  <2>1. FollowsAt(mesh, s, s.radiusSqr, q.nodes[b].id, l)
    <3>1. CASE s.op = "shape" BY <1>4, <1>6, <1>7, <3>1 DEF FollowsAt
    <3>2. CASE s.op # "shape" BY <1>3, <1>4, <1>6, <1>7, <3>2
    <3> QED BY <3>1, <3>2
  <2>2. l \in Range(mesh.links[q.nodes[b].id]) BY <1>4, <1>7
  <2> QED BY <2>1, <2>2 DEF q, b
<1>8. CASE i # b
  <2> DEFINE id == p.nodes[i].id
  <2>1. i \in Closeds(p) /\ i \in Numbers(p) BY <1>4, <1>5, <1>8 DEF Closeds
  <2>2. e.pool.nodes[i].id = id BY <1>4, <1>5, <2>1
  <2>3. id \in Polys(mesh) BY <1>1, <2>1, NodeIs
  <2> HIDE DEF id
  <2>4. FollowsAt(mesh, search, t.radiusSqr, id, l) BY <1>2, <1>6, <2>2, SameFollows
  <2>5. FollowsAt(mesh, search, search.radiusSqr, id, l)
    <3>1. CASE search.op = "shape" BY <2>4, <3>1 DEF FollowsAt
    <3>2. CASE search.op # "shape"
      <4>1. s.op = search.op /\ t.op = search.op /\ s.radius = search.radius
            /\ t.radius = search.radius
        BY <1>2, <3>2 DEF SameAsked
      <4>2. search.radiusSqr \in Nat /\ t.radiusSqr \in Nat
        BY <1>1, <3>2, <4>1, SearchIs
      <4>3. search.op = "wall" => t.radiusSqr <= search.radiusSqr
        BY <1>2, <1>3, <3>2, <4>1
      <4>4. search.op # "wall" => t.radiusSqr = search.radiusSqr
        <5> SUFFICES ASSUME search.op # "wall" PROVE t.radiusSqr = search.radiusSqr
          OBVIOUS
        <5>1. search.op \in {"circle", "random"} BY <1>1, <3>2, SearchIs
        <5>2. search.radiusSqr = Square(search.radius) BY <1>1, <5>1, SearchIs
        <5>3. t.radiusSqr = Square(t.radius) BY <4>1, <5>1, SearchIs
        <5> QED BY <4>1, <5>2, <5>3
      <4>5. l \in Range(mesh.links[id]) BY <2>2
      <4> QED BY <1>1, <2>3, <2>4, <4>2, <4>3, <4>4, <4>5, FollowsWider
    <3> QED BY <3>1, <3>2
  <2>6. Has(p, l.to)
    <3>1. l \in Range(mesh.links[id]) /\ ~search.full BY <2>2
    <3> QED BY <1>1, <2>1, <2>5, <3>1 DEF Heeded, id
  <2>7. Has(q, l.to) BY <1>5, <2>6 DEF Has
  <2> QED BY <2>7, HasStill DEF q
<1> QED BY <1>7, <1>8

(* A turn of any of the loops.                                             *)
LEMMA TurnOK ==
    ASSUME mesh \in Meshes, SearchInv(mesh, pool, search),
           OpenList(pool, heap, Opens(pool)), heap # EmptyQueue,
           NEW s, \A q : Turning(q) => Noted(mesh, search, s, q),
           NEW e, e = Expand(s, Closed, Best),
           NEW t, t = Flagged(s, e.full, e.heap = EmptyQueue)
    PROVE  /\ SearchInv(mesh, e.pool, t)
           /\ OpenList(e.pool, e.heap, Opens(e.pool))
           /\ t.ended <=> e.heap = EmptyQueue
<1> DEFINE c == Closed
           b == Best
<1>1. search \in SearchSet(mesh) /\ NodesInv(mesh, search, pool) /\ FoundInv(mesh, pool, search)
  BY DEF SearchInv
<1>2. search.full \in BOOLEAN BY <1>1, SearchIs
<1>3. c.full = search.full /\ Closes(pool, b, c.pool) BY <1>1, <1>2, ClosedOK
<1>4. Noted(mesh, search, s, c.pool) BY <1>1, <1>3 DEF Turning
<1>5. s \in SearchSet(mesh) /\ SameAsked(search, s) /\ FoundInv(mesh, c.pool, s)
  BY <1>4 DEF Noted
<1>6. NodesInv(mesh, s, pool) BY <1>1, <1>5, NodesAsked
<1>7. Between(mesh, s, b, c) BY <1>2, <1>6, ClosedOK
<1>8. Shrunk(s) BY <1>5 DEF Shrunk, FoundInv, WallInv
<1> HIDE DEF c, b
<1>9. /\ Between(mesh, s, b, e) /\ GrownFrom(c.pool, e.pool)
      /\ c.full => e.full
      /\ ~e.full => \A l \in Range(mesh.links[c.pool.nodes[b].id]) :
           FollowsAt(mesh, s, s.radiusSqr, c.pool.nodes[b].id, l) => Has(e.pool, l.to)
  <2>1. e = Expand(s, c, b) BY DEF c, b
  <2> QED BY <1>5, <1>7, <1>8, <2>1, ExpandOK
<1>10. e.full \in BOOLEAN /\ NodesInv(mesh, s, e.pool)
       /\ OpenList(e.pool, e.heap, Opens(e.pool)) /\ NodesInv(mesh, s, c.pool)
  BY <1>7, <1>9 DEF Between
<1> DEFINE none == e.heap = EmptyQueue
<1>11. none \in BOOLEAN OBVIOUS
<1>12. t = Flagged(s, e.full, none) OBVIOUS
<1> HIDE DEF none
<1>13. /\ t \in SearchSet(mesh) /\ t.full = e.full /\ t.ended = none
       /\ SameAsked(s, t) /\ SameFound(s, t)
  BY <1>5, <1>10, <1>11, <1>12, FlagsSet
<1>14. NodesInv(mesh, t, e.pool) BY <1>10, <1>13, NodesAsked
<1>15. FoundInv(mesh, e.pool, t) BY <1>5, <1>9, <1>10, <1>13, FoundStill
<1>16. Heeded(mesh, e.pool, t)
  BY <1>3, <1>4, <1>9, <1>10, <1>13, HeededOK DEF c, b
<1> QED BY <1>10, <1>13, <1>14, <1>15, <1>16 DEF SearchInv, none

-------------------------------------------------------------------------------
(* A search begins *)

(* Nothing is found when it begins.                                        *)
Fresh_(s) ==
    /\ s.full = FALSE /\ s.ended = FALSE
    /\ Lists(s) => s.results = <<>> /\ s.small = FALSE
    /\ s.op = "random" => s.areaSum = 0 /\ s.picked = NoRef
    /\ s.op = "wall" => s.radiusSqr = Square(s.radius)

Begun(s) ==
    LET fresh == ClearPool(pool)
        i == NodeIdx(fresh, s.start, 0)
    IN  [GetNode(fresh, s.start, 0) EXCEPT
           !.nodes[i].pos = s.center, !.nodes[i].flags = {"OPEN"}]

(* Its only node is the start's, which is open.                            *)
StartOnly(m, s, p) ==
    /\ PoolInv(m, p) /\ Len(p.nodes) = 1
    /\ p.nodes[1].id = s.start /\ p.nodes[1].pidx = 0 /\ p.nodes[1].pos = s.center
    /\ p.nodes[1].flags = {"OPEN"}

(* The pool that a search begins with has the start in its first place.    *)
LEMMA BegunOK ==
    ASSUME mesh \in Meshes, PoolInv(mesh, pool), NEW s \in SearchSet(mesh)
    PROVE  /\ NodeIdx(ClearPool(pool), s.start, 0) = 1
           /\ StartOnly(mesh, s, Begun(s))
<1> DEFINE fresh == ClearPool(pool)
           g == GetNode(fresh, s.start, 0)
           i == NodeIdx(fresh, s.start, 0)
           P == Polys(mesh)
           X == Places(mesh)
<1>1. /\ s.start \in P /\ s.center \in Points(mesh) /\ s.center \in X
      /\ <<>> \in X /\ HashesTo(P) /\ 0 \in Nat
  BY SearchIs, HashesPolys DEF Places
<1>2. /\ PoolOK(fresh, P, X) /\ fresh.max = pool.max /\ fresh.nodes = <<>>
  <2>1. PoolTyped(pool, P, X) BY DEF PoolInv, PoolBut, PoolOK
  <2> QED BY <2>1, ClearPoolOK
<1>3. pool.max \in PoolSizes /\ pool.max \in Nat /\ pool.max >= 4
  <2>1. pool.max \in PoolSizes BY NodeIs
  <2>2. \A x \in Nat \ 0..3 : x \in Nat /\ x >= 4 OBVIOUS
  <2>3. pool.max \in Nat \ 0..3 BY <2>1, PoolSizesAssumption
  <2> QED BY <2>1, <2>2, <2>3
<1> HIDE DEF fresh, P, X
<1>4. CanGetNode(fresh, s.start, 0) /\ Len(fresh.nodes) = 0 BY <1>2, <1>3 DEF CanGetNode
<1>5. /\ i = 1 /\ g.nodes = Append(fresh.nodes, Fresh(s.start, 0))
      /\ g.max = pool.max /\ PoolOK(g, P, X)
  <2>1. /\ i \in 1..Len(g.nodes)
        /\ \/ g = fresh /\ i \in 1..Len(fresh.nodes) /\ IsNodeOf(fresh, i, s.start, 0)
           \/ /\ i = Len(fresh.nodes) + 1
              /\ g.nodes = Append(fresh.nodes, Fresh(s.start, 0))
        /\ g.max = fresh.max /\ PoolOK(g, P, X)
    BY <1>1, <1>2, <1>4, GetNodeIs
  <2>2. ~(i \in 1..Len(fresh.nodes)) BY <1>4
  <2> QED BY <1>2, <1>4, <2>1, <2>2
<1>6. Len(g.nodes) = 1 /\ g.nodes[1] = Fresh(s.start, 0)
  <2>1. \A f : Len(Append(<<>>, f)) = 1 /\ Append(<<>>, f)[1] = f OBVIOUS
  <2>2. g.nodes = Append(<<>>, Fresh(s.start, 0)) BY <1>2, <1>5
  <2> HIDE DEF g
  <2> QED BY <2>1, <2>2
<1> DEFINE new == g.nodes[1]
           n1 == [new EXCEPT !.pos = s.center]
           n2 == [n1 EXCEPT !.flags = {"OPEN"}]
           q1 == Changed(g, 1, n1)
           q2 == Changed(g, 1, n2)
<1> HIDE DEF g, i
<1>7. Begun(s) = q2
  <2>1. Begun(s) = [[g EXCEPT !.nodes[1].pos = s.center] EXCEPT !.nodes[1].flags = {"OPEN"}]
    <3>1. Begun(s) = [[g EXCEPT !.nodes[i].pos = s.center]
                         EXCEPT !.nodes[i].flags = {"OPEN"}]
      BY DEF Begun, g, i, fresh
    <3> QED BY <1>5, <3>1
  <2>2. [g EXCEPT !.nodes[1].pos = s.center] = q1 BY DEF Changed
  <2>3. [q1 EXCEPT !.nodes[1].flags = {"OPEN"}]
          = Changed(q1, 1, [q1.nodes[1] EXCEPT !.flags = {"OPEN"}])
    BY DEF Changed
  <2> HIDE DEF n1
  <2>4. q1.nodes[1] = n1 /\ \A y : Changed(q1, 1, y) = Changed(g, 1, y)
    <3>1. PoolTyped(g, P, X) /\ 1 \in Numbers(g) BY <1>5, <1>6 DEF PoolOK, Numbers
    <3> QED BY <3>1, ChangedTwice
  <2> HIDE DEF q1
  <2> QED BY <2>1, <2>2, <2>3, <2>4
<1>8. /\ n2 \in NodeSet(P, X) /\ n2.id = s.start /\ n2.state = 0 /\ n2.pidx = 0
      /\ n2.pos = s.center /\ n2.flags = {"OPEN"} /\ new.id = s.start /\ new.state = 0
  <2>1. new = [id |-> s.start, state |-> 0, pidx |-> 0, pos |-> <<>>, cost |-> 0,
               total |-> 0, flags |-> {}]
    BY <1>6 DEF Fresh
  <2> HIDE DEF new
  <2>2. n1 = [id |-> s.start, state |-> 0, pidx |-> 0, pos |-> s.center, cost |-> 0,
              total |-> 0, flags |-> {}]
    <3> DEFINE id == s.start
               c == s.center
               at == <<>>
               none == {}
    <3>1. new = [id |-> id, state |-> 0, pidx |-> 0, pos |-> at, cost |-> 0,
                 total |-> 0, flags |-> none]
      BY <2>1
    <3> HIDE DEF id, c, at, none
    <3>2. [new EXCEPT !.pos = c]
            = [id |-> id, state |-> 0, pidx |-> 0, pos |-> c, cost |-> 0,
               total |-> 0, flags |-> none]
      BY <3>1
    <3> QED BY <3>2 DEF id, c, none
  <2> HIDE DEF n1
  <2>3. n2 = [id |-> s.start, state |-> 0, pidx |-> 0, pos |-> s.center, cost |-> 0,
              total |-> 0, flags |-> {"OPEN"}]
    BY <2>2
  <2> HIDE DEF n2
  <2>4. {"OPEN"} \in SUBSET {"OPEN", "CLOSED"} OBVIOUS
  <2> QED BY <1>1, <2>1, <2>3, <2>4 DEF NodeSet
<1>9. PoolBut(mesh, g, 1)
  <2>1. Numbers(g) = {1} BY <1>6 DEF Numbers
  <2>2. g.max \in PoolSizes BY <1>3, <1>5
  <2> QED BY <1>5, <1>8, <2>1, <2>2 DEF PoolBut, P, X
<1> HIDE DEF new, n2
<1>10. ChangeIs(mesh, g, 1, n2, q2)
  <2>1. 1 \in Numbers(g) /\ n2.pidx \in 0..Len(g.nodes) BY <1>6, <1>8 DEF Numbers
  <2>2. n2.flags \in {{"OPEN"}, {"CLOSED"}} /\ n2.id = g.nodes[1].id
    BY <1>8 DEF new
  <2>3. n2 \in NodeSet(Polys(mesh), Places(mesh)) BY <1>8 DEF P, X
  <2> QED BY <1>8, <1>9, <2>1, <2>2, <2>3, ChangedOK
<1> HIDE DEF q2
<1>11. StartOnly(mesh, s, q2) BY <1>6, <1>8, <1>10 DEF StartOnly, ChangeIs
<1> QED BY <1>5, <1>7, <1>11 DEF i, fresh

(* So it begins as a search should be, with its start in the open list.    *)
LEMMA BeginOK ==
    ASSUME mesh \in Meshes, NEW s \in SearchSet(mesh), Fresh_(s),
           NEW p, StartOnly(mesh, s, p), NEW h, h = Push(p, EmptyQueue, 1)
    PROVE  /\ SearchInv(mesh, p, s) /\ OpenList(p, h, Opens(p)) /\ h # EmptyQueue
<1>1. /\ PoolInv(mesh, p) /\ Len(p.nodes) = 1
      /\ p.nodes[1].id = s.start /\ p.nodes[1].pidx = 0 /\ p.nodes[1].pos = s.center
      /\ p.nodes[1].flags = {"OPEN"}
  BY DEF StartOnly
<1>2. Numbers(p) = {1} BY <1>1 DEF Numbers
<1>3. Opens(p) = {1} /\ Closeds(p) = {}
  <2>1. 1 \in Opens(p) /\ 1 \notin Closeds(p) BY <1>1, <1>2, OpenOrClosed
  <2> QED BY <1>2, <2>1 DEF Opens, Closeds
<1>4. NodesInv(mesh, s, p)
  <2>1. s.center \in Points(mesh) /\ s.start \in Area(mesh, s) BY SearchIs, AreaShut
  <2>2. Acyclic(p.nodes)
    <3>1. \A ring \in SUBSET (1..1) : (\A k \in ring : 0 \in ring) => ring = {} OBVIOUS
    <3>2. \A i \in 1..Len(p.nodes) : p.nodes[i].pidx = 0 BY <1>1
    <3> QED BY <1>1, <3>1, <3>2 DEF Acyclic
  <2> QED BY <1>1, <1>2, <1>3, <2>1, <2>2 DEF NodesInv
<1>5. FoundInv(mesh, p, s)
  <2>1. ResultsInv(p, s)
    <3> SUFFICES ASSUME Lists(s) PROVE ResultsInv(p, s) BY DEF ResultsInv
    <3>1. s.results = <<>> /\ ~s.small /\ s.max \in Nat BY SearchIs DEF Fresh_
    <3>2. Len(s.results) = 0 BY <3>1
    <3>3. ~\E k \in 1..Len(s.results) : TRUE BY <3>2
    <3> QED BY <1>3, <3>1, <3>2, <3>3 DEF ResultsInv, Ordered
  <2>2. RandomInv(mesh, p, s) BY <1>3 DEF RandomInv, Fresh_
  <2>3. WallInv(mesh, p, s)
    <3> SUFFICES ASSUME s.op = "wall" PROVE WallInv(mesh, p, s) BY DEF WallInv
    <3>1. s.radiusSqr = Square(s.radius) /\ s.radiusSqr \in Nat BY SearchIs DEF Fresh_
    <3>2. s.radiusSqr <= Square(s.radius) BY <3>1
    <3> QED BY <1>3, <3>1, <3>2 DEF WallInv
  <2> QED BY <2>1, <2>2, <2>3 DEF FoundInv
<1>6. Heeded(mesh, p, s) BY <1>3 DEF Heeded
<1>7. OpenList(p, h, Opens(p))
  <2>1. OpenList(p, EmptyQueue, {}) BY EmptyOpenList
  <2>2. TotalOf(p, 1) \in Nat BY <1>1, <1>2, NodeIs DEF TotalOf
  <2>3. OpenList(p, Push(p, EmptyQueue, 1), {} \cup {1}) BY <2>1, <2>2, PushOK
  <2> QED BY <1>3, <2>3
<1>8. h # EmptyQueue
  <2>1. \E k \in DOMAIN h : h[k] = 1 BY <1>3, <1>7 DEF OpenList
  <2> QED BY <2>1 DEF EmptyQueue
<1> QED BY <1>4, <1>5, <1>6, <1>7, <1>8 DEF SearchInv
-------------------------------------------------------------------------------
(* The invariant *)

(* A path that was read back: from the nodes of a search that had ended.   *)
PathGot(p, end, n) ==
    LET found == FindNodes(p, end, 1)
        known == found # <<>> /\ "CLOSED" \in p.nodes[Head(found)].flags
        got == IF known THEN GetPathToNode(p.nodes, Head(found), n)
               ELSE [path |-> <<>>, details |-> {"INVALID_PARAM"}]
    IN  [end |-> end, max |-> n, known |-> known,
         path |-> got.path, details |-> got.details]

PathInv(m, p, s, way) ==
    \/ way = NoPath
    \/ s.ended /\ \E end \in Polys(m), n \in Nat : way = PathGot(p, end, n)

(* Nothing has been searched for, or a search is as it should be.          *)
Searched(m, p, s) ==
    \/ s = NoSearch /\ p.nodes = <<>>
    \/ SearchInv(m, p, s)

Sound(m, p, h, s, way) ==
    /\ m \in Meshes /\ PoolInv(m, p)
    /\ OpenList(p, h, Opens(p)) /\ (s.ended <=> h = EmptyQueue)
    /\ Searched(m, p, s)
    /\ PathInv(m, p, s, way)

IInv == Sound(mesh, pool, heap, search, path)

(* At first there is a pool without nodes.                                 *)
LEMMA InitSound ==
    ASSUME Init
    PROVE  IInv
<1>1. PICK n \in PoolSizes : pool = NodePool(n, NextPow2(n \div 4)) BY DEF Init
<1>2. n \in Nat /\ n >= 4
  <2>1. \A x \in Nat \ 0..3 : x \in Nat /\ x >= 4 OBVIOUS
  <2>2. n \in Nat \ 0..3 BY PoolSizesAssumption
  <2> QED BY <2>1, <2>2
<1>3. /\ PoolOK(pool, Polys(mesh), Places(mesh)) /\ pool.max = n /\ pool.nodes = <<>>
  BY <1>1, <1>2, NodePoolOK
<1>4. Len(pool.nodes) = 0 BY <1>3
<1>5. Numbers(pool) = {} BY <1>4 DEF Numbers
<1>6. PoolInv(mesh, pool) BY <1>3, <1>5 DEF PoolInv, PoolBut
<1>7. Opens(pool) = {} BY <1>5 DEF Opens
<1>8. OpenList(pool, heap, Opens(pool)) BY <1>7, EmptyOpenList DEF Init
<1>9. search.ended BY DEF Init, NoSearch
<1> QED BY <1>3, <1>6, <1>8, <1>9 DEF Init, IInv, Sound, Searched, PathInv

(* A search begins.                                                        *)
LEMMA BeginSound ==
    ASSUME IInv, NEW s \in SearchSet(mesh), Fresh_(s), Begin(s)
    PROVE  IInv'
<1>1. mesh \in Meshes /\ PoolInv(mesh, pool) BY DEF IInv, Sound
<1>2. NodeIdx(ClearPool(pool), s.start, 0) = 1 /\ StartOnly(mesh, s, Begun(s))
  BY <1>1, BegunOK
<1>3. pool' = Begun(s) /\ heap' = Push(Begun(s), EmptyQueue, 1) BY <1>2 DEF Begin, Begun
<1>4. search' = s /\ path' = NoPath /\ mesh' = mesh BY DEF Begin
<1>5. /\ SearchInv(mesh, pool', s) /\ OpenList(pool', heap', Opens(pool'))
      /\ heap' # EmptyQueue
  BY <1>1, <1>2, <1>3, BeginOK
<1>6. PoolInv(mesh, pool') BY <1>2, <1>3 DEF StartOnly
<1>7. ~s.ended BY DEF Fresh_
<1>8. Sound(mesh, pool', heap', s, NoPath)
  BY <1>1, <1>5, <1>6, <1>7 DEF Sound, Searched, PathInv
<1> QED BY <1>4, <1>8 DEF IInv

(* A search goes on.                                                       *)
LEMMA TurnSound ==
    ASSUME IInv, NEW s, \A q : Turning(q) => Noted(mesh, search, s, q), Turn(s)
    PROVE  IInv'
<1>1. /\ mesh \in Meshes /\ OpenList(pool, heap, Opens(pool))
      /\ ~search.ended /\ heap # EmptyQueue /\ Searched(mesh, pool, search)
      /\ PathInv(mesh, pool, search, path)
  BY DEF IInv, Sound, Turn
<1>2. SearchInv(mesh, pool, search) BY <1>1 DEF Searched, NoSearch
<1>3. path = NoPath BY <1>1 DEF PathInv
<1> DEFINE e == Expand(s, Closed, Best)
           t == Flagged(s, e.full, e.heap = EmptyQueue)
<1>4. /\ pool' = e.pool /\ heap' = e.heap /\ search' = t
      /\ mesh' = mesh /\ path' = path
  BY DEF Turn, Flagged
<1> HIDE DEF e
<1>5. e = Expand(s, Closed, Best) BY DEF e
<1>6. /\ SearchInv(mesh, e.pool, t) /\ OpenList(e.pool, e.heap, Opens(e.pool))
      /\ t.ended <=> e.heap = EmptyQueue
  BY <1>1, <1>2, <1>5, TurnOK
<1> HIDE DEF t
<1>7. PoolInv(mesh, e.pool) BY <1>6 DEF SearchInv, NodesInv
<1>8. Sound(mesh, e.pool, e.heap, t, NoPath)
  BY <1>1, <1>6, <1>7 DEF Sound, Searched, PathInv
<1> QED BY <1>3, <1>4, <1>8 DEF IInv

(* A path is read back.                                                    *)
LEMMA PathSound ==
    ASSUME IInv, NEW end \in Polys(mesh), NEW n \in Nat,
           GetPathFromDijkstraSearch(end, n)
    PROVE  IInv'
<1>1. search.ended /\ path' = PathGot(pool, end, n)
  BY DEF GetPathFromDijkstraSearch, PathGot
<1>2. UNCHANGED <<mesh, pool, heap, search>> BY DEF GetPathFromDijkstraSearch
<1> DEFINE way == PathGot(pool, end, n)
<1>3. PathInv(mesh, pool, search, way) BY <1>1 DEF PathInv
<1> HIDE DEF way
<1>4. Sound(mesh, pool, heap, search, way) BY <1>3 DEF IInv, Sound
<1>5. path' = way BY <1>1 DEF way
<1> QED BY <1>2, <1>4, <1>5 DEF IInv

(* The point a search begins at.                                           *)
LEMMA SpotIs ==
    ASSUME mesh \in Meshes, NEW start \in DOMAIN mesh.spot
    PROVE  /\ start \in Polys(mesh)
           /\ mesh.spot[start] \in Points(mesh) /\ mesh.spot[start] \in Int \X Int
BY MeshAssumption DEF Points, Range

(* The four searches ask for what can be asked.                            *)
LEMMA CircleSound ==
    ASSUME IInv, NEW start \in DOMAIN mesh.spot, NEW radius \in Radii,
           NEW filter \in Filters, NEW max \in ResultSizes,
           FindPolysAroundCircle(start, radius, filter, max)
    PROVE  IInv'
<1> DEFINE center == mesh.spot[start]
           sqr == Square(radius)
           none == <<>>
           s == [op |-> "circle", start |-> start, center |-> center,
                 radius |-> radius, radiusSqr |-> sqr,
                 filter |-> filter, max |-> max, results |-> none,
                 small |-> FALSE, full |-> FALSE, ended |-> FALSE]
<1>1. /\ start \in Polys(mesh) /\ center \in Points(mesh) BY SpotIs DEF IInv, Sound
<1>2. radius \in Nat /\ max \in Nat BY SizesAssumption
<1>3. sqr \in Nat BY <1>2 DEF Square
<1>4. none \in Seq(FoundSet(mesh)) OBVIOUS
<1>5. Begin(s) BY DEF FindPolysAroundCircle
<1> HIDE DEF center, sqr, none
<1>6. /\ s \in CircleSet(mesh) /\ s.op = "circle" /\ s.radiusSqr = sqr /\ s.radius = radius
      /\ s.results = none /\ ~s.small /\ ~s.full /\ ~s.ended
  BY <1>1, <1>2, <1>3, <1>4 DEF CircleSet
<1> HIDE DEF s
<1>7. s \in SearchSet(mesh) BY <1>6 DEF SearchSet, sqr
<1>8. s.small = FALSE /\ s.full = FALSE /\ s.ended = FALSE BY <1>6 DEF CircleSet
<1>9. Fresh_(s) BY <1>6, <1>8 DEF Fresh_, none
<1> QED BY <1>5, <1>7, <1>9, BeginSound

(* Round the middle of a shape.                                            *)
LEMMA ShapeSound ==
    ASSUME IInv, NEW start \in DOMAIN mesh.spot, NEW verts \in Shapes,
           NEW filter \in Filters, NEW max \in ResultSizes,
           FindPolysAroundShape(start, verts, filter, max)
    PROVE  IInv'
<1> DEFINE center == Center(verts)
           none == <<>>
           s == [op |-> "shape", start |-> start, center |-> center, shape |-> verts,
                 filter |-> filter, max |-> max, results |-> none,
                 small |-> FALSE, full |-> FALSE, ended |-> FALSE]
<1>1. start \in Polys(mesh) BY SpotIs DEF IInv, Sound
<1>2. max \in Nat BY SizesAssumption
<1>3. center \in Points(mesh) BY DEF Points
<1>4. none \in Seq(FoundSet(mesh)) OBVIOUS
<1>5. Begin(s) BY DEF FindPolysAroundShape
<1> HIDE DEF center, none
<1>6. /\ s \in ShapeSet(mesh) /\ s.op = "shape"
      /\ s.results = none /\ ~s.small /\ ~s.full /\ ~s.ended
  BY <1>1, <1>2, <1>3, <1>4 DEF ShapeSet
<1> HIDE DEF s
<1>7. s \in SearchSet(mesh) BY <1>6 DEF SearchSet
<1>8. s.small = FALSE /\ s.full = FALSE /\ s.ended = FALSE BY <1>6 DEF ShapeSet
<1>9. Fresh_(s) BY <1>6, <1>8 DEF Fresh_, none
<1> QED BY <1>5, <1>7, <1>9, BeginSound

(* For a random polygon of a circle.                                       *)
LEMMA RandomSound ==
    ASSUME IInv, NEW start \in DOMAIN mesh.spot, NEW radius \in Radii,
           NEW filter \in Filters,
           FindRandomPointAroundCircle(start, radius, filter)
    PROVE  IInv'
<1> DEFINE center == mesh.spot[start]
           sqr == Square(radius)
           s == [op |-> "random", start |-> start, center |-> center,
                 radius |-> radius, radiusSqr |-> sqr,
                 filter |-> filter, areaSum |-> 0, picked |-> NoRef,
                 full |-> FALSE, ended |-> FALSE]
<1>1. /\ start \in Polys(mesh) /\ center \in Points(mesh) BY SpotIs DEF IInv, Sound
<1>2. radius \in Nat BY SizesAssumption
<1>3. sqr \in Nat BY <1>2 DEF Square
<1>4. Begin(s) BY DEF FindRandomPointAroundCircle
<1> HIDE DEF center, sqr
<1>5. /\ s \in RandomSet(mesh) /\ s.op = "random" /\ s.radiusSqr = sqr /\ s.radius = radius
      /\ s.areaSum = 0 /\ s.picked = NoRef /\ ~s.full /\ ~s.ended
  BY <1>1, <1>2, <1>3 DEF RandomSet
<1> HIDE DEF s
<1>6. s \in SearchSet(mesh) BY <1>5 DEF SearchSet, sqr
<1>7. s.full = FALSE /\ s.ended = FALSE BY <1>5 DEF RandomSet
<1>8. Fresh_(s) BY <1>5, <1>7 DEF Fresh_, Lists
<1> QED BY <1>4, <1>6, <1>8, BeginSound

(* For the nearest wall.                                                   *)
LEMMA WallSound ==
    ASSUME IInv, NEW start \in DOMAIN mesh.spot, NEW radius \in Radii,
           NEW filter \in Filters, FindDistanceToWall(start, radius, filter)
    PROVE  IInv'
<1> DEFINE center == mesh.spot[start]
           sqr == Square(radius)
           none == <<>>
           s == [op |-> "wall", start |-> start, center |-> center,
                 radius |-> radius, radiusSqr |-> sqr,
                 filter |-> filter, hit |-> none, full |-> FALSE, ended |-> FALSE]
<1>1. /\ start \in Polys(mesh) /\ center \in Points(mesh) \cap (Int \X Int)
  BY SpotIs DEF IInv, Sound
<1>2. radius \in Nat BY SizesAssumption
<1>3. sqr \in Nat BY <1>2 DEF Square
<1>4. Begin(s) BY DEF FindDistanceToWall
<1>5. none \in {<<>>} \cup (Polys(mesh) \X Nat) OBVIOUS
<1> HIDE DEF center, sqr, none
<1>6. /\ s \in WallSet(mesh) /\ s.op = "wall" /\ s.radiusSqr = sqr /\ s.radius = radius
      /\ ~s.full /\ ~s.ended
  BY <1>1, <1>2, <1>3, <1>5 DEF WallSet
<1> HIDE DEF s
<1>7. s \in SearchSet(mesh) BY <1>6 DEF SearchSet
<1>8. s.full = FALSE /\ s.ended = FALSE BY <1>6 DEF WallSet
<1>9. Fresh_(s) BY <1>6, <1>8 DEF Fresh_, Lists, sqr
<1> QED BY <1>4, <1>7, <1>9, BeginSound

(* The invariant holds.                                                    *)
LEMMA Inductive ==
    Spec => []IInv
<1>1. Init => IInv BY InitSound
<1>2. ASSUME IInv, [Next]_vars PROVE IInv'
  <2>1. ASSUME NEW p \in DOMAIN mesh.spot, NEW r \in Radii, NEW f \in Filters,
               NEW n \in ResultSizes, FindPolysAroundCircle(p, r, f, n)
        PROVE  IInv'
    BY <1>2, <2>1, CircleSound
  <2>2. ASSUME NEW p \in DOMAIN mesh.spot, NEW v \in Shapes, NEW f \in Filters,
               NEW n \in ResultSizes, FindPolysAroundShape(p, v, f, n)
        PROVE  IInv'
    BY <1>2, <2>2, ShapeSound
  <2>3. ASSUME NEW p \in DOMAIN mesh.spot, NEW r \in Radii, NEW f \in Filters,
               FindRandomPointAroundCircle(p, r, f)
        PROVE  IInv'
    BY <1>2, <2>3, RandomSound
  <2>4. ASSUME NEW p \in DOMAIN mesh.spot, NEW r \in Radii, NEW f \in Filters,
               FindDistanceToWall(p, r, f)
        PROVE  IInv'
    BY <1>2, <2>4, WallSound
  <2>5. CASE PolysTurn
    <3>1. Lists(search) /\ Turn(Recorded(search)) BY <2>5 DEF PolysTurn, Lists
    <3>2. \A q : Turning(q) => Noted(mesh, search, Recorded(search), q)
      BY <3>1, RecordedOK
    <3> QED BY <1>2, <3>1, <3>2, TurnSound
  <2>6. ASSUME NEW u \in Rolls, RandomTurn(u) PROVE IInv'
    <3>1. search.op = "random" /\ Turn(Sampled(search, u)) BY <2>6 DEF RandomTurn
    <3>2. \A q : Turning(q) => Noted(mesh, search, Sampled(search, u), q)
      BY <3>1, SampledOK
    <3> QED BY <1>2, <3>1, <3>2, TurnSound
  <2>7. CASE WallTurn
    <3>1. search.op = "wall" /\ Turn(HitTested(search)) BY <2>7 DEF WallTurn
    <3>2. \A q : Turning(q) => Noted(mesh, search, HitTested(search), q)
      BY <3>1, HitTestedOK
    <3> QED BY <1>2, <3>1, <3>2, TurnSound
  <2>8. ASSUME NEW p \in Polys(mesh), NEW n \in ResultSizes,
               GetPathFromDijkstraSearch(p, n)
        PROVE  IInv'
    <3>1. n \in Nat BY SizesAssumption
    <3> QED BY <1>2, <2>8, <3>1, PathSound
  <2>9. CASE UNCHANGED vars BY <1>2, <2>9 DEF vars, IInv
  <2> QED BY <1>2, <2>1, <2>2, <2>3, <2>4, <2>5, <2>6, <2>7, <2>8, <2>9 DEF Next
<1> QED BY <1>1, <1>2, PTL DEF Spec

-------------------------------------------------------------------------------
(* What is read from the nodes *)

(* A polygon a search has closed.                                          *)
Shut(p, id) == \E i \in Closeds(p) : p.nodes[i].id = id

(* The nodes found for a polygon are closed if it is.                      *)
LEMMA FoundShut ==
    ASSUME NEW m \in Meshes, NEW p, PoolInv(m, p), NEW id \in Polys(m),
           NEW n \in Nat, n >= 1, NEW found, found = FindNodes(p, id, n)
    PROVE  /\ found \in Seq(Numbers(p))
           /\ \A k \in 1..Len(found) :
                 p.nodes[found[k]].id = id
                   /\ ("CLOSED" \in p.nodes[found[k]].flags <=> Shut(p, id))
           /\ Shut(p, id) => Len(found) >= 1
<1> DEFINE P == Polys(m)
           X == Places(m)
<1>1. PoolOK(p, P, X) /\ HashesTo(P) /\ Len(p.nodes) \in Nat
  BY HashesPolys, NodeIs DEF PoolInv, PoolBut
<1>2. HashRef(id) \in Nat BY <1>1 DEF HashesTo
<1> HIDE DEF P, X
<1>3. found \in Seq(Numbers(p)) BY <1>1, <1>2, FindNodesIn DEF Numbers
<1>4. \A k \in 1..Len(found) : p.nodes[found[k]].id = id
  BY <1>1, <1>2, FindNodesOf
<1>5. ASSUME NEW k \in 1..Len(found)
      PROVE  "CLOSED" \in p.nodes[found[k]].flags <=> Shut(p, id)
  <2> DEFINE i == found[k]
  <2>1. i \in Numbers(p) /\ p.nodes[i].id = id BY <1>3, <1>4
  <2> HIDE DEF i
  <2>2. p.nodes[i].flags \in {{"OPEN"}, {"CLOSED"}} BY <2>1, NodeIs
  <2>3. "CLOSED" \in p.nodes[i].flags <=> i \in Closeds(p)
    <3>1. "CLOSED" \in {"CLOSED"} /\ "CLOSED" \notin {"OPEN"} OBVIOUS
    <3> QED BY <2>1, <2>2, <3>1 DEF Closeds
  <2>4. i \in Closeds(p) => Shut(p, id) BY <2>1 DEF Shut
  <2>5. Shut(p, id) => i \in Closeds(p)
    <3> SUFFICES ASSUME NEW j \in Closeds(p), p.nodes[j].id = id PROVE i \in Closeds(p)
      BY DEF Shut
    <3>1. j \in Numbers(p) BY DEF Closeds
    <3>2. j = i BY <2>1, <3>1, IdsApart
    <3> QED BY <3>2
  <2> QED BY <2>3, <2>4, <2>5 DEF i
<1>6. Shut(p, id) => Len(found) >= 1
  <2> SUFFICES ASSUME NEW j \in Closeds(p), p.nodes[j].id = id PROVE Len(found) >= 1
    BY DEF Shut
  <2>1. j \in 1..Len(p.nodes) BY DEF Closeds, Numbers
  <2> QED BY <1>1, <1>2, <2>1, FindNodesSome
<1> QED BY <1>3, <1>4, <1>5, <1>6

(* isInClosedList tells.                                                   *)
LEMMA InClosedList ==
    ASSUME mesh \in Meshes, PoolInv(mesh, pool), NEW ref \in Polys(mesh)
    PROVE  IsInClosedList(ref) <=> Shut(pool, ref)
<1> DEFINE found == FindNodes(pool, ref, 4)
<1>1. /\ found \in Seq(Numbers(pool))
      /\ \A k \in 1..Len(found) :
            "CLOSED" \in pool.nodes[found[k]].flags <=> Shut(pool, ref)
      /\ Shut(pool, ref) => Len(found) >= 1
  BY FoundShut
<1> HIDE DEF found
<1>2. Shut(pool, ref) => 1 \in 1..Len(found) BY <1>1
<1>3. IsInClosedList(ref)
        <=> \E k \in 1..Len(found) : "CLOSED" \in pool.nodes[found[k]].flags
  BY DEF IsInClosedList, found
<1> QED BY <1>1, <1>2, <1>3

(* What getPathFromDijkstraSearch promises of a path.                      *)
GotOK(m, p, s, end, n, way) ==
    /\ way.end = end /\ way.max = n /\ Len(way.path) <= n
    /\ way.known <=> Shut(p, end)
    /\ way.path # <<>> =>
          /\ s # NoSearch /\ Head(way.path) = s.start
          /\ \A k \in 1..(Len(way.path) - 1) :
                \E l \in Range(m.links[way.path[k]]) : l.to = way.path[k + 1]
    /\ way.known /\ "BUFFER_TOO_SMALL" \notin way.details =>
          way.path[Len(way.path)] = end

(* No path goes to a polygon that was not closed.                          *)
LEMMA NoneGot ==
    ASSUME NEW m, NEW p, NEW s, NEW end, NEW n \in Nat, NEW way,
           ~Shut(p, end),
           way = [end |-> end, max |-> n, known |-> FALSE, path |-> <<>>,
                  details |-> {"INVALID_PARAM"}]
    PROVE  GotOK(m, p, s, end, n, way)
<1> DEFINE none == <<>>
           why == {"INVALID_PARAM"}
<1>1. Len(none) = 0 OBVIOUS
<1> HIDE DEF none, why
<1>2. way.end = end /\ way.max = n /\ way.known = FALSE /\ way.path = none
  BY DEF none
<1>3. Len(way.path) <= n BY <1>1, <1>2
<1> QED BY <1>2, <1>3 DEF GotOK, none

(* One to a polygon that was goes along the parents of its node.           *)
LEMMA PathGotOK ==
    ASSUME NEW m \in Meshes, NEW p, NEW s, NodesInv(m, s, p), s # NoSearch,
           NEW i \in Closeds(p), NEW n \in Nat, NEW way,
           way = [end |-> p.nodes[i].id, max |-> n, known |-> TRUE,
                  path |-> GetPathToNode(p.nodes, i, n).path,
                  details |-> GetPathToNode(p.nodes, i, n).details]
    PROVE  GotOK(m, p, s, p.nodes[i].id, n, way)
<1> DEFINE trail == Trail(p.nodes, i)
           got == PathTo(p.nodes, i, n)
           cut == Len(trail) > n
           why == IF cut THEN {"BUFFER_TOO_SMALL"} ELSE {}
           id == p.nodes[i].id
<1>1. /\ PoolInv(m, p) /\ Acyclic(p.nodes) /\ p.nodes[1].id = s.start /\ p.nodes[1].pidx = 0
      /\ \A k \in Numbers(p) \ {1} :
            /\ p.nodes[k].pidx \in Closeds(p)
            /\ \E l \in Range(m.links[p.nodes[p.nodes[k].pidx].id]) : l.to = p.nodes[k].id
  BY DEF NodesInv
<1>2. i \in 1..Len(p.nodes) /\ Shut(p, id) BY DEF Closeds, Numbers, Shut
<1>3. \A k \in Closeds(p) : k # 0
  <2>1. Len(p.nodes) \in Nat BY <1>1, NodeIs
  <2> QED BY <2>1 DEF Closeds, Numbers
<1>4. \A k \in 1..Len(p.nodes) :
         IF p.nodes[k].pidx = 0 THEN p.nodes[k].id = s.start
         ELSE \E l \in Range(m.links[p.nodes[p.nodes[k].pidx].id]) : l.to = p.nodes[k].id
  BY <1>1, <1>3 DEF Numbers
<1>5. GetPathToNode(p.nodes, i, n) = [path |-> got, details |-> why]
  BY DEF GetPathToNode, PathTo
<1>6. way = [end |-> id, max |-> n, known |-> TRUE, path |-> got, details |-> why]
  <2> HIDE DEF got, why
  <2> QED BY <1>5
<1>7. CASE n # 0
  <2>1. PathIs(m.links, s.start, id, n, got, cut) BY <1>1, <1>2, <1>4, <1>7, PathOK
  <2>2. "BUFFER_TOO_SMALL" \notin why => ~cut OBVIOUS
  <2> HIDE DEF got, why, cut, id
  <2>3. way.end = id /\ way.max = n /\ way.known /\ way.path = got /\ way.details = why
    BY <1>6
  <2> QED BY <1>2, <2>1, <2>2, <2>3 DEF GotOK, PathIs
<1>8. CASE n = 0
  <2>1. TrailTo(p.nodes, i, trail) BY <1>1, <1>2, TrailOK
  <2> HIDE DEF trail
  <2>2. Len(trail) \in Nat /\ Len(trail) >= 1 BY <2>1 DEF TrailTo
  <2>3. "BUFFER_TOO_SMALL" \in why BY <1>8, <2>2
  <2>4. got = <<>> /\ Len(got) = 0
    <3>1. Min({Len(trail), n}) = 0
      <4>1. \E x \in {Len(trail), n} : \A y \in {Len(trail), n} : x <= y BY <1>8, <2>2
      <4> QED BY <1>8, <2>2, <4>1 DEF Min
    <3> DEFINE some == SubSeq(trail, 1, 0)
    <3>2. trail \in Seq(1..Len(p.nodes)) BY <2>1 DEF TrailTo
    <3>3. Len(some) = 0 BY <3>2
    <3>4. got = [k \in 1..Len(some) |-> p.nodes[some[k]].id]
      BY <1>8, <3>1 DEF PathTo, Refs, trail
    <3> HIDE DEF some, got
    <3>5. got = <<>> BY <3>3, <3>4
    <3> QED BY <3>5
  <2> HIDE DEF got, why, id
  <2>5. way.end = id /\ way.max = n /\ way.known /\ way.path = got /\ way.details = why
    BY <1>6
  <2>6. Len(way.path) <= n BY <1>8, <2>4, <2>5
  <2> QED BY <1>2, <2>3, <2>4, <2>5, <2>6 DEF GotOK
<1> QED BY <1>7, <1>8

(* So every path it returns is as promised.                                *)
LEMMA GotIs ==
    ASSUME NEW m \in Meshes, NEW p, NEW s, PoolInv(m, p), Searched(m, p, s),
           NEW end \in Polys(m), NEW n \in Nat, NEW way, way = PathGot(p, end, n)
    PROVE  GotOK(m, p, s, end, n, way)
<1> DEFINE found == FindNodes(p, end, 1)
           known == found # <<>> /\ "CLOSED" \in p.nodes[Head(found)].flags
<1>1. /\ found \in Seq(Numbers(p))
      /\ \A k \in 1..Len(found) :
            p.nodes[found[k]].id = end
              /\ ("CLOSED" \in p.nodes[found[k]].flags <=> Shut(p, end))
      /\ Shut(p, end) => Len(found) >= 1
  BY FoundShut
<1>2. way = [end |-> end, max |-> n, known |-> known,
             path |-> (IF known THEN GetPathToNode(p.nodes, Head(found), n)
                       ELSE [path |-> <<>>, details |-> {"INVALID_PARAM"}]).path,
             details |-> (IF known THEN GetPathToNode(p.nodes, Head(found), n)
                          ELSE [path |-> <<>>, details |-> {"INVALID_PARAM"}]).details]
  BY DEF PathGot
<1> HIDE DEF found
<1>3. found # <<>> => /\ Head(found) \in Numbers(p) /\ p.nodes[Head(found)].id = end
                      /\ known <=> Shut(p, end)
  <2> SUFFICES ASSUME found # <<>>
               PROVE  /\ Head(found) \in Numbers(p) /\ p.nodes[Head(found)].id = end
                      /\ known <=> Shut(p, end)
    OBVIOUS
  <2>1. 1 \in 1..Len(found) /\ Head(found) = found[1] BY <1>1
  <2> QED BY <1>1, <2>1
<1>4. found = <<>> => ~Shut(p, end) BY <1>1
<1>5. known <=> Shut(p, end) BY <1>3, <1>4
<1>6. CASE Shut(p, end)
  <2> DEFINE i == Head(found)
  <2>1. known /\ known = TRUE BY <1>5, <1>6
  <2>2. i \in Numbers(p) /\ p.nodes[i].id = end BY <1>3, <2>1
  <2>3. i \in Closeds(p)
    <3>1. PICK j \in Closeds(p) : p.nodes[j].id = end BY <1>6 DEF Shut
    <3>2. j \in Numbers(p) BY DEF Closeds
    <3> HIDE DEF i
    <3>3. j = i BY <2>2, <3>1, <3>2, IdsApart
    <3> QED BY <3>3
  <2>4. p.nodes # <<>> BY <2>2 DEF Numbers
  <2>5. SearchInv(m, p, s) BY <2>4 DEF Searched
  <2>6. NodesInv(m, s, p) /\ s # NoSearch BY <2>5, SearchIs DEF SearchInv
  <2>7. way = [end |-> end, max |-> n, known |-> TRUE,
               path |-> GetPathToNode(p.nodes, i, n).path,
               details |-> GetPathToNode(p.nodes, i, n).details]
    BY <1>2, <2>1
  <2> HIDE DEF i
  <2> QED BY <2>2, <2>3, <2>6, <2>7, PathGotOK
<1>7. CASE ~Shut(p, end)
  <2>1. known = FALSE BY <1>5, <1>7
  <2>2. way = [end |-> end, max |-> n, known |-> FALSE, path |-> <<>>,
               details |-> {"INVALID_PARAM"}]
    BY <1>2, <2>1
  <2> QED BY <1>7, <2>2, NoneGot
<1> QED BY <1>6, <1>7

-------------------------------------------------------------------------------
(* Theorems *)

(* A search has been asked for when its op is one of theirs.               *)
LEMMA SearchedIs ==
    ASSUME IInv, search.op # "none"
    PROVE  /\ mesh \in Meshes /\ PoolInv(mesh, pool) /\ SearchInv(mesh, pool, search)
           /\ search \in SearchSet(mesh) /\ NodesInv(mesh, search, pool)
           /\ ResultsInv(pool, search) /\ RandomInv(mesh, pool, search)
           /\ WallInv(mesh, pool, search) /\ Heeded(mesh, pool, search)
BY DEF IInv, Sound, Searched, SearchInv, FoundInv, NoSearch

(* What is read back is as promised.                                       *)
LEMMA PathIsGot ==
    ASSUME IInv, path # NoPath
    PROVE  /\ path.end \in Polys(mesh)
           /\ GotOK(mesh, pool, search, path.end, path.max, path)
<1>1. mesh \in Meshes /\ PoolInv(mesh, pool) /\ Searched(mesh, pool, search)
  BY DEF IInv, Sound
<1>2. PICK end \in Polys(mesh), n \in Nat : path = PathGot(pool, end, n)
  BY DEF IInv, Sound, PathInv
<1>3. GotOK(mesh, pool, search, end, n, path) BY <1>1, <1>2, GotIs
<1>4. path.end = end /\ path.max = n BY <1>3 DEF GotOK
<1> QED BY <1>3, <1>4

(* The nodes and the open list are sound.                                  *)
LEMMA NodesSound ==
    ASSUME IInv
    PROVE  NodesOK
<1>1. /\ mesh \in Meshes /\ PoolInv(mesh, pool) /\ OpenList(pool, heap, Opens(pool))
      /\ search.ended <=> heap = EmptyQueue
  BY DEF IInv, Sound
<1>2. PoolOK(pool, Polys(mesh), Places(mesh)) /\ HashesTo(Polys(mesh))
  BY <1>1, HashesPolys DEF PoolInv, PoolBut
<1>3. ChainsOK(pool) BY <1>2, PoolChainsOK
<1>4. HeapOK(pool, heap) /\ IsInjective(heap) /\ Range(heap) = Opens(pool)
  BY <1>1, OpenListIs
<1>5. OpenOK(pool, heap) BY <1>4 DEF OpenOK, Opens, Numbers
<1>6. TypeOK
  <2>1. pool.max \in PoolSizes /\ Len(pool.nodes) <= pool.max BY <1>1, NodeIs
  <2>2. \A i \in 1..Len(pool.nodes) :
           /\ pool.nodes[i].id \in Polys(mesh) /\ pool.nodes[i].state = 0
           /\ pool.nodes[i].pidx \in 0..Len(pool.nodes)
           /\ pool.nodes[i].flags \in {{"OPEN"}, {"CLOSED"}}
    BY <1>1, NodeIs DEF Numbers
  <2>3. Range(heap) \subseteq 1..Len(pool.nodes) BY <1>4 DEF Opens, Numbers
  <2>4. ListedPolys => Len(search.results) <= search.max
    <3> SUFFICES ASSUME ListedPolys PROVE Len(search.results) <= search.max
      OBVIOUS
    <3>1. Lists(search) /\ search.op # "none" BY DEF ListedPolys, Lists
    <3>2. ResultsInv(pool, search) BY <3>1, SearchedIs
    <3> QED BY <3>1, <3>2 DEF ResultsInv
  <2>5. path # NoPath => Len(path.path) <= path.max BY PathIsGot DEF GotOK
  <2> QED BY <2>1, <2>2, <2>3, <2>4, <2>5 DEF TypeOK
<1> QED BY <1>1, <1>3, <1>5, <1>6, <1>4 DEF NodesOK

(* The pool's hash finds every node and the open list holds the open ones, *)
(* the least at its root, in every search round a point.                   *)
THEOREM AroundNodes ==
    Spec => []NodesOK
<1>1. Spec => []IInv BY Inductive
<1>2. IInv => NodesOK BY NodesSound
<1> QED BY <1>1, <1>2, PTL

(* findPolysAroundCircle and findPolysAroundShape list each polygon once,  *)
(* none before one that costs less, and none before its parent.            *)
THEOREM AroundOrdered ==
    Spec => []ResultsOrdered
<1>1. Spec => []IInv BY Inductive
<1>2. IInv => ResultsOrdered
  <2> SUFFICES ASSUME IInv, ListedPolys PROVE ResultsOrdered
    BY DEF ResultsOrdered
  <2>1. Lists(search) /\ search.op # "none" BY DEF ListedPolys, Lists
  <2>2. ResultsInv(pool, search) BY <2>1, SearchedIs
  <2>3. Ordered(search.results) BY <2>1, <2>2 DEF ResultsInv
  <2> QED BY <2>3 DEF ResultsOrdered, Ordered
<1> QED BY <1>1, <1>2, PTL

(* A polygon is listed just when it has been closed, if all fit.           *)
LEMMA ListedShut ==
    ASSUME IInv, ListedPolys
    PROVE  /\ \A ref \in Listed : Shut(pool, ref)
           /\ ~search.small => \A ref : Shut(pool, ref) => ref \in Listed
           /\ search.small => /\ Len(search.results) = search.max
                              /\ \E ref : Shut(pool, ref) /\ ref \notin Listed
<1>1. Lists(search) /\ search.op # "none" BY DEF ListedPolys, Lists
<1>2. ResultsInv(pool, search) BY <1>1, SearchedIs
<1>3. ASSUME NEW ref \in Listed PROVE Shut(pool, ref)
  <2>1. PICK k \in 1..Len(search.results) : ref = search.results[k].ref BY DEF Listed
  <2>2. PICK i \in Closeds(pool) : OfNode(pool, search.results[k], i)
    BY <1>1, <1>2 DEF ResultsInv
  <2>3. search.results[k].ref = pool.nodes[i].id BY <2>2 DEF OfNode
  <2> QED BY <2>1, <2>3 DEF Shut
<1>4. \A ref : Lists_(search.results, ref) <=> ref \in Listed BY DEF Lists_, Listed
<1>5. ~search.small => \A ref : Shut(pool, ref) => ref \in Listed
  BY <1>1, <1>2, <1>4 DEF ResultsInv, Shut
<1>6. search.small => /\ Len(search.results) = search.max
                      /\ \E ref : Shut(pool, ref) /\ ref \notin Listed
  BY <1>1, <1>2, <1>4 DEF ResultsInv, Shut
<1> QED BY <1>3, <1>5, <1>6

(* The nodes a search leaves lead back from each polygon it closed to its  *)
(* start, along links, and from no other.                                  *)
THEOREM AroundPathsBack ==
    Spec => []PathsBack
<1>1. Spec => []IInv BY Inductive
<1>2. IInv => PathsBack
  <2> SUFFICES ASSUME IInv, path # NoPath PROVE PathsBack
    BY DEF PathsBack
  <2>1. path.end \in Polys(mesh) /\ GotOK(mesh, pool, search, path.end, path.max, path)
    BY PathIsGot
  <2>2. mesh \in Meshes /\ PoolInv(mesh, pool) BY DEF IInv, Sound
  <2>3. path.known <=> IsInClosedList(path.end)
    BY <2>1, <2>2, InClosedList DEF GotOK
  <2>4. ListedPolys /\ ~search.small => (path.known <=> path.end \in Listed)
    BY <2>1, ListedShut DEF GotOK
  <2>5. path.path # <<>> =>
          /\ Head(path.path) = search.start
          /\ \A k \in 1..(Len(path.path) - 1) :
                Linked(path.path[k], path.path[k + 1])
    BY <2>1 DEF GotOK, Linked
  <2>6. path.known /\ "BUFFER_TOO_SMALL" \notin path.details =>
           path.path[Len(path.path)] = path.end
    BY <2>1 DEF GotOK
  <2> QED BY <2>3, <2>4, <2>5, <2>6 DEF PathsBack
<1> QED BY <1>1, <1>2, PTL

(* When a search has ended every node of it is closed.                     *)
LEMMA AllShut ==
    ASSUME IInv, search.op # "none", search.ended
    PROVE  \A id : Has(pool, id) <=> Shut(pool, id)
<1>1. PoolInv(mesh, pool) /\ OpenList(pool, EmptyQueue, Opens(pool))
  BY DEF IInv, Sound
<1>2. Opens(pool) = {}
  <2>1. Range(EmptyQueue) = Opens(pool) BY <1>1, OpenListIs
  <2>2. DOMAIN EmptyQueue = {} BY DEF EmptyQueue
  <2> QED BY <2>1, <2>2 DEF Range
<1>3. \A i \in Numbers(pool) : i \in Closeds(pool) BY <1>1, <1>2, OpenOrClosed
<1>4. Closeds(pool) \subseteq Numbers(pool) BY DEF Closeds
<1> QED BY <1>3, <1>4 DEF Has, Shut

(* Every polygon that can be walked to within what is left of the radius   *)
(* has been closed then, unless the pool ran out.                          *)
LEMMA AllReached ==
    ASSUME IInv, search.op # "none", search.ended, ~search.full
    PROVE  \A id \in Spread_(mesh, search.start, StepsAt(mesh, search, search.radiusSqr)) :
              Shut(pool, id)
<1> DEFINE ps == {id \in Polys(mesh) : Shut(pool, id)}
           ways == StepsAt(mesh, search, search.radiusSqr)
<1>1. /\ mesh \in Meshes /\ NodesInv(mesh, search, pool) /\ Heeded(mesh, pool, search)
      /\ search \in SearchSet(mesh) /\ PoolInv(mesh, pool)
  BY SearchedIs
<1>2. search.start \in ps
  <2>1. Len(pool.nodes) \in Nat BY <1>1, NodeIs
  <2>2. 1 \in Numbers(pool) /\ pool.nodes[1].id = search.start
    BY <1>1, <2>1 DEF NodesInv, Numbers
  <2>3. Has(pool, search.start) BY <2>2 DEF Has
  <2> QED BY <1>1, <2>3, AllShut, SearchIs
<1>3. ASSUME NEW w \in ways, w[1] \in ps PROVE w[2] \in ps
  <2>1. w[1] \in Polys(mesh) /\ w[2] \in Polys(mesh) /\ Shut(pool, w[1])
    BY <1>3 DEF StepsAt
  <2>2. PICK l \in Range(mesh.links[w[1]]) :
           l.to = w[2] /\ FollowsAt(mesh, search, search.radiusSqr, w[1], l)
    BY DEF StepsAt
  <2>3. PICK i \in Closeds(pool) : pool.nodes[i].id = w[1] BY <2>1 DEF Shut
  <2>4. Has(pool, l.to) BY <1>1, <2>2, <2>3 DEF Heeded
  <2>5. Shut(pool, w[2]) BY <2>2, <2>4, AllShut
  <2> QED BY <2>1, <2>5
<1>4. Shut_(ways, ps)
  <2> HIDE DEF ways, ps
  <2> QED BY <1>3 DEF Shut_
<1> HIDE DEF ways, ps
<1>5. Spread_(mesh, search.start, ways) \subseteq ps BY <1>1, <1>2, <1>4, SpreadLeast
<1>6. \A id \in ps : Shut(pool, id) BY DEF ps
<1> QED BY <1>5, <1>6 DEF ways

(* What the loops search, but for findDistanceToWall, is what can be walked*)
(* to across it.                                                           *)
LEMMA ReachIs ==
    ASSUME search.op # "wall"
    PROVE  Reach = Area(mesh, search)
<1> DEFINE A == {w \in Ways(search.filter) : Within(w[1], w[2])}
           B == StepsAt(mesh, search, Square(search.radius))
<1>1. ASSUME NEW from, NEW l
      PROVE  FollowsAt(mesh, search, Square(search.radius), from, l)
                <=> PassFilter(search.filter, mesh, l.to) /\ Within(from, l.to)
  BY DEF FollowsAt, Within
<1>2. ASSUME NEW w \in Polys(mesh) \X Polys(mesh) PROVE w \in A <=> w \in B
  <2>1. w \in A <=> /\ \E l \in Range(mesh.links[w[1]]) : l.to = w[2]
                    /\ PassFilter(search.filter, mesh, w[2]) /\ Within(w[1], w[2])
    BY DEF Ways, Linked
  <2>2. w \in B <=> \E l \in Range(mesh.links[w[1]]) :
           l.to = w[2] /\ FollowsAt(mesh, search, Square(search.radius), w[1], l)
    BY DEF StepsAt
  <2> HIDE DEF A, B
  <2> QED BY <1>1, <2>1, <2>2
<1>3. \A w : (w \in A => w \in Polys(mesh) \X Polys(mesh))
               /\ (w \in B => w \in Polys(mesh) \X Polys(mesh))
  BY DEF Ways, StepsAt
<1> HIDE DEF A, B
<1>4. A = B BY <1>2, <1>3
<1>5. Reach = Spread(search.start, A) BY DEF Reach, A
<1>6. Area(mesh, search) = Spread_(mesh, search.start, B) BY DEF Area, B
<1>7. \A start, ways : Spread(start, ways) = Spread_(mesh, start, ways)
  BY DEF Spread, Spread_, Ball_
<1> QED BY <1>4, <1>5, <1>6, <1>7

(* What it closed is what can be walked to, all of it unless the pool ran  *)
(* out.                                                                    *)
LEMMA ReachShut ==
    ASSUME IInv, search.op # "none", search.op # "wall", search.ended
    PROVE  /\ \A id : Shut(pool, id) => id \in Reach
           /\ ~search.full => \A id \in Reach : Shut(pool, id)
           /\ Reach \subseteq Polys(mesh) /\ IsFiniteSet(Reach)
<1>1. /\ mesh \in Meshes /\ NodesInv(mesh, search, pool) /\ search \in SearchSet(mesh)
  BY SearchedIs
<1>2. Reach = Area(mesh, search) BY ReachIs
<1>3. \A id : Shut(pool, id) => id \in Reach
  BY <1>1, <1>2 DEF Shut, NodesInv, Closeds
<1>4. ASSUME ~search.full PROVE \A id \in Reach : Shut(pool, id)
  <2>1. \A id \in Spread_(mesh, search.start, StepsAt(mesh, search, search.radiusSqr)) :
           Shut(pool, id)
    BY <1>4, AllReached
  <2>2. StepsAt(mesh, search, search.radiusSqr) = StepsAt(mesh, search, Square(search.radius))
    <3>1. search.op \in {"circle", "random"} => search.radiusSqr = Square(search.radius)
      BY <1>1, SearchIs
    <3>2. search.op \in {"circle", "random"} \/ search.op = "shape" BY <1>1, SearchIs
    <3>3. CASE search.op \in {"circle", "random"} BY <3>1, <3>3
    <3>4. CASE search.op = "shape"
      <4>1. \A from, l : FollowsAt(mesh, search, search.radiusSqr, from, l)
                           <=> FollowsAt(mesh, search, Square(search.radius), from, l)
        BY <3>4 DEF FollowsAt
      <4> QED BY <4>1 DEF StepsAt
    <3> QED BY <3>2, <3>3, <3>4
  <2> QED BY <1>2, <2>1, <2>2 DEF Area
<1>5. Reach \subseteq Polys(mesh) BY <1>1, <1>2, AreaShut
<1>6. IsFiniteSet(Reach) BY <1>1, <1>5, HashesPolys, FS_Subset
<1> QED BY <1>3, <1>4, <1>5, <1>6

(* There are as many polygons listed as results.                           *)
LEMMA ListedMany ==
    ASSUME IInv, ListedPolys
    PROVE  Cardinality(Listed) = Len(search.results)
<1> DEFINE rs == search.results
           f == [k \in 1..Len(rs) |-> rs[k].ref]
<1>1. Lists(search) /\ search.op # "none" BY DEF ListedPolys, Lists
<1>2. Ordered(rs) /\ rs \in Seq(FoundSet(mesh)) BY <1>1, SearchedIs, SearchIs DEF ResultsInv
<1> HIDE DEF rs
<1>3. Len(rs) \in Nat BY <1>2
<1>4. \A j, k \in 1..Len(rs) : j < k => f[j] # f[k]
  <2> TAKE j, k \in 1..Len(rs)
  <2>1. j < k => j \in 1..(k - 1) BY <1>3
  <2> QED BY <1>2, <2>1 DEF Ordered
<1>5. Listed = {f[k] : k \in 1..Len(rs)} BY DEF Listed, rs
<1>6. f = [k \in 1..Len(rs) |-> f[k]] OBVIOUS
<1> HIDE DEF f
<1>7. f \in [1..Len(rs) -> Listed] BY <1>5, <1>6
<1>8. \A j, k \in 1..Len(rs) : f[j] = f[k] => j = k BY <1>3, <1>4
<1>9. \A t \in Listed : \E k \in 1..Len(rs) : f[k] = t BY <1>5
<1>10. f \in Bijection(1..Len(rs), Listed)
  BY <1>7, <1>8, <1>9 DEF Bijection, Injection, Surjection, IsInjective
<1>11. ExistsBijection(1..Len(rs), Listed) BY <1>10 DEF ExistsBijection
<1> QED BY <1>3, <1>11, FS_CountingElements DEF rs

(* findPolysAroundCircle and findPolysAroundShape find every polygon that  *)
(* can be walked to across what they search and no other, but for those    *)
(* that do not fit or had no node, which are reported; and                 *)
(* findRandomPointAroundCircle picks one of the ground if there is one.    *)
THEOREM AroundIsComplete ==
    Spec => []AroundComplete
<1>1. Spec => []IInv BY Inductive
<1>2. IInv => AroundComplete
  <2> SUFFICES ASSUME IInv PROVE AroundComplete
    OBVIOUS
  <2>1. ASSUME ListedPolys, JustEnded
        PROVE  /\ Listed \subseteq Reach
               /\ ~search.full => {p \in Polys(mesh) : IsInClosedList(p)} = Reach
               /\ IF search.small
                  THEN /\ Len(search.results) = search.max
                       /\ search.max < Cardinality(Reach)
                  ELSE search.full \/ Listed = Reach
    <3>1. /\ search.op # "none" /\ search.op # "wall" /\ search.ended
      BY <2>1 DEF ListedPolys, JustEnded
    <3>2. /\ mesh \in Meshes /\ PoolInv(mesh, pool) BY <3>1, SearchedIs
    <3>3. /\ \A id : Shut(pool, id) => id \in Reach
          /\ ~search.full => \A id \in Reach : Shut(pool, id)
          /\ Reach \subseteq Polys(mesh) /\ IsFiniteSet(Reach)
      BY <3>1, ReachShut
    <3>4. /\ \A ref \in Listed : Shut(pool, ref)
          /\ ~search.small => \A ref : Shut(pool, ref) => ref \in Listed
          /\ search.small => /\ Len(search.results) = search.max
                             /\ \E ref : Shut(pool, ref) /\ ref \notin Listed
      BY <2>1, ListedShut
    <3>5. Listed \subseteq Reach BY <3>3, <3>4
    <3>6. ~search.full => {p \in Polys(mesh) : IsInClosedList(p)} = Reach
      BY <3>2, <3>3, InClosedList
    <3>7. ~search.small => search.full \/ Listed = Reach BY <3>3, <3>4, <3>5
    <3>8. search.small => search.max < Cardinality(Reach)
      <4> SUFFICES ASSUME search.small PROVE search.max < Cardinality(Reach)
        OBVIOUS
      <4>1. Cardinality(Listed) = search.max BY <2>1, <3>4, ListedMany
      <4>2. Listed # Reach BY <3>3, <3>4
      <4>3. /\ Cardinality(Listed) <= Cardinality(Reach)
            /\ Cardinality(Reach) = Cardinality(Listed) => Reach = Listed
            /\ IsFiniteSet(Listed)
        BY <3>3, <3>5, FS_Subset
      <4>4. Cardinality(Listed) \in Nat /\ Cardinality(Reach) \in Nat
        BY <3>3, <4>3, FS_CardinalityType
      <4> QED BY <4>1, <4>2, <4>3, <4>4
    <3> QED BY <3>4, <3>5, <3>6, <3>7, <3>8
  <2>2. ASSUME search.op = "random", JustEnded
        PROVE  LET ground == {p \in Reach : mesh.ground[p]}
               IN  /\ search.picked \in ground \cup {NoRef}
                   /\ ~search.full /\ ground # {} => search.picked # NoRef
    <3>1. search.op # "none" /\ search.op # "wall" /\ search.ended BY <2>2 DEF JustEnded
    <3>2. RandomInv(mesh, pool, search) BY <3>1, SearchedIs
    <3>3. /\ \A id : Shut(pool, id) => id \in Reach
          /\ ~search.full => \A id \in Reach : Shut(pool, id)
      BY <3>1, ReachShut
    <3>4. search.picked # NoRef => search.picked \in Reach /\ mesh.ground[search.picked]
      BY <2>2, <3>2, <3>3 DEF RandomInv, Shut
    <3>5. search.picked = NoRef => \A id : Shut(pool, id) => ~mesh.ground[id]
      BY <2>2, <3>2 DEF RandomInv, Shut
    <3> QED BY <3>3, <3>4, <3>5
  <2> QED BY <2>1, <2>2 DEF AroundComplete
<1> QED BY <1>1, <1>2, PTL

(* The edges taken for walls are the walls, if no border edge is shut over *)
(* its first link only.                                                    *)
LEMMA WallEdges ==
    ASSUME mesh \in Meshes, ~ShutFirst,
           NEW p \in Polys(mesh), NEW n \in 0..(Len(mesh.neis[p]) - 1)
    PROVE  SolidAt(mesh, search.filter, p, n) <=> WallEdge(p, n)
<1> DEFINE nei == mesh.neis[p][n + 1]
           links == mesh.links[p]
           over == {k \in 1..Len(links) : links[k].edge = n}
           Pass(ref) == PassFilter(search.filter, mesh, ref)
<1>1. Wall # Border BY DEF Wall, Border
<1>2. CASE nei = Wall BY <1>1, <1>2 DEF SolidAt, WallEdge
<1>3. CASE nei = Border
  <2>1. SolidAt(mesh, search.filter, p, n) <=> over = {} \/ ~Pass(links[Min(over)].to)
    BY <1>1, <1>3 DEF SolidAt
  <2>2. WallEdge(p, n) <=> \A l \in Range(links) : l.edge = n => ~Pass(l.to)
    BY <1>1, <1>3 DEF WallEdge
  <2>3. over # {} /\ ~Pass(links[Min(over)].to) => \A k \in over : ~Pass(links[k].to)
    BY <1>3 DEF ShutFirst, LinksOver
  <2>4. over # {} => Min(over) \in over
    <3>1. over \in SUBSET Nat OBVIOUS
    <3> HIDE DEF over
    <3> QED BY <3>1, LeastOf
  <2>5. (\A l \in Range(links) : l.edge = n => ~Pass(l.to))
          <=> \A k \in over : ~Pass(links[k].to)
    <3>1. links \in Seq(Range(links)) BY MeshAssumption
    <3>2. DOMAIN links = 1..Len(links) BY <3>1
    <3> HIDE DEF Pass
    <3> QED BY <3>2 DEF Range
  <2> HIDE DEF over, links, Pass
  <2> QED BY <2>1, <2>2, <2>3, <2>4, <2>5
<1>4. CASE nei \notin {Wall, Border} BY <1>4 DEF SolidAt, WallEdge
<1> QED BY <1>2, <1>3, <1>4

(* A turn of findDistanceToWall goes where its walls are measured from.    *)
LEMMA NearIs ==
    ASSUME search.op = "wall", NEW r
    PROVE  {w \in Ways(search.filter) : \E l \in Range(mesh.links[w[1]]) :
              l.to = w[2] /\ mesh.ground[w[2]] /\ Far(search, w[1], l.edge) <= r}
             = StepsAt(mesh, search, r)
<1> DEFINE A == {w \in Ways(search.filter) : \E l \in Range(mesh.links[w[1]]) :
                   l.to = w[2] /\ mesh.ground[w[2]] /\ Far(search, w[1], l.edge) <= r}
           B == StepsAt(mesh, search, r)
<1>1. ASSUME NEW from, NEW l
      PROVE  FollowsAt(mesh, search, r, from, l)
                <=> /\ PassFilter(search.filter, mesh, l.to) /\ mesh.ground[l.to]
                    /\ Far(search, from, l.edge) <= r
  BY DEF FollowsAt, Far
<1>2. ASSUME NEW w \in Polys(mesh) \X Polys(mesh) PROVE w \in A <=> w \in B
  <2>1. w \in A <=> /\ \E l \in Range(mesh.links[w[1]]) : l.to = w[2]
                    /\ PassFilter(search.filter, mesh, w[2])
                    /\ \E l \in Range(mesh.links[w[1]]) :
                          l.to = w[2] /\ mesh.ground[w[2]] /\ Far(search, w[1], l.edge) <= r
    BY DEF Ways, Linked
  <2>2. w \in B <=> \E l \in Range(mesh.links[w[1]]) :
           l.to = w[2] /\ FollowsAt(mesh, search, r, w[1], l)
    BY DEF StepsAt
  <2> HIDE DEF A, B
  <2> QED BY <1>1, <2>1, <2>2
<1>3. \A w : (w \in A => w \in Polys(mesh) \X Polys(mesh))
               /\ (w \in B => w \in Polys(mesh) \X Polys(mesh))
  BY DEF Ways, StepsAt
<1> HIDE DEF A, B
<1>4. A = B BY <1>2, <1>3
<1> QED BY <1>4 DEF A, B

(* How far the walls are of what one can walk to within r.                 *)
Walling(r) ==
    {Square(search.radius)}
      \cup {FarFrom(mesh, search.center, u[1], u[2]) :
              u \in {u \in Spread_(mesh, search.start, StepsAt(mesh, search, r)) \X Nat :
                        u[2] \in WallsAt(mesh, search.filter, u[1])}}

(* The nearest wall is the least of them.                                  *)
LEMMA NearestIs ==
    ASSUME IInv, search.op = "wall", ~ShutFirst, NEW r
    PROVE  /\ NearestWall(r) = Min(Walling(r))
           /\ Walling(r) \in SUBSET Nat
<1> DEFINE near == Spread_(mesh, search.start, StepsAt(mesh, search, r))
           Walls(p) == {n \in 0..(Len(mesh.neis[p]) - 1) : WallEdge(p, n)}
           S == {Square(search.radius)}
                  \cup UNION {{Far(search, p, n) : n \in Walls(p)} : p \in near}
<1>1. /\ mesh \in Meshes /\ search \in SearchSet(mesh) /\ search.start \in Polys(mesh)
      /\ search.radius \in Nat /\ search.center \in Int \X Int
  BY SearchedIs, SearchIs
<1>2. NearestWall(r) = Min(S)
  <2>1. \A start, ways : Spread(start, ways) = Spread_(mesh, start, ways)
    BY DEF Spread, Spread_, Ball_
  <2>2. near = Spread(search.start,
                 {w \in Ways(search.filter) : \E l \in Range(mesh.links[w[1]]) :
                    l.to = w[2] /\ mesh.ground[w[2]] /\ Far(search, w[1], l.edge) <= r})
    BY <2>1, NearIs
  <2> HIDE DEF near
  <2> QED BY <2>2 DEF NearestWall
<1>3. near \subseteq Polys(mesh)
  <2>1. StepsAt(mesh, search, r) \in SUBSET (Polys(mesh) \X Polys(mesh)) BY DEF StepsAt
  <2> QED BY <1>1, <2>1, SpreadShut
<1> HIDE DEF near
<1>4. \A p \in near : Walls(p) = WallsAt(mesh, search.filter, p)
  BY <1>1, <1>3, WallEdges DEF WallsAt
<1>5. \A p \in near : \A n \in WallsAt(mesh, search.filter, p) :
         /\ n \in Nat /\ Far(search, p, n) = FarFrom(mesh, search.center, p, n)
         /\ Far(search, p, n) \in Nat
  <2> TAKE p \in near
  <2> TAKE n \in WallsAt(mesh, search.filter, p)
  <2>1. Far(search, p, n) = FarFrom(mesh, search.center, p, n) BY DEF Far, FarFrom
  <2>2. p \in Polys(mesh) /\ n \in 0..(Len(mesh.neis[p]) - 1) BY <1>3 DEF WallsAt
  <2>3. Len(mesh.neis[p]) \in 0..Len(mesh.verts[p]) /\ mesh.verts[p] \in Seq(Int \X Int)
    BY <1>1, <2>2, MeshAssumption
  <2>4. n \in 0..(Len(mesh.verts[p]) - 1) /\ n \in Nat BY <2>2, <2>3
  <2>5. FarFrom(mesh, search.center, p, n) \in Nat BY <1>1, <2>2, <2>4, FarNat
  <2> QED BY <2>1, <2>4, <2>5
<1>6. Square(search.radius) \in Nat BY <1>1 DEF Square
<1> HIDE DEF Walls
<1>7. \A x : x \in S <=> x \in Walling(r)
  <2> TAKE x
  <2>1. x \in S <=> \/ x = Square(search.radius)
                    \/ \E p \in near : \E n \in Walls(p) : x = Far(search, p, n)
    OBVIOUS
  <2>2. x \in Walling(r) <=>
           \/ x = Square(search.radius)
           \/ \E u \in near \X Nat : /\ u[2] \in WallsAt(mesh, search.filter, u[1])
                                     /\ x = FarFrom(mesh, search.center, u[1], u[2])
    BY DEF Walling, near
  <2> HIDE DEF S
  <2>3. ASSUME NEW p \in near, NEW n \in Walls(p), x = Far(search, p, n)
        PROVE  \E u \in near \X Nat : /\ u[2] \in WallsAt(mesh, search.filter, u[1])
                                      /\ x = FarFrom(mesh, search.center, u[1], u[2])
    <3>1. n \in WallsAt(mesh, search.filter, p) BY <1>4
    <3>2. n \in Nat /\ x = FarFrom(mesh, search.center, p, n) BY <1>5, <2>3, <3>1
    <3>3. <<p, n>> \in near \X Nat /\ <<p, n>>[1] = p /\ <<p, n>>[2] = n BY <3>2
    <3> QED BY <3>1, <3>2, <3>3
  <2>4. ASSUME NEW u \in near \X Nat, u[2] \in WallsAt(mesh, search.filter, u[1]),
               x = FarFrom(mesh, search.center, u[1], u[2])
        PROVE  \E p \in near : \E n \in Walls(p) : x = Far(search, p, n)
    <3>1. u[1] \in near OBVIOUS
    <3>2. u[2] \in Walls(u[1]) BY <1>4, <2>4, <3>1
    <3>3. x = Far(search, u[1], u[2]) BY <1>5, <2>4, <3>1
    <3> QED BY <3>1, <3>2, <3>3
  <2> QED BY <2>1, <2>2, <2>3, <2>4
<1>8. \A x \in S : x \in Nat BY <1>4, <1>5, <1>6
<1> HIDE DEF S
<1>9. S = Walling(r) BY <1>7
<1> QED BY <1>2, <1>8, <1>9

(* findDistanceToWall comes to the nearest of the walls within its last    *)
(* circle, or to a nearer one that was within the first, and says it hit   *)
(* something when it did; a border edge shut over its first link only it   *)
(* takes for a wall.                                                       *)
THEOREM AroundWall ==
    Spec => []WallNearest
<1>1. Spec => []IInv BY Inductive
<1>2. IInv => WallNearest
  <2> SUFFICES ASSUME IInv, search.op = "wall", JustEnded, ~search.full, ~ShutFirst
               PROVE  /\ search.radiusSqr <= NearestWall(search.radiusSqr)
                      /\ search.radiusSqr >= NearestWall(Square(search.radius))
                      /\ search.radiusSqr < Square(search.radius) => search.hit # <<>>
    BY DEF WallNearest
  <2> DEFINE r == search.radiusSqr
             far == Square(search.radius)
  <2>1. /\ mesh \in Meshes /\ search \in SearchSet(mesh) /\ NodesInv(mesh, search, pool)
        /\ WallInv(mesh, pool, search) /\ search.ended
        /\ r \in Nat /\ search.radius \in Nat
    BY SearchedIs, SearchIs DEF JustEnded
  <2>2. far \in Nat BY <2>1 DEF Square
  <2>3. /\ r <= far
        /\ \A i \in Closeds(pool) : \A n \in WallsAt(mesh, search.filter, pool.nodes[i].id) :
              r <= FarFrom(mesh, search.center, pool.nodes[i].id, n)
        /\ \/ r = far
           \/ /\ search.hit # <<>>
              /\ \E i \in Closeds(pool) :
                    \E n \in WallsAt(mesh, search.filter, pool.nodes[i].id) :
                       r = FarFrom(mesh, search.center, pool.nodes[i].id, n)
    BY <2>1 DEF WallInv
  <2>4. \A x : /\ NearestWall(x) = Min(Walling(x)) /\ Walling(x) \in SUBSET Nat
               /\ Walling(x) # {} /\ far \in Walling(x)
    BY NearestIs DEF Walling
  <2>5. \A x : Min(Walling(x)) \in Walling(x) /\ \A y \in Walling(x) : Min(Walling(x)) <= y
    BY <2>4, LeastOf
  <2>6. \A y \in Walling(r) : r <= y
    <3> SUFFICES ASSUME NEW y \in Walling(r), y # far PROVE r <= y
      BY <2>3
    <3>1. PICK u \in Spread_(mesh, search.start, StepsAt(mesh, search, r)) \X Nat :
             /\ u[2] \in WallsAt(mesh, search.filter, u[1])
             /\ y = FarFrom(mesh, search.center, u[1], u[2])
      BY DEF Walling
    <3>2. Shut(pool, u[1])
      <4>1. u[1] \in Spread_(mesh, search.start, StepsAt(mesh, search, r)) OBVIOUS
      <4> QED BY <2>1, <4>1, AllReached
    <3>3. PICK i \in Closeds(pool) : pool.nodes[i].id = u[1] BY <3>2 DEF Shut
    <3> QED BY <2>3, <3>1, <3>3
  <2>7. r \in Walling(far)
    <3>1. CASE r = far BY <2>4, <3>1
    <3>2. CASE r # far
      <4>1. PICK i \in Closeds(pool) : \E n \in WallsAt(mesh, search.filter, pool.nodes[i].id) :
               r = FarFrom(mesh, search.center, pool.nodes[i].id, n)
        BY <2>3, <3>2
      <4>2. PICK n \in WallsAt(mesh, search.filter, pool.nodes[i].id) :
               r = FarFrom(mesh, search.center, pool.nodes[i].id, n)
        BY <4>1
      <4> DEFINE id == pool.nodes[i].id
                 u == <<id, n>>
                 near == Spread_(mesh, search.start, StepsAt(mesh, search, far))
      <4>3. id \in near BY <2>1 DEF NodesInv, Closeds, Area
      <4>4. n \in Nat
        <5>1. id \in Polys(mesh) BY <2>1, AreaShut DEF NodesInv, Closeds
        <5>2. Len(mesh.neis[id]) \in Nat BY <2>1, <5>1, MeshAssumption
        <5> QED BY <4>2, <5>2 DEF WallsAt
      <4> HIDE DEF near, id
      <4>5. u \in near \X Nat /\ u[1] = id /\ u[2] = n BY <4>3, <4>4
      <4>6. n \in WallsAt(mesh, search.filter, id)
            /\ r = FarFrom(mesh, search.center, id, n)
        BY <4>2 DEF id
      <4> HIDE DEF u
      <4> QED BY <4>5, <4>6 DEF Walling, near
    <3> QED BY <3>1, <3>2
  <2> HIDE DEF r, far
  <2>8. r <= NearestWall(r) BY <2>4, <2>5, <2>6
  <2>9. NearestWall(far) <= r BY <2>4, <2>5, <2>7
  <2>10. NearestWall(far) \in Nat BY <2>4, <2>5
  <2>11. r < far => search.hit # <<>>
    BY <2>1, <2>2, <2>3 DEF r
  <2>12. r >= NearestWall(far) BY <2>1, <2>9, <2>10 DEF r
  <2> QED BY <2>8, <2>11, <2>12 DEF r, far
<1> QED BY <1>1, <1>2, PTL

===============================================================================
