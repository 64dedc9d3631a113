---------------------------- MODULE NavNodesProofs ----------------------------
(***************************************************************************)
(* What the node pool and the open list of the searches promise, whatever  *)
(* the hash, the number of buckets and the order of the calls.             *)
(***************************************************************************)
EXTENDS NavNodes, FiniteSetTheorems, WellFoundedInduction, TLAPS

-------------------------------------------------------------------------------
(* Induction and recursion without operator parameters: what holds is a set, *)
(* and a definition is a function on arguments and functions.                *)

(* A set of numbers that holds 0 and each successor holds them all.        *)
LEMMA NatInd ==
    ASSUME NEW T, 0 \in T, \A n \in Nat : n \in T => n + 1 \in T
    PROVE  Nat \subseteq T
<1> DEFINE out == Nat \ T
<1>1. SUFFICES ASSUME out # {} PROVE FALSE OBVIOUS
<1>2. PICK n \in out : \A m \in out : <<m, n>> \notin OpToRel(<, Nat)
  <2>1. out \subseteq Nat OBVIOUS
  <2> HIDE DEF out
  <2> QED BY <1>1, <2>1, NatLessThanWellFounded, WFMin
<1>3. n \in Nat /\ n # 0 OBVIOUS
<1>4. n - 1 \in Nat /\ (n - 1) + 1 = n BY <1>3
<1>5. n - 1 \in out BY <1>4
<1>6. <<n - 1, n>> \in OpToRel(<, Nat)
  <2>1. <<n - 1, n>> \in Nat \X Nat /\ n - 1 < n BY <1>3, <1>4
  <2> QED BY <2>1 DEF OpToRel
<1> QED BY <1>2, <1>5, <1>6

(* A set of subsets that holds {} and each that one of its elements may be *)
(* taken from holds them all.                                              *)
LEMMA SubsetInd ==
    ASSUME NEW S, IsFiniteSet(S), NEW T, {} \in T,
           \A s \in SUBSET S : s # {} =>
               \E x \in s : s \ {x} \in T => s \in T
    PROVE  S \in T
<1> DEFINE ns == {n \in Nat : \A s \in SUBSET S : Cardinality(s) = n => s \in T}
<1>1. \A s \in SUBSET S : IsFiniteSet(s) /\ Cardinality(s) \in Nat
  BY FS_Subset, FS_CardinalityType
<1>2. 0 \in ns
  <2>1. \A s \in SUBSET S : Cardinality(s) = 0 => s = {} BY <1>1, FS_EmptySet
  <2> QED BY <2>1
<1>3. ASSUME NEW n \in Nat, n \in ns PROVE n + 1 \in ns
  <2> SUFFICES ASSUME NEW s \in SUBSET S, Cardinality(s) = n + 1 PROVE s \in T
    OBVIOUS
  <2>0. Cardinality(s) = n + 1 OBVIOUS
  <2>1. s # {} BY <1>1, FS_EmptySet
  <2>2. PICK x \in s : s \ {x} \in T => s \in T BY <2>1
  <2>3. Cardinality(s \ {x}) = n
    <3>1. IsFiniteSet(s) BY <1>1
    <3>2. Cardinality(s \ {x}) = Cardinality(s) - 1 BY <3>1, FS_RemoveElement
    <3> QED BY <2>0, <3>2
  <2>4. s \ {x} \in SUBSET S OBVIOUS
  <2> QED BY <1>3, <2>2, <2>3, <2>4
<1> HIDE DEF ns
<1>4. Nat \subseteq ns BY <1>2, <1>3, NatInd
<1>5. Cardinality(S) \in ns BY <1>1, <1>4
<1> QED BY <1>5 DEF ns

(* A recursive definition whose every step looks at arguments of a lesser  *)
(* measure only has the function it describes.  G gives the value at an    *)
(* argument, from those at all.                                            *)
Descends(D, V, N, m, G) ==
    /\ V # {} /\ N \in Nat /\ m \in [D -> 0..N]
    /\ G \in [D \X [D -> V] -> V]
    /\ \A d \in D : \A f, g \in [D -> V] :
          (\A e \in D : m[e] < m[d] => f[e] = g[e]) => G[<<d, f>>] = G[<<d, g>>]

Recurs(D, V, G) == \E f \in [D -> V] : f = [d \in D |-> G[<<d, f>>]]

(* Such a definition has a function it describes.                          *)
LEMMA Recursion ==
    ASSUME NEW D, NEW V, NEW N, NEW m, NEW G, Descends(D, V, N, m, G)
    PROVE  Recurs(D, V, G)
<1> USE DEF Descends
<1> DEFINE T == {k \in Nat : \E f \in [D -> V] :
                    \A d \in D : m[d] < k => f[d] = G[<<d, f>>]}
<1>1. 0 \in T
  <2>1. PICK v \in V : TRUE OBVIOUS
  <2>2. [d \in D |-> v] \in [D -> V] OBVIOUS
  <2>3. \A d \in D : ~(m[d] < 0) OBVIOUS
  <2> QED BY <2>2, <2>3
<1>2. ASSUME NEW k \in Nat, k \in T PROVE k + 1 \in T
  <2>1. PICK f \in [D -> V] : \A d \in D : m[d] < k => f[d] = G[<<d, f>>]
    BY <1>2
  <2> DEFINE h == [d \in D |-> IF m[d] = k THEN G[<<d, f>>] ELSE f[d]]
  <2>2. h \in [D -> V] OBVIOUS
  <2>3. ASSUME NEW d \in D, m[d] < k + 1 PROVE h[d] = G[<<d, h>>]
    <3>1. \A e \in D : m[e] < m[d] => h[e] = f[e] BY <2>3
    <3>2. G[<<d, h>>] = G[<<d, f>>] BY <2>2, <3>1
    <3>3. CASE m[d] = k BY <3>2, <3>3
    <3>4. CASE m[d] < k BY <2>1, <3>2, <3>4
    <3> QED BY <2>3, <3>3, <3>4
  <2> HIDE DEF h
  <2> QED BY <2>2, <2>3
<1> HIDE DEF T
<1>3. N + 1 \in T BY <1>1, <1>2, NatInd
<1>4. PICK f \in [D -> V] : \A d \in D : m[d] < N + 1 => f[d] = G[<<d, f>>]
  BY <1>3 DEF T
<1>5. \A d \in D : f[d] = G[<<d, f>>] BY <1>4
<1> QED BY <1>5 DEF Recurs

-------------------------------------------------------------------------------
(* Nodes and chains *)

(* The nodes of a pool: P holds the references, X the positions. *)
NodeSet(P, X) ==
    [id : P, state : Nat, pidx : Nat, pos : X, cost : Nat, total : Nat,
     flags : SUBSET {"OPEN", "CLOSED"}]

PoolTyped(pool, P, X) ==
    /\ \E h \in Nat \ {0} :
          pool \in [max : Nat, nodes : Seq(NodeSet(P, X)), next : Seq(Nat),
                    first : [0..(h - 1) -> Nat]]
    /\ Len(pool.next) = Len(pool.nodes)
    /\ Len(pool.nodes) <= pool.max

(* What a pool's types say of one of its nodes.                            *)
LEMMA NodesTyped ==
    ASSUME NEW P, NEW X, NEW pool, PoolTyped(pool, P, X)
    PROVE  /\ pool.nodes \in Seq(NodeSet(P, X)) /\ pool.next \in Seq(Nat)
           /\ pool.max \in Nat /\ Len(pool.nodes) \in Nat
           /\ \A i \in 1..Len(pool.nodes) :
                 /\ pool.nodes[i] \in NodeSet(P, X)
                 /\ pool.nodes[i].id \in P /\ pool.nodes[i].state \in Nat
                 /\ pool.nodes[i].pidx \in Nat /\ pool.nodes[i].pos \in X
                 /\ pool.nodes[i].cost \in Nat /\ pool.nodes[i].total \in Nat
                 /\ pool.nodes[i].flags \in SUBSET {"OPEN", "CLOSED"}
<1>1. pool.nodes \in Seq(NodeSet(P, X)) /\ pool.next \in Seq(Nat) /\ pool.max \in Nat
  BY DEF PoolTyped
<1>2. Len(pool.nodes) \in Nat /\ \A i \in 1..Len(pool.nodes) : pool.nodes[i] \in NodeSet(P, X)
  BY <1>1
<1> QED BY <1>1, <1>2 DEF NodeSet

BucketOf(pool, i) == Bucket(pool, pool.nodes[i].id)

(* A node is followed by the next older one of its bucket, and a bucket    *)
(* begins with its youngest.                                               *)
Hashed(pool) ==
    /\ \A i \in 1..Len(pool.nodes) :
          /\ pool.next[i] \in 0..(i - 1)
          /\ pool.next[i] # 0 => BucketOf(pool, pool.next[i]) = BucketOf(pool, i)
          /\ \A j \in (pool.next[i] + 1)..(i - 1) :
                BucketOf(pool, j) # BucketOf(pool, i)
    /\ \A b \in DOMAIN pool.first :
          /\ pool.first[b] \in 0..Len(pool.nodes)
          /\ pool.first[b] # 0 => BucketOf(pool, pool.first[b]) = b
          /\ \A j \in (pool.first[b] + 1)..Len(pool.nodes) : BucketOf(pool, j) # b

IsNodeOf(pool, i, id, state) ==
    pool.nodes[i].id = id /\ pool.nodes[i].state = state

Apart(pool) ==
    \A i, j \in 1..Len(pool.nodes) :
        IsNodeOf(pool, i, pool.nodes[j].id, pool.nodes[j].state) => i = j

PoolOK(pool, P, X) == PoolTyped(pool, P, X) /\ Hashed(pool) /\ Apart(pool)

HashesTo(P) == \A id \in P : HashRef(id) \in Nat

-------------------------------------------------------------------------------
(* The hash *)

(* A member of a hash chain is of its bucket, so every walk along the      *)
(* chain stays among the nodes.                                            *)
Chain_(pool) ==
    CHOOSE g : g = [i \in 0..Len(pool.nodes) |->
                      IF i = 0 THEN <<>> ELSE <<i>> \o g[pool.next[i]]]

(* The walk along a chain, one node at a time.                             *)
LEMMA ChainIs ==
    ASSUME NEW P, NEW X, NEW pool, PoolOK(pool, P, X)
    PROVE  Chain_(pool)
              = [i \in 0..Len(pool.nodes) |->
                   IF i = 0 THEN <<>> ELSE <<i>> \o Chain_(pool)[pool.next[i]]]
<1> DEFINE L == Len(pool.nodes)
           D == 0..L
           V == Seq(D)
           m == [d \in D |-> d]
           G == [p \in D \X [D -> V] |->
                   IF p[1] = 0 THEN <<>> ELSE <<p[1]>> \o p[2][pool.next[p[1]]]]
<1>1. L \in Nat BY DEF PoolOK, PoolTyped
<1>2. \A d \in D : d # 0 => pool.next[d] \in D /\ pool.next[d] < d
  BY <1>1 DEF PoolOK, Hashed
<1>3. m \in [D -> 0..L] /\ D # {} /\ V # {}
  <2>1. <<>> \in V OBVIOUS
  <2> HIDE DEF V
  <2> QED BY <1>1, <2>1
<1>4. \A d \in D, f \in [D -> V] :
         G[<<d, f>>] = IF d = 0 THEN <<>> ELSE <<d>> \o f[pool.next[d]]
  OBVIOUS
<1>5. G \in [D \X [D -> V] -> V]
  <2>1. ASSUME NEW d \in D, NEW f \in [D -> V] PROVE G[<<d, f>>] \in V
    <3>1. CASE d = 0
      <4>1. <<>> \in V OBVIOUS
      <4> QED BY <1>4, <3>1, <4>1
    <3>2. CASE d # 0
      <4>1. f[pool.next[d]] \in V BY <1>2, <3>2
      <4>2. <<d>> \in V OBVIOUS
      <4>3. <<d>> \o f[pool.next[d]] \in V BY <4>1, <4>2
      <4> QED BY <1>4, <3>2, <4>3
    <3> QED BY <3>1, <3>2
  <2> QED BY <2>1
<1>6. \A d \in D : \A f, g \in [D -> V] :
         (\A e \in D : m[e] < m[d] => f[e] = g[e]) => G[<<d, f>>] = G[<<d, g>>]
  <2> SUFFICES ASSUME NEW d \in D, NEW f \in [D -> V], NEW g \in [D -> V],
                      \A e \in D : m[e] < m[d] => f[e] = g[e]
               PROVE  G[<<d, f>>] = G[<<d, g>>]
    OBVIOUS
  <2>1. d # 0 => f[pool.next[d]] = g[pool.next[d]] BY <1>2
  <2> HIDE DEF G, V, D, m
  <2>2. /\ G[<<d, f>>] = IF d = 0 THEN <<>> ELSE <<d>> \o f[pool.next[d]]
        /\ G[<<d, g>>] = IF d = 0 THEN <<>> ELSE <<d>> \o g[pool.next[d]]
    BY <1>4
  <2> QED BY <2>1, <2>2
<1>7. Recurs(D, V, G)
  <2> HIDE DEF G, m, D, L, V
  <2>1. Descends(D, V, L, m, G) BY <1>1, <1>3, <1>5, <1>6 DEF Descends
  <2> QED BY <2>1, Recursion
<1> HIDE DEF G, m, V
<1>8. PICK f \in [D -> V] :
         f = [d \in D |-> IF d = 0 THEN <<>> ELSE <<d>> \o f[pool.next[d]]]
  <2>1. PICK f \in [D -> V] : f = [d \in D |-> G[<<d, f>>]] BY <1>7 DEF Recurs
  <2>2. f = [d \in D |-> IF d = 0 THEN <<>> ELSE <<d>> \o f[pool.next[d]]]
    BY <1>4, <2>1
  <2> QED BY <2>2
<1> QED BY <1>8 DEF Chain_

(* The chain of a bucket holds nodes of that bucket only.                  *)
LEMMA ChainIn ==
    ASSUME NEW P, NEW X, NEW pool, PoolOK(pool, P, X), NEW b \in DOMAIN pool.first
    PROVE  /\ Chain(pool, b) \in Seq(1..Len(pool.nodes))
           /\ \A k \in 1..Len(Chain(pool, b)) : BucketOf(pool, Chain(pool, b)[k]) = b
<1> DEFINE L == Len(pool.nodes)
           C == Chain_(pool)
           Right(i) == /\ C[i] \in Seq(1..L)
                       /\ \A k \in 1..Len(C[i]) : BucketOf(pool, C[i][k]) = b
           T == {n \in Nat : \A i \in 0..L : i <= n =>
                    (i = 0 \/ BucketOf(pool, i) = b => Right(i))}
<1>1. L \in Nat BY DEF PoolOK, PoolTyped
<1>2. C[0] = <<>> /\ \A i \in 1..L : C[i] = <<i>> \o C[pool.next[i]]
  <2> HIDE DEF C
  <2>1. C = [i \in 0..L |-> IF i = 0 THEN <<>> ELSE <<i>> \o C[pool.next[i]]]
    BY ChainIs DEF C
  <2> HIDE DEF L
  <2>2. C[0] = <<>> BY <1>1, <2>1
  <2>3. ASSUME NEW i \in 1..L PROVE C[i] = <<i>> \o C[pool.next[i]]
    <3>1. i \in 0..L /\ i # 0 BY <1>1
    <3> QED BY <2>1, <3>1
  <2> QED BY <2>2, <2>3
<1> HIDE DEF C
<1>3. Right(0)
  <2>1. C[0] \in Seq(1..L) /\ Len(C[0]) = 0 BY <1>2
  <2> QED BY <2>1
<1> HIDE DEF Right
<1>4. ASSUME NEW n \in Nat, n \in T PROVE n + 1 \in T
  <2> SUFFICES ASSUME NEW i \in 0..L, i <= n + 1, i # 0, BucketOf(pool, i) = b
               PROVE  Right(i)
    BY <1>3
  <2> DEFINE j == pool.next[i]
  <2>1. j \in 0..(i - 1) /\ (j # 0 => BucketOf(pool, j) = b)
    BY DEF PoolOK, Hashed
  <2>4. i \in 1..L BY <1>1
  <2>2. C[i] = <<i>> \o C[j]
    <3> HIDE DEF L
    <3> QED BY <1>2, <2>4
  <2> HIDE DEF j
  <2>3. C[j] \in Seq(1..L) /\ \A k \in 1..Len(C[j]) : BucketOf(pool, C[j][k]) = b
    <3>1. Right(j) BY <1>1, <1>4, <2>1
    <3> QED BY <3>1 DEF Right
  <2> HIDE DEF L
  <2>5. C[i] \in Seq(1..L) BY <2>2, <2>3, <2>4
  <2>6. ASSUME NEW k \in 1..Len(C[i]) PROVE BucketOf(pool, C[i][k]) = b
    <3>1. CASE k = 1
      <4>1. C[i][k] = i BY <2>2, <2>3, <3>1
      <4> QED BY <4>1
    <3>2. CASE k # 1
      <4>1. k - 1 \in 1..Len(C[j]) /\ C[i][k] = C[j][k - 1] BY <2>2, <2>3, <2>4, <3>2
      <4> QED BY <2>3, <4>1
    <3> QED BY <3>1, <3>2
  <2> QED BY <2>5, <2>6 DEF Right
<1>5. 0 \in T BY <1>3
<1> HIDE DEF T
<1>6. L \in T BY <1>1, <1>4, <1>5, NatInd
<1>7. /\ pool.first[b] \in 0..L
      /\ pool.first[b] # 0 => BucketOf(pool, pool.first[b]) = b
  BY DEF PoolOK, Hashed
<1>8. Right(pool.first[b]) BY <1>1, <1>6, <1>7 DEF T
<1>9. Chain(pool, b) = C[pool.first[b]] BY DEF Chain, Chain_, C
<1> QED BY <1>8, <1>9 DEF Right

(* A hash that is a number names a bucket.                                 *)
LEMMA BucketOfHash ==
    ASSUME NEW P, NEW X, NEW pool, PoolTyped(pool, P, X), NEW id, HashRef(id) \in Nat
    PROVE  Bucket(pool, id) \in DOMAIN pool.first
<1>1. PICK h \in Nat \ {0} : DOMAIN pool.first = 0..(h - 1) BY DEF PoolTyped
<1>2. Cardinality(DOMAIN pool.first) = h
  <2>1. 0..(h - 1) = 0..(h + -1) /\ h - 1 \in Int OBVIOUS
  <2>2. Cardinality(0..(h - 1)) = IF 0 > h - 1 THEN 0 ELSE (h - 1) - 0 + 1
    BY <2>1, FS_Interval
  <2> QED BY <1>1, <2>2
<1>3. HashRef(id) % h \in 0..(h - 1) OBVIOUS
<1> QED BY <1>1, <1>2, <1>3 DEF Bucket

(* Every reference of the pool's has a bucket.                             *)
LEMMA BucketIn ==
    ASSUME NEW P, NEW X, HashesTo(P), NEW pool, PoolTyped(pool, P, X), NEW id \in P
    PROVE  Bucket(pool, id) \in DOMAIN pool.first
BY BucketOfHash DEF HashesTo

(* findNode's walk as one function of where it starts.                     *)
Found_(pool, id, state) ==
    CHOOSE g : g = [i \in 0..Len(pool.nodes) |->
                      IF \/ i = 0
                         \/ pool.nodes[i].id = id /\ pool.nodes[i].state = state
                      THEN i ELSE g[pool.next[i]]]

(* findNode's walk, one node at a time.                                    *)
LEMMA FoundIs ==
    ASSUME NEW P, NEW X, NEW pool, PoolOK(pool, P, X), NEW id, NEW state
    PROVE  Found_(pool, id, state)
              = [i \in 0..Len(pool.nodes) |->
                   IF \/ i = 0
                      \/ pool.nodes[i].id = id /\ pool.nodes[i].state = state
                   THEN i ELSE Found_(pool, id, state)[pool.next[i]]]
<1> DEFINE D == 0..Len(pool.nodes)
           m == [d \in D |-> d]
           At(i) == pool.nodes[i].id = id /\ pool.nodes[i].state = state
           G == [p \in D \X [D -> D] |->
                   IF p[1] = 0 \/ At(p[1]) THEN p[1] ELSE p[2][pool.next[p[1]]]]
<1>1. Len(pool.nodes) \in Nat BY DEF PoolOK, PoolTyped
<1>2. \A d \in D : d # 0 => pool.next[d] \in D /\ pool.next[d] < d
  BY <1>1 DEF PoolOK, Hashed
<1>3. m \in [D -> 0..Len(pool.nodes)] /\ D # {} BY <1>1
<1>4. \A d \in D, f \in [D -> D] :
         G[<<d, f>>] = IF d = 0 \/ At(d) THEN d ELSE f[pool.next[d]]
  OBVIOUS
<1>5. G \in [D \X [D -> D] -> D] BY <1>2
<1>6. \A d \in D : \A f, g \in [D -> D] :
         (\A e \in D : m[e] < m[d] => f[e] = g[e]) => G[<<d, f>>] = G[<<d, g>>]
  <2> SUFFICES ASSUME NEW d \in D, NEW f \in [D -> D], NEW g \in [D -> D],
                      \A e \in D : m[e] < m[d] => f[e] = g[e]
               PROVE  G[<<d, f>>] = G[<<d, g>>]
    OBVIOUS
  <2>1. d # 0 => f[pool.next[d]] = g[pool.next[d]] BY <1>2
  <2> HIDE DEF G
  <2> QED BY <1>4, <2>1
<1>7. Recurs(D, D, G)
  <2> DEFINE L == Len(pool.nodes)
  <2>1. L \in Nat /\ m \in [D -> 0..L] BY <1>1
  <2> HIDE DEF G, m, D, L
  <2>2. Descends(D, D, L, m, G) BY <1>3, <1>5, <1>6, <2>1 DEF Descends
  <2> QED BY <2>2, Recursion
<1> HIDE DEF G, m
<1>8. PICK f \in [D -> D] : f = [d \in D |-> IF d = 0 \/ At(d) THEN d ELSE f[pool.next[d]]]
  <2>1. PICK f \in [D -> D] : f = [d \in D |-> G[<<d, f>>]] BY <1>7 DEF Recurs
  <2>2. f = [d \in D |-> IF d = 0 \/ At(d) THEN d ELSE f[pool.next[d]]]
    BY <1>4, <2>1
  <2> QED BY <2>2
<1> QED BY <1>8 DEF Found_

(* findNode finds a node of the polygon and state exactly when there is    *)
(* one.                                                                    *)
LEMMA FindNodeIs ==
    ASSUME NEW P, NEW X, HashesTo(P), NEW pool, PoolOK(pool, P, X),
           NEW id \in P, NEW state
    PROVE  /\ FindNode(pool, id, state) \in 0..Len(pool.nodes)
           /\ FindNode(pool, id, state) # 0
                => IsNodeOf(pool, FindNode(pool, id, state), id, state)
           /\ FindNode(pool, id, state) = 0
                => \A j \in 1..Len(pool.nodes) : ~IsNodeOf(pool, j, id, state)
<1> DEFINE L == Len(pool.nodes)
           b == Bucket(pool, id)
           F == Found_(pool, id, state)
           Right(i) == /\ F[i] \in 0..i
                       /\ F[i] # 0 => IsNodeOf(pool, F[i], id, state)
                       /\ F[i] = 0 => \A j \in 1..i : ~IsNodeOf(pool, j, id, state)
           T == {k \in Nat : \A i \in 0..L : i <= k =>
                    (i = 0 \/ BucketOf(pool, i) = b => Right(i))}
<1>1. L \in Nat BY DEF PoolOK, PoolTyped
<1>2. \A i \in 0..L : F[i] = IF i = 0 \/ IsNodeOf(pool, i, id, state) THEN i
                             ELSE F[pool.next[i]]
  BY FoundIs DEF IsNodeOf
<1>3. FindNode(pool, id, state) = F[pool.first[b]] BY DEF FindNode, Found_
<1>4. \A j \in 1..L : IsNodeOf(pool, j, id, state) => BucketOf(pool, j) = b
  BY DEF IsNodeOf, BucketOf
<1> HIDE DEF F, b
<1>5. 0 \in T
  <2>1. F[0] = 0 BY <1>1, <1>2
  <2> QED BY <2>1
<1>6. ASSUME NEW k \in Nat, k \in T PROVE k + 1 \in T
  <2> SUFFICES ASSUME NEW i \in 0..L, i <= k + 1, i # 0, BucketOf(pool, i) = b
               PROVE  Right(i)
    <3>1. F[0] = 0 BY <1>1, <1>2
    <3> QED BY <3>1
  <2>1. CASE IsNodeOf(pool, i, id, state) BY <1>2, <2>1
  <2>2. CASE ~IsNodeOf(pool, i, id, state)
    <3> DEFINE n == pool.next[i]
    <3>1. /\ n \in 0..(i - 1)
          /\ n # 0 => BucketOf(pool, n) = b
          /\ \A j \in (n + 1)..(i - 1) : BucketOf(pool, j) # b
      BY <1>1 DEF PoolOK, Hashed
    <3>2. F[i] = F[n] BY <1>2, <2>2
    <3>3. n \in 0..L /\ n <= k BY <1>1, <3>1
    <3> HIDE DEF n
    <3>4. Right(n) BY <1>6, <3>1, <3>3
    <3>5. ASSUME F[n] = 0, NEW j \in 1..i PROVE ~IsNodeOf(pool, j, id, state)
      <4>1. j \in 1..L BY <1>1
      <4>2. CASE j <= n BY <3>1, <3>4, <3>5, <4>2
      <4>3. CASE j > n /\ j < i BY <1>4, <3>1, <4>1, <4>3
      <4>4. CASE j = i BY <2>2, <4>4
      <4> QED BY <3>1, <4>2, <4>3, <4>4
    <3> QED BY <3>1, <3>2, <3>4, <3>5
  <2> QED BY <2>1, <2>2
<1> HIDE DEF T
<1>7. L \in T BY <1>1, <1>5, <1>6, NatInd
<1>8. b \in DOMAIN pool.first BY BucketIn DEF PoolOK, b
<1> DEFINE r == pool.first[b]
<1>9. /\ r \in 0..L
      /\ r # 0 => BucketOf(pool, r) = b
      /\ \A j \in (r + 1)..L : BucketOf(pool, j) # b
  BY <1>8 DEF PoolOK, Hashed
<1> HIDE DEF r
<1>10. Right(r) BY <1>1, <1>7, <1>9 DEF T
<1>11. ASSUME F[r] = 0, NEW j \in 1..L PROVE ~IsNodeOf(pool, j, id, state)
  <2>1. CASE j <= r BY <1>9, <1>10, <1>11, <2>1
  <2>2. CASE j > r BY <1>1, <1>4, <1>9, <2>2
  <2> QED BY <1>9, <2>1, <2>2
<1> QED BY <1>1, <1>3, <1>9, <1>10, <1>11 DEF r

(* findNode finds each node of the pool by its polygon and state.          *)
LEMMA FindNodeOwn ==
    ASSUME NEW P, NEW X, HashesTo(P), NEW pool, PoolOK(pool, P, X),
           NEW i \in 1..Len(pool.nodes)
    PROVE  FindNode(pool, pool.nodes[i].id, pool.nodes[i].state) = i
<1>1. pool.nodes[i].id \in P BY NodesTyped DEF PoolOK
<1>2. IsNodeOf(pool, i, pool.nodes[i].id, pool.nodes[i].state) BY DEF IsNodeOf
<1>3. Len(pool.nodes) \in Nat BY DEF PoolOK, PoolTyped
<1> DEFINE r == FindNode(pool, pool.nodes[i].id, pool.nodes[i].state)
<1>4. /\ r \in 0..Len(pool.nodes)
      /\ r # 0 => IsNodeOf(pool, r, pool.nodes[i].id, pool.nodes[i].state)
      /\ r # 0
  BY <1>1, <1>2, FindNodeIs
<1> HIDE DEF r
<1>5. r = i BY <1>3, <1>4 DEF PoolOK, Apart
<1> QED BY <1>5 DEF r

(* The hash of a pool has one answer for every node.                       *)
LEMMA PoolChainsOK ==
    ASSUME NEW P, NEW X, HashesTo(P), NEW pool, PoolOK(pool, P, X)
    PROVE  ChainsOK(pool)
<1>1. \A b \in DOMAIN pool.first : \A k \in 1..Len(Chain(pool, b)) :
         Bucket(pool, pool.nodes[Chain(pool, b)[k]].id) = b
  BY ChainIn DEF BucketOf
<1>2. \A i, j \in 1..Len(pool.nodes) :
         i # j => <<pool.nodes[i].id, pool.nodes[i].state>>
                    # <<pool.nodes[j].id, pool.nodes[j].state>>
  BY DEF PoolOK, Apart, IsNodeOf
<1>3. \A i \in 1..Len(pool.nodes) :
         FindNode(pool, pool.nodes[i].id, pool.nodes[i].state) = i
  BY FindNodeOwn
<1> QED BY <1>1, <1>2, <1>3 DEF ChainsOK

FoundAll_(pool, id) ==
    CHOOSE g : g = [i \in 0..Len(pool.nodes) |->
                      IF i = 0 THEN <<>>
                      ELSE (IF pool.nodes[i].id = id THEN <<i>> ELSE <<>>)
                             \o g[pool.next[i]]]

(* findNodes' walk, one node at a time.                                    *)
OwnOf(pool, id, i) == IF pool.nodes[i].id = id THEN <<i>> ELSE <<>>

(* The walk takes the node it is at, if it is one of the polygon, and goes *)
(* on with the next of the bucket.                                         *)
LEMMA FoundAllIs ==
    ASSUME NEW P, NEW X, NEW pool, PoolOK(pool, P, X), NEW id
    PROVE  /\ FoundAll_(pool, id)[0] = <<>>
           /\ \A i \in 1..Len(pool.nodes) :
                 FoundAll_(pool, id)[i]
                    = OwnOf(pool, id, i) \o FoundAll_(pool, id)[pool.next[i]]
<1> DEFINE L == Len(pool.nodes)
           D == 0..L
           V == Seq(1..L)
           m == [d \in D |-> d]
           Own(i) == IF pool.nodes[i].id = id THEN <<i>> ELSE <<>>
           G == [p \in D \X [D -> V] |->
                   IF p[1] = 0 THEN <<>> ELSE Own(p[1]) \o p[2][pool.next[p[1]]]]
<1>1. L \in Nat BY DEF PoolOK, PoolTyped
<1>2. \A d \in D : d # 0 => pool.next[d] \in D /\ pool.next[d] < d
  BY <1>1 DEF PoolOK, Hashed
<1>3. m \in [D -> 0..L] /\ D # {} /\ V # {}
  <2>1. <<>> \in V OBVIOUS
  <2> HIDE DEF V
  <2> QED BY <1>1, <2>1
<1>4. \A d \in D, f \in [D -> V] :
         G[<<d, f>>] = IF d = 0 THEN <<>> ELSE Own(d) \o f[pool.next[d]]
  OBVIOUS
<1>5. G \in [D \X [D -> V] -> V]
  <2>1. ASSUME NEW d \in D, NEW f \in [D -> V] PROVE G[<<d, f>>] \in V
    <3>1. CASE d = 0
      <4>1. <<>> \in V OBVIOUS
      <4> QED BY <1>4, <3>1, <4>1
    <3>2. CASE d # 0
      <4>1. f[pool.next[d]] \in V BY <1>2, <3>2
      <4>2. Own(d) \in V
        <5>1. d \in 1..L BY <1>1, <3>2
        <5> HIDE DEF L
        <5>2. <<d>> \in V /\ <<>> \in V BY <5>1
        <5> QED BY <5>2
      <4>3. Own(d) \o f[pool.next[d]] \in V BY <4>1, <4>2
      <4> QED BY <1>4, <3>2, <4>3
    <3> QED BY <3>1, <3>2
  <2> QED BY <2>1
<1> HIDE DEF Own
<1>6. \A d \in D : \A f, g \in [D -> V] :
         (\A e \in D : m[e] < m[d] => f[e] = g[e]) => G[<<d, f>>] = G[<<d, g>>]
  <2> SUFFICES ASSUME NEW d \in D, NEW f \in [D -> V], NEW g \in [D -> V],
                      \A e \in D : m[e] < m[d] => f[e] = g[e]
               PROVE  G[<<d, f>>] = G[<<d, g>>]
    OBVIOUS
  <2>1. d # 0 => f[pool.next[d]] = g[pool.next[d]] BY <1>2
  <2> HIDE DEF G, V, D, m
  <2>2. /\ G[<<d, f>>] = IF d = 0 THEN <<>> ELSE Own(d) \o f[pool.next[d]]
        /\ G[<<d, g>>] = IF d = 0 THEN <<>> ELSE Own(d) \o g[pool.next[d]]
    BY <1>4
  <2> QED BY <2>1, <2>2
<1>7. Recurs(D, V, G)
  <2> HIDE DEF G, m, D, L, V
  <2>1. Descends(D, V, L, m, G) BY <1>1, <1>3, <1>5, <1>6 DEF Descends
  <2> QED BY <2>1, Recursion
<1> HIDE DEF G, m, V
<1> DEFINE Is(f) == f = [d \in D |-> IF d = 0 THEN <<>>
                                     ELSE Own(d) \o f[pool.next[d]]]
<1>8. PICK f \in [D -> V] : Is(f)
  <2>1. PICK f \in [D -> V] : f = [d \in D |-> G[<<d, f>>]] BY <1>7 DEF Recurs
  <2>2. Is(f) BY <1>4, <2>1
  <2> QED BY <2>2
<1>9. FoundAll_(pool, id) = CHOOSE g : Is(g) BY DEF FoundAll_, Own
<1> DEFINE F == FoundAll_(pool, id)
<1>10. Is(F) BY <1>8, <1>9
<1>11. 0 \in D /\ \A i \in 1..L : i \in D /\ i # 0 BY <1>1
<1> HIDE DEF D, F
<1>12. F = [d \in D |-> IF d = 0 THEN <<>> ELSE Own(d) \o F[pool.next[d]]]
  BY <1>10
<1>13. F[0] = <<>> BY <1>11, <1>12
<1>14. \A i \in 1..L : F[i] = Own(i) \o F[pool.next[i]] BY <1>11, <1>12
<1> QED BY <1>13, <1>14 DEF Own, OwnOf, F

(* findNodes' walk meets nodes of the pool only, and of one polygon.       *)
LEMMA FoundAllIn ==
    ASSUME NEW P, NEW X, NEW pool, PoolOK(pool, P, X), NEW id
    PROVE  \A i \in 0..Len(pool.nodes) :
              /\ FoundAll_(pool, id)[i] \in Seq(1..Len(pool.nodes))
              /\ \A k \in 1..Len(FoundAll_(pool, id)[i]) :
                    pool.nodes[FoundAll_(pool, id)[i][k]].id = id
<1> DEFINE L == Len(pool.nodes)
           D == 0..L
           V == {q \in Seq(1..L) : \A k \in 1..Len(q) : pool.nodes[q[k]].id = id}
           Own(i) == OwnOf(pool, id, i)
           F == FoundAll_(pool, id)
           T == {n \in Nat : \A i \in D : i <= n => F[i] \in V}
<1>1. L \in Nat BY DEF PoolOK, PoolTyped
<1>2. \A d \in D : d # 0 => pool.next[d] \in D /\ pool.next[d] < d
  BY <1>1 DEF PoolOK, Hashed
<1>3. F[0] = <<>> /\ \A i \in 1..L : F[i] = Own(i) \o F[pool.next[i]]
  BY FoundAllIs
<1> HIDE DEF F
<1>4. F[0] = <<>> /\ \A i \in D : i # 0 => F[i] = Own(i) \o F[pool.next[i]]
  BY <1>1, <1>3
<1> HIDE DEF Own
<1>5. <<>> \in V OBVIOUS
<1>6. \A i \in D : i # 0 => Own(i) \in V
  <2> SUFFICES ASSUME NEW i \in D, i # 0 PROVE Own(i) \in V
    OBVIOUS
  <2>1. CASE pool.nodes[i].id = id
    <3>1. i \in 1..L BY <1>1
    <3>2. Own(i) = <<i>> BY <2>1 DEF Own, OwnOf
    <3> HIDE DEF L
    <3>3. <<i>> \in Seq(1..L) /\ Len(<<i>>) = 1 /\ <<i>>[1] = i BY <3>1
    <3> QED BY <2>1, <3>2, <3>3
  <2>2. CASE pool.nodes[i].id # id BY <1>5, <2>2 DEF Own, OwnOf
  <2> QED BY <2>1, <2>2
<1>7. \A q, r \in V : q \o r \in V
  <2> HIDE DEF L
  <2> TAKE q, r \in V
  <2>1. /\ q \o r \in Seq(1..L) /\ Len(q \o r) = Len(q) + Len(r)
        /\ Len(q) \in Nat /\ Len(r) \in Nat
    OBVIOUS
  <2>2. \A k \in 1..Len(q \o r) : pool.nodes[(q \o r)[k]].id = id
    <3> TAKE k \in 1..Len(q \o r)
    <3>1. CASE k <= Len(q)
      <4>1. (q \o r)[k] = q[k] /\ k \in 1..Len(q) BY <2>1, <3>1
      <4> QED BY <4>1
    <3>2. CASE ~(k <= Len(q))
      <4>1. (q \o r)[k] = r[k - Len(q)] /\ k - Len(q) \in 1..Len(r) BY <2>1, <3>2
      <4> QED BY <4>1
    <3> QED BY <3>1, <3>2
  <2> QED BY <2>1, <2>2
<1> HIDE DEF V
<1>8. 0 \in T BY <1>4, <1>5
<1>9. ASSUME NEW n \in Nat, n \in T PROVE n + 1 \in T
  <2> SUFFICES ASSUME NEW i \in D, i <= n + 1, i # 0 PROVE F[i] \in V
    BY <1>8
  <2>1. F[pool.next[i]] \in V BY <1>2, <1>9
  <2> QED BY <1>4, <1>6, <1>7, <2>1
<1> HIDE DEF T
<1>10. L \in T BY <1>1, <1>8, <1>9, NatInd
<1>11. \A i \in D : F[i] \in V BY <1>1, <1>10 DEF T
<1> QED BY <1>11 DEF V, F

(* And every node of it that the chain goes to.                            *)
LEMMA FoundAllHas ==
    ASSUME NEW P, NEW X, NEW pool, PoolOK(pool, P, X), NEW id,
           NEW i \in 1..Len(pool.nodes), BucketOf(pool, i) = Bucket(pool, id),
           NEW j \in 1..i, pool.nodes[j].id = id
    PROVE  Len(FoundAll_(pool, id)[i]) >= 1
<1> DEFINE L == Len(pool.nodes)
           F == FoundAll_(pool, id)
           Own(k) == OwnOf(pool, id, k)
           Meets(k) == k >= j /\ BucketOf(pool, k) = Bucket(pool, id) => Len(F[k]) >= 1
           T == {n \in Nat : \A k \in 1..L : k <= n => Meets(k)}
<1>1. L \in Nat /\ j \in 1..L BY DEF PoolOK, PoolTyped
<1>2. BucketOf(pool, j) = Bucket(pool, id) BY DEF BucketOf
<1>3. \A k \in 1..L : F[k] = Own(k) \o F[pool.next[k]]
  BY FoundAllIs
<1>4. \A k \in 0..L : F[k] \in Seq(1..L) BY FoundAllIn
<1> HIDE DEF F, Own
<1>5. 0 \in T OBVIOUS
<1>6. ASSUME NEW n \in Nat, n \in T PROVE n + 1 \in T
  <2> SUFFICES ASSUME NEW k \in 1..L, k = n + 1, k >= j,
                      BucketOf(pool, k) = Bucket(pool, id)
               PROVE  Len(F[k]) >= 1
    BY <1>6
  <2>1. k \in 0..L /\ k # 0 BY <1>1
  <2>2. F[k] = Own(k) \o F[pool.next[k]] BY <1>3
  <2>3. /\ pool.next[k] \in 0..(k - 1)
        /\ pool.next[k] # 0 => BucketOf(pool, pool.next[k]) = BucketOf(pool, k)
        /\ \A e \in (pool.next[k] + 1)..(k - 1) : BucketOf(pool, e) # BucketOf(pool, k)
    BY DEF PoolOK, Hashed
  <2>4. F[pool.next[k]] \in Seq(1..L)
    <3>1. pool.next[k] \in 0..L BY <1>1, <2>3
    <3> HIDE DEF L
    <3> QED BY <1>4, <3>1
  <2>5. Own(k) \in Seq(1..L)
    <3> HIDE DEF L
    <3>1. <<k>> \in Seq(1..L) /\ <<>> \in Seq(1..L) OBVIOUS
    <3> QED BY <3>1 DEF Own, OwnOf
  <2> DEFINE own == Own(k)
             rest == F[pool.next[k]]
  <2>0. F[k] = own \o rest BY <2>2
  <2>6. /\ Len(own \o rest) = Len(own) + Len(rest)
        /\ Len(own) \in Nat /\ Len(rest) \in Nat
    <3> HIDE DEF own, rest
    <3> QED BY <2>4, <2>5 DEF own, rest
  <2>7. CASE k = j
    <3>1. own = <<k>> BY <2>7 DEF Own, OwnOf
    <3>2. Len(own) = 1 BY <3>1
    <3> HIDE DEF own, rest
    <3> QED BY <2>0, <2>6, <3>2
  <2>8. CASE k # j
    <3>1. j <= pool.next[k]
      <4> SUFFICES ASSUME ~(j <= pool.next[k]) PROVE FALSE
        OBVIOUS
      <4>1. j \in (pool.next[k] + 1)..(k - 1) BY <1>1, <2>3, <2>8
      <4> QED BY <1>2, <2>3, <4>1
    <3>2. pool.next[k] \in 1..L /\ pool.next[k] <= n BY <1>1, <2>3, <3>1
    <3>3. Meets(pool.next[k]) BY <1>6, <3>2
    <3>4. Len(rest) >= 1 BY <2>3, <3>1, <3>2, <3>3
    <3> HIDE DEF own, rest
    <3> QED BY <2>0, <2>6, <3>4
  <2> QED BY <2>7, <2>8
<1> HIDE DEF T
<1>7. L \in T BY <1>1, <1>5, <1>6, NatInd
<1>8. Meets(i) BY <1>1, <1>7 DEF T
<1> QED BY <1>8 DEF F

(* findNodes answers with nodes of the pool.                               *)
LEMMA FindNodesIn ==
    ASSUME NEW P, NEW X, NEW pool, PoolOK(pool, P, X),
           NEW id, HashRef(id) \in Nat, NEW n \in Nat
    PROVE  FindNodes(pool, id, n) \in Seq(1..Len(pool.nodes))
<1> DEFINE b == Bucket(pool, id)
           found == FoundAll_(pool, id)[pool.first[b]]
<1>1. pool.first[b] \in 0..Len(pool.nodes)
  <2>1. b \in DOMAIN pool.first BY BucketOfHash DEF PoolOK
  <2> QED BY <2>1 DEF PoolOK, Hashed
<1>2. found \in Seq(1..Len(pool.nodes)) BY <1>1, FoundAllIn
<1>3. FindNodes(pool, id, n) = SubSeq(found, 1, Min({Len(found), n}))
  BY DEF FindNodes, FoundAll_
<1> HIDE DEF found
<1>4. Min({Len(found), n}) \in Nat /\ Min({Len(found), n}) <= Len(found)
  <2>1. \E x \in {Len(found), n} : \A y \in {Len(found), n} : x <= y
    BY <1>2
  <2> QED BY <1>2, <2>1 DEF Min
<1>5. SubSeq(found, 1, Min({Len(found), n})) \in Seq(1..Len(pool.nodes))
  <2> DEFINE top == Min({Len(found), n})
             S == 1..Len(pool.nodes)
  <2>1. found \in Seq(S) /\ top \in Nat /\ top <= Len(found) BY <1>2, <1>4
  <2> HIDE DEF top, S
  <2>2. SubSeq(found, 1, top) \in Seq(S) BY <2>1
  <2> QED BY <2>2 DEF top, S
<1> QED BY <1>3, <1>5

(* What it answers is the first of what the walk meets, as many as it may. *)
LEMMA FindNodesIs ==
    ASSUME NEW P, NEW X, NEW pool, PoolOK(pool, P, X),
           NEW id, HashRef(id) \in Nat, NEW n \in Nat
    PROVE  \E i \in 0..Len(pool.nodes), top \in Nat :
              /\ i = pool.first[Bucket(pool, id)]
              /\ FindNodes(pool, id, n) = SubSeq(FoundAll_(pool, id)[i], 1, top)
              /\ top <= Len(FoundAll_(pool, id)[i])
              /\ n >= 1 /\ Len(FoundAll_(pool, id)[i]) >= 1 => top >= 1
<1> DEFINE b == Bucket(pool, id)
           found == FoundAll_(pool, id)[pool.first[b]]
           top == Min({Len(found), n})
<1>1. pool.first[b] \in 0..Len(pool.nodes)
  <2>1. b \in DOMAIN pool.first BY BucketOfHash DEF PoolOK
  <2> QED BY <2>1 DEF PoolOK, Hashed
<1>2. found \in Seq(1..Len(pool.nodes)) BY <1>1, FoundAllIn
<1>3. FindNodes(pool, id, n) = SubSeq(found, 1, top)
  BY DEF FindNodes, FoundAll_
<1>4. /\ top \in Nat /\ top <= Len(found)
      /\ n >= 1 /\ Len(found) >= 1 => top >= 1
  <2> HIDE DEF found
  <2>1. \E x \in {Len(found), n} : \A y \in {Len(found), n} : x <= y
    BY <1>2
  <2> QED BY <1>2, <2>1 DEF Min
<1> HIDE DEF top
<1> QED BY <1>1, <1>3, <1>4

(* They are nodes of the polygon that was asked for.                       *)
LEMMA FindNodesOf ==
    ASSUME NEW P, NEW X, NEW pool, PoolOK(pool, P, X),
           NEW id, HashRef(id) \in Nat, NEW n \in Nat
    PROVE  \A k \in 1..Len(FindNodes(pool, id, n)) :
              pool.nodes[FindNodes(pool, id, n)[k]].id = id
<1>1. PICK i \in 0..Len(pool.nodes), top \in Nat :
         /\ FindNodes(pool, id, n) = SubSeq(FoundAll_(pool, id)[i], 1, top)
         /\ top <= Len(FoundAll_(pool, id)[i])
  BY FindNodesIs
<1> DEFINE found == FoundAll_(pool, id)[i]
<1>2. /\ found \in Seq(1..Len(pool.nodes))
      /\ \A k \in 1..Len(found) : pool.nodes[found[k]].id = id
  BY FoundAllIn
<1>3. FindNodes(pool, id, n) = SubSeq(found, 1, top) /\ top <= Len(found)
  BY <1>1
<1> HIDE DEF found
<1>4. /\ Len(SubSeq(found, 1, top)) = top
      /\ \A k \in 1..top : SubSeq(found, 1, top)[k] = found[k]
  BY <1>2, <1>3
<1> QED BY <1>2, <1>3, <1>4

(* A polygon that has nodes is not asked for in vain.                      *)
LEMMA FindNodesSome ==
    ASSUME NEW P, NEW X, NEW pool, PoolOK(pool, P, X),
           NEW id, HashRef(id) \in Nat, NEW n \in Nat, n >= 1,
           NEW j \in 1..Len(pool.nodes), pool.nodes[j].id = id
    PROVE  Len(FindNodes(pool, id, n)) >= 1
<1>1. PICK i \in 0..Len(pool.nodes), top \in Nat :
         /\ i = pool.first[Bucket(pool, id)]
         /\ FindNodes(pool, id, n) = SubSeq(FoundAll_(pool, id)[i], 1, top)
         /\ top <= Len(FoundAll_(pool, id)[i])
         /\ n >= 1 /\ Len(FoundAll_(pool, id)[i]) >= 1 => top >= 1
  BY FindNodesIs
<1>2. Len(pool.nodes) \in Nat BY DEF PoolOK, PoolTyped
<1>3. BucketOf(pool, j) = Bucket(pool, id) BY DEF BucketOf
<1>4. Bucket(pool, id) \in DOMAIN pool.first BY BucketOfHash DEF PoolOK
<1>5. /\ i # 0 => BucketOf(pool, i) = Bucket(pool, id)
      /\ \A k \in (i + 1)..Len(pool.nodes) : BucketOf(pool, k) # Bucket(pool, id)
  BY <1>1, <1>4 DEF PoolOK, Hashed
<1>6. j <= i
  <2> SUFFICES ASSUME ~(j <= i) PROVE FALSE
    OBVIOUS
  <2>1. j \in (i + 1)..Len(pool.nodes) BY <1>2
  <2> QED BY <1>3, <1>5, <2>1
<1>7. i \in 1..Len(pool.nodes) /\ i # 0 /\ j \in 1..i BY <1>2, <1>6
<1>8. Len(FoundAll_(pool, id)[i]) >= 1 BY <1>5, <1>7, FoundAllHas
<1>9. FoundAll_(pool, id)[i] \in Seq(1..Len(pool.nodes)) BY FoundAllIn
<1> DEFINE found == FoundAll_(pool, id)[i]
<1>10. /\ FindNodes(pool, id, n) = SubSeq(found, 1, top) /\ top <= Len(found)
       /\ top >= 1 /\ found \in Seq(1..Len(pool.nodes))
  BY <1>1, <1>8, <1>9
<1> HIDE DEF found
<1> QED BY <1>10

-------------------------------------------------------------------------------
(* Nodes handed out and changed *)

Fresh(id, state) ==
    [id |-> id, state |-> state, pidx |-> 0, pos |-> <<>>, cost |-> 0,
     total |-> 0, flags |-> {}]

(* getNode leaves a sound pool, and the node it names stands for what was  *)
(* asked.                                                                  *)
LEMMA GetNodeIs ==
    ASSUME NEW P, NEW X, <<>> \in X, HashesTo(P), NEW pool, PoolOK(pool, P, X),
           NEW id \in P, NEW state \in Nat, CanGetNode(pool, id, state)
    PROVE  /\ NodeIdx(pool, id, state) \in 1..Len(GetNode(pool, id, state).nodes)
           /\ \/ /\ GetNode(pool, id, state) = pool
                 /\ NodeIdx(pool, id, state) \in 1..Len(pool.nodes)
                 /\ IsNodeOf(pool, NodeIdx(pool, id, state), id, state)
              \/ /\ NodeIdx(pool, id, state) = Len(pool.nodes) + 1
                 /\ \A j \in 1..Len(pool.nodes) : ~IsNodeOf(pool, j, id, state)
                 /\ GetNode(pool, id, state).nodes = Append(pool.nodes, Fresh(id, state))
                 /\ Len(pool.nodes) < pool.max
           /\ GetNode(pool, id, state).max = pool.max
           /\ PoolOK(GetNode(pool, id, state), P, X)
<1> DEFINE f == FindNode(pool, id, state)
           q == GetNode(pool, id, state)
           L == Len(pool.nodes)
           b == Bucket(pool, id)
<1>0. L \in Nat BY DEF PoolOK, PoolTyped
<1>1. /\ f \in 0..L
      /\ f # 0 => IsNodeOf(pool, f, id, state)
      /\ f = 0 => \A j \in 1..L : ~IsNodeOf(pool, j, id, state)
  BY FindNodeIs
<1>2. CASE f # 0
  <2>1. q = pool /\ NodeIdx(pool, id, state) = f BY <1>2 DEF GetNode, NodeIdx
  <2>2. f \in 1..L BY <1>0, <1>1, <1>2
  <2> QED BY <1>1, <1>2, <2>1, <2>2
<1>3. CASE f = 0
  <2>1. L < pool.max BY <1>3 DEF CanGetNode
  <2>2. PICK h \in Nat \ {0} :
           pool \in [max : Nat, nodes : Seq(NodeSet(P, X)), next : Seq(Nat),
                     first : [0..(h - 1) -> Nat]]
    BY DEF PoolOK, PoolTyped
  <2>3. b \in 0..(h - 1) /\ DOMAIN pool.first = 0..(h - 1) BY <2>2, BucketIn DEF PoolOK
  <2>4. /\ q.max = pool.max /\ q.nodes = Append(pool.nodes, Fresh(id, state))
        /\ q.next = Append(pool.next, pool.first[b])
        /\ q.first = [pool.first EXCEPT ![b] = L + 1]
        /\ q = [max |-> q.max, nodes |-> q.nodes, next |-> q.next, first |-> q.first]
    BY <1>3, <2>2 DEF GetNode, Fresh
  <2>5. NodeIdx(pool, id, state) = L + 1 BY <1>3 DEF NodeIdx
  <2>6. Len(q.nodes) = L + 1 /\ L + 1 \in 1..Len(q.nodes)
    BY <1>0, <2>2, <2>4
  <2>7. PoolOK(q, P, X)
    <3> HIDE DEF q, L, b, f
    <3>1. Len(pool.next) = L /\ pool.next \in Seq(Nat) /\ pool.nodes \in Seq(NodeSet(P, X))
      BY DEF PoolOK, PoolTyped, L
    <3>2. pool.first[b] \in Nat BY <2>2, <2>3
    <3>3. PoolTyped(q, P, X)
      <4>1. Fresh(id, state) \in NodeSet(P, X) BY DEF Fresh, NodeSet
      <4>2. q.nodes \in Seq(NodeSet(P, X)) BY <2>2, <2>4, <4>1
      <4>3. q.next \in Seq(Nat) /\ Len(q.next) = L + 1 BY <2>2, <2>4, <3>1, <3>2
      <4>4. q.first \in [0..(h - 1) -> Nat] BY <1>0, <2>2, <2>3, <2>4
      <4>5. q \in [max : Nat, nodes : Seq(NodeSet(P, X)), next : Seq(Nat),
                   first : [0..(h - 1) -> Nat]]
        BY <2>2, <2>4, <4>2, <4>3, <4>4
      <4>6. Len(q.nodes) <= q.max BY <1>0, <2>1, <2>2, <2>4, <2>6
      <4> QED BY <2>6, <4>3, <4>5, <4>6 DEF PoolTyped
    <3>4. \A i \in 1..L : q.nodes[i] = pool.nodes[i] /\ q.next[i] = pool.next[i]
      BY <1>0, <2>4, <3>1 DEF L
    <3>5. q.nodes[L + 1] = Fresh(id, state) /\ q.next[L + 1] = pool.first[b]
      BY <1>0, <2>4, <3>1 DEF L
    <3>6. \A r \in P : Bucket(q, r) = Bucket(pool, r)
      BY <2>2, <2>4 DEF Bucket
    <3>7. \A i \in 1..L : BucketOf(q, i) = BucketOf(pool, i)
      BY <3>4, <3>6, NodesTyped DEF BucketOf, PoolOK, L
    <3>8. BucketOf(q, L + 1) = b
      BY <3>5, <3>6 DEF BucketOf, Fresh, b
    <3>9. /\ \A i \in 1..L :
                /\ pool.next[i] \in 0..(i - 1)
                /\ pool.next[i] # 0 => BucketOf(pool, pool.next[i]) = BucketOf(pool, i)
                /\ \A j \in (pool.next[i] + 1)..(i - 1) :
                      BucketOf(pool, j) # BucketOf(pool, i)
          /\ \A c \in 0..(h - 1) :
                /\ pool.first[c] \in 0..L
                /\ pool.first[c] # 0 => BucketOf(pool, pool.first[c]) = c
                /\ \A j \in (pool.first[c] + 1)..L : BucketOf(pool, j) # c
      BY <2>3 DEF PoolOK, Hashed, L
    <3>10. ASSUME NEW i \in 1..(L + 1)
           PROVE  /\ q.next[i] \in 0..(i - 1)
                  /\ q.next[i] # 0 => BucketOf(q, q.next[i]) = BucketOf(q, i)
                  /\ \A j \in (q.next[i] + 1)..(i - 1) : BucketOf(q, j) # BucketOf(q, i)
      <4>1. CASE i \in 1..L
        <5>1. q.next[i] = pool.next[i] /\ BucketOf(q, i) = BucketOf(pool, i)
          BY <3>4, <3>7, <4>1
        <5>2. pool.next[i] \in 0..(i - 1) BY <3>9, <4>1
        <5>3. pool.next[i] # 0 => BucketOf(q, pool.next[i]) = BucketOf(pool, pool.next[i])
          BY <1>0, <3>7, <4>1, <5>2
        <5>4. \A j \in (pool.next[i] + 1)..(i - 1) : BucketOf(q, j) = BucketOf(pool, j)
          BY <1>0, <3>7, <4>1, <5>2
        <5> QED BY <3>9, <4>1, <5>1, <5>2, <5>3, <5>4
      <4>2. CASE i = L + 1
        <5>1. q.next[i] = pool.first[b] /\ BucketOf(q, i) = b BY <3>5, <3>8, <4>2
        <5>2. pool.first[b] \in 0..L BY <2>3, <3>9
        <5>3. pool.first[b] # 0 => BucketOf(q, pool.first[b]) = b
          BY <1>0, <2>3, <3>7, <3>9, <5>2
        <5>4. \A j \in (pool.first[b] + 1)..L : BucketOf(q, j) # b
          BY <1>0, <2>3, <3>7, <3>9, <5>2
        <5> QED BY <1>0, <4>2, <5>1, <5>2, <5>3, <5>4
      <4> QED BY <1>0, <4>1, <4>2
    <3>11. ASSUME NEW c \in 0..(h - 1)
           PROVE  /\ q.first[c] \in 0..(L + 1)
                  /\ q.first[c] # 0 => BucketOf(q, q.first[c]) = c
                  /\ \A j \in (q.first[c] + 1)..(L + 1) : BucketOf(q, j) # c
      <4>1. CASE c = b
        <5>1. q.first[c] = L + 1 BY <2>2, <2>3, <2>4, <4>1
        <5> QED BY <1>0, <3>8, <4>1, <5>1
      <4>2. CASE c # b
        <5>1. q.first[c] = pool.first[c] BY <2>2, <2>4, <4>2
        <5>2. pool.first[c] \in 0..L BY <3>9
        <5>3. pool.first[c] # 0 => BucketOf(q, pool.first[c]) = c
          BY <1>0, <3>7, <3>9, <5>2
        <5>4. ASSUME NEW j \in (pool.first[c] + 1)..(L + 1) PROVE BucketOf(q, j) # c
          <6>1. CASE j = L + 1 BY <3>8, <4>2, <6>1
          <6>2. CASE j # L + 1 BY <1>0, <3>7, <3>9, <5>2, <6>2
          <6> QED BY <6>1, <6>2
        <5> QED BY <1>0, <5>1, <5>2, <5>3, <5>4
      <4> QED BY <4>1, <4>2
    <3>12. DOMAIN q.first = 0..(h - 1) BY <2>2, <2>4
    <3>13. Hashed(q) BY <2>6, <3>10, <3>11, <3>12 DEF Hashed
    <3>14. Apart(q)
      <4> SUFFICES ASSUME NEW i \in 1..(L + 1), NEW j \in 1..(L + 1),
                          q.nodes[i].id = q.nodes[j].id, q.nodes[i].state = q.nodes[j].state
                   PROVE  i = j
        BY <2>6 DEF Apart, IsNodeOf
      <4>1. q.nodes[L + 1].id = id /\ q.nodes[L + 1].state = state BY <3>5 DEF Fresh
      <4>2. \A k \in 1..L : ~(q.nodes[k].id = id /\ q.nodes[k].state = state)
        BY <1>1, <1>3, <3>4 DEF IsNodeOf
      <4>3. CASE i \in 1..L /\ j \in 1..L
        BY <3>4, <4>3 DEF PoolOK, Apart, IsNodeOf, L
      <4>4. CASE ~(i \in 1..L /\ j \in 1..L)
        <5>1. (i = L + 1 \/ i \in 1..L) /\ (j = L + 1 \/ j \in 1..L) BY <1>0
        <5> QED BY <4>1, <4>2, <4>4, <5>1
      <4> QED BY <4>3, <4>4
    <3> QED BY <3>3, <3>13, <3>14 DEF PoolOK
  <2> QED BY <1>1, <1>3, <2>1, <2>4, <2>5, <2>6, <2>7
<1> QED BY <1>2, <1>3

(* To change a node and not what it stands for leaves the hash alone.      *)
LEMMA NodesChange ==
    ASSUME NEW P, NEW X, NEW pool, PoolOK(pool, P, X),
           NEW ns \in Seq(NodeSet(P, X)), Len(ns) = Len(pool.nodes),
           \A i \in 1..Len(ns) : /\ ns[i].id = pool.nodes[i].id
                                 /\ ns[i].state = pool.nodes[i].state
    PROVE  PoolOK([pool EXCEPT !.nodes = ns], P, X)
<1> DEFINE q == [pool EXCEPT !.nodes = ns]
<1>1. PICK h \in Nat \ {0} :
         pool \in [max : Nat, nodes : Seq(NodeSet(P, X)), next : Seq(Nat),
                   first : [0..(h - 1) -> Nat]]
  BY DEF PoolOK, PoolTyped
<1>2. /\ q.max = pool.max /\ q.nodes = ns /\ q.next = pool.next
      /\ q.first = pool.first
      /\ q \in [max : Nat, nodes : Seq(NodeSet(P, X)), next : Seq(Nat),
                first : [0..(h - 1) -> Nat]]
  BY <1>1
<1> HIDE DEF q
<1>3. PoolTyped(q, P, X) BY <1>2 DEF PoolTyped, PoolOK
<1>4. \A i \in 1..Len(ns) : BucketOf(q, i) = BucketOf(pool, i)
  BY <1>2 DEF BucketOf, Bucket
<1>5. Hashed(q)
  <2>1. Len(q.nodes) = Len(pool.nodes) /\ Len(ns) = Len(pool.nodes) /\ Len(ns) \in Nat
    BY <1>2
  <2>2. Hashed(pool) BY DEF PoolOK
  <2>3. ASSUME NEW i \in 1..Len(q.nodes)
        PROVE  /\ q.next[i] \in 0..(i - 1)
               /\ q.next[i] # 0 => BucketOf(q, q.next[i]) = BucketOf(q, i)
               /\ \A j \in (q.next[i] + 1)..(i - 1) : BucketOf(q, j) # BucketOf(q, i)
    <3>1. /\ pool.next[i] \in 0..(i - 1)
          /\ pool.next[i] # 0 => BucketOf(pool, pool.next[i]) = BucketOf(pool, i)
          /\ \A j \in (pool.next[i] + 1)..(i - 1) : BucketOf(pool, j) # BucketOf(pool, i)
      BY <2>1, <2>2 DEF Hashed
    <3>2. pool.next[i] # 0 => pool.next[i] \in 1..Len(ns) BY <2>1, <3>1
    <3>3. \A j \in (pool.next[i] + 1)..(i - 1) : j \in 1..Len(ns) BY <2>1, <3>1
    <3>4. i \in 1..Len(ns) BY <2>1
    <3> QED BY <1>2, <1>4, <3>1, <3>2, <3>3, <3>4
  <2>4. ASSUME NEW b \in DOMAIN q.first
        PROVE  /\ q.first[b] \in 0..Len(q.nodes)
               /\ q.first[b] # 0 => BucketOf(q, q.first[b]) = b
               /\ \A j \in (q.first[b] + 1)..Len(q.nodes) : BucketOf(q, j) # b
    <3>1. /\ pool.first[b] \in 0..Len(ns)
          /\ pool.first[b] # 0 => BucketOf(pool, pool.first[b]) = b
          /\ \A j \in (pool.first[b] + 1)..Len(ns) : BucketOf(pool, j) # b
      BY <1>2, <2>1, <2>2 DEF Hashed
    <3>2. pool.first[b] # 0 => pool.first[b] \in 1..Len(ns) BY <2>1, <3>1
    <3>3. \A j \in (pool.first[b] + 1)..Len(ns) : j \in 1..Len(ns) BY <2>1, <3>1
    <3> QED BY <1>2, <1>4, <2>1, <3>1, <3>2, <3>3
  <2> QED BY <2>3, <2>4 DEF Hashed
<1>6. Apart(q) BY <1>2 DEF Apart, PoolOK, IsNodeOf
<1> QED BY <1>3, <1>5, <1>6 DEF PoolOK, q

(* A pool without nodes is sound.                                          *)
LEMMA EmptyPoolOK ==
    ASSUME NEW P, NEW X, NEW pool,
           NEW h \in Nat \ {0}, NEW n \in Nat,
           pool = [max |-> n, nodes |-> <<>>, next |-> <<>>,
                   first |-> [b \in 0..(h - 1) |-> 0]]
    PROVE  PoolOK(pool, P, X)
<1>1. /\ pool.max = n /\ pool.nodes = <<>> /\ pool.next = <<>>
      /\ pool.first = [b \in 0..(h - 1) |-> 0]
  OBVIOUS
<1>2. /\ Len(pool.nodes) = 0 /\ Len(pool.next) = 0
      /\ pool.nodes \in Seq(NodeSet(P, X)) /\ pool.next \in Seq(Nat)
      /\ pool.first \in [0..(h - 1) -> Nat] /\ \A b \in 0..(h - 1) : pool.first[b] = 0
      /\ DOMAIN pool.first = 0..(h - 1)
  BY <1>1
<1>3. PoolTyped(pool, P, X) BY <1>1, <1>2 DEF PoolTyped
<1>4. Hashed(pool) /\ Apart(pool) BY <1>2 DEF Hashed, Apart
<1> QED BY <1>3, <1>4 DEF PoolOK

(* clear leaves a sound, empty pool.                                       *)
LEMMA ClearPoolOK ==
    ASSUME NEW P, NEW X, NEW pool, PoolTyped(pool, P, X)
    PROVE  /\ PoolOK(ClearPool(pool), P, X)
           /\ ClearPool(pool).max = pool.max /\ ClearPool(pool).nodes = <<>>
<1>1. PICK h \in Nat \ {0} :
         pool \in [max : Nat, nodes : Seq(NodeSet(P, X)), next : Seq(Nat),
                   first : [0..(h - 1) -> Nat]]
  BY DEF PoolTyped
<1>2. ClearPool(pool) = [max |-> pool.max, nodes |-> <<>>, next |-> <<>>,
                         first |-> [b \in 0..(h - 1) |-> 0]]
  <2> DEFINE clear == [b \in DOMAIN pool.first |-> 0]
  <2>1. ClearPool(pool) = [pool EXCEPT !.nodes = <<>>, !.next = <<>>, !.first = clear]
    BY <1>1 DEF ClearPool
  <2>2. clear = [b \in 0..(h - 1) |-> 0] BY <1>1
  <2> HIDE DEF clear
  <2>3. ClearPool(pool) = [max |-> pool.max, nodes |-> <<>>, next |-> <<>>, first |-> clear]
    BY <1>1, <2>1
  <2> QED BY <2>2, <2>3
<1> QED BY <1>1, <1>2, EmptyPoolOK

-------------------------------------------------------------------------------
(* How many buckets *)

Up_(v) == CHOOSE g : g = [n \in 0..v |-> IF n <= 1 THEN n ELSE 2 * g[(n + 1) \div 2]]

(* dtNextPow2 of a positive number is positive.                            *)
LEMMA NextPow2Is ==
    ASSUME NEW v \in Nat \ {0}
    PROVE  NextPow2(v) \in Nat \ {0}
<1> DEFINE D == 0..v
           m == [d \in D |-> d]
           G == [p \in D \X [D -> Nat] |->
                   IF p[1] <= 1 THEN p[1] ELSE 2 * p[2][(p[1] + 1) \div 2]]
           Is(f) == f = [n \in D |-> IF n <= 1 THEN n ELSE 2 * f[(n + 1) \div 2]]
<1>1. \A d \in D : d > 1 => (d + 1) \div 2 \in D /\ (d + 1) \div 2 < d /\ (d + 1) \div 2 > 0
  OBVIOUS
<1>2. \A d \in D, f \in [D -> Nat] :
         G[<<d, f>>] = IF d <= 1 THEN d ELSE 2 * f[(d + 1) \div 2]
  OBVIOUS
<1>3. G \in [D \X [D -> Nat] -> Nat]
  <2>1. ASSUME NEW d \in D, NEW f \in [D -> Nat] PROVE G[<<d, f>>] \in Nat
    <3>1. CASE d <= 1 BY <1>2, <3>1
    <3>2. CASE d > 1
      <4>1. f[(d + 1) \div 2] \in Nat BY <1>1, <3>2
      <4>2. G[<<d, f>>] = 2 * f[(d + 1) \div 2] BY <1>2, <3>2
      <4> HIDE DEF G
      <4> QED BY <4>1, <4>2
    <3> HIDE DEF G
    <3> QED BY <3>1, <3>2
  <2> QED BY <2>1
<1>4. \A d \in D : \A f, g \in [D -> Nat] :
         (\A e \in D : m[e] < m[d] => f[e] = g[e]) => G[<<d, f>>] = G[<<d, g>>]
  <2> SUFFICES ASSUME NEW d \in D, NEW f \in [D -> Nat], NEW g \in [D -> Nat],
                      \A e \in D : m[e] < m[d] => f[e] = g[e]
               PROVE  G[<<d, f>>] = G[<<d, g>>]
    OBVIOUS
  <2>1. d > 1 => f[(d + 1) \div 2] = g[(d + 1) \div 2] BY <1>1
  <2> HIDE DEF G, m
  <2>2. /\ G[<<d, f>>] = IF d <= 1 THEN d ELSE 2 * f[(d + 1) \div 2]
        /\ G[<<d, g>>] = IF d <= 1 THEN d ELSE 2 * g[(d + 1) \div 2]
    BY <1>2
  <2> QED BY <2>1, <2>2
<1>5. Recurs(D, Nat, G)
  <2>1. m \in [D -> 0..v] /\ Nat # {} OBVIOUS
  <2> HIDE DEF G, m, D
  <2>2. Descends(D, Nat, v, m, G) BY <1>3, <1>4, <2>1 DEF Descends
  <2> QED BY <2>2, Recursion
<1> HIDE DEF G, m
<1>6. PICK f \in [D -> Nat] : Is(f)
  <2>1. PICK f \in [D -> Nat] : f = [d \in D |-> G[<<d, f>>]] BY <1>5 DEF Recurs
  <2>2. Is(f) BY <1>2, <2>1
  <2> QED BY <2>2
<1> DEFINE F == Up_(v)
<1>7. Is(F)
  <2>1. Up_(v) = CHOOSE g : Is(g) BY DEF Up_
  <2> QED BY <1>6, <2>1
<1> HIDE DEF F
<1>8. \A n \in D : F[n] = IF n <= 1 THEN n ELSE 2 * F[(n + 1) \div 2] BY <1>7
<1> DEFINE T == {k \in Nat : \A n \in 1..v : n <= k => F[n] \in Nat \ {0}}
<1>9. 0 \in T OBVIOUS
<1>10. ASSUME NEW k \in Nat, k \in T PROVE k + 1 \in T
  <2> SUFFICES ASSUME NEW n \in 1..v, n <= k + 1 PROVE F[n] \in Nat \ {0}
    OBVIOUS
  <2>1. CASE n = 1 BY <1>8, <2>1
  <2>2. CASE n > 1
    <3>1. (n + 1) \div 2 \in 1..v /\ (n + 1) \div 2 <= k BY <1>1, <2>2
    <3>2. F[(n + 1) \div 2] \in Nat \ {0} BY <1>10, <3>1
    <3>3. F[n] = 2 * F[(n + 1) \div 2] BY <1>8, <2>2
    <3> QED BY <3>2, <3>3
  <2> QED BY <2>1, <2>2
<1> HIDE DEF T
<1>11. v \in T BY <1>9, <1>10, NatInd
<1>12. NextPow2(v) = F[v] BY DEF NextPow2, Up_, F
<1> QED BY <1>11, <1>12 DEF T

(* A pool is sound when it has been made.                                  *)
LEMMA NodePoolOK ==
    ASSUME NEW P, NEW X, NEW n \in Nat, n >= 4
    PROVE  /\ PoolOK(NodePool(n, NextPow2(n \div 4)), P, X)
           /\ NodePool(n, NextPow2(n \div 4)).max = n
           /\ NodePool(n, NextPow2(n \div 4)).nodes = <<>>
<1>1. n \div 4 \in Nat \ {0} OBVIOUS
<1>2. NextPow2(n \div 4) \in Nat \ {0} BY <1>1, NextPow2Is
<1> QED BY <1>2, EmptyPoolOK DEF NodePool

-------------------------------------------------------------------------------
(* The open list *)

TotalOf(pool, i) == pool.nodes[i].total

Sorted(pool, heap) ==
    \A s \in DOMAIN heap \ {0} : TotalOf(pool, heap[Parent(s)]) <= TotalOf(pool, heap[s])

HeapTyped(pool, heap, n) ==
    /\ heap \in [0..(n - 1) -> 1..Len(pool.nodes)]
    /\ \A i \in 1..Len(pool.nodes) : TotalOf(pool, i) \in Nat
    /\ Len(pool.nodes) \in Nat

(* A slot's parent is before it.                                           *)
LEMMA ParentIs ==
    ASSUME NEW s \in Nat \ {0}
    PROVE  Parent(s) \in 0..(s - 1) /\ (s = 2 * Parent(s) + 1 \/ s = 2 * Parent(s) + 2)
BY DEF Parent

(* The slots a hole at `at` climbs through, down to the one it stops in.   *)
Climb_(pool, heap, at, node) ==
    CHOOSE g : g = [s \in 0..at |->
        IF s > 0 /\ pool.nodes[heap[Parent(s)]].total > pool.nodes[node].total
        THEN {s} \cup g[Parent(s)] ELSE {s}]

ClimbsBy(pool, heap, at, node, climb) ==
    \A s \in 0..at :
        climb[s] = IF s > 0 /\ TotalOf(pool, heap[Parent(s)]) > TotalOf(pool, node)
                   THEN {s} \cup climb[Parent(s)] ELSE {s}

(* The slots a hole climbs through, one at a time.                         *)
LEMMA ClimbIs ==
    ASSUME NEW pool, NEW heap, NEW at \in Nat, NEW node
    PROVE  ClimbsBy(pool, heap, at, node, Climb_(pool, heap, at, node))
<1> DEFINE D == 0..at
           V == SUBSET D
           m == [d \in D |-> d]
           Up(s) == s > 0 /\ TotalOf(pool, heap[Parent(s)]) > TotalOf(pool, node)
           G == [p \in D \X [D -> V] |->
                   IF Up(p[1]) THEN {p[1]} \cup p[2][Parent(p[1])] ELSE {p[1]}]
           Is(f) == f = [s \in D |-> IF Up(s) THEN {s} \cup f[Parent(s)] ELSE {s}]
<1>1. \A d \in D : Up(d) => Parent(d) \in D /\ Parent(d) < d
  <2> SUFFICES ASSUME NEW d \in D, d > 0 PROVE Parent(d) \in D /\ Parent(d) < d
    OBVIOUS
  <2>1. d \in Nat \ {0} OBVIOUS
  <2> QED BY <2>1, ParentIs
<1> HIDE DEF Up
<1>2. \A d \in D, f \in [D -> V] :
         G[<<d, f>>] = IF Up(d) THEN {d} \cup f[Parent(d)] ELSE {d}
  OBVIOUS
<1>3. G \in [D \X [D -> V] -> V]
  <2>1. ASSUME NEW d \in D, NEW f \in [D -> V] PROVE G[<<d, f>>] \in V
    <3>1. Up(d) => f[Parent(d)] \in V BY <1>1
    <3>2. G[<<d, f>>] = IF Up(d) THEN {d} \cup f[Parent(d)] ELSE {d} BY <1>2
    <3> HIDE DEF G
    <3> QED BY <3>1, <3>2
  <2> QED BY <2>1
<1>4. \A d \in D : \A f, g \in [D -> V] :
         (\A e \in D : m[e] < m[d] => f[e] = g[e]) => G[<<d, f>>] = G[<<d, g>>]
  <2> SUFFICES ASSUME NEW d \in D, NEW f \in [D -> V], NEW g \in [D -> V],
                      \A e \in D : m[e] < m[d] => f[e] = g[e]
               PROVE  G[<<d, f>>] = G[<<d, g>>]
    OBVIOUS
  <2>1. Up(d) => f[Parent(d)] = g[Parent(d)] BY <1>1
  <2> HIDE DEF G, m, V, D
  <2>2. /\ G[<<d, f>>] = IF Up(d) THEN {d} \cup f[Parent(d)] ELSE {d}
        /\ G[<<d, g>>] = IF Up(d) THEN {d} \cup g[Parent(d)] ELSE {d}
    BY <1>2
  <2> QED BY <2>1, <2>2
<1>5. Recurs(D, V, G)
  <2>1. m \in [D -> 0..at] /\ V # {} OBVIOUS
  <2> HIDE DEF G, m, V, D
  <2>2. Descends(D, V, at, m, G) BY <1>3, <1>4, <2>1 DEF Descends
  <2> QED BY <2>2, Recursion
<1> HIDE DEF G, m
<1>6. PICK f \in [D -> V] : Is(f)
  <2>1. PICK f \in [D -> V] : f = [d \in D |-> G[<<d, f>>]] BY <1>5 DEF Recurs
  <2>2. Is(f) BY <1>2, <2>1
  <2> QED BY <2>2
<1>7. Is(Climb_(pool, heap, at, node))
  <2>1. Climb_(pool, heap, at, node) = CHOOSE g : Is(g) BY DEF Climb_, Up, TotalOf
  <2> QED BY <1>6, <2>1
<1> HIDE DEF D
<1> QED BY <1>7 DEF D, Up, ClimbsBy

(* A hole from s to where it stops: each slot of it but the last is above  *)
(* another, and what comes down into it is larger than the node.           *)
HoleFrom(pool, heap, node, hole, m, s) ==
    /\ s \in hole /\ hole \subseteq 0..s
    /\ m \in hole /\ \A t \in hole : m <= t
    /\ m = 0 \/ ~(TotalOf(pool, heap[Parent(m)]) > TotalOf(pool, node))
    /\ \A t \in hole \ {m} : /\ Parent(t) \in hole
                             /\ TotalOf(pool, heap[Parent(t)]) > TotalOf(pool, node)
    /\ \A u, v \in hole : u < v => u <= Parent(v)
    /\ \A t \in hole \ {s} : \E u \in hole \ {m} : Parent(u) = t

(* A climb passes larger totals only and stops below a smaller one.        *)
LEMMA ClimbsHole ==
    ASSUME NEW pool, NEW heap, NEW at \in Nat, NEW node
    PROVE  \E m : HoleFrom(pool, heap, node, Climb_(pool, heap, at, node)[at], m, at)
<1> DEFINE C == Climb_(pool, heap, at, node)
           Up(s) == s > 0 /\ TotalOf(pool, heap[Parent(s)]) > TotalOf(pool, node)
           Right(s) == \E m : HoleFrom(pool, heap, node, C[s], m, s)
           T == {k \in Nat : \A s \in 0..at : s <= k => Right(s)}
<1>1. \A s \in 0..at : C[s] = IF Up(s) THEN {s} \cup C[Parent(s)] ELSE {s}
  <2>1. ClimbsBy(pool, heap, at, node, C) BY ClimbIs
  <2> HIDE DEF C
  <2> QED BY <2>1 DEF ClimbsBy
<1> HIDE DEF C
<1>2. ASSUME NEW s \in 0..at, ~Up(s) PROVE Right(s)
  <2>1. C[s] = {s} BY <1>1, <1>2
  <2>2. s = 0 \/ ~(TotalOf(pool, heap[Parent(s)]) > TotalOf(pool, node)) BY <1>2
  <2>3. HoleFrom(pool, heap, node, {s}, s, s) BY <2>2 DEF HoleFrom
  <2> QED BY <2>1, <2>3
<1>3. ASSUME NEW s \in 0..at, Up(s), Right(Parent(s)) PROVE Right(s)
  <2> DEFINE p == Parent(s)
  <2>1. p \in 0..(s - 1) BY <1>3, ParentIs
  <2>2. C[s] = {s} \cup C[p] BY <1>1, <1>3
  <2>3. PICK m : HoleFrom(pool, heap, node, C[p], m, p) BY <1>3
  <2>4. TotalOf(pool, heap[p]) > TotalOf(pool, node) BY <1>3
  <2>5. p = Parent(s) OBVIOUS
  <2> HIDE DEF p
  <2>6. C[p] \subseteq 0..p /\ m \in C[p] BY <2>3 DEF HoleFrom
  <2>7. m # s /\ m <= s BY <2>1, <2>6
  <2>8. \A u, v \in C[s] : u < v => u <= Parent(v)
    <3> SUFFICES ASSUME NEW u \in C[s], NEW v \in C[s], u < v PROVE u <= Parent(v)
      OBVIOUS
    <3>1. CASE v = s
      <4>1. u \in C[p] BY <2>2, <3>1
      <4> QED BY <2>1, <2>5, <2>6, <3>1, <4>1
    <3>2. CASE v # s
      <4>1. v \in C[p] BY <2>2, <3>2
      <4>2. u # s BY <2>1, <2>6, <4>1
      <4> QED BY <2>2, <2>3, <4>1, <4>2 DEF HoleFrom
    <3> QED BY <3>1, <3>2
  <2>9. \A t \in C[s] \ {s} : \E u \in C[s] \ {m} : Parent(u) = t
    <3> TAKE t \in C[s] \ {s}
    <3>1. CASE t = p
      <4>1. s \in C[s] \ {m} BY <2>2, <2>7
      <4> QED BY <2>5, <3>1, <4>1
    <3>2. CASE t # p
      <4>1. t \in C[p] \ {p} BY <2>2, <3>2
      <4>2. PICK u \in C[p] \ {m} : Parent(u) = t BY <2>3, <4>1 DEF HoleFrom
      <4> QED BY <2>2, <4>2
    <3> QED BY <3>1, <3>2
  <2>10. C[s] \subseteq 0..s /\ s \in C[s] BY <2>1, <2>2, <2>6
  <2>11. m \in C[s] /\ \A t \in C[s] : m <= t BY <2>2, <2>3, <2>7 DEF HoleFrom
  <2>12. m = 0 \/ ~(TotalOf(pool, heap[Parent(m)]) > TotalOf(pool, node))
    BY <2>3 DEF HoleFrom
  <2>13. \A t \in C[s] \ {m} : /\ Parent(t) \in C[s]
                               /\ TotalOf(pool, heap[Parent(t)]) > TotalOf(pool, node)
    <3> TAKE t \in C[s] \ {m}
    <3>1. CASE t = s
      <4>1. p \in C[p] BY <2>3 DEF HoleFrom
      <4> QED BY <2>2, <2>4, <2>5, <3>1, <4>1
    <3>2. CASE t # s
      <4>1. t \in C[p] \ {m} BY <2>2, <3>2
      <4> QED BY <2>2, <2>3, <4>1 DEF HoleFrom
    <3> QED BY <3>1, <3>2
  <2>14. HoleFrom(pool, heap, node, C[s], m, s)
    BY <2>8, <2>9, <2>10, <2>11, <2>12, <2>13 DEF HoleFrom
  <2> QED BY <2>14
<1>4. 0 \in T
  <2>1. Right(0) BY <1>2
  <2> HIDE DEF Right
  <2> QED BY <2>1
<1>5. ASSUME NEW k \in Nat, k \in T PROVE k + 1 \in T
  <2> SUFFICES ASSUME NEW s \in 0..at, s <= k + 1 PROVE Right(s)
    OBVIOUS
  <2>1. CASE ~Up(s) BY <1>2, <2>1
  <2>2. CASE Up(s)
    <3>1. Parent(s) \in 0..(s - 1) BY <2>2, ParentIs
    <3>2. Parent(s) \in 0..at /\ Parent(s) <= k BY <3>1
    <3> HIDE DEF Right
    <3>3. Right(Parent(s)) BY <1>5, <3>2
    <3> QED BY <1>3, <2>2, <3>3
  <2> QED BY <2>1, <2>2
<1> HIDE DEF T, Right
<1>6. at \in T BY <1>4, <1>5, NatInd
<1> QED BY <1>6 DEF T, Right, C

(* What climbing makes of a heap with a hole at `at`.                      *)
Raised(heap, hole, m, node, slots) ==
    [s \in slots |-> IF s = m THEN node
                     ELSE IF s \in hole THEN heap[Parent(s)] ELSE heap[s]]

RaisedByHole(pool, heap, at, node, after) ==
    \E hole, m : /\ HoleFrom(pool, heap, node, hole, m, at)
                 /\ after = Raised(heap, hole, m, node, DOMAIN heap \cup {at})

(* What bubbleUp leaves in each slot.                                      *)
LEMMA BubbleUpIs ==
    ASSUME NEW pool, NEW heap, NEW at \in Nat, NEW node
    PROVE  RaisedByHole(pool, heap, at, node, BubbleUp(pool, heap, at, node))
<1> DEFINE C == Climb_(pool, heap, at, node)
           hole == C[at]
<1>1. PICK m : HoleFrom(pool, heap, node, hole, m, at) BY ClimbsHole
<1>2. BubbleUp(pool, heap, at, node)
         = Raised(heap, hole, Min(hole), node, DOMAIN heap \cup {at})
  BY DEF BubbleUp, Climb_, Raised
<1> HIDE DEF hole
<1>3. Min(hole) = m
  <2>1. hole \subseteq Nat /\ m \in hole /\ \A t \in hole : m <= t
    BY <1>1 DEF HoleFrom
  <2> DEFINE Least(x) == x \in hole /\ \A y \in hole : x <= y
  <2>2. \A x : Least(x) => x = m BY <2>1
  <2>3. Least(m) BY <2>1
  <2>4. Min(hole) = CHOOSE x : Least(x) BY DEF Min
  <2> HIDE DEF Least
  <2> QED BY <2>2, <2>3, <2>4
<1> QED BY <1>1, <1>2, <1>3 DEF RaisedByHole

(* The heap with the hole filled by the node, before it climbs.            *)
Filled(heap, at, node, t) == IF t = at THEN node ELSE heap[t]

(* Every slot of `after` holds what some slot of the filled heap held, and *)
(* no two slots the same one.                                              *)
Permutes(heap, at, node, n, after) ==
    /\ after = [s \in 0..(n - 1) |-> after[s]]
    /\ \E src \in [0..(n - 1) -> 0..(n - 1)] :
          /\ \A s \in 0..(n - 1) : after[s] = Filled(heap, at, node, src[s])
          /\ \A s, t \in 0..(n - 1) : src[s] = src[t] => s = t
          /\ \A t \in 0..(n - 1) : \E s \in 0..(n - 1) : src[s] = t

(* bubbleUp moves nodes and loses none.                                    *)
LEMMA RaisedPermutes ==
    ASSUME NEW pool, NEW heap, NEW n \in Nat \ {0}, NEW at \in 0..(n - 1), NEW node,
           NEW hole, NEW m, HoleFrom(pool, heap, node, hole, m, at)
    PROVE  Permutes(heap, at, node, n, Raised(heap, hole, m, node, 0..(n - 1)))
<1> DEFINE S == 0..(n - 1)
           h == Raised(heap, hole, m, node, S)
           src == [s \in S |-> IF s = m THEN at ELSE IF s \in hole THEN Parent(s) ELSE s]
<1>1. /\ at \in hole /\ hole \subseteq 0..at /\ m \in hole
      /\ \A t \in hole : m <= t
      /\ \A t \in hole \ {m} : Parent(t) \in hole
      /\ \A u, v \in hole : u < v => u <= Parent(v)
      /\ \A t \in hole \ {at} : \E u \in hole \ {m} : Parent(u) = t
  BY DEF HoleFrom
<1>2. \A t \in hole \ {m} : t \in Nat \ {0} /\ Parent(t) \in 0..(t - 1)
  <2> TAKE t \in hole \ {m}
  <2>1. t \in Nat \ {0} BY <1>1
  <2> QED BY <2>1, ParentIs
<1>3. \A t \in hole \ {m} : Parent(t) \in S /\ Parent(t) # at BY <1>1, <1>2
<1>4. src \in [S -> S] BY <1>3
<1>5. \A s \in S : h[s] = Filled(heap, at, node, src[s])
  <2> TAKE s \in S
  <2>1. CASE s = m BY <2>1 DEF Raised, Filled
  <2>2. CASE s # m /\ s \in hole BY <1>3, <2>2 DEF Raised, Filled
  <2>3. CASE s # m /\ s \notin hole BY <1>1, <2>3 DEF Raised, Filled
  <2> QED BY <2>1, <2>2, <2>3
<1>6. \A s, t \in S : src[s] = src[t] => s = t
  <2> SUFFICES ASSUME NEW s \in S, NEW t \in S, src[s] = src[t] PROVE s = t
    OBVIOUS
  <2>1. CASE s \in hole \ {m} /\ t \in hole \ {m}
    <3>1. Parent(s) = Parent(t) BY <2>1
    <3> QED BY <1>1, <1>2, <2>1, <3>1
  <2>2. CASE s \notin hole \/ t \notin hole
    BY <1>1, <1>3, <2>2
  <2>3. CASE s = m \/ t = m
    BY <1>1, <1>3, <2>3
  <2> QED BY <2>1, <2>2, <2>3
<1>7. \A t \in S : \E s \in S : src[s] = t
  <2> TAKE t \in S
  <2>1. CASE t = at
    <3>1. m \in S BY <1>1
    <3> QED BY <2>1, <3>1
  <2>2. CASE t # at /\ t \in hole
    <3>1. PICK u \in hole \ {m} : Parent(u) = t BY <1>1, <2>2
    <3>2. u \in S BY <1>1
    <3> QED BY <3>1, <3>2
  <2>3. CASE t # at /\ t \notin hole
    <3>1. t # m BY <1>1, <2>3
    <3> QED BY <2>3, <3>1
  <2> QED BY <2>1, <2>2, <2>3
<1>8. h = [s \in S |-> h[s]] BY DEF Raised
<1> HIDE DEF src, h
<1>9. Permutes(heap, at, node, n, h) BY <1>4, <1>5, <1>6, <1>7, <1>8 DEF Permutes
<1> QED BY <1>9 DEF h

(* What lets a hole at `at` be filled by climbing.                         *)
SortedButFor(pool, heap, n, at, node) ==
    /\ \A s \in 0..(n - 1) : TotalOf(pool, Filled(heap, at, node, s)) \in Nat
    /\ \A s \in 1..(n - 1) : s # at /\ Parent(s) # at =>
          TotalOf(pool, heap[Parent(s)]) <= TotalOf(pool, heap[s])
    /\ \A s \in 1..(n - 1) : Parent(s) = at =>
          /\ TotalOf(pool, node) <= TotalOf(pool, heap[s])
          /\ at > 0 => TotalOf(pool, heap[Parent(at)]) <= TotalOf(pool, heap[s])

(* bubbleUp leaves every parent's total no larger than its child's.        *)
LEMMA RaisedSorted ==
    ASSUME NEW pool, NEW heap, NEW n \in Nat \ {0}, NEW at \in 0..(n - 1), NEW node,
           NEW hole, NEW m, HoleFrom(pool, heap, node, hole, m, at),
           SortedButFor(pool, heap, n, at, node)
    PROVE  Sorted(pool, Raised(heap, hole, m, node, 0..(n - 1)))
<1> DEFINE S == 0..(n - 1)
           h == Raised(heap, hole, m, node, S)
           T(s) == TotalOf(pool, heap[s])
           N == TotalOf(pool, node)
<1>1. /\ at \in hole /\ hole \subseteq 0..at /\ m \in hole
      /\ \A t \in hole : m <= t
      /\ m = 0 \/ ~(T(Parent(m)) > N)
      /\ \A t \in hole \ {m} : Parent(t) \in hole /\ T(Parent(t)) > N
      /\ \A t \in hole \ {at} : \E u \in hole \ {m} : Parent(u) = t
  BY DEF HoleFrom
<1>2. /\ N \in Nat
      /\ \A s \in S : s # at => T(s) \in Nat
      /\ \A s \in 1..(n - 1) : s # at /\ Parent(s) # at => T(Parent(s)) <= T(s)
      /\ \A s \in 1..(n - 1) : Parent(s) = at =>
            N <= T(s) /\ (at > 0 => T(Parent(at)) <= T(s))
  BY DEF SortedButFor, Filled
<1>3. \A s \in 1..(n - 1) : Parent(s) \in 0..(s - 1)
  <2> TAKE s \in 1..(n - 1)
  <2>1. s \in Nat \ {0} OBVIOUS
  <2> QED BY <2>1, ParentIs
<1>4. \A s \in S : TotalOf(pool, h[s]) = IF s = m THEN N
                     ELSE IF s \in hole THEN T(Parent(s)) ELSE T(s)
  BY DEF Raised
<1>5. DOMAIN h = S BY DEF Raised
<1> HIDE DEF h, T, N
<1>6. SUFFICES ASSUME NEW s \in 1..(n - 1)
               PROVE  TotalOf(pool, h[Parent(s)]) <= TotalOf(pool, h[s])
  BY <1>5 DEF Sorted, h
<1> DEFINE p == Parent(s)
<1>7. p \in 0..(s - 1) BY <1>3
<1>8. p = Parent(s) OBVIOUS
<1>9. s \in S /\ p \in S /\ s # 0 BY <1>7
<1> HIDE DEF p, S
<1>10. SUFFICES TotalOf(pool, h[p]) <= TotalOf(pool, h[s]) BY <1>8
<1>11. CASE s = m
  <2>1. p \notin hole /\ p # at BY <1>1, <1>7, <1>11
  <2>2. TotalOf(pool, h[p]) = T(p) /\ T(p) \in Nat BY <1>1, <1>2, <1>4, <1>9, <2>1
  <2>3. TotalOf(pool, h[s]) = N BY <1>4, <1>9, <1>11
  <2> QED BY <1>1, <1>2, <1>8, <1>9, <1>11, <2>2, <2>3
<1>12. CASE s \in hole \ {m}
  <2>1. p \in hole /\ T(p) > N /\ p < at BY <1>1, <1>7, <1>8, <1>12
  <2>2. TotalOf(pool, h[s]) = T(p) /\ T(p) \in Nat BY <1>2, <1>4, <1>8, <1>9, <1>12, <2>1
  <2>3. CASE p = m BY <1>2, <1>4, <1>9, <2>1, <2>2, <2>3
  <2>4. CASE p # m
    <3>1. p \in 1..(n - 1) BY <1>1, <1>7, <2>1, <2>4
    <3>2. Parent(p) # at BY <1>3, <2>1, <3>1
    <3> QED BY <1>2, <1>4, <1>9, <2>1, <2>2, <2>4, <3>1, <3>2
  <2> QED BY <2>3, <2>4
<1>13. CASE s \notin hole /\ p \in hole
  <2>1. TotalOf(pool, h[s]) = T(s) /\ T(s) \in Nat /\ s # at BY <1>1, <1>2, <1>4, <1>9, <1>13
  <2>2. CASE p = m /\ m = at BY <1>2, <1>4, <1>8, <1>9, <2>1, <2>2
  <2>3. CASE p = m /\ m # at
    <3>1. T(m) > N BY <1>1, <2>3
    <3>2. T(m) <= T(s) BY <1>2, <1>8, <2>1, <2>3
    <3>3. T(m) \in Nat BY <1>2, <1>9, <2>3
    <3> QED BY <1>2, <1>4, <1>9, <2>1, <2>3, <3>1, <3>2, <3>3
  <2>4. CASE p # m
    <3>1. p \in 1..(n - 1) BY <1>1, <1>7, <1>13, <2>4
    <3>2. Parent(p) \in 0..(p - 1) BY <1>3, <3>1
    <3>3. Parent(p) # at /\ Parent(p) \in S BY <1>1, <1>7, <1>13, <3>1, <3>2 DEF S
    <3>4. TotalOf(pool, h[p]) = T(Parent(p)) /\ T(Parent(p)) \in Nat
      BY <1>2, <1>4, <1>9, <1>13, <2>4, <3>3
    <3>5. CASE p = at
      <4> DEFINE Below == \A c \in 1..(n - 1) : Parent(c) = at =>
                             N <= T(c) /\ (at > 0 => T(Parent(at)) <= T(c))
      <4>0. Below BY <1>2
      <4>2. s \in 1..(n - 1) /\ Parent(s) = at /\ at > 0 BY <1>8, <3>1, <3>5
      <4>1. T(Parent(at)) <= T(s) BY <4>0, <4>2
      <4> QED BY <2>1, <3>4, <3>5, <4>1
    <3>6. CASE p # at
      <4>1. T(Parent(p)) <= T(p) /\ T(p) <= T(s) BY <1>2, <1>8, <2>1, <3>1, <3>3, <3>6
      <4>2. T(p) \in Nat BY <1>2, <1>9, <3>6
      <4> QED BY <2>1, <3>4, <4>1, <4>2
    <3> QED BY <3>5, <3>6
  <2> QED BY <2>2, <2>3, <2>4
<1>14. CASE s \notin hole /\ p \notin hole
  <2>1. s # at /\ p # at /\ s # m /\ p # m BY <1>1, <1>14
  <2> QED BY <1>2, <1>4, <1>8, <1>9, <1>14, <2>1
<1> QED BY <1>11, <1>12, <1>13, <1>14

(* A hole that may be filled is, and the heap is in order again.           *)
LEMMA BubbleUpOK ==
    ASSUME NEW pool, NEW heap, NEW n \in Nat \ {0}, NEW at \in 0..(n - 1), NEW node,
           DOMAIN heap \cup {at} = 0..(n - 1),
           SortedButFor(pool, heap, n, at, node)
    PROVE  /\ Permutes(heap, at, node, n, BubbleUp(pool, heap, at, node))
           /\ Sorted(pool, BubbleUp(pool, heap, at, node))
<1>1. PICK hole, m :
         /\ HoleFrom(pool, heap, node, hole, m, at)
         /\ BubbleUp(pool, heap, at, node)
               = Raised(heap, hole, m, node, DOMAIN heap \cup {at})
  <2>1. at \in Nat OBVIOUS
  <2>2. RaisedByHole(pool, heap, at, node, BubbleUp(pool, heap, at, node))
    BY <2>1, BubbleUpIs
  <2> QED BY <2>2 DEF RaisedByHole
<1>2. BubbleUp(pool, heap, at, node) = Raised(heap, hole, m, node, 0..(n - 1))
  BY <1>1
<1> QED BY <1>1, <1>2, RaisedPermutes, RaisedSorted

(* The parent of either child of a slot is that slot.                      *)
LEMMA ParentOf ==
    ASSUME NEW s \in Nat
    PROVE  Parent(2 * s + 1) = s /\ Parent(2 * s + 2) = s
<1>1. (2 * s + 1 - 1) \div 2 = s /\ (2 * s + 2 - 1) \div 2 = s OBVIOUS
<1> QED BY <1>1 DEF Parent

(* The smaller of the children a slot has.                                 *)
LEMMA ChildIs ==
    ASSUME NEW pool, NEW heap, NEW n \in Nat, DOMAIN heap = 0..(n - 1),
           \A s \in 0..(n - 1) : TotalOf(pool, heap[s]) \in Nat,
           NEW s \in 0..(n - 1), 2 * s + 1 \in DOMAIN heap
    PROVE  /\ Child(pool, heap, s) \in {2 * s + 1, 2 * s + 2}
           /\ Child(pool, heap, s) \in (s + 1)..(n - 1)
           /\ \A c \in 0..(n - 1) : c = 2 * s + 1 \/ c = 2 * s + 2 =>
                 TotalOf(pool, heap[Child(pool, heap, s)]) <= TotalOf(pool, heap[c])
<1> DEFINE left == 2 * s + 1
<1>1. /\ left \in (s + 1)..(n - 1) /\ left + 1 = 2 * s + 2
      /\ left + 1 \in DOMAIN heap => left + 1 \in (s + 1)..(n - 1)
  OBVIOUS
<1>2. Child(pool, heap, s)
         = IF left + 1 \in DOMAIN heap /\ TotalOf(pool, heap[left]) > TotalOf(pool, heap[left + 1])
           THEN left + 1 ELSE left
  BY DEF Child, TotalOf
<1> HIDE DEF left
<1>3. CASE left + 1 \in DOMAIN heap /\ TotalOf(pool, heap[left]) > TotalOf(pool, heap[left + 1])
  <2>1. Child(pool, heap, s) = left + 1 BY <1>2, <1>3
  <2>2. TotalOf(pool, heap[left]) \in Nat /\ TotalOf(pool, heap[left + 1]) \in Nat
    BY <1>1, <1>3
  <2> QED BY <1>1, <1>3, <2>1, <2>2 DEF left
<1>4. CASE ~(left + 1 \in DOMAIN heap /\ TotalOf(pool, heap[left]) > TotalOf(pool, heap[left + 1]))
  <2>1. Child(pool, heap, s) = left BY <1>2, <1>4
  <2>2. TotalOf(pool, heap[left]) \in Nat BY <1>1
  <2>3. left + 1 \in DOMAIN heap =>
           TotalOf(pool, heap[left]) <= TotalOf(pool, heap[left + 1])
    <3>1. left + 1 \in DOMAIN heap => TotalOf(pool, heap[left + 1]) \in Nat BY <1>1
    <3> QED BY <1>4, <2>2, <3>1
  <2>4. \A c \in 0..(n - 1) : c = left \/ c = left + 1 =>
           TotalOf(pool, heap[left]) <= TotalOf(pool, heap[c])
    <3> TAKE c \in 0..(n - 1)
    <3>1. CASE c = left BY <2>2, <3>1
    <3>2. CASE c = left + 1 BY <2>3, <3>2
    <3> QED BY <3>1, <3>2
  <2> QED BY <1>1, <2>1, <2>4 DEF left
<1> QED BY <1>3, <1>4

(* The slots a hole sinks through, from the one it starts in to a leaf.    *)
Sink_(pool, heap) ==
    CHOOSE g : g = [s \in DOMAIN heap |->
        IF 2 * s + 1 \in DOMAIN heap
        THEN {s} \cup g[Child(pool, heap, s)] ELSE {s}]

SinksBy(pool, heap, sink) ==
    \A s \in DOMAIN heap :
        sink[s] = IF 2 * s + 1 \in DOMAIN heap
                  THEN {s} \cup sink[Child(pool, heap, s)] ELSE {s}

(* The slots a hole sinks through, one at a time.                          *)
LEMMA SinkIs ==
    ASSUME NEW pool, NEW heap, NEW n \in Nat, DOMAIN heap = 0..(n - 1),
           \A s \in 0..(n - 1) : TotalOf(pool, heap[s]) \in Nat
    PROVE  SinksBy(pool, heap, Sink_(pool, heap))
<1> DEFINE D == 0..(n - 1)
           V == SUBSET D
           m == [d \in D |-> n - d]
           Down(s) == 2 * s + 1 \in DOMAIN heap
           Next(s) == Child(pool, heap, s)
           G == [p \in D \X [D -> V] |->
                   IF Down(p[1]) THEN {p[1]} \cup p[2][Next(p[1])] ELSE {p[1]}]
           Is(f) == f = [s \in D |-> IF Down(s) THEN {s} \cup f[Next(s)] ELSE {s}]
<1>1. \A d \in D : Down(d) => Next(d) \in D /\ m[Next(d)] < m[d]
  <2> SUFFICES ASSUME NEW d \in D, Down(d) PROVE Next(d) \in D /\ m[Next(d)] < m[d]
    OBVIOUS
  <2>1. Next(d) \in (d + 1)..(n - 1) /\ d \in 0..(n - 1) BY ChildIs
  <2>2. \A e \in D : m[e] = n - e OBVIOUS
  <2>3. Next(d) \in D BY <2>1
  <2> HIDE DEF Next, m
  <2> QED BY <2>1, <2>2, <2>3
<1> HIDE DEF Down, Next
<1>2. \A d \in D, f \in [D -> V] :
         G[<<d, f>>] = IF Down(d) THEN {d} \cup f[Next(d)] ELSE {d}
  OBVIOUS
<1>3. G \in [D \X [D -> V] -> V]
  <2>1. ASSUME NEW d \in D, NEW f \in [D -> V] PROVE G[<<d, f>>] \in V
    <3>1. Down(d) => f[Next(d)] \in V BY <1>1
    <3>2. G[<<d, f>>] = IF Down(d) THEN {d} \cup f[Next(d)] ELSE {d} BY <1>2
    <3> HIDE DEF G
    <3> QED BY <3>1, <3>2
  <2> QED BY <2>1
<1>4. \A d \in D : \A f, g \in [D -> V] :
         (\A e \in D : m[e] < m[d] => f[e] = g[e]) => G[<<d, f>>] = G[<<d, g>>]
  <2> SUFFICES ASSUME NEW d \in D, NEW f \in [D -> V], NEW g \in [D -> V],
                      \A e \in D : m[e] < m[d] => f[e] = g[e]
               PROVE  G[<<d, f>>] = G[<<d, g>>]
    OBVIOUS
  <2>1. Down(d) => f[Next(d)] = g[Next(d)] BY <1>1
  <2> HIDE DEF G, m, V, D
  <2>2. /\ G[<<d, f>>] = IF Down(d) THEN {d} \cup f[Next(d)] ELSE {d}
        /\ G[<<d, g>>] = IF Down(d) THEN {d} \cup g[Next(d)] ELSE {d}
    BY <1>2
  <2> QED BY <2>1, <2>2
<1>5. Recurs(D, V, G)
  <2>0. V # {} OBVIOUS
  <2>1. m \in [D -> 0..n]
    <3>1. \A d \in D : n - d \in 0..n OBVIOUS
    <3> QED BY <3>1
  <2> HIDE DEF G, m, V, D
  <2>2. Descends(D, V, n, m, G) BY <1>3, <1>4, <2>0, <2>1 DEF Descends
  <2> QED BY <2>2, Recursion
<1> HIDE DEF G, m
<1>6. PICK f \in [D -> V] : Is(f)
  <2>1. PICK f \in [D -> V] : f = [d \in D |-> G[<<d, f>>]] BY <1>5 DEF Recurs
  <2>2. Is(f) BY <1>2, <2>1
  <2> QED BY <2>2
<1>7. Is(Sink_(pool, heap))
  <2>1. Sink_(pool, heap) = CHOOSE g : Is(g) BY DOMAIN heap = D DEF Sink_, Down, Next
  <2> QED BY <1>6, <2>1
<1> HIDE DEF D
<1> QED BY <1>7 DEF D, Down, Next, SinksBy

SinkFrom(pool, heap, n, sink, leaf, s) ==
    /\ s \in sink /\ sink \subseteq s..(n - 1)
    /\ leaf \in sink /\ \A t \in sink : t <= leaf
    /\ 2 * leaf + 1 \notin DOMAIN heap
    /\ \A t \in sink \ {leaf} : /\ 2 * t + 1 \in DOMAIN heap
                                /\ Child(pool, heap, t) \in sink
    /\ \A u, v \in sink : u < v => Child(pool, heap, u) <= v
    /\ \A t \in sink \ {s} : \E u \in sink \ {leaf} : Child(pool, heap, u) = t

(* A hole at the root sinks along smaller children to a leaf.              *)
LEMMA SinksThrough ==
    ASSUME NEW pool, NEW heap, NEW n \in Nat \ {0}, DOMAIN heap = 0..(n - 1),
           \A s \in 0..(n - 1) : TotalOf(pool, heap[s]) \in Nat
    PROVE  \E leaf : SinkFrom(pool, heap, n, Sink_(pool, heap)[0], leaf, 0)
<1> DEFINE C == Sink_(pool, heap)
           Down(s) == 2 * s + 1 \in DOMAIN heap
           Next(s) == Child(pool, heap, s)
           Right(s) == \E leaf : SinkFrom(pool, heap, n, C[s], leaf, s)
           T == {k \in Nat : \A s \in 0..(n - 1) : n - s <= k => Right(s)}
<1>1. \A s \in 0..(n - 1) : C[s] = IF Down(s) THEN {s} \cup C[Next(s)] ELSE {s}
  <2>1. SinksBy(pool, heap, C) BY SinkIs
  <2> HIDE DEF C
  <2> QED BY <2>1 DEF SinksBy
<1> HIDE DEF C
<1>2. \A s \in 0..(n - 1) : Down(s) => Next(s) \in (s + 1)..(n - 1)
  <2> SUFFICES ASSUME NEW s \in 0..(n - 1), Down(s) PROVE Next(s) \in (s + 1)..(n - 1)
    OBVIOUS
  <2> QED BY ChildIs
<1> HIDE DEF Next
<1>3. ASSUME NEW s \in 0..(n - 1), ~Down(s) PROVE Right(s)
  <2>1. C[s] = {s} BY <1>1, <1>3
  <2>2. SinkFrom(pool, heap, n, {s}, s, s) BY <1>3 DEF SinkFrom
  <2> QED BY <2>1, <2>2
<1>4. ASSUME NEW s \in 0..(n - 1), Down(s), Right(Next(s)) PROVE Right(s)
  <2> DEFINE p == Next(s)
  <2>1. p \in (s + 1)..(n - 1) BY <1>2, <1>4
  <2>2. C[s] = {s} \cup C[p] BY <1>1, <1>4
  <2>3. PICK leaf : SinkFrom(pool, heap, n, C[p], leaf, p) BY <1>4
  <2>5. p = Next(s) OBVIOUS
  <2> HIDE DEF p
  <2>4. /\ C[p] \subseteq p..(n - 1) /\ p \in C[p]
        /\ leaf \in C[p] /\ \A t \in C[p] : t <= leaf
        /\ 2 * leaf + 1 \notin DOMAIN heap
        /\ \A t \in C[p] \ {leaf} : Down(t) /\ Next(t) \in C[p]
        /\ \A u, v \in C[p] : u < v => Next(u) <= v
        /\ \A t \in C[p] \ {p} : \E u \in C[p] \ {leaf} : Next(u) = t
    BY <2>3 DEF SinkFrom, Next
  <2>6. leaf # s /\ s <= leaf BY <2>1, <2>4
  <2>7. \A u, v \in C[s] : u < v => Next(u) <= v
    <3> SUFFICES ASSUME NEW u \in C[s], NEW v \in C[s], u < v PROVE Next(u) <= v
      OBVIOUS
    <3>1. v \in C[p] BY <2>1, <2>2, <2>4
    <3>2. CASE u = s BY <2>4, <2>5, <3>1, <3>2
    <3>3. CASE u # s BY <2>2, <2>4, <3>1, <3>3
    <3> QED BY <3>2, <3>3
  <2>8. \A t \in C[s] \ {s} : \E u \in C[s] \ {leaf} : Next(u) = t
    <3> TAKE t \in C[s] \ {s}
    <3>1. CASE t = p
      <4>1. s \in C[s] \ {leaf} BY <2>2, <2>6
      <4> QED BY <2>5, <3>1, <4>1
    <3>2. CASE t # p
      <4>1. t \in C[p] \ {p} BY <2>2, <3>2
      <4>2. PICK u \in C[p] \ {leaf} : Next(u) = t BY <2>4, <4>1
      <4> QED BY <2>2, <4>2
    <3> QED BY <3>1, <3>2
  <2>9. \A t \in C[s] \ {leaf} : Down(t) /\ Next(t) \in C[s]
    BY <1>4, <2>2, <2>4, <2>5
  <2>10. C[s] \subseteq s..(n - 1) /\ s \in C[s] BY <2>1, <2>2, <2>4
  <2>11. leaf \in C[s] /\ \A t \in C[s] : t <= leaf BY <2>2, <2>4, <2>6
  <2>12. SinkFrom(pool, heap, n, C[s], leaf, s)
    BY <2>4, <2>7, <2>8, <2>9, <2>10, <2>11 DEF SinkFrom, Next
  <2> QED BY <2>12
<1>5. 0 \in T OBVIOUS
<1>6. ASSUME NEW k \in Nat, k \in T PROVE k + 1 \in T
  <2> SUFFICES ASSUME NEW s \in 0..(n - 1), n - s <= k + 1 PROVE Right(s)
    OBVIOUS
  <2>1. CASE ~Down(s) BY <1>3, <2>1
  <2>2. CASE Down(s)
    <3>1. Next(s) \in (s + 1)..(n - 1) BY <1>2, <2>2
    <3>2. Next(s) \in 0..(n - 1) /\ n - Next(s) <= k BY <3>1
    <3> HIDE DEF Right
    <3>3. Right(Next(s)) BY <1>6, <3>2
    <3> QED BY <1>4, <2>2, <3>3
  <2> QED BY <2>1, <2>2
<1> HIDE DEF T, Right
<1>7. n \in T BY <1>5, <1>6, NatInd
<1>8. 0 \in 0..(n - 1) /\ n - 0 <= n OBVIOUS
<1> QED BY <1>7, <1>8 DEF T, Right, C

(* The heap once a hole has sunk from the root to a leaf.                  *)
Sunk(pool, heap, path, leaf, n) ==
    [s \in 0..(n - 1) |-> IF s \in path \ {leaf} THEN heap[Child(pool, heap, s)]
                          ELSE heap[s]]

SunkPermutation(pool, heap, path, leaf, n) ==
    [s \in 0..(n - 1) |-> IF s = leaf THEN 0
                          ELSE IF s \in path THEN Child(pool, heap, s) ELSE s]

Relocates(from, at, to, node, n, src) ==
    /\ src \in [0..(n - 1) -> 0..(n - 1)]
    /\ \A s \in 0..(n - 1) : Filled(from, at, node, s) = Filled(to, 0, node, src[s])
    /\ \A s, t \in 0..(n - 1) : src[s] = src[t] => s = t
    /\ \A t \in 0..(n - 1) : \E s \in 0..(n - 1) : src[s] = t

(* trickleDown moves nodes and loses none.                                 *)
LEMMA SunkPermutes ==
    ASSUME NEW pool, NEW heap, NEW n \in Nat \ {0}, DOMAIN heap = 0..(n - 1),
           \A s \in 0..(n - 1) : TotalOf(pool, heap[s]) \in Nat, NEW node,
           NEW path, NEW leaf, SinkFrom(pool, heap, n, path, leaf, 0)
    PROVE  Relocates(Sunk(pool, heap, path, leaf, n), leaf, heap, node, n,
                     SunkPermutation(pool, heap, path, leaf, n))
<1> DEFINE src == SunkPermutation(pool, heap, path, leaf, n)
           S == 0..(n - 1)
           Next(s) == Child(pool, heap, s)
<1>1. /\ 0 \in path /\ path \subseteq S /\ leaf \in path
      /\ \A t \in path : t <= leaf
      /\ \A t \in path \ {leaf} : 2 * t + 1 \in DOMAIN heap /\ Next(t) \in path
      /\ \A u, v \in path : u < v => Next(u) <= v
      /\ \A t \in path \ {0} : \E u \in path \ {leaf} : Next(u) = t
  BY DEF SinkFrom
<1>2. \A t \in path \ {leaf} : Next(t) \in (t + 1)..(n - 1)
  <2> TAKE t \in path \ {leaf}
  <2>1. t \in 0..(n - 1) /\ 2 * t + 1 \in DOMAIN heap BY <1>1
  <2> QED BY <2>1, ChildIs
<1> HIDE DEF Next
<1>3. \A t \in path \ {leaf} : Next(t) \in S /\ Next(t) # 0
  <2> TAKE t \in path \ {leaf}
  <2>1. t \in 0..(n - 1) /\ Next(t) \in (t + 1)..(n - 1) BY <1>1, <1>2
  <2> QED BY <2>1
<1>4. \A s \in S : src[s] = IF s = leaf THEN 0 ELSE IF s \in path THEN Next(s) ELSE s
  BY DEF SunkPermutation, Next
<1>5. DOMAIN src = S /\ src = [s \in S |-> src[s]] BY DEF SunkPermutation
<1> HIDE DEF src
<1>6. src \in [S -> S]
  <2>1. \A s \in S : src[s] \in S BY <1>3, <1>4
  <2> QED BY <1>5, <2>1
<1>7. \A s \in S : Filled(Sunk(pool, heap, path, leaf, n), leaf, node, s)
                      = Filled(heap, 0, node, src[s])
  <2> TAKE s \in S
  <2>1. CASE s = leaf BY <1>4, <2>1 DEF Filled
  <2>2. CASE s # leaf /\ s \in path BY <1>3, <1>4, <2>2 DEF Filled, Sunk, Next
  <2>3. CASE s # leaf /\ s \notin path BY <1>1, <1>4, <2>3 DEF Filled, Sunk
  <2> QED BY <2>1, <2>2, <2>3
<1>8. \A s, t \in S : src[s] = src[t] => s = t
  <2> SUFFICES ASSUME NEW s \in S, NEW t \in S, src[s] = src[t] PROVE s = t
    OBVIOUS
  <2>1. CASE s \in path \ {leaf} /\ t \in path \ {leaf}
    <3>1. Next(s) = Next(t) BY <1>4, <2>1
    <3>2. s \in Int /\ t \in Int OBVIOUS
    <3>3. ~(s < t)
      <4> SUFFICES ASSUME s < t PROVE FALSE OBVIOUS
      <4>1. Next(s) <= t BY <1>1, <2>1
      <4>2. Next(t) \in (t + 1)..(n - 1) BY <1>2, <2>1
      <4> QED BY <3>1, <3>2, <4>1, <4>2
    <3>4. ~(t < s)
      <4> SUFFICES ASSUME t < s PROVE FALSE OBVIOUS
      <4>1. Next(t) <= s BY <1>1, <2>1
      <4>2. Next(s) \in (s + 1)..(n - 1) BY <1>2, <2>1
      <4> QED BY <3>1, <3>2, <4>1, <4>2
    <3> QED BY <3>2, <3>3, <3>4
  <2>2. CASE s \notin path \/ t \notin path BY <1>1, <1>3, <1>4, <2>2
  <2>3. CASE s = leaf \/ t = leaf BY <1>1, <1>3, <1>4, <2>3
  <2> QED BY <2>1, <2>2, <2>3
<1>9. \A t \in S : \E s \in S : src[s] = t
  <2> TAKE t \in S
  <2>1. CASE t = 0
    <3>1. leaf \in S BY <1>1
    <3> QED BY <1>4, <2>1, <3>1
  <2>2. CASE t # 0 /\ t \in path
    <3>1. PICK u \in path \ {leaf} : Next(u) = t BY <1>1, <2>2
    <3>2. u \in S BY <1>1
    <3> QED BY <1>4, <3>1, <3>2
  <2>3. CASE t # 0 /\ t \notin path
    <3>1. t # leaf BY <1>1, <2>3
    <3> QED BY <1>4, <2>3, <3>1
  <2> QED BY <2>1, <2>2, <2>3
<1>10. Relocates(Sunk(pool, heap, path, leaf, n), leaf, heap, node, n, src)
  BY <1>6, <1>7, <1>8, <1>9 DEF Relocates
<1> QED BY <1>10 DEF src

(* What sinks leaves every parent's total no larger than its child's.      *)
LEMMA SunkSorted ==
    ASSUME NEW pool, NEW heap, NEW n \in Nat \ {0}, DOMAIN heap = 0..(n - 1),
           \A s \in 0..(n - 1) : TotalOf(pool, heap[s]) \in Nat,
           Sorted(pool, heap), NEW node, TotalOf(pool, node) \in Nat,
           NEW path, NEW leaf, SinkFrom(pool, heap, n, path, leaf, 0)
    PROVE  SortedButFor(pool, Sunk(pool, heap, path, leaf, n), n, leaf, node)
<1> DEFINE S == 0..(n - 1)
           Next(s) == Child(pool, heap, s)
           h == Sunk(pool, heap, path, leaf, n)
           T(s) == TotalOf(pool, heap[s])
<1>1. /\ path \subseteq S /\ leaf \in path
      /\ 2 * leaf + 1 \notin DOMAIN heap
      /\ \A t \in path \ {leaf} : 2 * t + 1 \in DOMAIN heap /\ Next(t) \in path
      /\ \A t \in path \ {0} : \E u \in path \ {leaf} : Next(u) = t
  BY DEF SinkFrom
<1>2. \A t \in path \ {leaf} :
         /\ Next(t) = 2 * t + 1 \/ Next(t) = 2 * t + 2
         /\ Next(t) \in (t + 1)..(n - 1)
         /\ \A c \in S : c = 2 * t + 1 \/ c = 2 * t + 2 => T(Next(t)) <= T(c)
  <2> TAKE t \in path \ {leaf}
  <2>1. t \in 0..(n - 1) /\ 2 * t + 1 \in DOMAIN heap BY <1>1
  <2> QED BY <2>1, ChildIs
<1>3. \A s \in 1..(n - 1) : /\ Parent(s) \in 0..(s - 1)
                            /\ s = 2 * Parent(s) + 1 \/ s = 2 * Parent(s) + 2
  <2> TAKE s \in 1..(n - 1)
  <2>1. s \in Nat \ {0} OBVIOUS
  <2> QED BY <2>1, ParentIs
<1>4. \A s \in S : TotalOf(pool, h[s]) = IF s \in path \ {leaf} THEN T(Next(s)) ELSE T(s)
  BY DEF Sunk
<1>5. \A s \in S : T(s) \in Nat OBVIOUS
<1>6. \A s \in 1..(n - 1) : T(Parent(s)) <= T(s) BY DEF Sorted
<1>7. \A t \in path \ {leaf} : Parent(Next(t)) = t
  <2> TAKE t \in path \ {leaf}
  <2>1. t \in Nat /\ (Next(t) = 2 * t + 1 \/ Next(t) = 2 * t + 2) BY <1>1, <1>2
  <2> QED BY <2>1, ParentOf
<1> HIDE DEF Next, T, h
<1>8. \A s \in S : TotalOf(pool, Filled(h, leaf, node, s)) \in Nat
  <2> TAKE s \in S
  <2>1. CASE s = leaf BY <2>1 DEF Filled
  <2>2. CASE s # leaf
    <3>1. s \in path => Next(s) \in S BY <1>1, <1>2, <2>2
    <3>2. TotalOf(pool, h[s]) \in Nat BY <1>4, <1>5, <2>2, <3>1
    <3> QED BY <2>2, <3>2 DEF Filled
  <2> QED BY <2>1, <2>2
<1>9. ASSUME NEW s \in 1..(n - 1), s # leaf, Parent(s) # leaf
      PROVE  TotalOf(pool, h[Parent(s)]) <= TotalOf(pool, h[s])
  <2> DEFINE p == Parent(s)
  <2>1. /\ p \in 0..(s - 1) /\ p # leaf
        /\ s = 2 * p + 1 \/ s = 2 * p + 2
    BY <1>3, <1>9
  <2>2. p = Parent(s) OBVIOUS
  <2> HIDE DEF p
  <2>3. s \in S /\ p \in S BY <2>1
  <2>4. CASE s \in path
    <3>1. PICK u \in path \ {leaf} : Next(u) = s BY <1>1, <2>4
    <3>2. u = p BY <1>7, <2>2, <3>1
    <3>3. TotalOf(pool, h[p]) = T(s) BY <1>4, <2>3, <3>1, <3>2
    <3>4. TotalOf(pool, h[s]) = T(Next(s)) BY <1>4, <1>9, <2>3, <2>4
    <3>5. Next(s) \in 1..(n - 1) BY <1>2, <1>9, <2>3, <2>4
    <3>6. T(s) <= T(Next(s)) BY <1>6, <1>7, <1>9, <2>4, <3>5
    <3> QED BY <2>2, <3>3, <3>4, <3>6
  <2>5. CASE s \notin path /\ p \in path
    <3>1. TotalOf(pool, h[p]) = T(Next(p)) BY <1>4, <2>1, <2>3, <2>5
    <3>2. TotalOf(pool, h[s]) = T(s) BY <1>4, <2>3, <2>5
    <3>3. T(Next(p)) <= T(s) BY <1>2, <2>1, <2>3, <2>5
    <3> QED BY <2>2, <3>1, <3>2, <3>3
  <2>6. CASE s \notin path /\ p \notin path
    BY <1>4, <1>6, <2>2, <2>3, <2>6
  <2> QED BY <2>4, <2>5, <2>6
<1>10. \A s \in 1..(n - 1) : Parent(s) # leaf
  <2> SUFFICES ASSUME NEW s \in 1..(n - 1), Parent(s) = leaf PROVE FALSE
    OBVIOUS
  <2>0. Parent(s) \in 0..(s - 1) /\ (s = 2 * Parent(s) + 1 \/ s = 2 * Parent(s) + 2)
    BY <1>3
  <2>1. leaf \in Nat /\ (s = 2 * leaf + 1 \/ s = 2 * leaf + 2) BY <2>0
  <2>2. 2 * leaf + 1 \in 0..(n - 1) BY <2>1
  <2> QED BY <1>1, <2>2
<1>11. SortedButFor(pool, h, n, leaf, node)
  BY <1>8, <1>9, <1>10 DEF SortedButFor
<1> QED BY <1>11 DEF h

(* What trickles down takes the place of the root.                         *)
LEMMA TrickleDownOK ==
    ASSUME NEW pool, NEW heap, NEW n \in Nat \ {0}, DOMAIN heap = 0..(n - 1),
           \A s \in 0..(n - 1) : TotalOf(pool, heap[s]) \in Nat,
           Sorted(pool, heap), NEW node, TotalOf(pool, node) \in Nat
    PROVE  /\ Permutes(heap, 0, node, n, TrickleDown(pool, heap, node))
           /\ Sorted(pool, TrickleDown(pool, heap, node))
<1> DEFINE S == 0..(n - 1)
           path == Sink_(pool, heap)[0]
<1>1. PICK leaf : SinkFrom(pool, heap, n, path, leaf, 0) BY SinksThrough
<1> DEFINE h == Sunk(pool, heap, path, leaf, n)
           after == BubbleUp(pool, h, leaf, node)
<1>2. TrickleDown(pool, heap, node)
         = BubbleUp(pool, Sunk(pool, heap, path, Max(path), n), Max(path), node)
  <2>1. Sunk(pool, heap, path, Max(path), n)
           = [s \in DOMAIN heap |-> IF s \in path \ {Max(path)}
                                    THEN heap[Child(pool, heap, s)] ELSE heap[s]]
    BY DEF Sunk
  <2>2. TrickleDown(pool, heap, node)
           = BubbleUp(pool, [s \in DOMAIN heap |-> IF s \in path \ {Max(path)}
                                    THEN heap[Child(pool, heap, s)] ELSE heap[s]],
                      Max(path), node)
    BY DEF TrickleDown, Sink_
  <2> QED BY <2>1, <2>2
<1> HIDE DEF path
<1>3. leaf \in path /\ path \subseteq S /\ \A t \in path : t <= leaf BY <1>1 DEF SinkFrom
<1>4. Max(path) = leaf
  <2> DEFINE Most(x) == x \in path /\ \A y \in path : x >= y
  <2>1. \A x : Most(x) => x = leaf BY <1>3
  <2>2. Most(leaf) BY <1>3
  <2>3. Max(path) = CHOOSE x : Most(x) BY DEF Max
  <2> HIDE DEF Most
  <2> QED BY <2>1, <2>2, <2>3
<1>5. TrickleDown(pool, heap, node) = after BY <1>2, <1>4
<1>6. DOMAIN h = S /\ leaf \in 0..(n - 1) BY <1>3 DEF Sunk
<1>7. SortedButFor(pool, h, n, leaf, node) BY <1>1, SunkSorted
<1>8. DOMAIN h \cup {leaf} = 0..(n - 1) BY <1>6
<1> HIDE DEF h
<1>9. Permutes(h, leaf, node, n, after) /\ Sorted(pool, after)
  BY <1>6, <1>7, <1>8, BubbleUpOK
<1>10. Permutes(heap, 0, node, n, after)
  <2>1. PICK src \in [S -> S] :
          /\ \A s \in S : after[s] = Filled(h, leaf, node, src[s])
          /\ \A s, t \in S : src[s] = src[t] => s = t
          /\ \A t \in S : \E s \in S : src[s] = t
    BY <1>9 DEF Permutes
  <2> DEFINE sink == SunkPermutation(pool, heap, path, leaf, n)
             both == [s \in S |-> sink[src[s]]]
  <2>2. Relocates(h, leaf, heap, node, n, sink) BY <1>1, SunkPermutes DEF h
  <2> HIDE DEF sink
  <2> USE DEF Relocates
  <2>3. both \in [S -> S] BY <2>1, <2>2
  <2>4. \A s \in S : after[s] = Filled(heap, 0, node, both[s]) BY <2>1, <2>2
  <2>5. \A s, t \in S : both[s] = both[t] => s = t
    <3> SUFFICES ASSUME NEW s \in S, NEW t \in S, both[s] = both[t] PROVE s = t
      OBVIOUS
    <3>1. src[s] \in S /\ src[t] \in S /\ sink[src[s]] = sink[src[t]] BY <2>1
    <3>2. src[s] = src[t] BY <2>2, <3>1
    <3> QED BY <2>1, <3>2
  <2>6. \A t \in S : \E s \in S : both[s] = t
    <3> TAKE t \in S
    <3>1. PICK u \in S : sink[u] = t BY <2>2
    <3>2. PICK s \in S : src[s] = u BY <2>1
    <3> QED BY <3>1, <3>2
  <2>7. after = [s \in S |-> after[s]] BY <1>9 DEF Permutes
  <2> HIDE DEF both, after
  <2> QED BY <2>3, <2>4, <2>5, <2>6, <2>7 DEF Permutes
<1> QED BY <1>5, <1>9, <1>10

(* The heap holds the nodes of `open`, each once, in order.                *)
OpenList(pool, heap, open) ==
    /\ \E n \in Nat : heap \in [0..(n - 1) -> open]
    /\ \A i \in open : \E s \in DOMAIN heap : heap[s] = i
    /\ \A s, t \in DOMAIN heap : heap[s] = heap[t] => s = t
    /\ Sorted(pool, heap)
    /\ \A i \in open : TotalOf(pool, i) \in Nat

(* The empty queue is the open list of no nodes.                           *)
LEMMA EmptyOpenList ==
    ASSUME NEW pool
    PROVE  OpenList(pool, EmptyQueue, {})
<1>1. DOMAIN EmptyQueue = {} /\ 0..(0 - 1) = {} BY DEF EmptyQueue
<1>2. EmptyQueue \in [0..(0 - 1) -> {}] BY <1>1 DEF EmptyQueue
<1>3. Sorted(pool, EmptyQueue) BY <1>1 DEF Sorted
<1> QED BY <1>1, <1>2, <1>3 DEF OpenList

(* Only the totals of its nodes count.                                     *)
LEMMA OpenListSame ==
    ASSUME NEW pool, NEW heap, NEW open, OpenList(pool, heap, open),
           NEW other, \A i \in open : TotalOf(other, i) = TotalOf(pool, i)
    PROVE  OpenList(other, heap, open)
<1>1. PICK n \in Nat : heap \in [0..(n - 1) -> open] BY DEF OpenList
<1>2. ASSUME NEW s \in DOMAIN heap \ {0}
      PROVE  TotalOf(other, heap[Parent(s)]) <= TotalOf(other, heap[s])
  <2>1. s \in 1..(n - 1) BY <1>1
  <2>2. s \in Nat \ {0} BY <2>1
  <2>3. Parent(s) \in 0..(s - 1) BY <2>2, ParentIs
  <2>4. Parent(s) \in 0..(n - 1) BY <2>1, <2>3
  <2>5. heap[Parent(s)] \in open /\ heap[s] \in open BY <1>1, <2>4
  <2>6. TotalOf(pool, heap[Parent(s)]) <= TotalOf(pool, heap[s]) BY <1>2 DEF OpenList, Sorted
  <2> QED BY <2>5, <2>6
<1>3. Sorted(other, heap) BY <1>2 DEF Sorted
<1>4. \A i \in open : TotalOf(other, i) \in Nat BY DEF OpenList
<1> QED BY <1>3, <1>4 DEF OpenList

(* An open list is a heap that holds each of its nodes once.               *)
LEMMA OpenListIs ==
    ASSUME NEW pool, NEW heap, NEW open, OpenList(pool, heap, open)
    PROVE  /\ \E n \in Nat : DOMAIN heap = 0..(n - 1) /\ heap \in [0..(n - 1) -> open]
                                /\ Cardinality(DOMAIN heap) = n
           /\ HeapOK(pool, heap)
           /\ IsInjective(heap)
           /\ Range(heap) = open
<1>1. PICK n \in Nat : heap \in [0..(n - 1) -> open] BY DEF OpenList
<1>2. DOMAIN heap = 0..(n - 1) BY <1>1
<1>3. Cardinality(DOMAIN heap) = n
  <2>1. Cardinality(0..(n - 1)) = IF 0 > n - 1 THEN 0 ELSE (n - 1) - 0 + 1 BY FS_Interval
  <2> QED BY <1>2, <2>1
<1>4. HeapOK(pool, heap) BY <1>2, <1>3 DEF HeapOK, OpenList, Sorted, TotalOf
<1>5. IsInjective(heap) BY DEF OpenList, IsInjective
<1>6. Range(heap) = open BY <1>1 DEF OpenList, Range
<1> QED BY <1>1, <1>2, <1>3, <1>4, <1>5, <1>6

(* Nothing is less than the root.                                          *)
LEMMA RootLeast ==
    ASSUME NEW pool, NEW heap, NEW open, OpenList(pool, heap, open), heap # EmptyQueue
    PROVE  /\ Top(heap) \in open
           /\ \A i \in open : TotalOf(pool, Top(heap)) <= TotalOf(pool, i)
<1>1. PICK n \in Nat : heap \in [0..(n - 1) -> open] BY DEF OpenList
<1>2. n # 0
  <2> SUFFICES ASSUME n = 0 PROVE FALSE OBVIOUS
  <2>1. 0..(n - 1) = {} OBVIOUS
  <2>2. heap = [s \in {} |-> heap[s]] BY <1>1, <2>1
  <2>3. heap = EmptyQueue BY <2>2 DEF EmptyQueue
  <2> QED BY <2>3
<1> DEFINE T(s) == TotalOf(pool, heap[s])
           Least == {k \in Nat : \A s \in 0..(n - 1) : s <= k => T(0) <= T(s)}
<1>3. \A s \in 0..(n - 1) : T(s) \in Nat BY <1>1 DEF OpenList
<1>4. \A s \in 1..(n - 1) : T(Parent(s)) <= T(s) BY <1>1 DEF OpenList, Sorted
<1> HIDE DEF T
<1>5. 0 \in Least
  <2>1. 0 \in 0..(n - 1) BY <1>2
  <2>2. T(0) <= T(0) BY <1>3, <2>1
  <2> QED BY <2>2
<1>6. ASSUME NEW k \in Nat, k \in Least PROVE k + 1 \in Least
  <2> SUFFICES ASSUME NEW s \in 0..(n - 1), s = k + 1 PROVE T(0) <= T(s)
    BY <1>6
  <2>1. s \in Nat \ {0} /\ s \in 1..(n - 1) OBVIOUS
  <2>2. Parent(s) \in 0..(s - 1) BY <2>1, ParentIs
  <2>3. Parent(s) \in 0..(n - 1) /\ Parent(s) <= k BY <2>2
  <2>4. T(0) <= T(Parent(s)) BY <1>6, <2>3
  <2>5. 0 \in 0..(n - 1) BY <1>2
  <2> QED BY <1>3, <1>4, <2>1, <2>3, <2>4, <2>5
<1> HIDE DEF Least
<1>7. Nat \subseteq Least BY <1>5, <1>6, NatInd
<1>8. \A s \in 0..(n - 1) : T(0) <= T(s)
  <2> TAKE s \in 0..(n - 1)
  <2>1. s \in Least BY <1>7
  <2> QED BY <2>1 DEF Least
<1>9. heap[0] \in open BY <1>1, <1>2
<1> QED BY <1>1, <1>8, <1>9 DEF OpenList, Top, T

(* A sorted permutation of an open list is one.                            *)
LEMMA PermutedList ==
    ASSUME NEW pool, NEW heap, NEW n \in Nat, NEW at \in 0..(n - 1), NEW node, NEW after,
           Permutes(heap, at, node, n, after), Sorted(pool, after),
           NEW open, \A i \in open : TotalOf(pool, i) \in Nat,
           \A s \in 0..(n - 1) : Filled(heap, at, node, s) \in open,
           \A s, t \in 0..(n - 1) :
              Filled(heap, at, node, s) = Filled(heap, at, node, t) => s = t,
           \A i \in open : \E s \in 0..(n - 1) : Filled(heap, at, node, s) = i
    PROVE  OpenList(pool, after, open)
<1> DEFINE S == 0..(n - 1)
           Held(s) == Filled(heap, at, node, s)
<1>1. PICK src \in [S -> S] :
        /\ \A s \in S : after[s] = Held(src[s])
        /\ \A s, t \in S : src[s] = src[t] => s = t
        /\ \A t \in S : \E s \in S : src[s] = t
  BY DEF Permutes
<1>2. after = [s \in S |-> after[s]] BY DEF Permutes
<1>11. \A s \in S : Held(s) \in open OBVIOUS
<1> HIDE DEF Held
<1>3. \A s \in S : after[s] \in open
  <2> TAKE s \in S
  <2>1. src[s] \in S OBVIOUS
  <2>2. after[s] = Held(src[s]) BY <1>1
  <2> QED BY <1>11, <2>1, <2>2
<1>4. after \in [0..(n - 1) -> open] BY <1>2, <1>3
<1>5. \A i \in open : \E s \in S : after[s] = i
  <2> TAKE i \in open
  <2>1. PICK t \in S : Held(t) = i BY DEF Held
  <2>2. PICK s \in S : src[s] = t BY <1>1
  <2> QED BY <1>1, <2>1, <2>2
<1>6. \A s, t \in S : after[s] = after[t] => s = t
  <2> SUFFICES ASSUME NEW s \in S, NEW t \in S, after[s] = after[t] PROVE s = t
    OBVIOUS
  <2>1. src[s] \in S /\ src[t] \in S /\ Held(src[s]) = Held(src[t]) BY <1>1
  <2>2. src[s] = src[t] BY <2>1 DEF Held
  <2> QED BY <1>1, <2>2
<1>7. DOMAIN after = S BY <1>4
<1> QED BY <1>4, <1>5, <1>6, <1>7 DEF OpenList

(* push adds the node to the open list.                                    *)
LEMMA PushOK ==
    ASSUME NEW pool, NEW heap, NEW open, OpenList(pool, heap, open),
           NEW node, node \notin open, TotalOf(pool, node) \in Nat
    PROVE  OpenList(pool, Push(pool, heap, node), open \cup {node})
<1>1. PICK m \in Nat : /\ DOMAIN heap = 0..(m - 1) /\ heap \in [0..(m - 1) -> open]
                       /\ Cardinality(DOMAIN heap) = m
  BY OpenListIs
<1> DEFINE n == m + 1
           after == BubbleUp(pool, heap, m, node)
<1>2. n \in Nat \ {0} /\ m \in 0..(n - 1) /\ DOMAIN heap \cup {m} = 0..(n - 1)
      /\ \A s \in 0..(n - 1) : s # m => s \in 0..(m - 1)
      /\ 0..(m - 1) \subseteq 0..(n - 1)
  BY <1>1
<1>3. Push(pool, heap, node) = after BY <1>1 DEF Push
<1> HIDE DEF n, after
<1>4. \A s \in 1..(n - 1) : Parent(s) \in 0..(s - 1) /\ Parent(s) # m
  <2> TAKE s \in 1..(n - 1)
  <2>1. s \in Nat \ {0} OBVIOUS
  <2>2. Parent(s) \in 0..(s - 1) BY <2>1, ParentIs
  <2> QED BY <2>2 DEF n
<1>5. SortedButFor(pool, heap, n, m, node)
  <2>1. \A s \in 0..(n - 1) : TotalOf(pool, Filled(heap, m, node, s)) \in Nat
    BY <1>1, <1>2 DEF Filled, OpenList
  <2>2. \A s \in 1..(n - 1) : s # m => s \in DOMAIN heap \ {0} BY <1>1, <1>2
  <2>3. \A s \in 1..(n - 1) : s # m =>
           TotalOf(pool, heap[Parent(s)]) <= TotalOf(pool, heap[s])
    BY <2>2 DEF OpenList, Sorted
  <2> QED BY <1>4, <2>1, <2>3 DEF SortedButFor
<1>6. Permutes(heap, m, node, n, after) /\ Sorted(pool, after)
  BY <1>2, <1>5, BubbleUpOK DEF after
<1>7. /\ \A s \in 0..(n - 1) : Filled(heap, m, node, s) \in open \cup {node}
      /\ \A s \in 0..(n - 1) : s # m => Filled(heap, m, node, s) \in open
      /\ Filled(heap, m, node, m) = node
  BY <1>1, <1>2 DEF Filled
<1>8. \A s, t \in 0..(n - 1) :
         Filled(heap, m, node, s) = Filled(heap, m, node, t) => s = t
  <2> SUFFICES ASSUME NEW s \in 0..(n - 1), NEW t \in 0..(n - 1),
                      Filled(heap, m, node, s) = Filled(heap, m, node, t)
               PROVE  s = t
    OBVIOUS
  <2>1. CASE s = m \/ t = m BY <1>7, <2>1
  <2>2. CASE s # m /\ t # m BY <1>1, <1>2, <2>2 DEF Filled, OpenList
  <2> QED BY <2>1, <2>2
<1>9. \A i \in open \cup {node} : \E s \in 0..(n - 1) : Filled(heap, m, node, s) = i
  <2> TAKE i \in open \cup {node}
  <2>1. CASE i = node BY <1>2, <1>7, <2>1
  <2>2. CASE i \in open
    <3>1. PICK s \in DOMAIN heap : heap[s] = i BY <2>2 DEF OpenList
    <3>2. s \in 0..(n - 1) /\ s # m BY <1>1, <1>2
    <3> QED BY <3>1, <3>2 DEF Filled
  <2> QED BY <2>1, <2>2
<1>10. \A i \in open \cup {node} : TotalOf(pool, i) \in Nat BY DEF OpenList
<1> QED BY <1>2, <1>3, <1>6, <1>7, <1>8, <1>9, <1>10, PermutedList

(* A node whose total fell climbs from where it is.                        *)
LEMMA ModifyOK ==
    ASSUME NEW pool, NEW heap, NEW open, OpenList(pool, heap, open), NEW node \in open,
           NEW other, TotalOf(other, node) \in Nat,
           TotalOf(other, node) <= TotalOf(pool, node),
           \A i \in open \ {node} : TotalOf(other, i) = TotalOf(pool, i)
    PROVE  OpenList(other, Modify(other, heap, node), open)
<1>1. PICK n \in Nat : /\ DOMAIN heap = 0..(n - 1) /\ heap \in [0..(n - 1) -> open]
                       /\ Cardinality(DOMAIN heap) = n
  BY OpenListIs
<1>2. PICK at \in 0..(n - 1) : heap[at] = node BY <1>1 DEF OpenList
<1>3. \A s \in 0..(n - 1) : heap[s] = node => s = at BY <1>1, <1>2 DEF OpenList
<1> DEFINE after == BubbleUp(other, heap, at, node)
<1>4. Modify(other, heap, node) = after
  <2> DEFINE slots == {s \in DOMAIN heap : heap[s] = node}
  <2>1. slots = {at} BY <1>1, <1>2, <1>3
  <2>2. Min({at}) = at
    <3> DEFINE Least(x) == x \in {at} /\ \A y \in {at} : x <= y
    <3>1. \A x : Least(x) => x = at OBVIOUS
    <3>2. Least(at) OBVIOUS
    <3>3. Min({at}) = CHOOSE x : Least(x) BY DEF Min
    <3> HIDE DEF Least
    <3> QED BY <3>1, <3>2, <3>3
  <2>3. \E s \in DOMAIN heap : heap[s] = node BY <1>1, <1>2
  <2>4. Modify(other, heap, node) = BubbleUp(other, heap, Min(slots), node)
    BY <2>3 DEF Modify
  <2> QED BY <2>1, <2>2, <2>4
<1>5. n \in Nat \ {0} /\ DOMAIN heap \cup {at} = 0..(n - 1) BY <1>1
<1> DEFINE T(s) == TotalOf(pool, heap[s])
           U(s) == TotalOf(other, heap[s])
<1>6. \A s \in 0..(n - 1) : Filled(heap, at, node, s) = heap[s] BY <1>2 DEF Filled
<1>7. /\ \A s \in 0..(n - 1) : T(s) \in Nat /\ U(s) \in Nat
      /\ \A s \in 0..(n - 1) : s # at => U(s) = T(s)
      /\ TotalOf(other, node) <= T(at)
  <2>1. \A s \in 0..(n - 1) : s # at => heap[s] \in open \ {node} BY <1>1, <1>3
  <2> QED BY <1>1, <1>2, <2>1 DEF OpenList
<1>8. \A s \in 1..(n - 1) : T(Parent(s)) <= T(s) BY <1>1 DEF OpenList, Sorted
<1>9. \A s \in 1..(n - 1) : Parent(s) \in 0..(s - 1)
  <2> TAKE s \in 1..(n - 1)
  <2>1. s \in Nat \ {0} OBVIOUS
  <2> QED BY <2>1, ParentIs
<1>10. \A s \in 0..(n - 1) : TotalOf(other, Filled(heap, at, node, s)) \in Nat
  BY <1>6, <1>7
<1> HIDE DEF T, U, after
<1>11. \A s \in 1..(n - 1) : s # at /\ Parent(s) # at => U(Parent(s)) <= U(s)
  <2> SUFFICES ASSUME NEW s \in 1..(n - 1), s # at, Parent(s) # at
               PROVE  U(Parent(s)) <= U(s)
    OBVIOUS
  <2>1. Parent(s) \in 0..(n - 1) /\ s \in 0..(n - 1)
    <3>1. Parent(s) \in 0..(s - 1) BY <1>9
    <3> QED BY <3>1
  <2> QED BY <1>7, <1>8, <2>1
<1>12. \A s \in 1..(n - 1) : Parent(s) = at =>
          TotalOf(other, node) <= U(s) /\ (at > 0 => U(Parent(at)) <= U(s))
  <2> SUFFICES ASSUME NEW s \in 1..(n - 1), Parent(s) = at
               PROVE  TotalOf(other, node) <= U(s) /\ (at > 0 => U(Parent(at)) <= U(s))
    OBVIOUS
  <2>1. at \in 0..(s - 1)
    <3>1. Parent(s) \in 0..(s - 1) BY <1>9
    <3> QED BY <3>1
  <2>2. T(at) <= T(s) /\ U(s) = T(s) /\ T(s) \in Nat /\ T(at) \in Nat
    <3>1. T(Parent(s)) <= T(s) BY <1>8
    <3>2. s # at /\ s \in 0..(n - 1) BY <2>1
    <3> QED BY <1>7, <3>1, <3>2
  <2>3. TotalOf(other, node) <= U(s) BY <1>7, <2>2
  <2>4. ASSUME at > 0 PROVE U(Parent(at)) <= U(s)
    <3>1. at \in 1..(n - 1) BY <2>1, <2>4
    <3>2. Parent(at) \in 0..(at - 1) BY <1>9, <3>1
    <3>3. Parent(at) \in 0..(n - 1) /\ Parent(at) # at BY <3>1, <3>2
    <3>4. U(Parent(at)) = T(Parent(at)) /\ T(Parent(at)) \in Nat BY <1>7, <3>3
    <3>5. T(Parent(at)) <= T(at) BY <1>8, <3>1
    <3> QED BY <2>2, <3>4, <3>5
  <2> QED BY <2>3, <2>4
<1>13. SortedButFor(other, heap, n, at, node)
  BY <1>10, <1>11, <1>12 DEF SortedButFor, U
<1>14. Permutes(heap, at, node, n, after) /\ Sorted(other, after)
  BY <1>5, <1>13, BubbleUpOK DEF after
<1>15. /\ \A s \in 0..(n - 1) : Filled(heap, at, node, s) \in open
       /\ \A s, t \in 0..(n - 1) :
             Filled(heap, at, node, s) = Filled(heap, at, node, t) => s = t
       /\ \A i \in open : \E s \in 0..(n - 1) : Filled(heap, at, node, s) = i
  <2>1. /\ \A s \in 0..(n - 1) : heap[s] \in open
        /\ \A s, t \in 0..(n - 1) : heap[s] = heap[t] => s = t
        /\ \A i \in open : \E s \in 0..(n - 1) : heap[s] = i
    BY <1>1 DEF OpenList
  <2> QED BY <1>6, <2>1
<1>16. \A i \in open : TotalOf(other, i) \in Nat BY DEF OpenList
<1> QED BY <1>4, <1>14, <1>15, <1>16, PermutedList

(* pop takes the root from the open list.                                  *)
LEMMA PopOK ==
    ASSUME NEW pool, NEW heap, NEW open, OpenList(pool, heap, open), heap # EmptyQueue
    PROVE  OpenList(pool, Pop(pool, heap), open \ {Top(heap)})
<1>1. PICK m \in Nat : /\ DOMAIN heap = 0..(m - 1) /\ heap \in [0..(m - 1) -> open]
                       /\ Cardinality(DOMAIN heap) = m
  BY OpenListIs
<1>2. m # 0
  <2> SUFFICES ASSUME m = 0 PROVE FALSE OBVIOUS
  <2>1. 0..(m - 1) = {} OBVIOUS
  <2>2. heap = [s \in {} |-> heap[s]] BY <1>1, <2>1
  <2>3. heap = EmptyQueue BY <2>2 DEF EmptyQueue
  <2> QED BY <2>3
<1>3. CASE m = 1
  <2>1. 0..(m - 1) = {0} BY <1>3
  <2>2. open \ {Top(heap)} = {} BY <1>1, <2>1 DEF OpenList, Top
  <2>3. Pop(pool, heap) = EmptyQueue BY <1>1, <1>3 DEF Pop
  <2> QED BY <2>2, <2>3, EmptyOpenList
<1>4. CASE m # 1
  <2> DEFINE n == m - 1
             rest == Restrict(heap, 0..(n - 1))
             node == heap[n]
             after == TrickleDown(pool, rest, node)
             left == open \ {Top(heap)}
  <2>1. /\ n \in Nat \ {0} /\ n \in 0..(m - 1)
        /\ 0 \in 0..(n - 1) /\ 0 \in 0..(m - 1)
        /\ \A s \in 0..(n - 1) : s \in 0..(m - 1) /\ s # n
        /\ \A s \in 0..(m - 1) : s # n => s \in 0..(n - 1)
    BY <1>2, <1>4
  <2>2. Pop(pool, heap) = after BY <1>1, <2>1 DEF Pop
  <2>3. DOMAIN rest = 0..(n - 1) /\ \A s \in 0..(n - 1) : rest[s] = heap[s]
    BY DEF Restrict
  <2>4. node = heap[n] /\ Top(heap) = heap[0] BY DEF Top
  <2> HIDE DEF n, rest, node, after, left
  <2>5. /\ \A s \in 0..(n - 1) : TotalOf(pool, rest[s]) \in Nat
        /\ TotalOf(pool, node) \in Nat
    BY <1>1, <2>1, <2>3, <2>4 DEF OpenList
  <2>6. Sorted(pool, rest)
    <3> SUFFICES ASSUME NEW s \in 0..(n - 1) \ {0}
                 PROVE  TotalOf(pool, rest[Parent(s)]) <= TotalOf(pool, rest[s])
      BY <2>3 DEF Sorted
    <3>1. s \in Nat \ {0} BY <2>1
    <3>2. Parent(s) \in 0..(s - 1) BY <3>1, ParentIs
    <3>3. Parent(s) \in 0..(n - 1) BY <2>1, <3>2
    <3>4. s \in DOMAIN heap \ {0} BY <1>1, <2>1
    <3>5. TotalOf(pool, heap[Parent(s)]) <= TotalOf(pool, heap[s])
      BY <3>4 DEF OpenList, Sorted
    <3> QED BY <2>3, <3>3, <3>5
  <2>7. Permutes(rest, 0, node, n, after) /\ Sorted(pool, after)
    BY <2>1, <2>3, <2>5, <2>6, TrickleDownOK DEF after
  <2>8. \A s \in 0..(n - 1) : Filled(rest, 0, node, s) = IF s = 0 THEN heap[n] ELSE heap[s]
    BY <2>3, <2>4 DEF Filled
  <2>9. \A s, t \in 0..(m - 1) : heap[s] = heap[t] => s = t BY <1>1 DEF OpenList
  <2>10. \A s \in 0..(n - 1) : Filled(rest, 0, node, s) \in left
    <3> TAKE s \in 0..(n - 1)
    <3>1. CASE s = 0 BY <1>1, <2>1, <2>4, <2>8, <2>9, <3>1 DEF left
    <3>2. CASE s # 0 BY <1>1, <2>1, <2>4, <2>8, <2>9, <3>2 DEF left
    <3> QED BY <3>1, <3>2
  <2>11. \A s, t \in 0..(n - 1) :
            Filled(rest, 0, node, s) = Filled(rest, 0, node, t) => s = t
    BY <2>1, <2>8, <2>9
  <2>12. \A i \in left : \E s \in 0..(n - 1) : Filled(rest, 0, node, s) = i
    <3> SUFFICES ASSUME NEW i \in left PROVE \E s \in 0..(n - 1) : Filled(rest, 0, node, s) = i
      OBVIOUS
    <3>1. i \in open /\ i # heap[0] BY <2>4 DEF left
    <3>2. PICK t \in 0..(m - 1) : heap[t] = i BY <1>1, <3>1 DEF OpenList
    <3>3. CASE t = n BY <2>1, <2>8, <3>2, <3>3
    <3>4. CASE t # n BY <2>1, <2>8, <3>1, <3>2, <3>4
    <3> QED BY <3>3, <3>4
  <2>13. \A i \in left : TotalOf(pool, i) \in Nat BY DEF left, OpenList
  <2>14. OpenList(pool, after, left)
    BY <2>1, <2>7, <2>10, <2>11, <2>12, <2>13, PermutedList
  <2> QED BY <2>2, <2>14 DEF left
<1> QED BY <1>3, <1>4

-------------------------------------------------------------------------------
(* Parents *)

(* Nodes without a ring of parents.                                        *)
Acyclic(nodes) ==
    /\ Len(nodes) \in Nat
    /\ \A i \in 1..Len(nodes) : nodes[i].pidx \in 0..Len(nodes)
    /\ \A ring \in SUBSET (1..Len(nodes)) :
          (\A k \in ring : nodes[k].pidx \in ring) => ring = {}

(* They can be ranked, parents before children.                            *)
LEMMA Ranked ==
    ASSUME NEW nodes, Acyclic(nodes)
    PROVE  \E N \in Nat : \E m \in [0..Len(nodes) -> 0..N] :
              \A i \in 1..Len(nodes) : m[nodes[i].pidx] < m[i]
<1> DEFINE S == 1..Len(nodes)
           up(i) == nodes[i].pidx
           Ranks(R, N, r) == \A i \in R : up(i) \in R => r[up(i)] < r[i]
           T == {R \in SUBSET S : \E N \in Nat : \E r \in [S -> 0..N] : Ranks(R, N, r)}
<1>1. Len(nodes) \in Nat /\ \A i \in S : up(i) \in 0..Len(nodes) BY DEF Acyclic
<1>2. IsFiniteSet(S) BY <1>1, FS_Interval
<1> HIDE DEF up
<1>3. {} \in T
  <2>1. [i \in S |-> 0] \in [S -> 0..0] OBVIOUS
  <2>2. Ranks({}, 0, [i \in S |-> 0]) OBVIOUS
  <2> HIDE DEF Ranks
  <2> QED BY <2>1, <2>2
<1>4. ASSUME NEW R \in SUBSET S, R # {} PROVE \E x \in R : R \ {x} \in T => R \in T
  <2>1. PICK x \in R : up(x) \notin R BY <1>4 DEF Acyclic, up
  <2>2. ASSUME R \ {x} \in T PROVE R \in T
    <3>1. PICK N \in Nat : \E r \in [S -> 0..N] : Ranks(R \ {x}, N, r) BY <2>2
    <3>2. PICK r \in [S -> 0..N] : Ranks(R \ {x}, N, r) BY <3>1
    <3> DEFINE q == [i \in S |-> IF i = x THEN 0 ELSE r[i] + 1]
    <3>3. q \in [S -> 0..(N + 1)]
      <4>1. \A i \in S : r[i] + 1 \in 0..(N + 1) /\ 0 \in 0..(N + 1) OBVIOUS
      <4> QED BY <4>1
    <3>4. \A i \in R : up(i) \in R => q[up(i)] < q[i]
      <4> SUFFICES ASSUME NEW i \in R, up(i) \in R PROVE q[up(i)] < q[i]
        OBVIOUS
      <4>1. i # x BY <2>1
      <4>2. q[i] = r[i] + 1 /\ r[i] \in Nat BY <4>1
      <4>3. CASE up(i) = x
        <5>1. q[up(i)] = 0 BY <4>3
        <5> QED BY <4>2, <5>1
      <4>4. CASE up(i) # x
        <5>1. r[up(i)] < r[i] BY <3>2, <4>1, <4>4
        <5>2. q[up(i)] = r[up(i)] + 1 /\ r[up(i)] \in Nat
          <6>1. up(i) \in S OBVIOUS
          <6> QED BY <4>4, <6>1
        <5> QED BY <4>2, <5>1, <5>2
      <4> QED BY <4>3, <4>4
    <3>5. Ranks(R, N + 1, q) BY <3>4
    <3>6. N + 1 \in Nat OBVIOUS
    <3> HIDE DEF Ranks, q
    <3> QED BY <3>3, <3>5, <3>6
  <2> QED BY <2>2
<1> HIDE DEF T
<1>5. S \in T
  <2>1. \A R \in SUBSET S : R # {} => \E x \in R : R \ {x} \in T => R \in T BY <1>4
  <2> HIDE DEF S
  <2> QED BY <1>2, <1>3, <2>1, SubsetInd
<1>6. PICK N \in Nat : \E r \in [S -> 0..N] : Ranks(S, N, r) BY <1>5 DEF T
<1>7. PICK r \in [S -> 0..N] : Ranks(S, N, r) BY <1>6
<1> DEFINE m == [i \in 0..Len(nodes) |-> IF i = 0 THEN 0 ELSE r[i] + 1]
<1>8. \A i \in 0..Len(nodes) : i # 0 => i \in S BY <1>1
<1>9. m \in [0..Len(nodes) -> 0..(N + 1)]
  <2>1. \A i \in 0..Len(nodes) :
           (IF i = 0 THEN 0 ELSE r[i] + 1) \in 0..(N + 1)
    <3> TAKE i \in 0..Len(nodes)
    <3>1. CASE i = 0 BY <3>1
    <3>2. CASE i # 0
      <4>1. r[i] \in 0..N BY <1>8, <3>2
      <4> QED BY <3>2, <4>1
    <3> QED BY <3>1, <3>2
  <2> QED BY <2>1
<1>10. \A i \in S : m[up(i)] < m[i]
  <2> TAKE i \in S
  <2>1. m[i] = r[i] + 1 /\ r[i] \in Nat BY <1>1
  <2>2. CASE up(i) = 0
    <3>1. m[up(i)] = 0 BY <1>1, <2>2
    <3> QED BY <2>1, <3>1
  <2>3. CASE up(i) # 0
    <3>1. up(i) \in S BY <1>1, <1>8, <2>3
    <3>2. r[up(i)] < r[i] /\ r[up(i)] \in Nat BY <1>7, <3>1
    <3>3. m[up(i)] = r[up(i)] + 1 BY <1>1, <2>3
    <3> QED BY <2>1, <3>2, <3>3
  <2> QED BY <2>2, <2>3
<1>11. N + 1 \in Nat OBVIOUS
<1> HIDE DEF m
<1> QED BY <1>9, <1>10, <1>11 DEF up

Trail_(nodes) ==
    CHOOSE g : g = [n \in 0..Len(nodes) |->
                      IF n = 0 THEN <<>> ELSE Append(g[nodes[n].pidx], n)]

(* The trails of all nodes, each from its parent's.                        *)
LEMMA TrailIs ==
    ASSUME NEW nodes, Acyclic(nodes)
    PROVE  Trail_(nodes) = [n \in 0..Len(nodes) |->
              IF n = 0 THEN <<>> ELSE Append(Trail_(nodes)[nodes[n].pidx], n)]
<1> DEFINE L == Len(nodes)
           D == 0..L
           V == Seq(1..L)
           G == [p \in D \X [D -> V] |->
                   IF p[1] = 0 THEN <<>> ELSE Append(p[2][nodes[p[1]].pidx], p[1])]
           Is(f) == f = [n \in D |-> IF n = 0 THEN <<>> ELSE Append(f[nodes[n].pidx], n)]
<1>1. L \in Nat /\ \A d \in D : d # 0 => d \in 1..L /\ nodes[d].pidx \in D
  BY DEF Acyclic
<1>2. PICK N \in Nat : \E m \in [D -> 0..N] : \A i \in 1..L : m[nodes[i].pidx] < m[i]
  BY Ranked
<1>3. PICK m \in [D -> 0..N] : \A i \in 1..L : m[nodes[i].pidx] < m[i] BY <1>2
<1>4. \A d \in D, f \in [D -> V] :
         G[<<d, f>>] = IF d = 0 THEN <<>> ELSE Append(f[nodes[d].pidx], d)
  OBVIOUS
<1>5. G \in [D \X [D -> V] -> V]
  <2>1. ASSUME NEW d \in D, NEW f \in [D -> V] PROVE G[<<d, f>>] \in V
    <3>1. CASE d = 0
      <4>1. <<>> \in V OBVIOUS
      <4> QED BY <1>4, <3>1, <4>1
    <3>2. CASE d # 0
      <4>1. f[nodes[d].pidx] \in V BY <1>1, <3>2
      <4>2. Append(f[nodes[d].pidx], d) \in V BY <1>1, <3>2, <4>1
      <4> QED BY <1>4, <3>2, <4>2
    <3> QED BY <3>1, <3>2
  <2> QED BY <2>1
<1>6. \A d \in D : \A f, g \in [D -> V] :
         (\A e \in D : m[e] < m[d] => f[e] = g[e]) => G[<<d, f>>] = G[<<d, g>>]
  <2> SUFFICES ASSUME NEW d \in D, NEW f \in [D -> V], NEW g \in [D -> V],
                      \A e \in D : m[e] < m[d] => f[e] = g[e]
               PROVE  G[<<d, f>>] = G[<<d, g>>]
    OBVIOUS
  <2>1. d # 0 => f[nodes[d].pidx] = g[nodes[d].pidx] BY <1>1, <1>3
  <2> HIDE DEF G, V, D
  <2>2. /\ G[<<d, f>>] = IF d = 0 THEN <<>> ELSE Append(f[nodes[d].pidx], d)
        /\ G[<<d, g>>] = IF d = 0 THEN <<>> ELSE Append(g[nodes[d].pidx], d)
    BY <1>4
  <2> QED BY <2>1, <2>2
<1>7. Recurs(D, V, G)
  <2>1. V # {}
    <3>1. <<>> \in V OBVIOUS
    <3> QED BY <3>1
  <2> HIDE DEF G, D, V
  <2>2. Descends(D, V, N, m, G) BY <1>5, <1>6, <2>1 DEF Descends
  <2> QED BY <2>2, Recursion
<1> HIDE DEF G, V
<1>8. PICK f \in [D -> V] : Is(f)
  <2>1. PICK f \in [D -> V] : f = [d \in D |-> G[<<d, f>>]] BY <1>7 DEF Recurs
  <2>2. Is(f) BY <1>4, <2>1
  <2> QED BY <2>2
<1>9. Trail_(nodes) = CHOOSE g : Is(g) BY DEF Trail_
<1>10. Is(Trail_(nodes))
  <2> HIDE DEF Is
  <2> QED BY <1>8, <1>9
<1> QED BY <1>10

(* A trail begins at a node without a parent, and each of its nodes is the *)
(* parent of the next.                                                     *)
TrailTo(nodes, i, trail) ==
    /\ trail \in Seq(1..Len(nodes)) /\ Len(trail) >= 1
    /\ trail[Len(trail)] = i
    /\ nodes[trail[1]].pidx = 0
    /\ \A k \in 1..(Len(trail) - 1) : nodes[trail[k + 1]].pidx = trail[k]

(* A node's trail starts at a node without a parent and ends at the node.  *)
LEMMA TrailOK ==
    ASSUME NEW nodes, Acyclic(nodes), NEW i \in 1..Len(nodes)
    PROVE  TrailTo(nodes, i, Trail(nodes, i))
<1> DEFINE S == 1..Len(nodes)
           To == Trail_(nodes)
           Right(j) == TrailTo(nodes, j, To[j])
           wrong == {j \in S : ~Right(j)}
<1>1. Len(nodes) \in Nat /\ \A j \in S : nodes[j].pidx \in 0..Len(nodes) BY DEF Acyclic
<1>2. To[0] = <<>> /\ \A j \in S : To[j] = Append(To[nodes[j].pidx], j)
  <2>1. To = [n \in 0..Len(nodes) |-> IF n = 0 THEN <<>> ELSE Append(To[nodes[n].pidx], n)]
    BY TrailIs
  <2> HIDE DEF To
  <2>2. \A n \in 0..Len(nodes) : To[n] = IF n = 0 THEN <<>> ELSE Append(To[nodes[n].pidx], n)
    BY <2>1
  <2>3. 0 \in 0..Len(nodes) /\ \A j \in S : j \in 0..Len(nodes) /\ j # 0 BY <1>1
  <2> QED BY <2>2, <2>3
<1> HIDE DEF To
<1>3. ASSUME NEW j \in wrong PROVE nodes[j].pidx \in wrong
  <2> SUFFICES ASSUME nodes[j].pidx \notin wrong PROVE Right(j)
    OBVIOUS
  <2> DEFINE p == nodes[j].pidx
             before == To[p]
             trail == To[j]
  <2>1. trail = Append(before, j) /\ j \in S BY <1>2
  <2>2. CASE p = 0
    <3>1. trail = <<j>>
      <4>1. before = <<>> BY <1>2, <2>2
      <4> HIDE DEF before, trail
      <4> QED BY <2>1, <4>1
    <3> HIDE DEF trail
    <3> QED BY <2>1, <2>2, <3>1 DEF TrailTo, trail
  <2>3. CASE p # 0
    <3>1. p \in S BY <1>1, <2>3
    <3>2. TrailTo(nodes, p, before) BY <3>1
    <3> DEFINE n == Len(before)
    <3>3. before \in Seq(S) /\ n \in Nat /\ n >= 1 /\ before[n] = p
      BY <3>2 DEF TrailTo
    <3>4. p = nodes[j].pidx OBVIOUS
    <3> HIDE DEF before, trail, p
    <3>5. /\ trail \in Seq(S) /\ Len(trail) = n + 1 /\ trail[n + 1] = j
          /\ \A k \in 1..n : trail[k] = before[k]
      BY <2>1, <3>3
    <3>6. nodes[trail[1]].pidx = 0 BY <3>2, <3>3, <3>5 DEF TrailTo
    <3>7. \A k \in 1..n : nodes[trail[k + 1]].pidx = trail[k]
      <4> TAKE k \in 1..n
      <4>1. CASE k = n BY <3>3, <3>4, <3>5, <4>1
      <4>2. CASE k # n
        <5>1. k \in 1..(n - 1) /\ k + 1 \in 1..n BY <3>3, <4>2
        <5> QED BY <3>2, <3>5, <5>1 DEF TrailTo
      <4> QED BY <4>1, <4>2
    <3>8. n + 1 >= 1 /\ (n + 1) - 1 = n BY <3>3
    <3>9. TrailTo(nodes, j, trail) BY <3>5, <3>6, <3>7, <3>8 DEF TrailTo
    <3> QED BY <3>9 DEF trail
  <2> QED BY <2>2, <2>3
<1>4. wrong = {}
  <2>1. wrong \in SUBSET S OBVIOUS
  <2> HIDE DEF wrong
  <2> QED BY <1>3, <2>1 DEF Acyclic
<1>5. Trail(nodes, i) = To[i] BY DEF Trail, Trail_, To
<1> QED BY <1>4, <1>5

(* The polygons along the trail of a node, as many as there is room for.   *)
PathTo(nodes, i, n) ==
    Refs(nodes, SubSeq(Trail(nodes, i), 1, Min({Len(Trail(nodes, i)), n})))

PathIs(links, start, end, n, path, cut) ==
    /\ Len(path) \in Nat /\ Len(path) >= 1 /\ Len(path) <= n
    /\ path # <<>> /\ Head(path) = start
    /\ \A k \in 1..(Len(path) - 1) :
          \E l \in Range(links[path[k]]) : l.to = path[k + 1]
    /\ ~cut => path[Len(path)] = end

(* Such a path starts at the start, is linked, and ends at the node unless *)
(* it is cut.                                                              *)
LEMMA PathOK ==
    ASSUME NEW links, NEW nodes, Acyclic(nodes), NEW start,
           \A i \in 1..Len(nodes) :
              IF nodes[i].pidx = 0 THEN nodes[i].id = start
              ELSE \E l \in Range(links[nodes[nodes[i].pidx].id]) : l.to = nodes[i].id,
           NEW i \in 1..Len(nodes), NEW n \in Nat \ {0}
    PROVE  PathIs(links, start, nodes[i].id, n, PathTo(nodes, i, n), Len(Trail(nodes, i)) > n)
<1> DEFINE trail == Trail(nodes, i)
           top == Min({Len(trail), n})
           cut == SubSeq(trail, 1, top)
           path == PathTo(nodes, i, n)
           S == 1..Len(nodes)
<1>1. /\ trail \in Seq(S) /\ Len(trail) >= 1 /\ trail[Len(trail)] = i
      /\ nodes[trail[1]].pidx = 0
      /\ \A k \in 1..(Len(trail) - 1) : nodes[trail[k + 1]].pidx = trail[k]
  <2>1. TrailTo(nodes, i, trail) BY TrailOK
  <2> HIDE DEF trail
  <2> QED BY <2>1 DEF TrailTo
<1> HIDE DEF trail
<1>2. top \in 1..Len(trail) /\ top <= n /\ (Len(trail) <= n => top = Len(trail))
  <2>1. Len(trail) \in Nat BY <1>1
  <2>2. \E x \in {Len(trail), n} : \A y \in {Len(trail), n} : x <= y BY <2>1
  <2>3. top \in {Len(trail), n} /\ top <= Len(trail) /\ top <= n BY <2>2 DEF Min
  <2> HIDE DEF top
  <2> QED BY <1>1, <2>1, <2>3
<1>3. path = [k \in 1..Len(cut) |-> nodes[cut[k]].id] BY DEF PathTo, Refs, trail
<1> HIDE DEF top, path
<1>4. Len(cut) = top /\ \A k \in 1..top : cut[k] = trail[k]
  <2> HIDE DEF S
  <2> QED BY <1>1, <1>2
<1> HIDE DEF cut
<1>5. path = [k \in 1..top |-> nodes[trail[k]].id] BY <1>3, <1>4
<1>6. Len(path) = top /\ \A k \in 1..top : path[k] = nodes[trail[k]].id
  BY <1>2, <1>5
<1>7. path # <<>> /\ Head(path) = path[1]
  <2> DEFINE T == {nodes[trail[k]].id : k \in 1..top}
  <2>1. \A k \in 1..top : nodes[trail[k]].id \in T OBVIOUS
  <2> HIDE DEF T
  <2>2. path \in [1..top -> T] /\ top \in Nat BY <1>1, <1>2, <1>5, <2>1
  <2>3. path \in Seq(T) BY <2>2
  <2>4. Len(path) >= 1 BY <1>2, <1>6
  <2> HIDE DEF path
  <2> QED BY <2>3, <2>4
<1>8. \A k \in 1..top : trail[k] \in S BY <1>1, <1>2
<1>9. Head(path) = start
  <2>1. 1 \in 1..top BY <1>2
  <2> QED BY <1>1, <1>6, <1>7, <1>8, <2>1
<1>10. ASSUME NEW k \in 1..(Len(path) - 1)
       PROVE  \E l \in Range(links[path[k]]) : l.to = path[k + 1]
  <2>1. k \in 1..top /\ k + 1 \in 1..top /\ k \in 1..(Len(trail) - 1)
    <3>1. Len(path) = top /\ Len(trail) \in Nat BY <1>1, <1>6
    <3>2. k \in 1..(top - 1) BY <3>1
    <3> HIDE DEF path, trail
    <3> QED BY <1>2, <3>1, <3>2
  <2>2. nodes[trail[k + 1]].pidx = trail[k] BY <1>1, <2>1
  <2>3. trail[k] # 0 /\ trail[k + 1] \in S BY <1>8, <2>1
  <2>4. \E l \in Range(links[nodes[nodes[trail[k + 1]].pidx].id]) : l.to = nodes[trail[k + 1]].id
    BY <2>2, <2>3
  <2> QED BY <1>6, <2>1, <2>2, <2>4
<1>11. ~(Len(trail) > n) => path[Len(path)] = nodes[i].id
  <2> SUFFICES ASSUME ~(Len(trail) > n) PROVE path[Len(path)] = nodes[i].id
    OBVIOUS
  <2>1. top = Len(trail) BY <1>1, <1>2
  <2> QED BY <1>1, <1>2, <1>6, <2>1
<1> QED BY <1>2, <1>6, <1>7, <1>9, <1>10, <1>11 DEF PathIs, path, trail
===============================================================================
