---------------------------- MODULE NavTilesProofs ----------------------------
(***************************************************************************)
(* Slots, references and links of NavTiles, for any number of tiles, any   *)
(* data that DataAssumption allows and any length of salts.                *)
(*                                                                         *)
(* First the lists of slots and what becomes of references that a client   *)
(* keeps while slots are filled, emptied and filled again (IInv, for which *)
(* links play no part).  Then the links: what each part of addTile and     *)
(* removeTile adds to, or takes from, the links of the tiles is described  *)
(* as a set of facts, <<slot, polygon, link>>, and the invariant MeshOK    *)
(* says that the links there are, are those that the tiles there are       *)
(* should have, but in tiles that went without one for want of room.       *)
(* All that is claimed of links follows from it.                           *)
(***************************************************************************)
EXTENDS NavTiles, NavNodesProofs, SequenceTheorems

-------------------------------------------------------------------------------
(* Folds over numbers *)

(* A set of numbers up to n has a greatest.                                *)
LEMMA MaxIn ==
    ASSUME NEW n \in Nat, NEW t \in SUBSET (1..n), t # {}
    PROVE  Max(t) \in t /\ \A y \in t : Max(t) >= y
<1> DEFINE T == {k \in Nat : \A s \in SUBSET (1..k) :
                    s # {} => \E x \in s : \A y \in s : x >= y}
<1>1. 0 \in T
  <2>1. 1..0 = {} OBVIOUS
  <2>2. SUBSET (1..0) = {{}} BY <2>1
  <2> QED BY <2>2
<1>2. ASSUME NEW k \in Nat, k \in T PROVE k + 1 \in T
  <2> SUFFICES ASSUME NEW s \in SUBSET (1..(k + 1)), s # {}
               PROVE  \E x \in s : \A y \in s : x >= y
    OBVIOUS
  <2>1. CASE k + 1 \in s
    <3>1. \A y \in s : k + 1 >= y OBVIOUS
    <3> QED BY <2>1, <3>1
  <2>2. CASE k + 1 \notin s
    <3>1. s \in SUBSET (1..k) BY <2>2
    <3> QED BY <1>2, <3>1
  <2> QED BY <2>1, <2>2
<1> HIDE DEF T
<1>3. n \in T BY <1>1, <1>2, NatInd
<1>4. \E x \in t : \A y \in t : x >= y BY <1>3 DEF T
<1> QED BY <1>4 DEF Max

(* The greatest of the numbers up to n, and the rest of them.              *)
LEMMA MaxFirst ==
    ASSUME NEW n \in Nat \ {0}
    PROVE  Max(1..n) = n /\ (1..n) \ {n} = 1..(n - 1)
<1>1. 1..n # {} /\ n \in 1..n OBVIOUS
<1>2. Max(1..n) \in 1..n /\ Max(1..n) >= n BY <1>1, MaxIn
<1> QED BY <1>2

Folds(n, Q, b, step) ==
    \E F \in [SUBSET (1..n) -> Q] : \A t \in SUBSET (1..n) :
        F[t] = IF t = {} THEN b ELSE step[<<Max(t), F[t \ {Max(t)}]>>]

Steps(n, Q, b, step) ==
    \E F \in [0..n -> Q] : \A m \in 0..n :
        F[m] = IF m = 0 THEN b ELSE step[<<m, F[m - 1]>>]

(* The recursion of a fold over a sequence of length n has a function.     *)
LEMMA Folded ==
    ASSUME NEW n \in Nat, NEW Q, NEW b \in Q, NEW step \in [(1..n) \X Q -> Q]
    PROVE  Folds(n, Q, b, step)
<1> DEFINE D == SUBSET (1..n)
           m == [t \in D |-> Cardinality(t)]
           G == [p \in D \X [D -> Q] |->
                   IF p[1] = {} THEN b
                   ELSE step[<<Max(p[1]), p[2][p[1] \ {Max(p[1])}]>>]]
<1>1. IsFiniteSet(1..n) /\ Cardinality(1..n) = n BY FS_Interval
<1>2. ASSUME NEW t \in D PROVE IsFiniteSet(t) /\ Cardinality(t) \in 0..n
  <2>0. t \in SUBSET (1..n) OBVIOUS
  <2>1. IsFiniteSet(t) /\ Cardinality(t) <= Cardinality(1..n) BY <1>1, <2>0, FS_Subset
  <2>2. Cardinality(t) \in Nat BY <2>1, FS_CardinalityType
  <2> QED BY <1>1, <2>1, <2>2
<1>3. m \in [D -> 0..n] BY <1>2
<1>4. \A t \in D : t # {} => /\ Max(t) \in 1..n /\ t \ {Max(t)} \in D
                             /\ Cardinality(t \ {Max(t)}) < Cardinality(t)
  <2> SUFFICES ASSUME NEW t \in D, t # {}
               PROVE  /\ Max(t) \in 1..n /\ t \ {Max(t)} \in D
                      /\ Cardinality(t \ {Max(t)}) < Cardinality(t)
    OBVIOUS
  <2>1. Max(t) \in t BY MaxIn
  <2>2. IsFiniteSet(t) /\ Cardinality(t) \in 0..n BY <1>2
  <2>3. Cardinality(t \ {Max(t)}) = Cardinality(t) - 1
    BY <2>1, <2>2, FS_RemoveElement
  <2>4. Cardinality(t \ {Max(t)}) < Cardinality(t) BY <2>2, <2>3
  <2> QED BY <2>1, <2>4
<1>5. \A t \in D, f \in [D -> Q] :
         G[<<t, f>>] = IF t = {} THEN b ELSE step[<<Max(t), f[t \ {Max(t)}]>>]
  OBVIOUS
<1>6. G \in [D \X [D -> Q] -> Q]
  <2>1. ASSUME NEW t \in D, NEW f \in [D -> Q], t # {}
        PROVE  step[<<Max(t), f[t \ {Max(t)}]>>] \in Q
    BY <1>4, <2>1
  <2>2. \A p \in D \X [D -> Q] : G[p] \in Q
    BY <2>1
  <2> QED BY <2>2
<1>7. \A t \in D : \A f, g \in [D -> Q] :
         (\A e \in D : m[e] < m[t] => f[e] = g[e]) => G[<<t, f>>] = G[<<t, g>>]
  <2> SUFFICES ASSUME NEW t \in D, NEW f \in [D -> Q], NEW g \in [D -> Q],
                      \A e \in D : m[e] < m[t] => f[e] = g[e]
               PROVE  G[<<t, f>>] = G[<<t, g>>]
    OBVIOUS
  <2>1. t # {} => f[t \ {Max(t)}] = g[t \ {Max(t)}] BY <1>4
  <2> HIDE DEF G, m
  <2>2. G[<<t, f>>] = IF t = {} THEN b ELSE step[<<Max(t), f[t \ {Max(t)}]>>]
    BY <1>5, Zenon
  <2>3. G[<<t, g>>] = IF t = {} THEN b ELSE step[<<Max(t), g[t \ {Max(t)}]>>]
    BY <1>5, Zenon
  <2> QED BY <2>1, <2>2, <2>3, Zenon
<1> HIDE DEF D, m, G
<1>8. Descends(D, Q, n, m, G) BY <1>3, <1>6, <1>7 DEF Descends
<1>9. PICK f \in [D -> Q] : f = [t \in D |-> G[<<t, f>>]]
  BY <1>8, Recursion DEF Recurs
<1>10. \A t \in D : f[t] = IF t = {} THEN b ELSE step[<<Max(t), f[t \ {Max(t)}]>>]
  <2> SUFFICES ASSUME NEW t \in D
               PROVE  f[t] = IF t = {} THEN b ELSE step[<<Max(t), f[t \ {Max(t)}]>>]
    OBVIOUS
  <2>1. f[t] = G[<<t, f>>] BY <1>9
  <2> QED BY <1>5, <2>1
<1> QED BY <1>10 DEF D, Folds

(* Whatever its definition, what each step keeps holds at the end.         *)
LEMMA FoldIn ==
    ASSUME NEW n \in Nat, NEW I, NEW W, I[{}] \in W[0],
           \A m \in 1..n : I[1..(m - 1)] \in W[m - 1] => I[1..m] \in W[m]
    PROVE  I[1..n] \in W[n]
<1> DEFINE T == {m \in Nat : m <= n => I[1..m] \in W[m]}
<1>1. 0 \in T
  <2>1. 1..0 = {} OBVIOUS
  <2> QED BY <2>1
<1>2. ASSUME NEW m \in Nat, m \in T PROVE m + 1 \in T
  <2> SUFFICES ASSUME m + 1 <= n PROVE I[1..(m + 1)] \in W[m + 1]
    OBVIOUS
  <2>1. I[1..m] \in W[m] /\ m + 1 \in 1..n /\ (m + 1) - 1 = m BY <1>2
  <2> QED BY <2>1
<1> HIDE DEF T
<1>3. n \in T BY <1>1, <1>2, NatInd
<1> QED BY <1>3 DEF T

(* The same for a recursion over numbers.                                  *)
LEMMA Stepped ==
    ASSUME NEW n \in Nat, NEW Q, NEW b \in Q, NEW step \in [(1..n) \X Q -> Q]
    PROVE  Steps(n, Q, b, step)
<1>1. PICK H \in [SUBSET (1..n) -> Q] :
         \A t \in SUBSET (1..n) :
            H[t] = IF t = {} THEN b ELSE step[<<Max(t), H[t \ {Max(t)}]>>]
  <2>1. Folds(n, Q, b, step) BY Folded
  <2> QED BY <2>1 DEF Folds
<1> DEFINE F == [m \in 0..n |-> H[1..m]]
<1>2. \A m \in 0..n : 1..m \in SUBSET (1..n) OBVIOUS
<1>3. F \in [0..n -> Q] BY <1>2
<1>4. ASSUME NEW m \in 0..n
      PROVE  F[m] = IF m = 0 THEN b ELSE step[<<m, F[m - 1]>>]
  <2>1. F[m] = H[1..m] /\ (m # 0 => m - 1 \in 0..n /\ F[m - 1] = H[1..(m - 1)]) OBVIOUS
  <2> HIDE DEF F
  <2>2. CASE m = 0
    <3>1. 1..m = {} BY <2>2
    <3> QED BY <1>1, <2>1, <2>2, <3>1
  <2>3. CASE m # 0
    <3>1. Max(1..m) = m /\ (1..m) \ {m} = 1..(m - 1) BY <2>3, MaxFirst
    <3>2. 1..m # {} BY <2>3
    <3> QED BY <1>1, <1>2, <2>1, <2>3, <3>1, <3>2
  <2> QED BY <2>2, <2>3
<1> HIDE DEF F
<1> QED BY <1>3, <1>4 DEF Steps

-------------------------------------------------------------------------------
(* Lists *)

Gathered(s, T) ==
    CHOOSE f : f = [n \in 0..Len(s) |->
        IF n = 0 THEN <<>>
        ELSE IF s[n] \in T THEN Append(f[n - 1], s[n]) ELSE f[n - 1]]

(* How a part of a sequence is built, an element at a time.                *)
LEMMA ThoseBuilt ==
    ASSUME NEW S, NEW s \in Seq(S), NEW T
    PROVE  \E F : /\ Those(s, T) = F[Len(s)] /\ F[0] = <<>>
                  /\ \A m \in 1..Len(s) :
                        F[m] = IF s[m] \in T THEN Append(F[m - 1], s[m]) ELSE F[m - 1]
<1> DEFINE n == Len(s)
           Is(f) == f = [m \in 0..n |->
                       IF m = 0 THEN <<>>
                       ELSE IF s[m] \in T THEN Append(f[m - 1], s[m]) ELSE f[m - 1]]
           step == [p \in (1..n) \X Seq(S) |->
                       IF s[p[1]] \in T THEN Append(p[2], s[p[1]]) ELSE p[2]]
           F == Gathered(s, T)
<1>1. n \in Nat /\ \A k \in 1..n : s[k] \in S OBVIOUS
<1>2. \A p \in (1..n) \X Seq(S) : step[p] \in Seq(S)
  <2> SUFFICES ASSUME NEW k \in 1..n, NEW q \in Seq(S) PROVE step[<<k, q>>] \in Seq(S)
    OBVIOUS
  <2>1. Append(q, s[k]) \in Seq(S) BY <1>1, AppendProperties
  <2> QED BY <2>1
<1>3. step \in [(1..n) \X Seq(S) -> Seq(S)] BY <1>2
<1>4. \A k \in 1..n, q \in Seq(S) :
         step[<<k, q>>] = IF s[k] \in T THEN Append(q, s[k]) ELSE q
  OBVIOUS
<1>5. <<>> \in Seq(S) OBVIOUS
<1> HIDE DEF n, step
<1>6. PICK f \in [0..n -> Seq(S)] :
         \A m \in 0..n : f[m] = IF m = 0 THEN <<>> ELSE step[<<m, f[m - 1]>>]
  <2>1. Steps(n, Seq(S), <<>>, step) BY <1>1, <1>3, <1>5, Stepped
  <2> QED BY <2>1 DEF Steps
<1>7. \A m \in 0..n : m # 0 => m \in 1..n /\ m - 1 \in 0..n BY <1>1
<1>8. Is(f)
  <2>1. \A m \in 0..n : f[m] = IF m = 0 THEN <<>>
                              ELSE IF s[m] \in T THEN Append(f[m - 1], s[m]) ELSE f[m - 1]
    BY <1>4, <1>6, <1>7
  <2>2. f = [m \in 0..n |-> f[m]] OBVIOUS
  <2> QED BY <2>1, <2>2, Zenon
<1>9. Is(F)
  <2>1. F = CHOOSE g : Is(g) BY DEF Gathered, n
  <2> QED BY <1>8, <2>1, Zenon
<1>10. Those(s, T) = F[n] BY DEF Those, Gathered, n
<1> HIDE DEF F
<1>11. F[0] = <<>> /\ \A m \in 1..n :
          F[m] = IF s[m] \in T THEN Append(F[m - 1], s[m]) ELSE F[m - 1]
  <2>1. \A m \in 0..n : F[m] =
           IF m = 0 THEN <<>>
           ELSE IF s[m] \in T THEN Append(F[m - 1], s[m]) ELSE F[m - 1]
    BY <1>9
  <2>2. 0 \in 0..n /\ \A m \in 1..n : m \in 0..n /\ m # 0 BY <1>1
  <2> QED BY <2>1, <2>2
<1> QED BY <1>10, <1>11 DEF n

(* What is kept of a sequence is what is in the set, and no more often.    *)
LEMMA ThoseIs ==
    ASSUME NEW S, NEW s \in Seq(S), NEW T
    PROVE  /\ Those(s, T) \in Seq(S)
           /\ Range(Those(s, T)) = Range(s) \cap T
           /\ Len(Those(s, T)) = Cardinality({k \in 1..Len(s) : s[k] \in T})
           /\ Len(Those(s, T)) <= Len(s)
<1> DEFINE n == Len(s)
           at(m) == {k \in 1..m : s[k] \in T}
<1>1. n \in Nat /\ \A k \in 1..n : s[k] \in S OBVIOUS
<1>5. <<>> \in Seq(S) OBVIOUS
<1>9. PICK F : /\ Those(s, T) = F[n] /\ F[0] = <<>>
               /\ \A m \in 1..n :
                     F[m] = IF s[m] \in T THEN Append(F[m - 1], s[m]) ELSE F[m - 1]
  BY ThoseBuilt
<1>10. Those(s, T) = F[n] BY <1>9
<1> HIDE DEF n
<1>11. F[0] = <<>> /\ \A m \in 1..n :
          F[m] = IF s[m] \in T THEN Append(F[m - 1], s[m]) ELSE F[m - 1]
  BY <1>9
<1> DEFINE A == {m \in Nat : m <= n =>
                    /\ F[m] \in Seq(S)
                    /\ Range(F[m]) = {s[k] : k \in at(m)}
                    /\ IsFiniteSet(at(m)) /\ Len(F[m]) = Cardinality(at(m))
                    /\ Len(F[m]) <= m}
<1>12. 0 \in A
  <2>1. at(0) = {} OBVIOUS
  <2> HIDE DEF at
  <2>2. Range(<<>>) = {} /\ {s[k] : k \in at(0)} = {} BY <2>1 DEF Range
  <2>3. /\ F[0] \in Seq(S) /\ Range(F[0]) = {s[k] : k \in at(0)}
        /\ IsFiniteSet(at(0)) /\ Len(F[0]) = Cardinality(at(0)) /\ Len(F[0]) <= 0
    <3>1. IsFiniteSet({}) /\ Cardinality({}) = 0 BY FS_EmptySet
    <3>2. F[0] = <<>> /\ Len(<<>>) = 0 BY <1>11
    <3>3. F[0] \in Seq(S) /\ Range(F[0]) = {s[k] : k \in at(0)} BY <1>5, <2>2, <3>2
    <3>4. IsFiniteSet(at(0)) /\ Cardinality(at(0)) = 0 BY <2>1, <3>1
    <3> QED BY <3>2, <3>3, <3>4
  <2> QED BY <2>3
<1>13. ASSUME NEW m \in Nat, m \in A PROVE m + 1 \in A
  <2> SUFFICES ASSUME m + 1 <= n
               PROVE  /\ F[m + 1] \in Seq(S)
                      /\ Range(F[m + 1]) = {s[k] : k \in at(m + 1)}
                      /\ IsFiniteSet(at(m + 1)) /\ Len(F[m + 1]) = Cardinality(at(m + 1))
                      /\ Len(F[m + 1]) <= m + 1
    OBVIOUS
  <2>1. /\ F[m] \in Seq(S) /\ Range(F[m]) = {s[k] : k \in at(m)}
        /\ IsFiniteSet(at(m)) /\ Len(F[m]) = Cardinality(at(m)) /\ Len(F[m]) <= m
    BY <1>1, <1>13
  <2>2. m + 1 \in 1..n /\ (m + 1) - 1 = m BY <1>1
  <2>3. CASE s[m + 1] \in T
    <3>1. F[m + 1] = Append(F[m], s[m + 1]) BY <1>11, <2>2, <2>3
    <3>2. at(m + 1) = at(m) \cup {m + 1} /\ m + 1 \notin at(m) BY <2>3
    <3> HIDE DEF at
    <3>3. /\ F[m + 1] \in Seq(S) /\ Len(F[m + 1]) = Len(F[m]) + 1
          /\ \A k \in 1..Len(F[m]) : F[m + 1][k] = F[m][k]
          /\ F[m + 1][Len(F[m]) + 1] = s[m + 1]
      <4>1. s[m + 1] \in S BY <1>1, <2>2
      <4> QED BY <2>1, <3>1, <4>1, AppendProperties
    <3>4. Range(F[m + 1]) = Range(F[m]) \cup {s[m + 1]}
      <4>1. /\ Range(F[m]) = {F[m][k] : k \in 1..Len(F[m])}
            /\ Range(F[m + 1]) = {F[m + 1][k] : k \in 1..Len(F[m + 1])}
        <5>1. F[m] \in Seq(S) /\ F[m + 1] \in Seq(S) BY <2>1, <3>3
        <5>2. \A q \in Seq(S) : Range(q) = {q[k] : k \in 1..Len(q)} BY RangeEquality
        <5> QED BY <5>1, <5>2
      <4>2. Len(F[m]) \in Nat BY <2>1
      <4>3. \A k \in 1..Len(F[m + 1]) : k \in 1..Len(F[m]) \/ k = Len(F[m]) + 1
        BY <3>3, <4>2
      <4>4. \A k \in 1..Len(F[m]) : k \in 1..Len(F[m + 1]) BY <3>3, <4>2
      <4>5. Len(F[m]) + 1 \in 1..Len(F[m + 1]) BY <3>3, <4>2
      <4> QED BY <3>3, <4>1, <4>3, <4>4, <4>5
    <3>5. {s[k] : k \in at(m + 1)} = {s[k] : k \in at(m)} \cup {s[m + 1]} BY <3>2
    <3>6. /\ IsFiniteSet(at(m + 1)) /\ Cardinality(at(m + 1)) = Cardinality(at(m)) + 1
      BY <2>1, <3>2, FS_AddElement
    <3>7. Len(F[m]) \in Nat BY <2>1
    <3>8. Len(F[m + 1]) = Cardinality(at(m + 1)) /\ Len(F[m + 1]) <= m + 1
      BY <2>1, <3>3, <3>6, <3>7
    <3> QED BY <2>1, <3>3, <3>4, <3>5, <3>6, <3>8
  <2>4. CASE s[m + 1] \notin T
    <3>1. F[m + 1] = F[m] BY <1>11, <2>2, <2>4
    <3>2. at(m + 1) = at(m) BY <2>4
    <3> HIDE DEF at
    <3>3. Len(F[m]) \in Nat /\ Len(F[m]) <= m + 1 BY <2>1
    <3> QED BY <2>1, <3>1, <3>2, <3>3
  <2> QED BY <2>3, <2>4
<1> HIDE DEF A
<1>14. n \in A BY <1>1, <1>12, <1>13, NatInd
<1>15. Range(s) = {s[k] : k \in 1..n} BY RangeEquality DEF n
<1>16. {s[k] : k \in at(n)} = Range(s) \cap T BY <1>15
<1> QED BY <1>1, <1>10, <1>14, <1>16 DEF A, n

(* Numbers in their order stay in it.                                      *)
LEMMA ThoseAscend ==
    ASSUME NEW n \in Nat, NEW T
    PROVE  LET s == Those([k \in 1..n |-> k], T) IN
           \A a, b \in 1..Len(s) : a < b => s[a] < s[b]
<1> DEFINE r == [k \in 1..n |-> k]
           Up(q) == \A a, b \in 1..Len(q) : a < b => q[a] < q[b]
<1>1. r \in Seq(Nat) /\ Len(r) = n /\ \A k \in 1..n : r[k] = k OBVIOUS
<1> HIDE DEF r
<1>2. PICK F : /\ Those(r, T) = F[n] /\ F[0] = <<>>
               /\ \A m \in 1..n :
                     F[m] = IF r[m] \in T THEN Append(F[m - 1], r[m]) ELSE F[m - 1]
  BY <1>1, ThoseBuilt
<1> DEFINE A == {m \in Nat : m <= n => F[m] \in Seq(1..m) /\ Up(F[m])}
<1>3. 0 \in A
  <2>1. <<>> \in Seq(1..0) /\ Up(<<>>) OBVIOUS
  <2> QED BY <1>2, <2>1
<1>4. ASSUME NEW m \in Nat, m \in A PROVE m + 1 \in A
  <2> SUFFICES ASSUME m + 1 <= n PROVE F[m + 1] \in Seq(1..(m + 1)) /\ Up(F[m + 1])
    OBVIOUS
  <2>1. F[m] \in Seq(1..m) /\ Up(F[m])
    <3>1. m <= n OBVIOUS
    <3> QED BY <1>4, <3>1
  <2>2. m + 1 \in 1..n /\ (m + 1) - 1 = m OBVIOUS
  <2>3. r[m + 1] = m + 1 BY <1>1, <2>2
  <2>4. F[m + 1] = IF r[m + 1] \in T THEN Append(F[m], r[m + 1]) ELSE F[m]
    BY <1>2, <2>2
  <2>5. 1..m \subseteq 1..(m + 1) OBVIOUS
  <2>6. CASE r[m + 1] \in T
    <3> DEFINE q == F[m]
               w == F[m + 1]
    <3>1. w = Append(q, m + 1) BY <2>3, <2>4, <2>6
    <3>2. q \in Seq(1..(m + 1)) /\ \A a \in 1..Len(q) : q[a] \in 1..m
      BY <2>1, <2>5
    <3>3. Up(q) BY <2>1
    <3> HIDE DEF q, w, A
    <3>4. /\ w \in Seq(1..(m + 1)) /\ Len(w) = Len(q) + 1
          /\ \A a \in 1..Len(q) : w[a] = q[a]
          /\ w[Len(q) + 1] = m + 1
      BY <3>1, <3>2, AppendProperties
    <3>5. Len(q) \in Nat BY <3>2
    <3>6. \A a \in 1..Len(w) : a \in 1..Len(q) \/ a = Len(q) + 1 BY <3>4, <3>5
    <3>7. ASSUME NEW a \in 1..Len(w), NEW b \in 1..Len(w), a < b PROVE w[a] < w[b]
      <4>1. a \in 1..Len(q) BY <3>5, <3>6, <3>7
      <4>2. CASE b \in 1..Len(q) BY <3>3, <3>4, <3>7, <4>1, <4>2
      <4>3. CASE b = Len(q) + 1
        <5>1. w[a] \in 1..m /\ w[b] = m + 1 BY <3>2, <3>4, <4>1, <4>3
        <5> QED BY <5>1
      <4> QED BY <3>6, <4>2, <4>3
    <3> QED BY <3>4, <3>7 DEF w
  <2>7. CASE r[m + 1] \notin T
    <3>1. F[m + 1] = F[m] BY <2>4, <2>7
    <3>2. F[m] \in Seq(1..(m + 1)) BY <2>1, <2>5
    <3> QED BY <2>1, <3>1, <3>2
  <2> QED BY <2>6, <2>7
<1> HIDE DEF A
<1>5. n \in A BY <1>3, <1>4, NatInd
<1> QED BY <1>2, <1>5 DEF A, r

Joined(seqs) ==
    CHOOSE f : f = [k \in 1..Len(seqs) |->
        IF k = 1 THEN seqs[k] ELSE f[k - 1] \o seqs[k]]

(* Flattened, sequences are put one after the other.                       *)
LEMMA FlattenSteps ==
    ASSUME NEW S, NEW seqs \in Seq(Seq(S))
    PROVE  \E F \in [0..Len(seqs) -> Seq(S)] :
              /\ F[0] = <<>> /\ F[Len(seqs)] = FlattenSeq(seqs)
              /\ \A m \in 1..Len(seqs) : F[m] = F[m - 1] \o seqs[m]
<1> DEFINE n == Len(seqs)
           Is(f) == f = [k \in 1..n |-> IF k = 1 THEN seqs[k] ELSE f[k - 1] \o seqs[k]]
           step == [p \in (1..n) \X Seq(S) |-> p[2] \o seqs[p[1]]]
           I == Joined(seqs)
<1>1. n \in Nat /\ \A k \in 1..n : seqs[k] \in Seq(S) OBVIOUS
<1>2. \A p \in (1..n) \X Seq(S) : step[p] \in Seq(S)
  <2> SUFFICES ASSUME NEW k \in 1..n, NEW q \in Seq(S) PROVE step[<<k, q>>] \in Seq(S)
    OBVIOUS
  <2>1. q \o seqs[k] \in Seq(S) BY <1>1, ConcatProperties
  <2> QED BY <2>1
<1>3. step \in [(1..n) \X Seq(S) -> Seq(S)] BY <1>2
<1>4. \A k \in 1..n, q \in Seq(S) : step[<<k, q>>] = q \o seqs[k] OBVIOUS
<1>5. <<>> \in Seq(S) OBVIOUS
<1> HIDE DEF n, step
<1>6. PICK f \in [0..n -> Seq(S)] :
         \A m \in 0..n : f[m] = IF m = 0 THEN <<>> ELSE step[<<m, f[m - 1]>>]
  <2>1. Steps(n, Seq(S), <<>>, step) BY <1>1, <1>3, <1>5, Stepped
  <2> QED BY <2>1 DEF Steps
<1>7. f[0] = <<>> /\ \A m \in 1..n : f[m] = f[m - 1] \o seqs[m]
  <2>1. 0 \in 0..n /\ \A m \in 1..n : m \in 0..n /\ m # 0 /\ m - 1 \in 0..n BY <1>1
  <2> QED BY <1>4, <1>6, <2>1
<1>8. Is([k \in 1..n |-> f[k]])
  <2> DEFINE g == [k \in 1..n |-> f[k]]
  <2>1. ASSUME NEW k \in 1..n
        PROVE  g[k] = IF k = 1 THEN seqs[k] ELSE g[k - 1] \o seqs[k]
    <3>1. g[k] = f[k] /\ f[k] = f[k - 1] \o seqs[k] BY <1>7
    <3>2. CASE k = 1
      <4>0. k - 1 = 0 BY <3>2
      <4>1. f[k] = <<>> \o seqs[k] /\ seqs[k] \in Seq(S) BY <1>1, <1>7, <3>1, <4>0
      <4>2. <<>> \o seqs[k] = seqs[k] BY <4>1, ConcatEmptySeq
      <4> HIDE DEF g
      <4> QED BY <3>1, <3>2, <4>1, <4>2
    <3>3. CASE k # 1
      <4>1. k - 1 \in 1..n BY <1>1, <3>3
      <4>2. g[k - 1] = f[k - 1] BY <4>1
      <4> HIDE DEF g
      <4> QED BY <3>1, <3>3, <4>2, Zenon
    <3> QED BY <3>2, <3>3
  <2> QED BY <2>1
<1>9. Is(I)
  <2>1. I = CHOOSE g : Is(g) BY DEF Joined, n
  <2> QED BY <1>8, <2>1, Zenon
<1>10. FlattenSeq(seqs) = IF n = 0 THEN seqs ELSE I[n]
  BY DEF FlattenSeq, Joined, n
<1> HIDE DEF I
<1>11. I = [k \in 1..n |-> IF k = 1 THEN seqs[k] ELSE I[k - 1] \o seqs[k]] BY <1>9
<1> DEFINE A == {m \in Nat : m \in 1..n => I[m] = f[m]}
<1>12. 0 \in A OBVIOUS
<1>13. ASSUME NEW m \in Nat, m \in A PROVE m + 1 \in A
  <2> SUFFICES ASSUME m + 1 \in 1..n PROVE I[m + 1] = f[m + 1] OBVIOUS
  <2>1. f[m + 1] = f[m] \o seqs[m + 1]
    <3>1. (m + 1) - 1 = m OBVIOUS
    <3> QED BY <1>7, <3>1
  <2>2. CASE m = 0
    <3>1. I[m + 1] = seqs[m + 1] BY <1>11, <2>2
    <3>2. <<>> \o seqs[m + 1] = seqs[m + 1] BY <1>1, ConcatEmptySeq
    <3>3. f[m] = <<>> BY <1>7, <2>2
    <3> QED BY <2>1, <3>1, <3>2, <3>3
  <2>3. CASE m # 0
    <3>1. m \in 1..n /\ m + 1 # 1 /\ (m + 1) - 1 = m BY <1>1, <2>3
    <3>2. I[m + 1] = I[m] \o seqs[m + 1] BY <1>11, <3>1
    <3> QED BY <1>13, <2>1, <3>1, <3>2
  <2> QED BY <2>2, <2>3
<1> HIDE DEF A
<1>14. n \in A BY <1>1, <1>12, <1>13, NatInd
<1>15. f[n] = FlattenSeq(seqs)
  <2>1. CASE n = 0
    <3>1. seqs = <<>> BY <2>1 DEF n
    <3>2. f[n] = <<>> BY <1>7, <2>1
    <3>3. FlattenSeq(seqs) = seqs BY <1>10, <2>1
    <3> QED BY <3>1, <3>2, <3>3
  <2>2. CASE n # 0
    <3>1. n \in 1..n BY <1>1, <2>2
    <3> QED BY <1>10, <1>14, <2>2, <3>1 DEF A
  <2> QED BY <2>1, <2>2
<1> QED BY <1>6, <1>7, <1>15 DEF n

(* So all together they hold what they held.                               *)
LEMMA FlattenIs ==
    ASSUME NEW S, NEW seqs \in Seq(Seq(S))
    PROVE  /\ FlattenSeq(seqs) \in Seq(S)
           /\ Range(FlattenSeq(seqs)) = UNION {Range(seqs[k]) : k \in 1..Len(seqs)}
<1> DEFINE n == Len(seqs)
           all(m) == UNION {Range(seqs[k]) : k \in 1..m}
<1>1. n \in Nat /\ \A k \in 1..n : seqs[k] \in Seq(S) OBVIOUS
<1>2. PICK F \in [0..n -> Seq(S)] :
         /\ F[0] = <<>> /\ F[n] = FlattenSeq(seqs)
         /\ \A m \in 1..n : F[m] = F[m - 1] \o seqs[m]
  BY FlattenSteps
<1> HIDE DEF n
<1> DEFINE A == {m \in Nat : m <= n => Range(F[m]) = all(m)}
<1>3. 0 \in A
  <2>1. Range(<<>>) = {} /\ all(0) = {} BY DEF Range
  <2> HIDE DEF all
  <2> QED BY <1>2, <2>1
<1>4. ASSUME NEW m \in Nat, m \in A PROVE m + 1 \in A
  <2> SUFFICES ASSUME m + 1 <= n PROVE Range(F[m + 1]) = all(m + 1) OBVIOUS
  <2>1. m + 1 \in 1..n /\ (m + 1) - 1 = m /\ m \in 0..n BY <1>1
  <2>2. F[m + 1] = F[m] \o seqs[m + 1] /\ F[m] \in Seq(S) /\ seqs[m + 1] \in Seq(S)
    BY <1>1, <1>2, <2>1
  <2>3. Range(F[m] \o seqs[m + 1]) = Range(F[m]) \cup Range(seqs[m + 1])
    BY <2>2, RangeConcatenation
  <2>4. all(m + 1) = all(m) \cup Range(seqs[m + 1])
    <3>1. 1..(m + 1) = (1..m) \cup {m + 1} OBVIOUS
    <3> QED BY <3>1
  <2> HIDE DEF all
  <2>5. Range(F[m]) = all(m) BY <1>1, <1>4
  <2> QED BY <2>2, <2>3, <2>4, <2>5
<1> HIDE DEF A
<1>5. n \in A BY <1>1, <1>3, <1>4, NatInd
<1>6. F[n] \in Seq(S) BY <1>1
<1> QED BY <1>1, <1>2, <1>5, <1>6 DEF A, n

(* And none of two or fewer is long.                                       *)
LEMMA FlattenShort ==
    ASSUME NEW S, NEW seqs \in Seq(Seq(S)), \A k \in 1..Len(seqs) : Len(seqs[k]) <= 2
    PROVE  Len(FlattenSeq(seqs)) <= 2 * Len(seqs)
<1> DEFINE n == Len(seqs)
<1>1. n \in Nat /\ \A k \in 1..n : seqs[k] \in Seq(S) /\ Len(seqs[k]) <= 2 OBVIOUS
<1>2. PICK F \in [0..n -> Seq(S)] :
         /\ F[0] = <<>> /\ F[n] = FlattenSeq(seqs)
         /\ \A m \in 1..n : F[m] = F[m - 1] \o seqs[m]
  BY FlattenSteps
<1> HIDE DEF n
<1> DEFINE A == {m \in Nat : m <= n => Len(F[m]) <= 2 * m}
<1>3. 0 \in A BY <1>2
<1>4. ASSUME NEW m \in Nat, m \in A PROVE m + 1 \in A
  <2> SUFFICES ASSUME m + 1 <= n PROVE Len(F[m + 1]) <= 2 * (m + 1) OBVIOUS
  <2>1. m + 1 \in 1..n /\ (m + 1) - 1 = m /\ m \in 0..n BY <1>1
  <2>2. F[m + 1] = F[m] \o seqs[m + 1] /\ F[m] \in Seq(S) /\ seqs[m + 1] \in Seq(S)
    BY <1>1, <1>2, <2>1
  <2>3. Len(F[m] \o seqs[m + 1]) = Len(F[m]) + Len(seqs[m + 1])
    BY <2>2, ConcatProperties
  <2>4. Len(F[m]) \in Nat /\ Len(seqs[m + 1]) \in Nat BY <2>2
  <2>5. Len(F[m]) <= 2 * m /\ Len(seqs[m + 1]) <= 2 BY <1>1, <1>4, <2>1
  <2> HIDE DEF A
  <2>6. \A a, b \in Nat : a <= 2 * m /\ b <= 2 => a + b <= 2 * (m + 1) OBVIOUS
  <2> QED BY <2>2, <2>3, <2>4, <2>5, <2>6
<1> HIDE DEF A
<1>5. n \in A BY <1>1, <1>3, <1>4, NatInd
<1> QED BY <1>1, <1>2, <1>5 DEF A, n

-------------------------------------------------------------------------------
(* References: what is encoded is decoded *)

(* Products by n of whole numbers are n apart at least.                    *)
LEMMA ProductOrder ==
    ASSUME NEW n \in Nat \ {0}, NEW a \in Int, NEW b \in Int, a < b
    PROVE  a * n + n <= b * n
<1>1. (b - a) * n = b * n - a * n OBVIOUS
<1>2. PICK k \in Nat : b - a = k + 1 OBVIOUS
<1>3. k * n \in Nat OBVIOUS
<1>4. (k + 1) * n = k * n + n OBVIOUS
<1> QED BY <1>1, <1>2, <1>3, <1>4

(* A quotient and its remainder are read back.                             *)
LEMMA DivideOnce ==
    ASSUME NEW n \in Nat \ {0}, NEW a \in Nat, NEW b \in 0..(n - 1)
    PROVE  /\ (a * n + b) \div n = a
           /\ (a * n + b) % n = b
<1> DEFINE x == a * n + b
           q == x \div n
           r == x % n
<1>1. a * n \in Nat /\ x \in Nat OBVIOUS
<1>2. q \in Int /\ r \in 0..(n - 1) /\ x = n * q + r BY <1>1
<1>3. n * q = q * n /\ q * n \in Int BY <1>2
<1>4. ~(q < a)
  <2> SUFFICES ASSUME q < a PROVE FALSE OBVIOUS
  <2>1. q * n + n <= a * n BY <1>2, ProductOrder
  <2> HIDE DEF q, r
  <2> QED BY <2>1, <1>1, <1>2, <1>3
<1>5. ~(a < q)
  <2> SUFFICES ASSUME a < q PROVE FALSE OBVIOUS
  <2>1. a * n + n <= q * n BY <1>2, ProductOrder
  <2> HIDE DEF q, r
  <2> QED BY <2>1, <1>1, <1>2, <1>3
<1>6. q = a BY <1>2, <1>4, <1>5
<1>7. r = b BY <1>1, <1>2, <1>3, <1>6
<1> QED BY <1>6, <1>7

(* The numbers that a reference has room for.                              *)
LEMMA Rooms ==
    /\ Salts \in Nat \ {0} /\ Salts > 2
    /\ TileNumbers \in Nat \ {0} /\ PolyNumbers \in Nat \ {0}
    /\ TileNumbers * PolyNumbers \in Nat \ {0}
    /\ Slots \subseteq 0..(TileNumbers - 1) /\ Slots \subseteq Nat
<1>1. /\ Salts \in Nat \ {0} /\ Salts > 2
      /\ TileNumbers \in Nat \ {0} /\ PolyNumbers \in Nat \ {0}
      /\ MaxTiles \in Nat \ {0} /\ MaxTiles <= TileNumbers
  BY TilesAssumption
<1>2. 0 * PolyNumbers + PolyNumbers <= TileNumbers * PolyNumbers
  BY <1>1, ProductOrder
<1>3. TileNumbers * PolyNumbers \in Nat /\ TileNumbers * PolyNumbers > 0
  BY <1>1, <1>2
<1> QED BY <1>1, <1>3 DEF Slots

(* encodePolyId and the three decodings, for numbers within their bits.    *)
THEOREM ReferencesDecode ==
    ASSUME NEW salt \in 0..(Salts - 1), NEW it \in 0..(TileNumbers - 1),
           NEW ip \in 0..(PolyNumbers - 1)
    PROVE  /\ DecodePolyIdSalt(EncodePolyId(salt, it, ip)) = salt
           /\ DecodePolyIdTile(EncodePolyId(salt, it, ip)) = it
           /\ DecodePolyIdPoly(EncodePolyId(salt, it, ip)) = ip
<1> DEFINE both == salt * TileNumbers + it
           ref == both * PolyNumbers + ip
           low == it * PolyNumbers + ip
           room == TileNumbers * PolyNumbers
<1>1. /\ Salts \in Nat \ {0} /\ TileNumbers \in Nat \ {0}
      /\ PolyNumbers \in Nat \ {0} /\ room \in Nat \ {0}
  BY Rooms
<1>2. EncodePolyId(salt, it, ip) = ref BY DEF EncodePolyId
<1>3. both \in Nat BY <1>1
<1>4. ref \div PolyNumbers = both /\ ref % PolyNumbers = ip
  BY <1>1, <1>3, DivideOnce
<1>5. both % TileNumbers = it BY <1>1, DivideOnce
<1>6. low \in 0..(room - 1)
  <2>1. it * PolyNumbers + PolyNumbers <= room BY <1>1, ProductOrder
  <2>2. it * PolyNumbers \in Nat BY <1>1
  <2> HIDE DEF room
  <2> QED BY <1>1, <2>1, <2>2
<1>7. ref = salt * room + low
  <2>1. /\ salt \in Nat /\ it \in Nat /\ TileNumbers \in Nat
        /\ PolyNumbers \in Nat
    BY <1>1
  <2>2. \A a, t, p, b, c \in Nat : (a * t + b) * p + c = a * (t * p) + (b * p + c)
    OBVIOUS
  <2> QED BY <2>1, <2>2
<1>8. ref \div room = salt
  <2> HIDE DEF ref, low, room
  <2> QED BY <1>1, <1>6, <1>7, DivideOnce
<1>9. salt % Salts = salt
  <2>1. (0 * Salts + salt) % Salts = salt BY <1>1, DivideOnce
  <2>2. 0 * Salts + salt = salt BY <1>1
  <2> QED BY <2>1, <2>2
<1> QED
  BY <1>2, <1>4, <1>5, <1>8, <1>9
     DEF DecodePolyIdSalt, DecodePolyIdTile, DecodePolyIdPoly

-------------------------------------------------------------------------------
(* Lists of slots *)

OnceIn(list) ==
    /\ list \in Seq(Slots)
    /\ \A a, b \in 1..Len(list) : list[a] = list[b] => a = b

Holds(list, i) == \E k \in 1..Len(list) : list[k] = i

(* What a list without doubles holds is in it once.                        *)
LEMMA Counted ==
    ASSUME NEW list, OnceIn(list), NEW i
    PROVE  Times(i, list) = IF Holds(list, i) THEN 1 ELSE 0
<1> DEFINE at == {n \in 1..Len(list) : list[n] = i}
<1>1. CASE ~Holds(list, i)
  <2>1. at = {} BY <1>1 DEF Holds
  <2> QED BY <1>1, <2>1, FS_EmptySet DEF Times
<1>2. CASE Holds(list, i)
  <2>1. PICK k \in 1..Len(list) : list[k] = i BY <1>2 DEF Holds
  <2>2. at = {k} BY <2>1 DEF OnceIn
  <2> QED BY <1>2, <2>2, FS_Singleton DEF Times
<1> QED BY <1>1, <1>2

(* A slot put before such a list is held by it, and once.                  *)
LEMMA Prepended ==
    ASSUME NEW list, OnceIn(list), NEW i \in Slots, ~Holds(list, i)
    PROVE  /\ OnceIn(<<i>> \o list)
           /\ \A j : Holds(<<i>> \o list, j) <=> j = i \/ Holds(list, j)
<1> DEFINE new == <<i>> \o list
<1>1. list \in Seq(Slots) /\ Len(list) \in Nat BY DEF OnceIn
<1>2. /\ new \in Seq(Slots) /\ Len(new) = Len(list) + 1 /\ new[1] = i
      /\ \A k \in 1..Len(list) : new[k + 1] = list[k]
      /\ \A k \in 2..(Len(list) + 1) : new[k] = list[k - 1]
  <2>1. <<i>> \in Seq(Slots) /\ Len(<<i>>) = 1 /\ <<i>>[1] = i OBVIOUS
  <2>2. /\ new \in Seq(Slots) /\ Len(new) = 1 + Len(list)
        /\ \A k \in 1..(1 + Len(list)) :
              new[k] = IF k <= 1 THEN <<i>>[k] ELSE list[k - 1]
    BY <1>1, <2>1, ConcatProperties
  <2> HIDE DEF new
  <2> QED BY <1>1, <2>1, <2>2
<1> HIDE DEF new
<1>3. ASSUME NEW a \in 1..Len(new), NEW b \in 1..Len(new), new[a] = new[b]
      PROVE  a = b
  <2>1. CASE a = 1 /\ b # 1
    <3>1. b \in 2..(Len(list) + 1) /\ b - 1 \in 1..Len(list) BY <1>1, <1>2, <2>1
    <3>2. list[b - 1] = i BY <1>2, <1>3, <2>1, <3>1
    <3> QED BY <3>1, <3>2 DEF Holds
  <2>2. CASE b = 1 /\ a # 1
    <3>1. a \in 2..(Len(list) + 1) /\ a - 1 \in 1..Len(list) BY <1>1, <1>2, <2>2
    <3>2. list[a - 1] = i BY <1>2, <1>3, <2>2, <3>1
    <3> QED BY <3>1, <3>2 DEF Holds
  <2>3. CASE a # 1 /\ b # 1
    <3>1. a - 1 \in 1..Len(list) /\ b - 1 \in 1..Len(list) BY <1>1, <1>2, <2>3
    <3>2. list[a - 1] = list[b - 1] BY <1>1, <1>2, <1>3, <2>3
    <3>3. a - 1 = b - 1 BY <3>1, <3>2 DEF OnceIn
    <3> QED BY <3>3
  <2> QED BY <2>1, <2>2, <2>3
<1>4. ASSUME NEW j PROVE Holds(new, j) <=> j = i \/ Holds(list, j)
  <2>1. ASSUME NEW k \in 1..Len(new), new[k] = j PROVE j = i \/ Holds(list, j)
    <3>1. CASE k = 1 BY <1>2, <2>1, <3>1
    <3>2. CASE k # 1
      <4>1. k - 1 \in 1..Len(list) /\ list[k - 1] = j BY <1>1, <1>2, <2>1, <3>2
      <4> QED BY <4>1 DEF Holds
    <3> QED BY <3>1, <3>2
  <2>2. ASSUME NEW k \in 1..Len(list), list[k] = j PROVE Holds(new, j)
    <3>1. k + 1 \in 1..Len(new) /\ new[k + 1] = j BY <1>1, <1>2, <2>2
    <3> QED BY <3>1 DEF Holds
  <2>3. 1 \in 1..Len(new) BY <1>1, <1>2
  <2> QED BY <1>2, <2>1, <2>2, <2>3 DEF Holds
<1>5. OnceIn(new) BY <1>2, <1>3 DEF OnceIn
<1> QED BY <1>4, <1>5 DEF new

(* A slot taken out of such a list is held no more.                        *)
LEMMA TakenOut ==
    ASSUME NEW list, OnceIn(list), NEW i, Holds(list, i)
    PROVE  /\ OnceIn(Without(list, i))
           /\ \A j : Holds(Without(list, i), j) <=> j # i /\ Holds(list, j)
<1> DEFINE k == CHOOSE k \in 1..Len(list) : list[k] = i
           new == SubSeq(list, 1, k - 1) \o SubSeq(list, k + 1, Len(list))
           len == Len(list)
<1>1. list \in Seq(Slots) /\ len \in Nat /\ DOMAIN list = 1..len BY DEF OnceIn
<1>2. k \in 1..len /\ list[k] = i BY DEF Holds
<1>3. Without(list, i) = new
  BY <1>1, <1>2 DEF Without, RemoveAt, Range
<1> HIDE DEF k
<1>4. \A a \in 1..len : list[a] \in Slots BY <1>1
<1>5. /\ SubSeq(list, 1, k - 1) \in Seq(Slots)
      /\ Len(SubSeq(list, 1, k - 1)) = k - 1
      /\ \A a \in 1..(k - 1) : SubSeq(list, 1, k - 1)[a] = list[a]
  <2>1. \A a \in 1..(k - 1) : list[a] \in Slots BY <1>1, <1>2, <1>4
  <2>2. /\ SubSeq(list, 1, k - 1) \in Seq(Slots)
        /\ Len(SubSeq(list, 1, k - 1)) = IF 1 <= k - 1 THEN k - 1 - 1 + 1 ELSE 0
        /\ \A a \in 1..(k - 1 - 1 + 1) : SubSeq(list, 1, k - 1)[a] = list[1 + a - 1]
    BY <1>2, <2>1, SubSeqProperties
  <2> QED BY <1>1, <1>2, <2>2
<1>6. /\ SubSeq(list, k + 1, len) \in Seq(Slots)
      /\ Len(SubSeq(list, k + 1, len)) = len - k
      /\ \A a \in 1..(len - k) : SubSeq(list, k + 1, len)[a] = list[k + a]
  <2>1. \A a \in (k + 1)..len : list[a] \in Slots BY <1>1, <1>2, <1>4
  <2>2. /\ SubSeq(list, k + 1, len) \in Seq(Slots)
        /\ Len(SubSeq(list, k + 1, len))
              = IF k + 1 <= len THEN len - (k + 1) + 1 ELSE 0
        /\ \A a \in 1..(len - (k + 1) + 1) :
              SubSeq(list, k + 1, len)[a] = list[k + 1 + a - 1]
    BY <1>1, <1>2, <2>1, SubSeqProperties
  <2> DEFINE m == SubSeq(list, k + 1, len)
  <2> HIDE DEF m, len
  <2>3. Len(m) = len - k BY <1>1, <1>2, <2>2 DEF m
  <2>4. ASSUME NEW a \in 1..(len - k) PROVE m[a] = list[k + a]
    <3>1. a \in 1..(len - (k + 1) + 1) /\ k + 1 + a - 1 = k + a
      BY <1>1, <1>2
    <3>2. m[a] = list[k + 1 + a - 1] BY <2>2, <3>1 DEF m
    <3> QED BY <3>1, <3>2
  <2> QED BY <2>2, <2>3, <2>4 DEF m
<1>7. /\ new \in Seq(Slots) /\ Len(new) = len - 1
      /\ \A a \in 1..(len - 1) :
            new[a] = IF a <= k - 1 THEN list[a] ELSE list[a + 1]
  <2> DEFINE l == SubSeq(list, 1, k - 1)
             m == SubSeq(list, k + 1, len)
  <2>1. /\ l \in Seq(Slots) /\ m \in Seq(Slots) /\ Len(l) = k - 1 /\ Len(m) = len - k
        /\ new = l \o m
    BY <1>5, <1>6
  <2>2. /\ \A a \in 1..(k - 1) : l[a] = list[a]
        /\ \A a \in 1..(len - k) : m[a] = list[k + a]
    BY <1>5, <1>6
  <2> HIDE DEF l, m, new
  <2>3. /\ l \o m \in Seq(Slots) /\ Len(l \o m) = Len(l) + Len(m)
        /\ \A a \in 1..(Len(l) + Len(m)) :
              (l \o m)[a] = IF a <= Len(l) THEN l[a] ELSE m[a - Len(l)]
    BY <2>1, ConcatProperties
  <2>4. Len(l) + Len(m) = len - 1 BY <1>1, <1>2, <2>1
  <2>5. ASSUME NEW a \in 1..(len - 1)
        PROVE  new[a] = IF a <= k - 1 THEN list[a] ELSE list[a + 1]
    <3>1. new[a] = IF a <= k - 1 THEN l[a] ELSE m[a - (k - 1)]
      BY <2>1, <2>3, <2>4
    <3>2. CASE a <= k - 1 BY <1>1, <1>2, <2>2, <3>1, <3>2
    <3>3. CASE ~(a <= k - 1)
      <4>1. a - (k - 1) \in 1..(len - k) /\ k + (a - (k - 1)) = a + 1
        BY <1>1, <1>2, <3>3
      <4> QED BY <2>2, <3>1, <3>3, <4>1
    <3> QED BY <3>2, <3>3
  <2> QED BY <2>1, <2>3, <2>4, <2>5
<1> HIDE DEF new
<1>8. ASSUME NEW a \in 1..Len(new), NEW b \in 1..Len(new), new[a] = new[b]
      PROVE  a = b
  <2> DEFINE old(c) == IF c <= k - 1 THEN c ELSE c + 1
  <2>1. old(a) \in 1..len /\ old(b) \in 1..len BY <1>1, <1>2, <1>7
  <2>2. list[old(a)] = list[old(b)] BY <1>1, <1>2, <1>7, <1>8
  <2>3. old(a) = old(b) BY <2>1, <2>2 DEF OnceIn
  <2> QED BY <1>1, <1>2, <1>7, <2>3
<1>9. ASSUME NEW j PROVE Holds(new, j) <=> j # i /\ Holds(list, j)
  <2>1. ASSUME NEW a \in 1..Len(new), new[a] = j PROVE j # i /\ Holds(list, j)
    <3>1. PICK b \in 1..len : b # k /\ list[b] = j
      BY <1>1, <1>2, <1>7, <2>1
    <3> QED BY <1>2, <3>1 DEF Holds, OnceIn
  <2>2. ASSUME NEW b \in 1..len, list[b] = j, j # i PROVE Holds(new, j)
    <3>1. CASE b < k
      <4>1. b \in 1..Len(new) /\ new[b] = j BY <1>1, <1>2, <1>7, <2>2, <3>1
      <4> QED BY <4>1 DEF Holds
    <3>2. CASE b > k
      <4>1. b - 1 \in 1..Len(new) /\ new[b - 1] = j
        BY <1>1, <1>2, <1>7, <2>2, <3>2
      <4> QED BY <4>1 DEF Holds
    <3> QED BY <1>1, <1>2, <2>2, <3>1, <3>2
  <2> QED BY <2>1, <2>2 DEF Holds
<1>10. OnceIn(new) BY <1>7, <1>8 DEF OnceIn
<1> QED BY <1>3, <1>9, <1>10

-------------------------------------------------------------------------------
(* The inductive invariant *)

Salt == 1..(Salts - 1)
SlotsTyped == slots \in [Slots -> [salt : Salt, data : DOMAIN Data \cup {NoData}]]

FreeOK ==
    /\ OnceIn(freeList)
    /\ \A i \in Slots : Holds(freeList, i) <=> ~Used(slots, i)

LutOK ==
    \A h \in DOMAIN lut :
        /\ OnceIn(lut[h])
        /\ \A i \in Slots : Holds(lut[h], i) <=> InChain(i, h)

(* A kept reference is one that a slot gave out: the slot has its salt and *)
(* still holds that tile, or has moved on to a greater salt.               *)
RefOf(salt, i) == EncodePolyId(salt, i, 0)
Past(salt, i, name) ==
    \/ salt < slots[i].salt
    \/ salt = slots[i].salt /\ name = slots[i].data

RefsPast ==
    \A r \in DOMAIN held :
        /\ held[r] \in DOMAIN Data
        /\ \E salt \in Salt, i \in Slots :
              r = RefOf(salt, i) /\ Past(salt, i, held[r])

UsedHeld ==
    \A i \in Slots : Used(slots, i) => TileRef(slots, i) \in DOMAIN held

SavedHeld ==
    saved # NoState => saved.ref \in DOMAIN held /\ saved.data = held[saved.ref]

ListsOK == SlotsTyped /\ FreeOK /\ LutOK
RefsOK == RefsPast /\ UsedHeld /\ SavedHeld
IInv == ListsOK /\ RefsOK

(* The salt and the slot of a reference are read back from it.             *)
LEMMA RefDecodes ==
    ASSUME NEW salt \in Salt, NEW i \in Slots
    PROVE  /\ DecodePolyIdSalt(RefOf(salt, i)) = salt
           /\ DecodePolyIdTile(RefOf(salt, i)) = i
<1>1. /\ salt \in 0..(Salts - 1) /\ i \in 0..(TileNumbers - 1)
      /\ 0 \in 0..(PolyNumbers - 1)
  BY Rooms DEF Salt
<1> QED BY <1>1, ReferencesDecode DEF RefOf

(* The next salt is another one, and never 0.                              *)
LEMMA NextSalts ==
    ASSUME NEW salt \in Salt
    PROVE  NextSalt(salt) \in Salt /\ NextSalt(salt) # salt
<1>1. Salts \in Nat \ {0} /\ Salts > 2 /\ salt \in 1..(Salts - 1)
  BY Rooms DEF Salt
<1>2. CASE salt + 1 < Salts
  <2>1. (0 * Salts + (salt + 1)) % Salts = salt + 1
    BY <1>1, <1>2, DivideOnce
  <2>2. 0 * Salts + (salt + 1) = salt + 1 BY <1>1
  <2>3. (salt + 1) % Salts = salt + 1 BY <2>1, <2>2
  <2> QED BY <1>1, <1>2, <2>3 DEF NextSalt, Salt
<1>3. CASE salt + 1 = Salts
  <2>1. (1 * Salts + 0) % Salts = 0 BY <1>1, DivideOnce
  <2>2. 1 * Salts + 0 = salt + 1 BY <1>1, <1>3
  <2>3. (salt + 1) % Salts = 0 BY <2>1, <2>2
  <2> QED BY <1>1, <1>3, <2>3 DEF NextSalt, Salt
<1> QED BY <1>1, <1>2, <1>3

(* At first every slot is free and on the free list.                       *)
LEMMA InitIInv == Init => IInv
<1> SUFFICES ASSUME Init PROVE IInv OBVIOUS
<1>1. MaxTiles \in Nat \ {0} /\ Salts > 2 /\ Salts \in Nat BY TilesAssumption
<1>2. slots = [i \in Slots |-> FreeSlot(1)] BY DEF Init
<1>3. SlotsTyped BY <1>1, <1>2 DEF SlotsTyped, Salt, FreeSlot
<1>4. \A i \in Slots : ~Used(slots, i) BY <1>2 DEF Used, FreeSlot
<1>5. FreeOK
  <2>1. freeList = [n \in 1..MaxTiles |-> n - 1] BY DEF Init
  <2>2. freeList \in Seq(Slots) /\ Len(freeList) = MaxTiles
    BY <1>1, <2>1 DEF Slots
  <2>3. OnceIn(freeList) BY <1>1, <2>1, <2>2 DEF OnceIn
  <2>4. ASSUME NEW i \in Slots PROVE Holds(freeList, i)
    <3>1. i + 1 \in 1..MaxTiles /\ freeList[i + 1] = i BY <1>1, <2>1 DEF Slots
    <3> QED BY <2>2, <3>1 DEF Holds
  <2> QED BY <1>4, <2>3, <2>4 DEF FreeOK
<1>6. LutOK
  <2> SUFFICES ASSUME NEW h \in DOMAIN lut
               PROVE  OnceIn(lut[h]) /\ \A i \in Slots : Holds(lut[h], i) <=> InChain(i, h)
    BY DEF LutOK
  <2>1. lut[h] = <<>> BY DEF Init
  <2>2. OnceIn(<<>>) /\ \A i : ~Holds(<<>>, i) BY DEF OnceIn, Holds
  <2> QED BY <1>4, <2>1, <2>2 DEF InChain
<1>7. DOMAIN held = {} BY DEF Init
<1>8. RefsOK BY <1>4, <1>7 DEF RefsOK, RefsPast, UsedHeld, SavedHeld, Init
<1> QED BY <1>3, <1>5, <1>6, <1>8 DEF IInv, ListsOK

-------------------------------------------------------------------------------
(* addTile puts tile n into slot i under a salt *)

Location(n) == TileHash(Data[n].x, Data[n].y)

(* The lists when slot i leaves the free list for the chain of tile n.     *)
LEMMA FilledLists ==
    ASSUME ListsOK, NEW n \in DOMAIN Data, NEW i \in Slots, ~Used(slots, i),
           NEW salt \in Salt,
           slots' = [slots EXCEPT ![i] = [salt |-> salt, data |-> n]],
           freeList' = Without(freeList, i),
           lut' = [lut EXCEPT ![Location(n)] = <<i>> \o @]
    PROVE  ListsOK'
<1>1. /\ slots \in [Slots -> [salt : Salt, data : DOMAIN Data \cup {NoData}]]
      /\ n # NoData
  BY TilesAssumption DEF ListsOK, SlotsTyped
<1>2. SlotsTyped' BY <1>1 DEF SlotsTyped
<1>3. /\ \A j \in Slots : Used(slots', j) <=> j = i \/ Used(slots, j)
      /\ \A j \in Slots \ {i} : Header(slots', j) = Header(slots, j)
      /\ Header(slots', i) = Data[n]
  BY <1>1 DEF Used, Header
<1>4. FreeOK'
  <2>1. OnceIn(freeList) /\ \A j \in Slots : Holds(freeList, j) <=> ~Used(slots, j)
    BY DEF ListsOK, FreeOK
  <2>2. Holds(freeList, i) BY <2>1
  <2>3. /\ OnceIn(freeList')
        /\ \A j : Holds(freeList', j) <=> j # i /\ Holds(freeList, j)
    BY <2>1, <2>2, TakenOut
  <2>4. \A j \in Slots : Holds(freeList', j) <=> ~Used(slots', j)
    BY <1>3, <2>1, <2>3
  <2> QED BY <2>3, <2>4 DEF FreeOK
<1>5. LutOK'
  <2> SUFFICES ASSUME NEW h \in DOMAIN lut'
               PROVE  /\ OnceIn(lut'[h])
                      /\ \A j \in Slots : Holds(lut'[h], j) <=> InChain(j, h)'
    BY DEF LutOK
  <2>1. h \in DOMAIN lut OBVIOUS
  <2>2. OnceIn(lut[h]) /\ \A j \in Slots : Holds(lut[h], j) <=> InChain(j, h)
    BY <2>1 DEF ListsOK, LutOK
  <2>3. /\ \A j \in Slots \ {i} : InChain(j, h)' <=> InChain(j, h)
        /\ InChain(i, h)' <=> h = Location(n)
        /\ ~InChain(i, h)
    BY <1>3 DEF InChain, Location
  <2>4. CASE h = Location(n)
    <3>1. lut'[h] = <<i>> \o lut[h] BY <2>1, <2>4
    <3>2. ~Holds(lut[h], i) BY <2>2, <2>3
    <3>3. /\ OnceIn(lut'[h])
          /\ \A j : Holds(lut'[h], j) <=> j = i \/ Holds(lut[h], j)
      BY <2>2, <3>1, <3>2, Prepended
    <3> QED BY <2>2, <2>3, <2>4, <3>3
  <2>5. CASE h # Location(n)
    <3>1. lut'[h] = lut[h] BY <2>1, <2>5
    <3> QED BY <2>2, <2>3, <2>5, <3>1
  <2> QED BY <2>4, <2>5
<1> QED BY <1>2, <1>4, <1>5 DEF ListsOK

(* The references: n comes back under its own, or under the salt its slot  *)
(* has, which nobody keeps.  The client drops what is later.               *)
LEMMA FilledRefs ==
    ASSUME ListsOK, RefsOK, NEW n \in DOMAIN Data, NEW i \in Slots,
           ~Used(slots, i), NEW salt \in Salt,
           \/ salt = slots[i].salt
           \/ RefOf(salt, i) \in DOMAIN held /\ held[RefOf(salt, i)] = n,
           slots' = [slots EXCEPT ![i] = [salt |-> salt, data |-> n]],
           Forget({r \in DOMAIN held : /\ DecodePolyIdTile(r) = i
                                       /\ DecodePolyIdSalt(r) > salt},
                  [r \in {RefOf(salt, i)} \cup DOMAIN held |->
                      IF r = RefOf(salt, i) THEN n ELSE held[r]])
    PROVE  RefsOK'
<1> DEFINE ref == RefOf(salt, i)
           later == {r \in DOMAIN held : /\ DecodePolyIdTile(r) = i
                                         /\ DecodePolyIdSalt(r) > salt}
<1>1. /\ DOMAIN held' = ({ref} \cup DOMAIN held) \ later
      /\ \A r \in DOMAIN held' : held'[r] = IF r = ref THEN n ELSE held[r]
      /\ saved' = IF saved.ref \in later THEN NoState ELSE saved
  BY DEF Forget
<1>2. /\ slots \in [Slots -> [salt : Salt, data : DOMAIN Data \cup {NoData}]]
      /\ Salt \subseteq Nat
  BY Rooms DEF ListsOK, SlotsTyped, Salt
<1>3. /\ slots'[i].salt = salt /\ slots'[i].data = n
      /\ \A j \in Slots \ {i} : slots'[j] = slots[j]
  BY <1>2
<1>4. DecodePolyIdSalt(ref) = salt /\ DecodePolyIdTile(ref) = i
  BY RefDecodes
<1>5. ref \notin later BY <1>2, <1>4
<1>6. ref \in DOMAIN held => held[ref] = n
  <2> SUFFICES ASSUME ref \in DOMAIN held, salt = slots[i].salt PROVE held[ref] = n
    OBVIOUS
  <2>1. PICK s \in Salt, j \in Slots : ref = RefOf(s, j) /\ Past(s, j, held[ref])
    BY DEF RefsOK, RefsPast
  <2>2. s = salt /\ j = i BY <1>4, <2>1, RefDecodes
  <2>3. held[ref] = slots[i].data BY <1>2, <2>1, <2>2 DEF Past
  <2>4. held[ref] = NoData /\ held[ref] \in DOMAIN Data
    BY <2>3 DEF RefsOK, RefsPast, Used
  <2> QED BY <2>4, TilesAssumption
<1> HIDE DEF ref, later
<1>7. RefsPast'
  <2> SUFFICES ASSUME NEW r \in DOMAIN held'
               PROVE  /\ held'[r] \in DOMAIN Data
                      /\ \E s \in Salt, j \in Slots :
                            r = RefOf(s, j) /\ Past(s, j, held[r])'
    BY DEF RefsPast
  <2>1. CASE r = ref
    <3>1. held'[r] = n BY <1>1, <2>1
    <3>2. Past(salt, i, held[r])' BY <1>3, <3>1 DEF Past
    <3> QED BY <2>1, <3>1, <3>2 DEF ref
  <2>2. CASE r # ref
    <3>1. r \in DOMAIN held /\ r \notin later /\ held'[r] = held[r]
      BY <1>1, <2>2
    <3>2. PICK s \in Salt, j \in Slots : r = RefOf(s, j) /\ Past(s, j, held[r])
      BY <3>1 DEF RefsOK, RefsPast
    <3>3. Past(s, j, held[r])'
      <4>1. CASE j # i BY <1>3, <3>1, <3>2, <4>1 DEF Past
      <4>2. CASE j = i
        <5>1. DecodePolyIdSalt(r) = s /\ DecodePolyIdTile(r) = i
          BY <3>2, <4>2, RefDecodes
        <5>2. ~(s > salt) BY <3>1, <5>1 DEF later
        <5>3. s # salt BY <2>2, <3>2, <4>2 DEF ref
        <5>4. s < salt BY <1>2, <5>2, <5>3
        <5> QED BY <1>3, <4>2, <5>4 DEF Past
      <4> QED BY <4>1, <4>2
    <3>4. held'[r] \in DOMAIN Data BY <3>1 DEF RefsOK, RefsPast
    <3> QED BY <3>2, <3>3, <3>4
  <2> QED BY <2>1, <2>2
<1>8. UsedHeld'
  <2> SUFFICES ASSUME NEW j \in Slots, Used(slots', j)
               PROVE  TileRef(slots', j) \in DOMAIN held'
    BY DEF UsedHeld
  <2>1. CASE j = i
    <3>1. TileRef(slots', j) = ref BY <1>3, <2>1 DEF TileRef, RefOf, ref
    <3> QED BY <1>1, <1>5, <3>1
  <2>2. CASE j # i
    <3>1. Used(slots, j) /\ TileRef(slots', j) = TileRef(slots, j)
      BY <1>3, <2>2 DEF Used, TileRef
    <3>2. TileRef(slots, j) \in DOMAIN held BY <3>1 DEF RefsOK, UsedHeld
    <3>3. DecodePolyIdTile(TileRef(slots, j)) = j
      BY <1>2, RefDecodes DEF TileRef, RefOf
    <3>4. TileRef(slots, j) \notin later BY <2>2, <3>3 DEF later
    <3> QED BY <1>1, <3>1, <3>2, <3>4
  <2> QED BY <2>1, <2>2
<1>9. SavedHeld'
  <2> SUFFICES ASSUME saved' # NoState
               PROVE  saved'.ref \in DOMAIN held' /\ saved'.data = held'[saved'.ref]
    BY DEF SavedHeld
  <2>1. saved' = saved /\ saved # NoState /\ saved.ref \notin later BY <1>1
  <2>2. saved.ref \in DOMAIN held /\ saved.data = held[saved.ref]
    BY <2>1 DEF RefsOK, SavedHeld
  <2>3. saved.ref \in DOMAIN held' BY <1>1, <2>1, <2>2
  <2>4. held'[saved.ref] = held[saved.ref] BY <1>1, <1>6, <2>2, <2>3
  <2> QED BY <2>1, <2>2, <2>3, <2>4
<1> QED BY <1>7, <1>8, <1>9 DEF RefsOK

-------------------------------------------------------------------------------
(* removeTile empties slot i *)

(* A slot emptied and put back into the free list leaves the lists in      *)
(* order.                                                                  *)
LEMMA EmptiedLists ==
    ASSUME ListsOK, NEW i \in Slots, Used(slots, i), NEW salt \in Salt,
           slots' = [slots EXCEPT ![i] = FreeSlot(salt)],
           freeList' = <<i>> \o freeList,
           lut' = [lut EXCEPT ![Location(slots[i].data)] = Without(@, i)]
    PROVE  ListsOK'
<1>1. slots \in [Slots -> [salt : Salt, data : DOMAIN Data \cup {NoData}]]
  BY DEF ListsOK, SlotsTyped
<1>2. SlotsTyped' BY <1>1 DEF SlotsTyped, FreeSlot
<1>3. /\ \A j \in Slots : Used(slots', j) <=> j # i /\ Used(slots, j)
      /\ \A j \in Slots \ {i} : Header(slots', j) = Header(slots, j)
  BY <1>1 DEF Used, Header, FreeSlot
<1>4. FreeOK'
  <2>1. OnceIn(freeList) /\ \A j \in Slots : Holds(freeList, j) <=> ~Used(slots, j)
    BY DEF ListsOK, FreeOK
  <2>2. ~Holds(freeList, i) BY <2>1
  <2>3. /\ OnceIn(freeList')
        /\ \A j : Holds(freeList', j) <=> j = i \/ Holds(freeList, j)
    BY <2>1, <2>2, Prepended
  <2>4. \A j \in Slots : Holds(freeList', j) <=> ~Used(slots', j)
    BY <1>3, <2>1, <2>3
  <2> QED BY <2>3, <2>4 DEF FreeOK
<1>5. LutOK'
  <2> SUFFICES ASSUME NEW h \in DOMAIN lut'
               PROVE  /\ OnceIn(lut'[h])
                      /\ \A j \in Slots : Holds(lut'[h], j) <=> InChain(j, h)'
    BY DEF LutOK
  <2>1. h \in DOMAIN lut OBVIOUS
  <2>2. OnceIn(lut[h]) /\ \A j \in Slots : Holds(lut[h], j) <=> InChain(j, h)
    BY <2>1 DEF ListsOK, LutOK
  <2>3. /\ \A j \in Slots \ {i} : InChain(j, h)' <=> InChain(j, h)
        /\ ~InChain(i, h)'
        /\ InChain(i, h) <=> h = Location(slots[i].data)
    BY <1>3 DEF InChain, Location, Header
  <2>4. CASE h = Location(slots[i].data)
    <3>1. lut'[h] = Without(lut[h], i) BY <2>1, <2>4
    <3>2. Holds(lut[h], i) BY <2>2, <2>3, <2>4
    <3>3. /\ OnceIn(lut'[h])
          /\ \A j : Holds(lut'[h], j) <=> j # i /\ Holds(lut[h], j)
      BY <2>2, <3>1, <3>2, TakenOut
    <3> QED BY <2>2, <2>3, <3>3
  <2>5. CASE h # Location(slots[i].data)
    <3>1. lut'[h] = lut[h] BY <2>1, <2>5
    <3> QED BY <2>2, <2>3, <2>5, <3>1
  <2> QED BY <2>4, <2>5
<1> QED BY <1>2, <1>4, <1>5 DEF ListsOK

(* Either the salt grows beyond all that were given out, or it starts      *)
(* again and the client drops them.                                        *)
LEMMA EmptiedRefs ==
    ASSUME ListsOK, RefsOK, NEW i \in Slots, NEW salt \in Salt,
           salt # slots[i].salt,
           slots' = [slots EXCEPT ![i] = FreeSlot(salt)],
           Forget(IF salt < slots[i].salt
                  THEN {r \in DOMAIN held : DecodePolyIdTile(r) = i} ELSE {}, held)
    PROVE  RefsOK'
<1> DEFINE old == IF salt < slots[i].salt
                  THEN {r \in DOMAIN held : DecodePolyIdTile(r) = i} ELSE {}
<1>1. /\ DOMAIN held' = DOMAIN held \ old
      /\ \A r \in DOMAIN held' : held'[r] = held[r]
      /\ saved' = IF saved.ref \in old THEN NoState ELSE saved
  BY DEF Forget
<1>2. /\ slots \in [Slots -> [salt : Salt, data : DOMAIN Data \cup {NoData}]]
      /\ Salt \subseteq Nat /\ slots[i].salt \in Nat
  BY Rooms DEF ListsOK, SlotsTyped, Salt
<1>3. /\ slots'[i].salt = salt /\ slots'[i].data = NoData
      /\ \A j \in Slots \ {i} : slots'[j] = slots[j]
  BY <1>2 DEF FreeSlot
<1>4. \A r \in old : DecodePolyIdTile(r) = i OBVIOUS
<1>5. salt < slots[i].salt => old = {r \in DOMAIN held : DecodePolyIdTile(r) = i}
  OBVIOUS
<1> HIDE DEF old
<1>6. RefsPast'
  <2> SUFFICES ASSUME NEW r \in DOMAIN held'
               PROVE  /\ held'[r] \in DOMAIN Data
                      /\ \E s \in Salt, j \in Slots :
                            r = RefOf(s, j) /\ Past(s, j, held[r])'
    BY DEF RefsPast
  <2>1. r \in DOMAIN held /\ r \notin old /\ held'[r] = held[r] BY <1>1
  <2>2. PICK s \in Salt, j \in Slots : r = RefOf(s, j) /\ Past(s, j, held[r])
    BY <2>1 DEF RefsOK, RefsPast
  <2>3. Past(s, j, held[r])'
    <3>1. CASE j # i BY <1>3, <2>1, <2>2, <3>1 DEF Past
    <3>2. CASE j = i
      <4>1. DecodePolyIdTile(r) = i BY <2>2, <3>2, RefDecodes
      <4>2. ~(salt < slots[i].salt) BY <1>5, <2>1, <4>1
      <4>3. s < slots[i].salt \/ s = slots[i].salt BY <2>2, <3>2 DEF Past
      <4>4. s < salt BY <1>2, <4>2, <4>3
      <4> QED BY <1>3, <3>2, <4>4 DEF Past
    <3> QED BY <3>1, <3>2
  <2>4. held'[r] \in DOMAIN Data BY <2>1 DEF RefsOK, RefsPast
  <2> QED BY <2>2, <2>3, <2>4
<1>7. UsedHeld'
  <2> SUFFICES ASSUME NEW j \in Slots, Used(slots', j)
               PROVE  TileRef(slots', j) \in DOMAIN held'
    BY DEF UsedHeld
  <2>1. j # i BY <1>3 DEF Used
  <2>2. Used(slots, j) /\ TileRef(slots', j) = TileRef(slots, j)
    BY <1>3, <2>1 DEF Used, TileRef
  <2>3. TileRef(slots, j) \in DOMAIN held BY <2>2 DEF RefsOK, UsedHeld
  <2>4. DecodePolyIdTile(TileRef(slots, j)) = j
    BY <1>2, RefDecodes DEF TileRef, RefOf
  <2> QED BY <1>1, <1>4, <2>1, <2>2, <2>3, <2>4
<1>8. SavedHeld'
  <2> SUFFICES ASSUME saved' # NoState
               PROVE  saved'.ref \in DOMAIN held' /\ saved'.data = held'[saved'.ref]
    BY DEF SavedHeld
  <2>1. saved' = saved /\ saved # NoState /\ saved.ref \notin old BY <1>1
  <2>2. saved.ref \in DOMAIN held /\ saved.data = held[saved.ref]
    BY <2>1 DEF RefsOK, SavedHeld
  <2> QED BY <1>1, <2>1, <2>2
<1> QED BY <1>6, <1>7, <1>8 DEF RefsOK

-------------------------------------------------------------------------------
(* The operations *)

(* A reference that is kept says which slot gave it out, and under which   *)
(* salt.                                                                   *)
LEMMA HeldAs ==
    ASSUME ListsOK, RefsOK, NEW r \in DOMAIN held
    PROVE  /\ held[r] \in DOMAIN Data
           /\ DecodePolyIdSalt(r) \in Salt /\ DecodePolyIdTile(r) \in Slots
           /\ r = RefOf(DecodePolyIdSalt(r), DecodePolyIdTile(r))
           /\ Past(DecodePolyIdSalt(r), DecodePolyIdTile(r), held[r])
<1>1. PICK s \in Salt, i \in Slots : r = RefOf(s, i) /\ Past(s, i, held[r])
  BY DEF RefsOK, RefsPast
<1>2. DecodePolyIdSalt(r) = s /\ DecodePolyIdTile(r) = i BY <1>1, RefDecodes
<1>3. held[r] \in DOMAIN Data BY DEF RefsOK, RefsPast
<1> QED BY <1>1, <1>2, <1>3

(* Adding a tile keeps the lists and the references in order.              *)
LEMMA AddTileIInv ==
    ASSUME IInv, NEW n \in DOMAIN Data, NEW lastRef,
           \/ lastRef = NoRef
           \/ lastRef \in DOMAIN held /\ held[lastRef] = n,
           AddTile(n, lastRef)
    PROVE  IInv'
<1> DEFINE wanted == DecodePolyIdTile(lastRef)
           found == IF lastRef = NoRef THEN freeList # <<>>
                    ELSE wanted \in Range(freeList)
           i == IF lastRef = NoRef THEN Head(freeList) ELSE wanted
           salt == IF lastRef = NoRef THEN slots[i].salt
                   ELSE DecodePolyIdSalt(lastRef)
           ref == EncodePolyId(salt, i, 0)
           later == {r \in DOMAIN held : DecodePolyIdTile(r) = i
                                          /\ DecodePolyIdSalt(r) > salt}
<1>1. ListsOK /\ RefsOK BY DEF IInv
<1>2. CASE UNCHANGED vars
  BY <1>1, <1>2 DEF vars, IInv, ListsOK, SlotsTyped, FreeOK, LutOK, InChain, Used,
        Header, RefsOK, RefsPast, Past, UsedHeld, TileRef, SavedHeld
<1>3. CASE ~UNCHANGED vars
  <2>1. /\ found
        /\ freeList' = Without(freeList, i)
        /\ lut' = [lut EXCEPT ![TileHash(Data[n].x, Data[n].y)] = <<i>> \o @]
        /\ slots' = [slots EXCEPT ![i] = [salt |-> salt, data |-> n]]
        /\ Forget(later, [r \in {ref} \cup DOMAIN held |->
                             IF r = ref THEN n ELSE held[r]])
    BY <1>3 DEF AddTile
  <2>2. freeList \in Seq(Slots) BY <1>1 DEF ListsOK, FreeOK, OnceIn
  <2>3. i \in Slots /\ Holds(freeList, i)
    <3>1. CASE lastRef = NoRef
      <4>1. freeList # <<>> /\ i = Head(freeList) BY <2>1, <3>1
      <4>2. 1 \in 1..Len(freeList) /\ freeList[1] = i BY <2>2, <4>1
      <4> HIDE DEF i
      <4> QED BY <2>2, <4>2 DEF Holds
    <3>2. CASE lastRef # NoRef
      <4>1. i \in Range(freeList) BY <2>1, <3>2
      <4> HIDE DEF i
      <4> QED BY <2>2, <4>1 DEF Range, Holds
    <3> QED BY <3>1, <3>2
  <2>4. ~Used(slots, i) BY <1>1, <2>3 DEF ListsOK, FreeOK
  <2>5. /\ salt \in Salt
        /\ \/ salt = slots[i].salt
           \/ RefOf(salt, i) \in DOMAIN held /\ held[RefOf(salt, i)] = n
    <3>1. CASE lastRef = NoRef
      <4>1. salt = slots[i].salt BY <3>1
      <4> HIDE DEF i, salt
      <4> QED BY <1>1, <2>3, <4>1 DEF ListsOK, SlotsTyped
    <3>2. CASE lastRef # NoRef
      <4>1. /\ lastRef \in DOMAIN held /\ held[lastRef] = n
            /\ salt = DecodePolyIdSalt(lastRef) /\ i = DecodePolyIdTile(lastRef)
        BY <3>2
      <4> HIDE DEF i, salt
      <4>2. salt \in Salt /\ lastRef = RefOf(salt, i) BY <1>1, <4>1, HeldAs
      <4> QED BY <4>1, <4>2
    <3> QED BY <3>1, <3>2
  <2> HIDE DEF i, salt
  <2>6. lut' = [lut EXCEPT ![Location(n)] = <<i>> \o @] BY <2>1 DEF Location
  <2>7. ListsOK' BY <1>1, <2>1, <2>3, <2>4, <2>5, <2>6, FilledLists
  <2>8. ref = RefOf(salt, i) BY DEF RefOf
  <2>9. RefsOK' BY <1>1, <2>1, <2>3, <2>4, <2>5, <2>8, FilledRefs
  <2> QED BY <2>7, <2>9 DEF IInv
<1> QED BY <1>2, <1>3

(* Removing one does too.                                                  *)
LEMMA RemoveTileIInv ==
    ASSUME IInv, NEW r \in DOMAIN held, RemoveTile(r)
    PROVE  IInv'
<1> DEFINE i == GetTileByRef(r)
           salt == NextSalt(slots[i].salt)
           old == {q \in DOMAIN held : DecodePolyIdTile(q) = i}
<1>1. ListsOK /\ RefsOK BY DEF IInv
<1>2. CASE i = NoTile
  <2>1. UNCHANGED vars BY <1>2 DEF RemoveTile
  <2> QED
    BY <1>1, <2>1 DEF vars, IInv, ListsOK, SlotsTyped, FreeOK, LutOK, InChain, Used,
          Header, RefsOK, RefsPast, Past, UsedHeld, TileRef, SavedHeld
<1>3. CASE i # NoTile
  <2>1. /\ lut' = [lut EXCEPT ![TileHash(Header(slots, i).x, Header(slots, i).y)]
                                = Without(@, i)]
        /\ slots' = [slots EXCEPT ![i] = FreeSlot(salt)]
        /\ freeList' = <<i>> \o freeList
        /\ Forget(IF salt < slots[i].salt THEN old ELSE {}, held)
    BY <1>3 DEF RemoveTile
  <2>2. i \in Slots /\ i = DecodePolyIdTile(r) /\ slots[i].salt = DecodePolyIdSalt(r)
    BY <1>3 DEF GetTileByRef
  <2> HIDE DEF i
  <2>3. slots[i].salt \in Salt /\ Salt \subseteq Nat
    BY <1>1, <2>2, Rooms DEF ListsOK, SlotsTyped, Salt
  <2>4. held[r] \in DOMAIN Data /\ slots[i].data = held[r]
    <3>1. held[r] \in DOMAIN Data /\ Past(slots[i].salt, i, held[r])
      BY <1>1, <2>2, HeldAs
    <3>2. slots[i].salt \in Nat BY <2>3
    <3>3. ~(slots[i].salt < slots[i].salt) BY <3>2
    <3> QED BY <3>1, <3>3 DEF Past
  <2>5. Used(slots, i) BY <2>4, TilesAssumption DEF Used
  <2>6. salt \in Salt /\ salt # slots[i].salt BY <2>3, NextSalts
  <2> HIDE DEF salt
  <2>7. lut' = [lut EXCEPT ![Location(slots[i].data)] = Without(@, i)]
    BY <2>1 DEF Location, Header
  <2>8. ListsOK' BY <1>1, <2>1, <2>2, <2>5, <2>6, <2>7, EmptiedLists
  <2>9. RefsOK' BY <1>1, <2>1, <2>2, <2>6, EmptiedRefs
  <2> QED BY <2>8, <2>9 DEF IInv
<1> QED BY <1>2, <1>3

(* A state is stored under the reference its tile has, which is kept.      *)
LEMMA StoreTileStateIInv ==
    ASSUME IInv, NEW i \in Slots, Used(slots, i), StoreTileState(i)
    PROVE  IInv'
<1> DEFINE ref == TileRef(slots, i)
<1>1. /\ UNCHANGED <<slots, tiles, lut, freeList, held>>
      /\ saved'.ref = ref /\ saved'.data = slots[i].data
  BY DEF StoreTileState
<1>2. ListsOK /\ RefsOK BY DEF IInv
<1>3. ref \in DOMAIN held BY <1>2 DEF RefsOK, UsedHeld
<1>4. slots[i].salt \in Salt /\ Salt \subseteq Nat /\ ref = RefOf(slots[i].salt, i)
  BY <1>2, Rooms DEF ListsOK, SlotsTyped, Salt, TileRef, RefOf
<1>5. DecodePolyIdSalt(ref) = slots[i].salt /\ DecodePolyIdTile(ref) = i
  BY <1>4, RefDecodes
<1>6. held[ref] = slots[i].data
  <2>1. Past(slots[i].salt, i, held[ref]) BY <1>2, <1>3, <1>5, HeldAs
  <2> HIDE DEF ref
  <2>2. slots[i].salt \in Nat BY <1>4
  <2>3. ~(slots[i].salt < slots[i].salt) BY <2>2
  <2> QED BY <2>1, <2>3 DEF Past
<1> HIDE DEF ref
<1>7. SavedHeld' BY <1>1, <1>3, <1>6 DEF SavedHeld
<1>8. ListsOK'
  BY <1>1, <1>2 DEF ListsOK, SlotsTyped, FreeOK, LutOK, InChain, Used, Header
<1>9. RefsPast' /\ UsedHeld'
  BY <1>1, <1>2 DEF RefsOK, RefsPast, Past, UsedHeld, Used, TileRef
<1> QED BY <1>7, <1>8, <1>9 DEF IInv, RefsOK

(* So does every step.                                                     *)
LEMMA NextIInv == IInv /\ [Next]_vars => IInv'
<1> SUFFICES ASSUME IInv, [Next]_vars PROVE IInv' OBVIOUS
<1>1. \A r \in DOMAIN held : held[r] \in DOMAIN Data
  BY DEF IInv, RefsOK, RefsPast
<1>2. ASSUME NEW n \in DOMAIN Data, AddTile(n, NoRef) PROVE IInv'
  BY <1>2, AddTileIInv
<1>3. ASSUME NEW r \in DOMAIN held, AddTile(held[r], r) PROVE IInv'
  BY <1>1, <1>3, AddTileIInv
<1>4. ASSUME NEW r \in DOMAIN held, RemoveTile(r) PROVE IInv'
  BY <1>4, RemoveTileIInv
<1>5. ASSUME NEW i \in Slots, Used(slots, i), StoreTileState(i) PROVE IInv'
  BY <1>5, StoreTileStateIInv
<1>6. ASSUME UNCHANGED <<slots, lut, freeList, held, saved>> PROVE IInv'
  BY <1>6 DEF IInv, ListsOK, SlotsTyped, FreeOK, LutOK, InChain, Used, Header,
        RefsOK, RefsPast, Past, UsedHeld, TileRef, SavedHeld
<1>7. \/ \E n \in DOMAIN Data : AddTile(n, NoRef)
      \/ \E r \in DOMAIN held : AddTile(held[r], r)
      \/ \E r \in DOMAIN held : RemoveTile(r)
      \/ \E i \in Slots : Used(slots, i) /\ StoreTileState(i)
      \/ UNCHANGED <<slots, lut, freeList, held, saved>>
  BY DEF Next, vars, SetPolyFlags, SetPolyArea, RestoreTileState
<1> QED BY <1>2, <1>3, <1>4, <1>5, <1>6, <1>7, Zenon

(* The lists and the references are in order throughout.                   *)
LEMMA Inductive == Spec => []IInv
BY InitIInv, NextIInv, PTL DEF Spec

-------------------------------------------------------------------------------
(* What follows *)

(* No reference a client keeps comes to mean another tile, and no removal  *)
(* finds an empty slot under its salt: getTileByRef compares the salts     *)
(* (addTile and removeTile give them out).                                 *)
THEOREM HeldMeanTheirTile == Spec => []HeldRefs
<1>1. IInv => HeldRefs
  <2> SUFFICES ASSUME IInv PROVE HeldRefs OBVIOUS
  <2>1. ListsOK /\ RefsOK BY DEF IInv
  <2>2. ASSUME NEW r \in DOMAIN held, GetTileByRef(r) # NoTile
        PROVE  slots[GetTileByRef(r)].data = held[r]
    <3> DEFINE i == GetTileByRef(r)
    <3>1. /\ i \in Slots /\ i = DecodePolyIdTile(r)
          /\ slots[i].salt = DecodePolyIdSalt(r)
      BY <2>2 DEF GetTileByRef
    <3> HIDE DEF i
    <3>2. slots[i].salt \in Nat
      BY <2>1, <3>1, Rooms DEF ListsOK, SlotsTyped, Salt
    <3> QED BY <2>1, <3>1, <3>2, HeldAs DEF Past, i
  <2>3. \A i \in UsedSlots : TileRef(slots, i) \in DOMAIN held
    BY <2>1 DEF RefsOK, UsedHeld, UsedSlots
  <2>4. ASSUME saved # NoState, GetTileByRef(saved.ref) # NoTile
        PROVE  slots[GetTileByRef(saved.ref)].data = saved.data
    BY <2>1, <2>2, <2>4 DEF RefsOK, SavedHeld
  <2> QED BY <2>2, <2>3, <2>4 DEF HeldRefs
<1> QED BY <1>1, Inductive, PTL

-------------------------------------------------------------------------------
(* Sums *)

(* A sum over a sequence is added up from its beginning.                   *)
LEMMA TotalIs ==
    ASSUME NEW s \in Seq(Int)
    PROVE  \E F \in [0..Len(s) -> Int] :
              /\ F[0] = 0 /\ F[Len(s)] = Total(s)
              /\ \A m \in 1..Len(s) : F[m] = F[m - 1] + s[m]
<1> DEFINE n == Len(s)
           D == SUBSET (1..n)
           Is(f) == f = [t \in D |-> IF t = {} THEN 0 ELSE f[t \ {Max(t)}] + s[Max(t)]]
           step == [p \in (1..n) \X Int |-> p[2] + s[p[1]]]
           I == CHOOSE f : Is(f)
<1>1. n \in Nat /\ DOMAIN s = 1..n /\ \A k \in 1..n : s[k] \in Int OBVIOUS
<1>2. Total(s) = I[1..n]
  <2>1. Total(s) = LET f == CHOOSE f : f = [t \in SUBSET DOMAIN s |->
                                IF t = {} THEN 0
                                ELSE f[t \ {Max(t)}] + s[Max(t)]]
                   IN  f[DOMAIN s]
    BY DEF Total, FoldLeft, MapThenFoldSet
  <2> QED BY <1>1, <2>1
<1>3. step \in [(1..n) \X Int -> Int] BY <1>1
<1>4. \A k \in 1..n, q \in Int : step[<<k, q>>] = q + s[k] OBVIOUS
<1> HIDE DEF n, step
<1>5. PICK f \in [D -> Int] :
         \A t \in D : f[t] = IF t = {} THEN 0 ELSE step[<<Max(t), f[t \ {Max(t)}]>>]
  <2>1. Folds(n, Int, 0, step)
    <3>1. 0 \in Int OBVIOUS
    <3> QED BY <1>1, <1>3, <3>1, Folded
  <2> QED BY <2>1 DEF Folds
<1>6. Is(f)
  <2>1. ASSUME NEW t \in D, t # {}
        PROVE  f[t] = f[t \ {Max(t)}] + s[Max(t)]
    <3>1. Max(t) \in t BY <1>1, <2>1, MaxIn
    <3>2. Max(t) \in 1..n /\ f[t \ {Max(t)}] \in Int BY <3>1
    <3> QED BY <1>4, <1>5, <2>1, <3>2
  <2>2. {} \in D OBVIOUS
  <2>3. f = [t \in D |-> f[t]] OBVIOUS
  <2>4. \A t \in D : f[t] = IF t = {} THEN 0 ELSE f[t \ {Max(t)}] + s[Max(t)]
    BY <1>5, <2>1
  <2> HIDE DEF D
  <2> QED BY <2>3, <2>4
<1>7. Is(I) BY <1>6
<1> HIDE DEF I
<1>8. I[{}] = 0
  <2>1. {} \in D OBVIOUS
  <2> QED BY <1>7, <2>1
<1>9. ASSUME NEW m \in 1..n PROVE I[1..m] = I[1..(m - 1)] + s[m]
  <2>0. m \in Nat \ {0} /\ m <= n BY <1>1
  <2>1. 1..m \in D /\ 1..m # {}
    <3>1. 1 \in 1..m BY <2>0
    <3>2. \A k \in 1..m : k \in 1..n BY <1>1, <2>0
    <3> QED BY <3>1, <3>2
  <2>2. Max(1..m) = m /\ (1..m) \ {m} = 1..(m - 1) BY <2>0, MaxFirst
  <2> QED BY <1>7, <2>1, <2>2
<1> DEFINE W == [m \in 0..n |-> Int]
<1>10. \A k \in 0..n : I[1..k] \in Int
  <2> SUFFICES ASSUME NEW k \in 0..n PROVE I[1..k] \in W[k] OBVIOUS
  <2>1. k \in Nat /\ I[{}] \in W[0] BY <1>1, <1>8
  <2>2. \A m \in 1..k : I[1..(m - 1)] \in W[m - 1] => I[1..m] \in W[m]
    <3> SUFFICES ASSUME NEW m \in 1..k, I[1..(m - 1)] \in W[m - 1] PROVE I[1..m] \in W[m]
      OBVIOUS
    <3>1. m \in 1..n /\ m \in 0..n /\ m - 1 \in 0..n BY <1>1
    <3>2. W[m - 1] = Int /\ W[m] = Int BY <3>1
    <3> QED BY <1>1, <1>9, <3>1, <3>2
  <2> HIDE DEF W
  <2> QED BY <2>1, <2>2, FoldIn
<1> DEFINE F == [k \in 0..n |-> I[1..k]]
<1>11. F \in [0..n -> Int] BY <1>10
<1>12. F[0] = 0 /\ F[n] = I[1..n]
  <2>1. 1..0 = {} OBVIOUS
  <2> QED BY <1>1, <1>8, <2>1
<1>13. \A m \in 1..n : F[m] = F[m - 1] + s[m]
  <2> SUFFICES ASSUME NEW m \in 1..n PROVE F[m] = F[m - 1] + s[m] OBVIOUS
  <2>1. m \in 0..n /\ m - 1 \in 0..n BY <1>1
  <2> QED BY <1>9, <2>1
<1> HIDE DEF F
<1> QED BY <1>2, <1>11, <1>12, <1>13 DEF n

\* F adds up the first n elements of s.
AddsUp(F, s, n) ==
    /\ F \in [0..n -> Int] /\ F[0] = 0 /\ F[n] = Total(s)
    /\ \A m \in 1..n : F[m] = F[m - 1] + s[m]

(* The same, under the name of its length.                                 *)
LEMMA TotalTo ==
    ASSUME NEW s \in Seq(Int), NEW n, n = Len(s)
    PROVE  \E F : AddsUp(F, s, n)
<1>1. \E F : AddsUp(F, s, Len(s)) BY TotalIs DEF AddsUp
<1> QED BY <1>1, Zenon

(* The sum of differences is the difference of sums.                       *)
LEMMA TotalMinus ==
    ASSUME NEW f \in Seq(Int), NEW g \in Seq(Int), NEW h \in Seq(Int),
           Len(f) = Len(h), Len(g) = Len(h),
           \A k \in 1..Len(h) : h[k] = f[k] - g[k]
    PROVE  Total(h) = Total(f) - Total(g) /\ {Total(f), Total(g)} \subseteq Int
<1> DEFINE n == Len(h)
<1>1. n \in Nat /\ n = Len(f) /\ n = Len(g) /\ n = Len(h) OBVIOUS
<1>2. \A k \in 1..n : {f[k], g[k], h[k]} \subseteq Int OBVIOUS
<1>3. \A k \in 1..n : h[k] = f[k] - g[k] OBVIOUS
<1> HIDE DEF n
<1>4. PICK F : AddsUp(F, f, n) BY <1>1, TotalTo
<1>5. PICK G : AddsUp(G, g, n) BY <1>1, TotalTo
<1>6. PICK H : AddsUp(H, h, n) BY <1>1, TotalTo
<1> DEFINE A == {m \in Nat : m <= n => H[m] = F[m] - G[m]}
<1>7. 0 \in A BY <1>4, <1>5, <1>6 DEF AddsUp
<1>8. ASSUME NEW m \in Nat, m \in A PROVE m + 1 \in A
  <2> SUFFICES ASSUME m + 1 <= n PROVE H[m + 1] = F[m + 1] - G[m + 1] OBVIOUS
  <2>1. m + 1 \in 1..n /\ (m + 1) - 1 = m /\ m \in 0..n BY <1>1
  <2>2. H[m] = F[m] - G[m] BY <1>8, <2>1
  <2> HIDE DEF A
  <2>3. F[m + 1] = F[m] + f[m + 1] /\ F[m] \in Int BY <1>4, <2>1 DEF AddsUp
  <2>4. G[m + 1] = G[m] + g[m + 1] /\ G[m] \in Int BY <1>5, <2>1 DEF AddsUp
  <2>5. H[m + 1] = H[m] + h[m + 1] BY <1>6, <2>1 DEF AddsUp
  <2>6. h[m + 1] = f[m + 1] - g[m + 1] /\ f[m + 1] \in Int /\ g[m + 1] \in Int
    BY <1>2, <1>3, <2>1
  <2> DEFINE f0 == F[m]
             g0 == G[m]
             f1 == f[m + 1]
             g1 == g[m + 1]
  <2>7. f0 \in Int /\ g0 \in Int /\ f1 \in Int /\ g1 \in Int BY <2>3, <2>4, <2>6
  <2> HIDE DEF f0, g0, f1, g1
  <2>9. (f0 - g0) + (f1 - g1) = (f0 + f1) - (g0 + g1) BY <2>7
  <2>8. (F[m] - G[m]) + (f[m + 1] - g[m + 1]) = (F[m] + f[m + 1]) - (G[m] + g[m + 1])
    BY <2>9 DEF f0, g0, f1, g1
  <2> QED BY <2>2, <2>3, <2>4, <2>5, <2>6, <2>8, Zenon
<1> HIDE DEF A
<1>9. n \in A BY <1>1, <1>7, <1>8, NatInd
<1>10. n \in 0..n BY <1>1
<1> QED BY <1>1, <1>4, <1>5, <1>6, <1>9, <1>10 DEF A, AddsUp

(* A sum of zeros is zero.                                                 *)
LEMMA TotalZero ==
    ASSUME NEW s \in Seq(Int), \A k \in 1..Len(s) : s[k] = 0
    PROVE  Total(s) = 0
<1>1. Total(s) = Total(s) - Total(s) /\ Total(s) \in Int
  <2>1. \A k \in 1..Len(s) : s[k] = s[k] - s[k] OBVIOUS
  <2> QED BY <2>1, TotalMinus
<1> QED BY <1>1

(* A sum of naturals is one.                                               *)
LEMMA TotalNat ==
    ASSUME NEW s \in Seq(Nat)
    PROVE  Total(s) \in Nat
<1> DEFINE n == Len(s)
<1>1. s \in Seq(Int) /\ n = Len(s) /\ n \in Nat /\ \A k \in 1..n : s[k] \in Nat OBVIOUS
<1> HIDE DEF n
<1>2. PICK F : AddsUp(F, s, n) BY <1>1, TotalTo
<1> DEFINE A == {m \in Nat : m <= n => F[m] \in Nat}
<1>3. 0 \in A BY <1>2 DEF AddsUp
<1>4. ASSUME NEW m \in Nat, m \in A PROVE m + 1 \in A
  <2> SUFFICES ASSUME m + 1 <= n PROVE F[m + 1] \in Nat OBVIOUS
  <2>1. m + 1 \in 1..n /\ (m + 1) - 1 = m BY <1>1
  <2>2. F[m + 1] = F[m] + s[m + 1] /\ F[m] \in Nat /\ s[m + 1] \in Nat
    BY <1>1, <1>2, <1>4, <2>1 DEF AddsUp
  <2> QED BY <2>2
<1> HIDE DEF A
<1>5. n \in A BY <1>1, <1>3, <1>4, NatInd
<1> QED BY <1>1, <1>2, <1>5 DEF A, AddsUp

(* One more at one place is one more altogether.                           *)
LEMMA TotalOne ==
    ASSUME NEW f \in Seq(Int), NEW g \in Seq(Int), Len(f) = Len(g),
           NEW j \in 1..Len(g), \A k \in 1..Len(g) : g[k] = f[k] + (IF k = j THEN 1 ELSE 0)
    PROVE  Total(g) = Total(f) + 1 /\ Total(f) \in Int
<1> DEFINE n == Len(g)
<1>1. n \in Nat /\ n = Len(f) /\ n = Len(g) /\ j \in 1..n OBVIOUS
<1>2. \A k \in 1..n : f[k] \in Int /\ g[k] \in Int OBVIOUS
<1>3. \A k \in 1..n : g[k] = f[k] + (IF k = j THEN 1 ELSE 0) OBVIOUS
<1> HIDE DEF n
<1>4. PICK F : AddsUp(F, f, n) BY <1>1, TotalTo
<1>5. PICK G : AddsUp(G, g, n) BY <1>1, TotalTo
<1> DEFINE A == {m \in Nat : m <= n => G[m] = F[m] + (IF j <= m THEN 1 ELSE 0)}
<1>6. 0 \in A BY <1>1, <1>4, <1>5 DEF AddsUp
<1>7. ASSUME NEW m \in Nat, m \in A PROVE m + 1 \in A
  <2> SUFFICES ASSUME m + 1 <= n
               PROVE  G[m + 1] = F[m + 1] + (IF j <= m + 1 THEN 1 ELSE 0)
    OBVIOUS
  <2>1. m + 1 \in 1..n /\ (m + 1) - 1 = m /\ m \in 0..n BY <1>1
  <2>2. G[m] = F[m] + (IF j <= m THEN 1 ELSE 0) BY <1>7, <2>1
  <2> HIDE DEF A
  <2>3. F[m + 1] = F[m] + f[m + 1] /\ F[m] \in Int BY <1>4, <2>1 DEF AddsUp
  <2>4. G[m + 1] = G[m] + g[m + 1] BY <1>5, <2>1 DEF AddsUp
  <2>5. g[m + 1] = f[m + 1] + (IF m + 1 = j THEN 1 ELSE 0) /\ f[m + 1] \in Int
    BY <1>2, <1>3, <2>1
  <2>6. \A x, y \in Int, k \in Int :
           (x + (IF k <= m THEN 1 ELSE 0)) + (y + (IF m + 1 = k THEN 1 ELSE 0))
              = (x + y) + (IF k <= m + 1 THEN 1 ELSE 0)
    OBVIOUS
  <2>7. j \in Int BY <1>1
  <2>8. (F[m] + (IF j <= m THEN 1 ELSE 0)) + (f[m + 1] + (IF m + 1 = j THEN 1 ELSE 0))
           = (F[m] + f[m + 1]) + (IF j <= m + 1 THEN 1 ELSE 0)
    BY <2>3, <2>5, <2>6, <2>7
  <2> QED BY <2>2, <2>3, <2>4, <2>5, <2>8, Zenon
<1> HIDE DEF A
<1>8. n \in A BY <1>1, <1>6, <1>7, NatInd
<1>9. n \in 0..n BY <1>1
<1> QED BY <1>1, <1>4, <1>5, <1>8, <1>9 DEF A, AddsUp

-------------------------------------------------------------------------------
(* Tiles whose links are given.  A link of a tile is a fact, <<slot, polygon, *)
(* link>>.                                                                    *)

\* A link, the tiles of the mesh with marks of polygons from V, and how
\* many polygons and links a slot has.
LinkType ==
    [ref : Nat, edge : Nat, side : 0..7 \cup {Inside}, limits : (0..255) \X (0..255)]
TileType(V) ==
    [polys : Seq([flags : V, area : V, links : Seq(LinkType)]),
     free : Nat, short : BOOLEAN]

Size(ss, i) == IF Used(ss, i) THEN Len(Header(ss, i).polys) ELSE 0
Room(ss, i) == IF Used(ss, i) THEN Header(ss, i).maxLinks ELSE 0

Counts(tile) == [k \in 1..Len(tile.polys) |-> Len(tile.polys[k].links)]

\* No link of a tile is lost: it is in a list of the tile's or free.
Shaped(V, ss) ==
    {ts \in [Slots -> TileType(V)] : \A i \in Slots :
        /\ Len(ts[i].polys) = Size(ss, i)
        /\ Total(Counts(ts[i])) + ts[i].free = Room(ss, i)}

\* The links of a polygon; a fact that a tile holds.
LinksOf(ts, i, k) == Range(ts[i].polys[k].links)
Made(ts, x) == x[3] \in LinksOf(ts, x[1], x[2])

\* Its links are among S, all of S but in tiles that have gone without one, and
\* all of B.
Linking(V, ss, S, B) ==
    {ts \in Shaped(V, ss) :
        /\ \A i \in Slots : \A k \in 1..Size(ss, i) :
              \A l \in LinksOf(ts, i, k) : <<i, k, l>> \in S
        /\ \A x \in S : Made(ts, x) \/ ts[x[1]].short
        /\ \A x \in B : Made(ts, x)}

(* Where a sequence is put before another, both are there.                 *)
LEMMA OnePut ==
    ASSUME NEW S, NEW s \in Seq(S), NEW x \in S
    PROVE  /\ <<x>> \o s \in Seq(S) /\ Len(<<x>> \o s) = Len(s) + 1
           /\ Range(<<x>> \o s) = Range(s) \cup {x}
<1>1. <<x>> \in Seq(S) /\ Len(<<x>>) = 1 OBVIOUS
<1>2. Range(<<x>>) = {x} BY DEF Range
<1>3. Range(<<x>> \o s) = Range(<<x>>) \cup Range(s)
  <2>1. <<x>> \in Seq(S) /\ s \in Seq(S) BY <1>1
  <2> QED BY <2>1, RangeConcatenation, Zenon
<1>4. <<x>> \o s \in Seq(S) /\ Len(<<x>> \o s) = Len(<<x>>) + Len(s)
  BY <1>1, ConcatProperties
<1> QED BY <1>1, <1>2, <1>3, <1>4

(* allocLink takes a free link, if there is one, and puts it first.        *)
LEMMA LinkAdded ==
    ASSUME NEW V, NEW ss, NEW ts \in Shaped(V, ss), NEW i \in Slots,
           NEW k \in 1..Size(ss, i), NEW l \in LinkType
    PROVE  LET new == AddLink(ts, i, k, l) IN
           /\ new \in Shaped(V, ss)
           /\ new[i].free >= ts[i].free - 1
           /\ \A j \in Slots : ts[j].short => new[j].short
           /\ \A j \in Slots : \A q \in 1..Size(ss, j) :
                 LinksOf(new, j, q) = LinksOf(ts, j, q)
                    \cup (IF j = i /\ q = k /\ ts[i].free # 0 THEN {l} ELSE {})
           /\ ts[i].free = 0 => new[i].short
<1> DEFINE new == AddLink(ts, i, k, l)
           P == [flags : V, area : V, links : Seq(LinkType)]
<1>1. /\ ts \in [Slots -> TileType(V)]
      /\ \A j \in Slots : /\ Len(ts[j].polys) = Size(ss, j)
                          /\ Total(Counts(ts[j])) + ts[j].free = Room(ss, j)
  BY DEF Shaped
<1>2. /\ ts[i] \in TileType(V) /\ ts[i].polys \in Seq(P) /\ ts[i].free \in Nat
      /\ k \in 1..Len(ts[i].polys)
  BY <1>1 DEF TileType
<1>0. \A p \in P : p.links \in Seq(LinkType) OBVIOUS
<1> HIDE DEF P
<1>3. ts[i].polys[k] \in P /\ ts[i].polys[k].links \in Seq(LinkType) BY <1>0, <1>2
<1>4. CASE ts[i].free = 0
  <2>1. new = [ts EXCEPT ![i].short = TRUE] BY <1>4 DEF AddLink
  <2>2. new \in [Slots -> TileType(V)] BY <1>1, <1>2, <2>1 DEF TileType
  <2>3. /\ \A j \in Slots : new[j].polys = ts[j].polys /\ new[j].free = ts[j].free
        /\ new[i].short
        /\ \A j \in Slots : ts[j].short => new[j].short
    BY <1>1, <2>1 DEF TileType
  <2> HIDE DEF new
  <2>4. new \in Shaped(V, ss) BY <1>1, <2>2, <2>3 DEF Shaped, Counts
  <2>5. new[i].free >= ts[i].free - 1 BY <1>2, <2>3
  <2>6. \A j \in Slots : \A q \in 1..Size(ss, j) :
           LinksOf(new, j, q) = LinksOf(ts, j, q)
                    \cup (IF j = i /\ q = k /\ ts[i].free # 0 THEN {l} ELSE {})
    BY <1>4, <2>3 DEF LinksOf
  <2> QED BY <2>3, <2>4, <2>5, <2>6 DEF new
<1>5. CASE ts[i].free # 0
  <2> DEFINE links == <<l>> \o ts[i].polys[k].links
             poly == [ts[i].polys[k] EXCEPT !.links = links]
             polys == [ts[i].polys EXCEPT ![k] = poly]
             tile == [ts[i] EXCEPT !.free = @ - 1, !.polys = polys]
  <2>1. new = [ts EXCEPT ![i] = tile]
    BY <1>1, <1>2, <1>5 DEF AddLink, TileType
  <2>2. /\ links \in Seq(LinkType) /\ Len(links) = Len(ts[i].polys[k].links) + 1
        /\ Range(links) = Range(ts[i].polys[k].links) \cup {l}
    BY <1>3, OnePut
  <2> HIDE DEF links
  <2>3. poly \in P /\ poly.links = links BY <1>3, <2>2 DEF P
  <2> HIDE DEF poly
  <2>4. /\ polys \in Seq(P) /\ Len(polys) = Len(ts[i].polys) /\ polys[k] = poly
        /\ \A q \in 1..Len(polys) : q # k => polys[q] = ts[i].polys[q]
    <3>1. DOMAIN ts[i].polys = 1..Len(ts[i].polys) BY <1>2
    <3> QED BY <1>2, <2>3, <3>1, ExceptSeq
  <2> HIDE DEF polys
  <2>5. /\ tile \in TileType(V) /\ tile.polys = polys /\ tile.free = ts[i].free - 1
        /\ tile.short = ts[i].short
    <3>1. ts[i].free - 1 \in Nat BY <1>2, <1>5
    <3> QED BY <1>2, <2>4, <3>1 DEF TileType, P
  <2> HIDE DEF tile, new
  <2>6. /\ new \in [Slots -> TileType(V)] /\ new[i] = tile
        /\ \A j \in Slots : j # i => new[j] = ts[j]
    BY <1>1, <2>1, <2>5
  <2>7. Total(Counts(tile)) + tile.free = Room(ss, i)
    <3> DEFINE f == Counts(ts[i])
               g == Counts(tile)
    <3>1. /\ f \in Seq(Int) /\ g \in Seq(Int) /\ Len(f) = Len(g) /\ k \in 1..Len(g)
          /\ \A q \in 1..Len(g) : g[q] = f[q] + (IF q = k THEN 1 ELSE 0)
      <4>1. /\ \A q \in 1..Len(polys) : polys[q].links \in Seq(LinkType)
            /\ \A q \in 1..Len(polys) : ts[i].polys[q].links \in Seq(LinkType)
        <5>1. \A q \in 1..Len(polys) : polys[q] \in P BY <2>4
        <5>2. \A q \in 1..Len(polys) : ts[i].polys[q] \in P BY <1>2, <2>4
        <5> QED BY <1>0, <5>1, <5>2
      <4>2. \A q \in 1..Len(polys) : Len(polys[q].links) \in Int
        BY <4>1
      <4>3. \A q \in 1..Len(polys) : Len(ts[i].polys[q].links) \in Int
        BY <4>1
      <4>4. Len(polys) \in Nat BY <2>4
      <4>5. g = [q \in 1..Len(polys) |-> Len(polys[q].links)] BY <2>5 DEF Counts
      <4>6. f = [q \in 1..Len(polys) |-> Len(ts[i].polys[q].links)]
        BY <2>4 DEF Counts
      <4> HIDE DEF f, g
      <4>7. /\ f \in Seq(Int) /\ Len(f) = Len(polys)
            /\ g \in Seq(Int) /\ Len(g) = Len(polys)
        BY <4>2, <4>3, <4>4, <4>5, <4>6
      <4>8. \A q \in 1..Len(polys) :
               Len(polys[q].links) = Len(ts[i].polys[q].links) + (IF q = k THEN 1 ELSE 0)
        <5> SUFFICES ASSUME NEW q \in 1..Len(polys)
                     PROVE  Len(polys[q].links)
                               = Len(ts[i].polys[q].links) + (IF q = k THEN 1 ELSE 0)
          OBVIOUS
        <5>1. CASE q = k BY <2>2, <2>3, <2>4, <5>1
        <5>2. CASE q # k
          <6>1. polys[q] = ts[i].polys[q] BY <2>4, <5>2
          <6> QED BY <4>3, <5>2, <6>1
        <5> QED BY <5>1, <5>2
      <4> QED BY <1>2, <2>4, <4>5, <4>6, <4>7, <4>8
    <3> HIDE DEF f, g
    <3>2. Total(g) = Total(f) + 1 /\ Total(f) \in Int BY <3>1, TotalOne
    <3>3. Total(f) + ts[i].free = Room(ss, i) BY <1>1 DEF f
    <3>4. tile.free = ts[i].free - 1 /\ ts[i].free \in Int BY <1>2, <2>5
    <3>5. Total(g) + tile.free = Room(ss, i) BY <3>2, <3>3, <3>4
    <3> QED BY <3>5 DEF g
  <2>8. new \in Shaped(V, ss)
    <3>1. Len(tile.polys) = Size(ss, i) BY <1>1, <2>4, <2>5
    <3> QED BY <1>1, <2>6, <2>7, <3>1 DEF Shaped
  <2>9. new[i].free >= ts[i].free - 1 BY <1>2, <2>5, <2>6
  <2>10. \A j \in Slots : ts[j].short => new[j].short BY <2>5, <2>6
  <2>11. \A j \in Slots : \A q \in 1..Size(ss, j) :
           LinksOf(new, j, q) = LinksOf(ts, j, q)
                    \cup (IF j = i /\ q = k /\ ts[i].free # 0 THEN {l} ELSE {})
    <3> SUFFICES ASSUME NEW j \in Slots, NEW q \in 1..Size(ss, j)
                 PROVE  LinksOf(new, j, q) = LinksOf(ts, j, q)
                           \cup (IF j = i /\ q = k /\ ts[i].free # 0 THEN {l} ELSE {})
      OBVIOUS
    <3>1. CASE j # i BY <2>6, <3>1 DEF LinksOf
    <3>2. CASE j = i /\ q # k
      <4>1. polys[q] = ts[i].polys[q] BY <1>1, <2>4, <3>2
      <4> QED BY <2>5, <2>6, <3>2, <4>1 DEF LinksOf
    <3>3. CASE j = i /\ q = k
      <4>1. LinksOf(new, j, q) = Range(links) BY <2>3, <2>4, <2>5, <2>6, <3>3 DEF LinksOf
      <4> QED BY <1>5, <2>2, <3>3, <4>1 DEF LinksOf
    <3> QED BY <3>1, <3>2, <3>3
  <2> QED BY <1>5, <2>8, <2>9, <2>10, <2>11 DEF new
<1> QED BY <1>4, <1>5

\* What can be said of the polygons there are.
Facts(ss) == {x \in Slots \X Nat \X LinkType : x[2] \in 1..Size(ss, x[1])}

(* So its tile has the link, or has gone without one.                      *)
LEMMA FactAdded ==
    ASSUME NEW V, NEW ss, NEW S \in SUBSET Facts(ss), NEW B \in SUBSET S,
           NEW ts \in Linking(V, ss, S, B), NEW i \in Slots,
           NEW k \in 1..Size(ss, i), NEW l \in LinkType
    PROVE  LET new == AddLink(ts, i, k, l)
               x == <<i, k, l>> IN
           /\ S \cup {x} \in SUBSET Facts(ss)
           /\ new \in Linking(V, ss, S \cup {x}, B)
           /\ new[i].free >= ts[i].free - 1
           /\ ts[i].free # 0 => new \in Linking(V, ss, S \cup {x}, B \cup {x})
<1> DEFINE new == AddLink(ts, i, k, l)
           x == <<i, k, l>>
<1>1. /\ ts \in Shaped(V, ss)
      /\ \A j \in Slots : \A q \in 1..Size(ss, j) :
            \A m \in LinksOf(ts, j, q) : <<j, q, m>> \in S
      /\ \A y \in S : Made(ts, y) \/ ts[y[1]].short
      /\ \A y \in B : Made(ts, y)
  BY DEF Linking
<1>2. /\ new \in Shaped(V, ss) /\ new[i].free >= ts[i].free - 1
      /\ \A j \in Slots : ts[j].short => new[j].short
      /\ \A j \in Slots : \A q \in 1..Size(ss, j) :
            LinksOf(new, j, q) = LinksOf(ts, j, q)
               \cup (IF j = i /\ q = k /\ ts[i].free # 0 THEN {l} ELSE {})
      /\ ts[i].free = 0 => new[i].short
  BY <1>1, LinkAdded
<1> HIDE DEF new
<1>3. \A y \in S : y[1] \in Slots /\ y[2] \in 1..Size(ss, y[1]) BY DEF Facts
<1>4. x \in Facts(ss) /\ x[1] = i /\ x[2] = k /\ x[3] = l
  <2>1. \A n : k \in 1..n => k \in Nat OBVIOUS
  <2> QED BY <2>1 DEF Facts
<1>5. \A j \in Slots : \A q \in 1..Size(ss, j) :
         \A m \in LinksOf(new, j, q) : <<j, q, m>> \in S \cup {x}
  <2> SUFFICES ASSUME NEW j \in Slots, NEW q \in 1..Size(ss, j),
                      NEW m \in LinksOf(new, j, q)
               PROVE  <<j, q, m>> \in S \cup {x}
    OBVIOUS
  <2>1. \/ m \in LinksOf(ts, j, q)
        \/ j = i /\ q = k /\ m = l
    BY <1>2
  <2>2. CASE m \in LinksOf(ts, j, q) BY <1>1, <2>2
  <2>3. CASE j = i /\ q = k /\ m = l BY <2>3
  <2> QED BY <2>1, <2>2, <2>3
<1> HIDE DEF x
<1>6. \A y \in S : Made(ts, y) => Made(new, y) BY <1>2, <1>3 DEF Made
<1>7. \A y \in S : Made(new, y) \/ new[y[1]].short BY <1>1, <1>2, <1>3, <1>6
<1>8. \A y \in B : Made(new, y) BY <1>1, <1>6
<1>9. ts[i].free # 0 => Made(new, x) BY <1>2, <1>4 DEF Made
<1>10. Made(new, x) \/ new[x[1]].short BY <1>2, <1>4, <1>9
<1> QED BY <1>2, <1>4, <1>5, <1>7, <1>8, <1>9, <1>10 DEF Linking, x, new

\* The joins of a tile, and the facts they come to.
JoinType(ss, i) == [poly : 1..Size(ss, i), link : LinkType]
FactsIn(i, joins) == {<<i, joins[m].poly, joins[m].link>> : m \in 1..Len(joins)}

(* The same for the links that AddLinks makes in turn.                     *)
LEMMA JoinsAdded ==
    ASSUME NEW V, NEW ss, NEW S \in SUBSET Facts(ss), NEW B \in SUBSET S,
           NEW ts \in Linking(V, ss, S, B), NEW i \in Slots,
           NEW joins \in Seq(JoinType(ss, i))
    PROVE  LET new == AddLinks(ts, i, joins)
               F == FactsIn(i, joins) IN
           /\ S \cup F \in SUBSET Facts(ss)
           /\ new \in Linking(V, ss, S \cup F, B)
           /\ new[i].free >= ts[i].free - Len(joins)
           /\ ts[i].free >= Len(joins) => new \in Linking(V, ss, S \cup F, B \cup F)
<1> DEFINE n == Len(joins)
           D == SUBSET (1..n)
           Q == Shaped(V, ss)
           Added(q, m) == AddLink(q, i, joins[m].poly, joins[m].link)
           Is(f) == f = [t \in D |->
                           IF t = {} THEN ts ELSE Added(f[t \ {Max(t)}], Max(t))]
           step == [p \in (1..n) \X Q |-> Added(p[2], p[1])]
           I == CHOOSE f : Is(f)
           F(m) == {<<i, joins[k].poly, joins[k].link>> : k \in 1..m}
<1>1. /\ n \in Nat /\ DOMAIN joins = 1..n
      /\ \A m \in 1..n : joins[m].poly \in 1..Size(ss, i) /\ joins[m].link \in LinkType
  <2>1. \A j \in JoinType(ss, i) : j.poly \in 1..Size(ss, i) /\ j.link \in LinkType
    BY DEF JoinType
  <2> QED BY <2>1
<1>2. AddLinks(ts, i, joins) = I[1..n]
  <2>1. AddLinks(ts, i, joins) =
           LET f == CHOOSE f : f = [t \in SUBSET DOMAIN joins |->
                       IF t = {} THEN ts
                       ELSE AddLink(f[t \ {Max(t)}], i, joins[Max(t)].poly,
                                    joins[Max(t)].link)]
           IN  f[DOMAIN joins]
    BY DEF AddLinks, FoldLeft, MapThenFoldSet
  <2> QED BY <1>1, <2>1
<1>3. ts \in Q BY DEF Linking
<1>4. \A m \in 1..n, q \in Q : Added(q, m) \in Q BY <1>1, LinkAdded
<1>5. step \in [(1..n) \X Q -> Q] BY <1>4
<1>6. \A m \in 1..n, q \in Q : step[<<m, q>>] = Added(q, m) OBVIOUS
<1> HIDE DEF n, step, Q, Added
<1>7. PICK f \in [D -> Q] :
         \A t \in D : f[t] = IF t = {} THEN ts ELSE step[<<Max(t), f[t \ {Max(t)}]>>]
  <2>1. Folds(n, Q, ts, step) BY <1>1, <1>3, <1>5, Folded
  <2> QED BY <2>1 DEF Folds
<1>8. Is(f)
  <2>1. ASSUME NEW t \in D, t # {}
        PROVE  f[t] = Added(f[t \ {Max(t)}], Max(t))
    <3>1. Max(t) \in t BY <1>1, <2>1, MaxIn
    <3>2. Max(t) \in 1..n /\ f[t \ {Max(t)}] \in Q BY <3>1
    <3> QED BY <1>6, <1>7, <2>1, <3>2
  <2>2. f = [t \in D |-> f[t]] OBVIOUS
  <2>3. \A t \in D : f[t] = IF t = {} THEN ts ELSE Added(f[t \ {Max(t)}], Max(t))
    BY <1>7, <2>1
  <2> HIDE DEF D
  <2> QED BY <2>2, <2>3
<1>9. Is(I) BY <1>8
<1> HIDE DEF I
<1>10. I[{}] = ts
  <2>1. {} \in D OBVIOUS
  <2> QED BY <1>9, <2>1
<1>11. ASSUME NEW m \in 1..n PROVE I[1..m] = Added(I[1..(m - 1)], m)
  <2>1. m \in Nat \ {0} /\ m <= n BY <1>1
  <2>2. 1..m \in D /\ 1..m # {}
    <3>1. 1 \in 1..m BY <2>1
    <3>2. \A k \in 1..m : k \in 1..n BY <1>1, <2>1
    <3> QED BY <3>1, <3>2
  <2>3. Max(1..m) = m /\ (1..m) \ {m} = 1..(m - 1) BY <2>1, MaxFirst
  <2> QED BY <1>9, <2>2, <2>3
<1> DEFINE enough == ts[i].free >= n
           W == [m \in 0..n |->
                    {q \in Linking(V, ss, S \cup F(m), B) :
                        /\ q[i].free >= ts[i].free - m
                        /\ enough => q \in Linking(V, ss, S \cup F(m), B \cup F(m))}]
<1>12. \A q \in Q : q[i].free \in Nat
  BY DEF Q, Shaped, TileType
<1>13. \A m \in 0..n : F(m) \in SUBSET Facts(ss)
  <2> SUFFICES ASSUME NEW k \in 1..n PROVE <<i, joins[k].poly, joins[k].link>> \in Facts(ss)
    BY <1>1
  <2>1. joins[k].poly \in 1..Size(ss, i) /\ joins[k].link \in LinkType BY <1>1
  <2>2. \A b : joins[k].poly \in 1..b => joins[k].poly \in Nat OBVIOUS
  <2> QED BY <2>1, <2>2 DEF Facts
<1>14. I[{}] \in W[0]
  <2>1. F(0) = {} OBVIOUS
  <2>2. S \cup F(0) = S /\ B \cup F(0) = B BY <2>1
  <2> HIDE DEF F
  <2>3. ts[i].free >= ts[i].free - 0 BY <1>3, <1>12
  <2>4. ts \in {q \in Linking(V, ss, S \cup F(0), B) :
                        /\ q[i].free >= ts[i].free - 0
                        /\ enough => q \in Linking(V, ss, S \cup F(0), B \cup F(0))}
    BY <2>2, <2>3
  <2>5. 0 \in 0..n BY <1>1
  <2> QED BY <1>10, <2>4, <2>5
<1>15. \A m \in 1..n : I[1..(m - 1)] \in W[m - 1] => I[1..m] \in W[m]
  <2> SUFFICES ASSUME NEW m \in 1..n, I[1..(m - 1)] \in W[m - 1] PROVE I[1..m] \in W[m]
    OBVIOUS
  <2> DEFINE q == I[1..(m - 1)]
             x == <<i, joins[m].poly, joins[m].link>>
             T == S \cup F(m - 1)
             C == B \cup F(m - 1)
             new == I[1..m]
  <2>1. m - 1 \in 0..n /\ m \in 0..n BY <1>1
  <2>2. /\ q \in Linking(V, ss, T, B) /\ q[i].free >= ts[i].free - (m - 1)
        /\ enough => q \in Linking(V, ss, T, C)
    BY <2>1
  <2>3. new = AddLink(q, i, joins[m].poly, joins[m].link) BY <1>11 DEF Added
  <2>4. S \cup F(m) = T \cup {x} /\ B \cup F(m) = C \cup {x}
    <3>1. \A k : k \in 1..m <=> k \in 1..(m - 1) \/ k = m BY <1>1
    <3> QED BY <3>1
  <2>5. T \in SUBSET Facts(ss) /\ C \in SUBSET T /\ B \in SUBSET T BY <1>13, <2>1
  <2>6. joins[m].poly \in 1..Size(ss, i) /\ joins[m].link \in LinkType BY <1>1
  <2>7. q \in Q /\ new \in Q BY <1>4, <1>11, <2>2 DEF Linking, Q
  <2> HIDE DEF q, new, F, W, T, C
  <2>8. new \in Linking(V, ss, T \cup {x}, B) /\ new[i].free >= q[i].free - 1
    BY <2>2, <2>3, <2>5, <2>6, FactAdded
  <2>9. {q[i].free, new[i].free, ts[i].free} \subseteq Nat /\ m \in Nat
    BY <1>1, <1>3, <1>12, <2>7
  <2>10. new[i].free >= ts[i].free - m
    <3>1. q[i].free \in Int /\ new[i].free \in Int /\ ts[i].free \in Int BY <2>9
    <3>2. \A a, b, c, d \in Int : a >= b - 1 /\ b >= c - (d - 1) => a >= c - d
      OBVIOUS
    <3>3. m \in Int BY <2>9
    <3> QED BY <2>2, <2>8, <3>1, <3>2, <3>3
  <2>11. enough => new \in Linking(V, ss, T \cup {x}, C \cup {x})
    <3> SUFFICES ASSUME enough PROVE new \in Linking(V, ss, T \cup {x}, C \cup {x})
      OBVIOUS
    <3>1. q[i].free # 0
      <4>1. q[i].free \in Int /\ ts[i].free \in Int /\ m <= n /\ n \in Int
        BY <1>1, <2>9
      <4> QED BY <2>2, <2>9, <4>1
    <3>2. q \in Linking(V, ss, T, C) BY <2>2
    <3> QED BY <2>3, <2>5, <2>6, <3>1, <3>2, FactAdded
  <2> HIDE DEF x
  <2>12. new \in {p \in Linking(V, ss, S \cup F(m), B) :
                        /\ p[i].free >= ts[i].free - m
                        /\ enough => p \in Linking(V, ss, S \cup F(m), B \cup F(m))}
    BY <2>4, <2>8, <2>10, <2>11
  <2> QED BY <2>1, <2>12 DEF W, new
<1> HIDE DEF W
<1>16. I[1..n] \in W[n] BY <1>1, <1>14, <1>15, FoldIn
<1>17. n \in 0..n BY <1>1
<1>18. F(n) = FactsIn(i, joins) BY DEF FactsIn, n
<1>19. S \cup F(n) \in SUBSET Facts(ss) BY <1>13, <1>17
<1> HIDE DEF F
<1>20. I[1..n] \in {p \in Linking(V, ss, S \cup F(n), B) :
                        /\ p[i].free >= ts[i].free - n
                        /\ enough => p \in Linking(V, ss, S \cup F(n), B \cup F(n))}
  BY <1>16, <1>17 DEF W
<1> QED BY <1>2, <1>18, <1>19, <1>20 DEF n

-------------------------------------------------------------------------------
(* The data of tiles, and where their polygons lie *)

\* What may lie behind an edge: nothing, a polygon, or a side.
Neis(d) == {0} \cup 1..Len(d.polys) \cup ExtLink..(ExtLink + 7)

(* What DataAssumption says of the tile named n.                           *)
LEMMA DataIs ==
    ASSUME NEW n \in DOMAIN Data
    PROVE  LET d == Data[n] IN
           /\ d.x \in Int /\ d.y \in Int /\ d.climb \in Int /\ d.maxLinks \in Nat
           /\ Len(d.polys) \in Nat /\ DOMAIN d.polys = 1..Len(d.polys)
           /\ Len(d.polys) < ExtLink /\ Len(d.polys) <= PolyNumbers
           /\ \A k \in 1..Len(d.polys) :
                 /\ d.polys[k].verts \in Seq(Int \X Int) /\ d.polys[k].verts # <<>>
                 /\ d.polys[k].y \in Int
                 /\ d.polys[k].neis \in Seq(Neis(d))
                 /\ Len(d.polys[k].neis) <= Len(d.polys[k].verts)
                 /\ Len(d.polys[k].verts) <= MaxVerts
                 /\ \A j \in 1..Len(d.polys[k].neis) :
                       (/\ d.polys[k].neis[j] \in 1..Len(d.polys)
                        /\ d.polys[k].neis[j] < ExtLink)
                       => d.polys[d.polys[k].neis[j]].ground
                 /\ ~d.polys[k].ground => Range(d.polys[k].neis) \subseteq {0}
           /\ Len(d.cons) \in Nat /\ DOMAIN d.cons = 1..Len(d.cons)
           /\ \A c \in 1..Len(d.cons) :
                 /\ d.cons[c].poly \in 1..Len(d.polys)
                 /\ ~d.polys[d.cons[c].poly].ground
                 /\ d.cons[c].from \in Int \X Int \X Int
                 /\ d.cons[c].to \in Int \X Int \X Int
                 /\ d.cons[c].rad \in Nat /\ d.cons[c].side \in 0..7 \cup {Inside}
                 /\ \A b \in 1..Len(d.cons) : d.cons[b].poly = d.cons[c].poly => b = c
           /\ Len(InnerEdges(d)) + 2 * Len(d.cons) <= d.maxLinks
<1> DEFINE d == Data[n]
<1>1. /\ {d.x, d.y, d.climb} \subseteq Int /\ d.maxLinks \in Nat
      /\ d.polys \in Seq(Range(d.polys)) /\ Len(d.polys) < ExtLink
      /\ d.cons \in Seq(Range(d.cons))
      /\ Len(InnerEdges(d)) + 2 * Len(d.cons) <= d.maxLinks
  BY DataAssumption
<1>2. /\ Len(d.polys) \in Nat /\ DOMAIN d.polys = 1..Len(d.polys)
      /\ Len(d.cons) \in Nat /\ DOMAIN d.cons = 1..Len(d.cons)
  BY <1>1
<1>3. Len(d.polys) <= PolyNumbers BY TilesAssumption
<1>4. ASSUME NEW k \in 1..Len(d.polys)
      PROVE  /\ d.polys[k].verts \in Seq(Int \X Int) /\ d.polys[k].verts # <<>>
             /\ d.polys[k].y \in Int
             /\ d.polys[k].neis \in Seq(Neis(d))
             /\ Len(d.polys[k].neis) <= Len(d.polys[k].verts)
             /\ Len(d.polys[k].verts) <= MaxVerts
             /\ \A j \in 1..Len(d.polys[k].neis) :
                   (/\ d.polys[k].neis[j] \in 1..Len(d.polys)
                    /\ d.polys[k].neis[j] < ExtLink)
                   => d.polys[d.polys[k].neis[j]].ground
             /\ ~d.polys[k].ground => Range(d.polys[k].neis) \subseteq {0}
  <2> DEFINE p == d.polys[k]
             Ground == {q \in 1..Len(d.polys) : d.polys[q].ground}
             Led == {0} \cup Ground \cup ExtLink..(ExtLink + 7)
  <2>1. /\ p.verts \in Seq(Int \X Int) /\ Len(p.verts) \in 1..MaxVerts /\ p.y \in Int
        /\ p.neis \in Seq(Led) /\ Len(p.neis) <= Len(p.verts)
        /\ ~p.ground => Range(p.neis) \subseteq {0}
    BY DataAssumption
  <2>2. p.verts # <<>> /\ Len(p.verts) <= MaxVerts
    <3>1. MaxVerts \in Nat BY DEF MaxVerts
    <3>2. p.verts \in Seq(Int \X Int) /\ Len(p.verts) \in 1..MaxVerts BY <2>1
    <3> HIDE DEF p
    <3> QED BY <3>1, <3>2
  <2>3. Led \subseteq Neis(d) BY DEF Neis
  <2>4. p.neis \in Seq(Neis(d))
    <3> HIDE DEF p, Led
    <3> QED BY <2>1, <2>3
  <2>5. ASSUME NEW j \in 1..Len(p.neis), p.neis[j] \in 1..Len(d.polys),
               p.neis[j] < ExtLink
        PROVE  d.polys[p.neis[j]].ground
    <3>1. p.neis[j] \in Led
      <4> HIDE DEF p, Led
      <4> QED BY <2>1
    <3>2. p.neis[j] # 0 /\ p.neis[j] \notin ExtLink..(ExtLink + 7)
      BY <2>5 DEF ExtLink
    <3> QED BY <3>1, <3>2
  <2> QED BY <2>1, <2>2, <2>4, <2>5
<1>5. ASSUME NEW c \in DOMAIN d.cons
      PROVE  /\ d.cons[c].poly \in 1..Len(d.polys)
             /\ ~d.polys[d.cons[c].poly].ground
             /\ {d.cons[c].from, d.cons[c].to} \subseteq Int \X Int \X Int
             /\ d.cons[c].rad \in Nat /\ d.cons[c].side \in 0..7 \cup {Inside}
             /\ \A b \in DOMAIN d.cons : d.cons[b].poly = d.cons[c].poly => b = c
  BY DataAssumption
<1>6. /\ d.x \in Int /\ d.y \in Int /\ d.climb \in Int
      /\ \A c \in DOMAIN d.cons :
            d.cons[c].from \in Int \X Int \X Int /\ d.cons[c].to \in Int \X Int \X Int
  BY <1>1, <1>5
<1> HIDE DEF d
<1>7. \A c \in 1..Len(d.cons) :
                 /\ d.cons[c].poly \in 1..Len(d.polys)
                 /\ ~d.polys[d.cons[c].poly].ground
                 /\ d.cons[c].from \in Int \X Int \X Int
                 /\ d.cons[c].to \in Int \X Int \X Int
                 /\ d.cons[c].rad \in Nat /\ d.cons[c].side \in 0..7 \cup {Inside}
                 /\ \A b \in 1..Len(d.cons) : d.cons[b].poly = d.cons[c].poly => b = c
  BY <1>2, <1>5, <1>6
<1> QED BY <1>1, <1>2, <1>3, <1>4, <1>6, <1>7 DEF d

(* A connection of a tile has a polygon of its own, which is no ground.    *)
LEMMA ConIs ==
    ASSUME NEW n \in DOMAIN Data, NEW c \in 1..Len(Data[n].cons)
    PROVE  LET d == Data[n] IN
           /\ d.cons[c].poly \in 1..Len(d.polys)
           /\ ~d.polys[d.cons[c].poly].ground
           /\ d.cons[c].from \in Int \X Int \X Int
           /\ d.cons[c].to \in Int \X Int \X Int
           /\ \A b \in 1..Len(d.cons) : d.cons[b].poly = d.cons[c].poly => b = c
<1>1. Data[n].cons \in Seq(Range(Data[n].cons)) BY DataAssumption
<1>2. c \in DOMAIN Data[n].cons /\ DOMAIN Data[n].cons = 1..Len(Data[n].cons)
  BY <1>1
<1>3. /\ Data[n].cons[c].poly \in 1..Len(Data[n].polys)
      /\ ~Data[n].polys[Data[n].cons[c].poly].ground
  BY <1>2, DataAssumption
<1>4. {Data[n].cons[c].from, Data[n].cons[c].to} \subseteq Int \X Int \X Int
  BY <1>2, DataAssumption
<1>5. \A b \in DOMAIN Data[n].cons :
         Data[n].cons[b].poly = Data[n].cons[c].poly => b = c
  BY <1>2, DataAssumption
<1> QED BY <1>2, <1>3, <1>4, <1>5

(* The first of the least of some numbers is one of them.                  *)
LEMMA LeastIs ==
    ASSUME NEW n \in Nat \ {0}, NEW f, DOMAIN f = 1..n, \A k \in 1..n : f[k] \in Int
    PROVE  Least(f) \in 1..n /\ \A k \in 1..n : f[Least(f)] <= f[k]
<1> DEFINE First(a, m) == \A b \in 1..m : f[a] < f[b] \/ (f[a] = f[b] /\ a <= b)
           T == {m \in Nat : m \in 1..n => \E a \in 1..m : First(a, m)}
<1>1. 0 \in T OBVIOUS
<1>2. ASSUME NEW m \in Nat, m \in T PROVE m + 1 \in T
  <2> SUFFICES ASSUME m + 1 \in 1..n PROVE \E a \in 1..(m + 1) : First(a, m + 1)
    OBVIOUS
  <2>1. CASE m = 0
    <3>1. \A b \in 1..(m + 1) : b = 1 /\ f[1] \in Int BY <2>1
    <3>2. 1 \in 1..(m + 1) /\ First(1, m + 1) BY <3>1
    <3> QED BY <3>2
  <2>2. CASE m # 0
    <3>1. m \in 1..n BY <2>2
    <3>2. PICK a \in 1..m : First(a, m) BY <1>2, <3>1
    <3>3. a \in 1..n /\ f[a] \in Int /\ f[m + 1] \in Int BY <3>1
    <3>4. CASE f[m + 1] < f[a]
      <4>1. ASSUME NEW b \in 1..(m + 1)
            PROVE  f[m + 1] < f[b] \/ (f[m + 1] = f[b] /\ m + 1 <= b)
        <5>1. CASE b \in 1..m
          <6>1. f[b] \in Int /\ f[a] <= f[b] BY <3>2, <3>3, <5>1
          <6> QED BY <3>3, <3>4, <6>1
        <5>2. CASE b = m + 1 BY <5>2
        <5> QED BY <5>1, <5>2
      <4>2. m + 1 \in 1..(m + 1) OBVIOUS
      <4> QED BY <4>1, <4>2
    <3>5. CASE ~(f[m + 1] < f[a])
      <4>1. ASSUME NEW b \in 1..(m + 1)
            PROVE  f[a] < f[b] \/ (f[a] = f[b] /\ a <= b)
        <5>1. CASE b \in 1..m BY <3>2, <5>1
        <5>2. CASE b = m + 1 BY <3>3, <3>5, <5>2
        <5> QED BY <5>1, <5>2
      <4>2. a \in 1..(m + 1) OBVIOUS
      <4> QED BY <4>1, <4>2
    <3> QED BY <3>4, <3>5
  <2> QED BY <2>1, <2>2
<1> HIDE DEF T
<1>3. n \in T BY <1>1, <1>2, NatInd
<1>4. \E a \in 1..n : First(a, n) BY <1>3 DEF T
<1>5. Least(f) = CHOOSE a \in 1..n : First(a, n) BY DEF Least
<1>6. Least(f) \in 1..n /\ First(Least(f), n) BY <1>4, <1>5
<1> HIDE DEF First
<1>7. \A k \in 1..n : f[Least(f)] < f[k] \/ f[Least(f)] = f[k] BY <1>6 DEF First
<1>8. f[Least(f)] \in Int BY <1>6
<1> QED BY <1>6, <1>7, <1>8

(* Some numbers have a least and a greatest, which are among them.         *)
LEMMA Extremes ==
    ASSUME NEW n \in Nat \ {0}, NEW f \in [1..n -> Int]
    PROVE  LET s == {f[k] : k \in 1..n} IN
           /\ Min(s) \in s /\ \A x \in s : Min(s) <= x
           /\ Max(s) \in s /\ \A x \in s : Max(s) >= x
<1> DEFINE s == {f[k] : k \in 1..n}
           g == [k \in 1..n |-> 0 - f[k]]
<1>1. Least(f) \in 1..n /\ \A k \in 1..n : f[Least(f)] <= f[k] BY LeastIs
<1>2. Least(g) \in 1..n /\ \A k \in 1..n : f[Least(g)] >= f[k]
  <2>1. DOMAIN g = 1..n /\ \A k \in 1..n : g[k] \in Int /\ g[k] = 0 - f[k] OBVIOUS
  <2> HIDE DEF g
  <2>2. Least(g) \in 1..n /\ \A k \in 1..n : g[Least(g)] <= g[k] BY <2>1, LeastIs
  <2>3. \A k \in 1..n : f[k] \in Int OBVIOUS
  <2>4. \A k \in 1..n : 0 - f[Least(g)] <= 0 - f[k] BY <2>1, <2>2
  <2>5. \A a, b \in Int : 0 - a <= 0 - b => a >= b OBVIOUS
  <2> QED BY <2>2, <2>3, <2>4, <2>5
<1>3. \E x \in s : \A y \in s : x <= y
  <2>1. f[Least(f)] \in s /\ \A y \in s : f[Least(f)] <= y BY <1>1
  <2> QED BY <2>1
<1>4. \E x \in s : \A y \in s : x >= y
  <2>1. f[Least(g)] \in s /\ \A y \in s : f[Least(g)] >= y BY <1>2
  <2> HIDE DEF s, g
  <2> QED BY <2>1
<1> QED BY <1>3, <1>4 DEF Min, Max

(* The box round a polygon is in whole numbers.                            *)
LEMMA BoxTyped ==
    ASSUME NEW p, p.verts \in Seq(Int \X Int), p.verts # <<>>
    PROVE  /\ Box(p).x0 \in Int /\ Box(p).x1 \in Int
           /\ Box(p).z0 \in Int /\ Box(p).z1 \in Int
<1> DEFINE n == Len(p.verts)
           f == [k \in 1..n |-> p.verts[k][1]]
           g == [k \in 1..n |-> p.verts[k][2]]
<1>1. n \in Nat \ {0} /\ Range(p.verts) = {p.verts[k] : k \in 1..n}
  <2> HIDE DEF f, g
  <2>1. n \in Nat \ {0} OBVIOUS
  <2>2. Range(p.verts) = {p.verts[k] : k \in 1..n} BY RangeEquality
  <2> QED BY <2>1, <2>2
<1>2. f \in [1..n -> Int] /\ g \in [1..n -> Int] OBVIOUS
<1>3. /\ {v[1] : v \in Range(p.verts)} = {f[k] : k \in 1..n}
      /\ {v[2] : v \in Range(p.verts)} = {g[k] : k \in 1..n}
  <2>1. \A k \in 1..n : f[k] = p.verts[k][1] /\ g[k] = p.verts[k][2] OBVIOUS
  <2> HIDE DEF f, g, n
  <2>2. ASSUME NEW v \in Range(p.verts) PROVE \E k \in 1..n : v[1] = f[k] /\ v[2] = g[k]
    BY <1>1, <2>1
  <2>3. ASSUME NEW k \in 1..n
        PROVE  \E v \in Range(p.verts) : v[1] = f[k] /\ v[2] = g[k]
    <3>1. p.verts[k] \in Range(p.verts) BY <1>1
    <3> QED BY <2>1, <3>1
  <2> DEFINE R == Range(p.verts)
             S == 1..n
  <2>4. /\ \A v \in R : \E k \in S : v[1] = f[k] /\ v[2] = g[k]
        /\ \A k \in S : \E v \in R : v[1] = f[k] /\ v[2] = g[k]
    BY <2>2, <2>3
  <2> HIDE DEF R, S
  <2>5. {v[1] : v \in R} = {f[k] : k \in S} BY <2>4
  <2>6. {v[2] : v \in R} = {g[k] : k \in S} BY <2>4
  <2> QED BY <2>5, <2>6 DEF R, S
<1> HIDE DEF f, g, n
<1>4. Min({f[k] : k \in 1..n}) \in Int /\ Max({f[k] : k \in 1..n}) \in Int
  <2>1. \A x \in {f[k] : k \in 1..n} : x \in Int BY <1>2
  <2> QED BY <1>1, <1>2, <2>1, Extremes
<1>5. Min({g[k] : k \in 1..n}) \in Int /\ Max({g[k] : k \in 1..n}) \in Int
  <2>1. \A x \in {g[k] : k \in 1..n} : x \in Int BY <1>2
  <2> QED BY <1>1, <1>2, <2>1, Extremes
<1> QED BY <1>3, <1>4, <1>5 DEF Box

(* How far a point is from a polygon is a whole number.                    *)
LEMMA AwayTyped ==
    ASSUME NEW p, p.verts \in Seq(Int \X Int), p.verts # <<>>, p.y \in Int,
           NEW pos \in Int \X Int \X Int, NEW climb \in Int
    PROVE  Away(p, pos, climb) \in Int
<1> DEFINE b == Box(p)
           c == ClosestPointOnPoly(p, pos)
<1>1. b.x0 \in Int /\ b.x1 \in Int /\ b.z0 \in Int /\ b.z1 \in Int BY BoxTyped
<1>2. c = <<Clamp(pos[1], b.x0, b.x1), p.y, Clamp(pos[3], b.z0, b.z1)>>
  BY DEF ClosestPointOnPoly, ClosestPointInBox
<1> HIDE DEF b
<1>3. pos[1] \in Int /\ pos[2] \in Int /\ pos[3] \in Int OBVIOUS
<1>4. c[1] \in Int /\ c[2] \in Int /\ c[3] \in Int BY <1>1, <1>2, <1>3 DEF Clamp
<1> HIDE DEF c
<1>5. Rise(c, pos) \in Int BY <1>3, <1>4 DEF Rise
<1>6. \A x \in Int : Square(x) \in Int BY DEF Square
<1>7. Sideways(c, pos) \in Int
  <2>1. c[1] - pos[1] \in Int /\ c[3] - pos[3] \in Int BY <1>3, <1>4
  <2>2. Square(c[1] - pos[1]) \in Int /\ Square(c[3] - pos[3]) \in Int BY <1>6, <2>1
  <2> QED BY <2>2 DEF Sideways
<1>8. \A x \in Int : Max({0, x}) \in Int
  <2> SUFFICES ASSUME NEW x \in Int PROVE Max({0, x}) \in Int OBVIOUS
  <2>1. \E m \in {0, x} : \A y \in {0, x} : m >= y
    <3>1. CASE x >= 0 BY <3>1
    <3>2. CASE ~(x >= 0) BY <3>2
    <3> QED BY <3>1, <3>2
  <2>2. Max({0, x}) \in {0, x} BY <2>1 DEF Max
  <2> QED BY <2>2
<1>9. Rise(c, pos) - climb \in Int BY <1>5
<1>10. Square(Max({0, Rise(c, pos) - climb})) \in Int BY <1>6, <1>8, <1>9
<1>11. Sideways(c, pos) + Square(Rise(c, pos)) \in Int BY <1>5, <1>6, <1>7
<1> QED BY <1>10, <1>11 DEF Away, c

(* A connection's end is put on a ground polygon, or on none.              *)
LEMMA NearestIs ==
    ASSUME NEW n \in DOMAIN Data, NEW pos \in Int \X Int \X Int, NEW rad, NEW climb
    PROVE  LET k == FindNearestPolyInTile(Data[n], pos, rad, climb) IN
           k # 0 => k \in 1..Len(Data[n].polys) /\ Data[n].polys[k].ground
<1> DEFINE d == Data[n]
           T == {k \in DOMAIN d.polys :
                    /\ d.polys[k].ground
                    /\ BoxesOverlap(Box(d.polys[k]), pos, rad)
                    /\ d.polys[k].y \in (pos[2] - climb)..(pos[2] + climb)}
           found == Those(Numbered(d), T)
           f == [m \in 1..Len(found) |-> Away(d.polys[found[m]], pos, d.climb)]
<1>1. /\ Len(d.polys) \in Nat /\ d.climb \in Int
      /\ \A k \in 1..Len(d.polys) :
            /\ d.polys[k].verts \in Seq(Int \X Int) /\ d.polys[k].verts # <<>>
            /\ d.polys[k].y \in Int
  BY DataIs
<1>2. \A k \in T : d.polys[k].ground OBVIOUS
<1>3. /\ FindNearestPolyInTile(d, pos, rad, climb)
            = NearestWithin(d, found, pos, rad)
  BY DEF FindNearestPolyInTile, QueryPolygonsInTile
<1> HIDE DEF d, T
<1>4. Numbered(d) \in Seq(1..Len(d.polys)) /\ Len(Numbered(d)) = Len(d.polys)
  BY <1>1 DEF Numbered
<1>5. /\ found \in Seq(1..Len(d.polys)) /\ Range(found) = Range(Numbered(d)) \cap T
  BY <1>4, ThoseIs
<1> HIDE DEF found
<1>6. CASE found = <<>>
  BY <1>3, <1>6 DEF NearestWithin, d
<1>7. CASE found # <<>>
  <2>1. Len(found) \in Nat \ {0} BY <1>5, <1>7
  <2>2. \A m \in 1..Len(found) : found[m] \in 1..Len(d.polys) /\ found[m] \in T
    <3>1. Range(found) = {found[m] : m \in 1..Len(found)} BY <1>5, RangeEquality
    <3> QED BY <1>5, <3>1
  <2>3. \A m \in 1..Len(found) : f[m] \in Int BY <1>1, <2>2, AwayTyped
  <2>4. DOMAIN f = 1..Len(found) OBVIOUS
  <2>5. NearestOf(d, found, pos) = found[Least(f)] BY DEF NearestOf
  <2> HIDE DEF f
  <2>6. Least(f) \in 1..Len(found) BY <2>1, <2>3, <2>4, LeastIs
  <2>7. NearestOf(d, found, pos) \in 1..Len(d.polys) /\ NearestOf(d, found, pos) \in T
    BY <2>2, <2>5, <2>6
  <2> QED BY <1>2, <1>3, <1>7, <2>7 DEF NearestWithin, WithinRadius, d
<1> QED BY <1>6, <1>7

\* Slots with salts, and with data or none.
Typed(ss) == ss \in [Slots -> [salt : Salt, data : DOMAIN Data \cup {NoData}]]

(* The data and the polygons of a used slot.                               *)
LEMMA HeaderIs ==
    ASSUME NEW ss, Typed(ss), NEW i \in Slots, Used(ss, i)
    PROVE  /\ ss[i].data \in DOMAIN Data /\ Header(ss, i) = Data[ss[i].data]
           /\ Size(ss, i) = Len(Header(ss, i).polys) /\ Size(ss, i) \in Nat
           /\ Room(ss, i) = Header(ss, i).maxLinks /\ Room(ss, i) \in Nat
           /\ Size(ss, i) <= PolyNumbers
<1>1. ss[i].data \in DOMAIN Data BY DEF Typed, Used
<1> QED BY <1>1, DataIs DEF Header, Size, Room

(* A reference to a polygon of a used slot says which it is.               *)
LEMMA PolyRefIs ==
    ASSUME NEW ss, Typed(ss), NEW i \in Slots, Used(ss, i), NEW k \in 1..Size(ss, i)
    PROVE  /\ PolyRef(ss, i, k) \in Nat
           /\ DecodePolyIdTile(PolyRef(ss, i, k)) = i
           /\ DecodePolyIdSalt(PolyRef(ss, i, k)) = ss[i].salt
           /\ PolyOf(PolyRef(ss, i, k)) = k
<1>1. /\ Salts \in Nat \ {0} /\ TileNumbers \in Nat \ {0} /\ PolyNumbers \in Nat \ {0}
      /\ i \in 0..(TileNumbers - 1) /\ i \in Nat
  BY Rooms
<1>2. ss[i].salt \in 0..(Salts - 1) /\ ss[i].salt \in Nat BY <1>1 DEF Typed, Salt
<1>3. Size(ss, i) \in Nat /\ Size(ss, i) <= PolyNumbers BY HeaderIs
<1>4. k - 1 \in 0..(PolyNumbers - 1) BY <1>1, <1>3
<1>5. PolyRef(ss, i, k) = EncodePolyId(ss[i].salt, i, k - 1)
  <2> DEFINE m == (ss[i].salt * TileNumbers + i) * PolyNumbers
  <2>1. m \in Nat BY <1>1, <1>2
  <2>2. PolyRef(ss, i, k) = m + 0 + k - 1 BY DEF PolyRef, TileRef, EncodePolyId
  <2>3. EncodePolyId(ss[i].salt, i, k - 1) = m + (k - 1) BY DEF EncodePolyId
  <2> HIDE DEF m
  <2> QED BY <1>4, <2>1, <2>2, <2>3
<1>6. EncodePolyId(ss[i].salt, i, k - 1) \in Nat
  BY <1>1, <1>2, <1>4 DEF EncodePolyId
<1>7. (k - 1) + 1 = k BY <1>3
<1> QED BY <1>1, <1>2, <1>4, <1>5, <1>6, <1>7, ReferencesDecode DEF PolyOf

-------------------------------------------------------------------------------
(* Edges *)

\* The edges of the polygons of a tile.
AllEdges(d) ==
    UNION {{<<k, j>> : j \in 1..Len(d.polys[k].neis)} : k \in 1..Len(d.polys)}

(* What an edge of a tile is, and what lies behind it.                     *)
LEMMA EdgeIs ==
    ASSUME NEW n \in DOMAIN Data, NEW e \in AllEdges(Data[n])
    PROVE  /\ e = <<e[1], e[2]>> /\ e[1] \in 1..Len(Data[n].polys)
           /\ e[2] \in 1..Len(Data[n].polys[e[1]].neis)
           /\ Nei(Data[n], e) = Data[n].polys[e[1]].neis[e[2]]
           /\ Nei(Data[n], e) \in Neis(Data[n])
           /\ Nei(Data[n], e) # 0 => Data[n].polys[e[1]].ground
<1>1. PICK k \in 1..Len(Data[n].polys) : \E j \in 1..Len(Data[n].polys[k].neis) :
         e = <<k, j>>
  BY DEF AllEdges
<1>2. PICK j \in 1..Len(Data[n].polys[k].neis) : e = <<k, j>> BY <1>1
<1>3. /\ Data[n].polys[k].neis \in Seq(Neis(Data[n]))
      /\ ~Data[n].polys[k].ground => Range(Data[n].polys[k].neis) \subseteq {0}
  BY DataIs
<1>4. /\ Data[n].polys[k].neis[j] \in Neis(Data[n])
      /\ Data[n].polys[k].neis[j] \in Range(Data[n].polys[k].neis)
  <2>1. Range(Data[n].polys[k].neis)
           = {Data[n].polys[k].neis[m] : m \in 1..Len(Data[n].polys[k].neis)}
    BY <1>3, RangeEquality
  <2> QED BY <1>3, <2>1
<1> QED BY <1>2, <1>3, <1>4 DEF Nei

(* The edges of a polygon are all listed.                                  *)
LEMMA EdgesOfIs ==
    ASSUME NEW n \in DOMAIN Data, NEW k \in 1..Len(Data[n].polys)
    PROVE  LET d == Data[n] IN
           /\ EdgesOf(d, k) \in Seq(AllEdges(d))
           /\ Range(EdgesOf(d, k)) = {<<k, j>> : j \in 1..Len(d.polys[k].neis)}
           /\ Reverse(EdgesOf(d, k)) \in Seq(AllEdges(d))
           /\ Range(Reverse(EdgesOf(d, k))) = Range(EdgesOf(d, k))
<1> DEFINE d == Data[n]
           s == EdgesOf(d, k)
           m == Len(d.polys[k].neis)
           r == Reverse(s)
<1>1. m \in Nat BY DataIs
<1>2. s = [j \in 1..m |-> <<k, j>>] BY DEF EdgesOf
<1>3. \A j \in 1..m : <<k, j>> \in AllEdges(d) BY DEF AllEdges
<1> HIDE DEF d, s, m
<1>4. s \in Seq(AllEdges(d)) /\ Len(s) = m BY <1>1, <1>2, <1>3
<1>5. Range(s) = {<<k, j>> : j \in 1..m}
  <2>1. Range(s) = {s[j] : j \in 1..Len(s)} BY <1>4, RangeEquality
  <2>2. \A j \in 1..m : s[j] = <<k, j>> BY <1>2
  <2> QED BY <1>4, <2>1, <2>2
<1>6. r = [j \in 1..m |-> s[(m - j) + 1]] BY <1>4 DEF Reverse
<1>7. \A j \in 1..m : (m - j) + 1 \in 1..m /\ (m - ((m - j) + 1)) + 1 = j BY <1>1
<1>8. \A j \in 1..m : s[j] \in AllEdges(d) BY <1>4
<1> HIDE DEF r
<1>9. r \in Seq(AllEdges(d)) /\ Len(r) = m BY <1>1, <1>6, <1>7, <1>8
<1>10. Range(r) = Range(s)
  <2>1. Range(s) = {s[j] : j \in 1..m} BY <1>4, RangeEquality
  <2>2. Range(r) = {r[j] : j \in 1..m} BY <1>9, RangeEquality
  <2>3. \A j \in 1..m : r[j] \in Range(s) BY <1>6, <1>7, <2>1
  <2>4. \A j \in 1..m : s[j] = r[(m - j) + 1] BY <1>6, <1>7
  <2>5. \A j \in 1..m : s[j] \in Range(r) BY <1>7, <2>2, <2>4
  <2> QED BY <2>1, <2>2, <2>3, <2>5
<1> QED BY <1>4, <1>5, <1>9, <1>10 DEF s, r, m, d

\* Those that polygons of the tile share.
InnerOf(d) == {e \in AllEdges(d) : d.polys[e[1]].ground /\ Nei(d, e) \in 1..(ExtLink - 1)}

(* Those within the tile.                                                  *)
LEMMA InnerEdgesIs ==
    ASSUME NEW n \in DOMAIN Data
    PROVE  /\ InnerEdges(Data[n]) \in Seq(AllEdges(Data[n]))
           /\ Range(InnerEdges(Data[n])) = InnerOf(Data[n])
<1> DEFINE d == Data[n]
           Inner(k) == Those(Reverse(EdgesOf(d, k)),
                             {e \in Range(EdgesOf(d, k)) :
                                 d.polys[k].ground /\ Nei(d, e) \in 1..(ExtLink - 1)})
           seqs == [k \in 1..Len(d.polys) |-> Inner(k)]
<1>1. Len(d.polys) \in Nat BY DataIs
<1>2. ASSUME NEW k \in 1..Len(d.polys)
      PROVE  /\ Inner(k) \in Seq(AllEdges(d))
             /\ Range(Inner(k)) = {e \in Range(EdgesOf(d, k)) :
                   d.polys[k].ground /\ Nei(d, e) \in 1..(ExtLink - 1)}
  <2>1. /\ Reverse(EdgesOf(d, k)) \in Seq(AllEdges(d))
        /\ Range(Reverse(EdgesOf(d, k))) = Range(EdgesOf(d, k))
    BY EdgesOfIs
  <2> DEFINE T == {e \in Range(EdgesOf(d, k)) :
                      d.polys[k].ground /\ Nei(d, e) \in 1..(ExtLink - 1)}
             s == Reverse(EdgesOf(d, k))
  <2>2. T \subseteq Range(EdgesOf(d, k)) /\ Inner(k) = Those(s, T) OBVIOUS
  <2> HIDE DEF d, T, s, Inner
  <2>3. Those(s, T) \in Seq(AllEdges(d)) /\ Range(Those(s, T)) = Range(s) \cap T
    BY <2>1, ThoseIs DEF s
  <2>4. Range(Inner(k)) = T BY <2>1, <2>2, <2>3 DEF s
  <2> QED BY <2>2, <2>3, <2>4 DEF T
<1>3. InnerEdges(d) = FlattenSeq(seqs) BY DEF InnerEdges
<1> HIDE DEF Inner
<1>4. /\ seqs \in Seq(Seq(AllEdges(d))) /\ Len(seqs) = Len(d.polys)
      /\ \A k \in 1..Len(d.polys) : seqs[k] = Inner(k)
  BY <1>1, <1>2
<1>5. \A k \in 1..Len(d.polys) :
         Range(EdgesOf(d, k)) = {<<k, j>> : j \in 1..Len(d.polys[k].neis)}
  BY EdgesOfIs
<1> HIDE DEF d, seqs
<1>6. /\ FlattenSeq(seqs) \in Seq(AllEdges(d))
      /\ Range(FlattenSeq(seqs)) = UNION {Range(seqs[k]) : k \in 1..Len(seqs)}
  BY <1>4, FlattenIs
<1>7. \A e : e \in UNION {Range(seqs[k]) : k \in 1..Len(seqs)} <=> e \in InnerOf(d)
  <2>1. ASSUME NEW e, NEW k \in 1..Len(d.polys), e \in Range(seqs[k])
        PROVE  e \in InnerOf(d)
    <3>1. /\ e \in {<<k, j>> : j \in 1..Len(d.polys[k].neis)}
          /\ d.polys[k].ground /\ Nei(d, e) \in 1..(ExtLink - 1)
      BY <1>2, <1>4, <1>5, <2>1
    <3>2. e[1] = k /\ e \in AllEdges(d) BY <3>1 DEF AllEdges
    <3> QED BY <3>1, <3>2 DEF InnerOf
  <2>2. ASSUME NEW e \in InnerOf(d)
        PROVE  \E k \in 1..Len(d.polys) : e \in Range(seqs[k])
    <3>1. /\ e \in AllEdges(d) /\ d.polys[e[1]].ground
          /\ Nei(d, e) \in 1..(ExtLink - 1)
      BY DEF InnerOf
    <3>2. PICK k \in 1..Len(d.polys) : e \in {<<k, j>> : j \in 1..Len(d.polys[k].neis)}
      BY <3>1 DEF AllEdges
    <3>3. e[1] = k BY <3>2
    <3>4. e \in Range(seqs[k]) BY <1>2, <1>4, <1>5, <3>1, <3>2, <3>3
    <3> QED BY <3>4
  <2> QED BY <1>4, <2>1, <2>2
<1> QED BY <1>3, <1>6, <1>7 DEF d

\* Those on a side of the tile.
PortalsOf(d, side) ==
    {e \in AllEdges(d) : Nei(d, e) >= ExtLink /\ side \in {AllSides, Dir(d, e)}}

(* And those out of it.                                                    *)
LEMMA PortalsIs ==
    ASSUME NEW n \in DOMAIN Data, NEW side
    PROVE  /\ Portals(Data[n], side) \in Seq(AllEdges(Data[n]))
           /\ Range(Portals(Data[n], side)) = PortalsOf(Data[n], side)
<1> DEFINE d == Data[n]
           seqs == [k \in 1..Len(d.polys) |-> EdgesOf(d, k)]
           edges == FlattenSeq(seqs)
           T == {e \in Range(edges) :
                    Nei(d, e) >= ExtLink /\ side \in {AllSides, Dir(d, e)}}
<1>1. Len(d.polys) \in Nat BY DataIs
<1>2. \A k \in 1..Len(d.polys) :
         /\ EdgesOf(d, k) \in Seq(AllEdges(d))
         /\ Range(EdgesOf(d, k)) = {<<k, j>> : j \in 1..Len(d.polys[k].neis)}
  BY EdgesOfIs
<1>3. /\ seqs \in Seq(Seq(AllEdges(d))) /\ Len(seqs) = Len(d.polys)
      /\ \A k \in 1..Len(d.polys) : seqs[k] = EdgesOf(d, k)
  BY <1>1, <1>2
<1>4. Portals(d, side) = Those(edges, T) BY DEF Portals
<1> HIDE DEF d, seqs
<1>5. /\ edges \in Seq(AllEdges(d))
      /\ Range(edges) = UNION {Range(seqs[k]) : k \in 1..Len(seqs)}
  BY <1>3, FlattenIs
<1>6. Range(edges) = AllEdges(d)
  <2>1. \A k \in 1..Len(d.polys) :
           Range(seqs[k]) = {<<k, j>> : j \in 1..Len(d.polys[k].neis)}
    BY <1>2, <1>3
  <2>2. UNION {Range(seqs[k]) : k \in 1..Len(d.polys)}
           = UNION {{<<k, j>> : j \in 1..Len(d.polys[k].neis)} : k \in 1..Len(d.polys)}
    BY <2>1
  <2> QED BY <1>3, <1>5, <2>2 DEF AllEdges
<1> HIDE DEF edges
<1>7. Those(edges, T) \in Seq(AllEdges(d)) /\ Range(Those(edges, T)) = Range(edges) \cap T
  BY <1>5, ThoseIs
<1>8. Range(edges) \cap T = PortalsOf(d, side) BY <1>6 DEF PortalsOf
<1> QED BY <1>4, <1>7, <1>8 DEF d

(* A portal leads to one of the eight sides.                               *)
LEMMA PortalSide ==
    ASSUME NEW n \in DOMAIN Data, NEW e \in AllEdges(Data[n]), Nei(Data[n], e) >= ExtLink
    PROVE  /\ Dir(Data[n], e) \in 0..7 /\ Nei(Data[n], e) = ExtLink + Dir(Data[n], e)
           /\ Data[n].polys[e[1]].ground
<1>1. /\ Nei(Data[n], e) \in Neis(Data[n])
      /\ Nei(Data[n], e) # 0 => Data[n].polys[e[1]].ground
  BY EdgeIs
<1>2. Len(Data[n].polys) < ExtLink /\ Len(Data[n].polys) \in Nat BY DataIs
<1>3. Nei(Data[n], e) \in 32768..32775 BY <1>1, <1>2 DEF Neis, ExtLink
<1>4. \A x \in 32768..32775 : x % 256 \in 0..7 /\ x = 32768 + (x % 256) OBVIOUS
<1>5. Nei(Data[n], e) # 0 BY <1>3
<1> QED BY <1>1, <1>3, <1>4, <1>5 DEF Dir, ExtLink

-------------------------------------------------------------------------------
(* Where edges meet *)

(* The lesser and the greater of two numbers.                              *)
LEMMA TwoOf ==
    ASSUME NEW a \in Int, NEW b \in Int
    PROVE  /\ Min({a, b}) = IF a <= b THEN a ELSE b
           /\ Max({a, b}) = IF a <= b THEN b ELSE a
<1>1. CASE a <= b
  <2>1. /\ Min({a, b}) \in {a, b} /\ \A y \in {a, b} : Min({a, b}) <= y
        /\ Max({a, b}) \in {a, b} /\ \A y \in {a, b} : Max({a, b}) >= y
    <3>1. (\E x \in {a, b} : \A y \in {a, b} : x <= y)
          /\ \E x \in {a, b} : \A y \in {a, b} : x >= y
      BY <1>1
    <3> QED BY <3>1 DEF Min, Max
  <2> QED BY <1>1, <2>1
<1>2. CASE ~(a <= b)
  <2>1. /\ Min({a, b}) \in {a, b} /\ \A y \in {a, b} : Min({a, b}) <= y
        /\ Max({a, b}) \in {a, b} /\ \A y \in {a, b} : Max({a, b}) >= y
    <3>1. (\E x \in {a, b} : \A y \in {a, b} : x <= y)
          /\ \E x \in {a, b} : \A y \in {a, b} : x >= y
      BY <1>2
    <3> QED BY <3>1 DEF Min, Max
  <2> QED BY <1>2, <2>1
<1> QED BY <1>1, <1>2

(* A set of numbers up to n has a least.                                   *)
LEMMA MinIn ==
    ASSUME NEW n \in Nat, NEW t \in SUBSET (1..n), t # {}
    PROVE  Min(t) \in t /\ \A y \in t : Min(t) <= y
<1> DEFINE T == {k \in Nat : \A s \in SUBSET (1..k) :
                    s # {} => \E x \in s : \A y \in s : x <= y}
<1>1. 0 \in T
  <2>1. 1..0 = {} OBVIOUS
  <2>2. SUBSET (1..0) = {{}} BY <2>1
  <2> QED BY <2>2
<1>2. ASSUME NEW k \in Nat, k \in T PROVE k + 1 \in T
  <2> SUFFICES ASSUME NEW s \in SUBSET (1..(k + 1)), s # {}
               PROVE  \E x \in s : \A y \in s : x <= y
    OBVIOUS
  <2>1. CASE s \cap (1..k) # {}
    <3>1. PICK x \in s \cap (1..k) : \A y \in s \cap (1..k) : x <= y
      <4>1. s \cap (1..k) \in SUBSET (1..k) OBVIOUS
      <4> QED BY <1>2, <2>1, <4>1
    <3>2. \A y \in s : y \in s \cap (1..k) \/ y = k + 1 OBVIOUS
    <3>3. \A y \in s : x <= y BY <3>1, <3>2
    <3> QED BY <3>3
  <2>2. CASE s \cap (1..k) = {}
    <3>1. \A y \in s : y = k + 1 BY <2>2
    <3>2. PICK x \in s : TRUE OBVIOUS
    <3>3. \A y \in s : x <= y BY <3>1
    <3> QED BY <3>3
  <2> QED BY <2>1, <2>2
<1> HIDE DEF T
<1>3. n \in T BY <1>1, <1>2, NatInd
<1>4. \E x \in t : \A y \in t : x <= y BY <1>3 DEF T
<1> QED BY <1>4 DEF Min

\* An edge with whole coordinates.
EdgeOK(e) == e.a \in Int \X Int /\ e.b \in Int \X Int /\ e.y \in Int

(* The edges of tiles have whole coordinates.                              *)
LEMMA EdgeTyped ==
    ASSUME NEW n \in DOMAIN Data, NEW k \in 1..Len(Data[n].polys),
           NEW j \in 1..Len(Data[n].polys[k].neis)
    PROVE  EdgeOK(Edge(Data[n], k, j))
<1> DEFINE p == Data[n].polys[k]
<1>1. /\ p.verts \in Seq(Int \X Int) /\ p.verts # <<>> /\ p.y \in Int
      /\ Len(p.neis) \in Nat /\ Len(p.neis) <= Len(p.verts)
  <2>1. /\ p.verts \in Seq(Int \X Int) /\ p.verts # <<>> /\ p.y \in Int
        /\ p.neis \in Seq(Neis(Data[n])) /\ Len(p.neis) <= Len(p.verts)
    BY DataIs
  <2> HIDE DEF p
  <2> QED BY <2>1
<1>2. Edge(Data[n], k, j) =
         [a |-> p.verts[j], b |-> p.verts[(j % Len(p.verts)) + 1], y |-> p.y,
          nei |-> p.neis[j]]
  BY DEF Edge
<1>3. Len(p.verts) \in Nat \ {0} /\ j \in 1..Len(p.neis) BY <1>1
<1> HIDE DEF p
<1>4. j \in 1..Len(p.verts) /\ (j % Len(p.verts)) + 1 \in 1..Len(p.verts)
  <2> DEFINE m == Len(p.verts)
  <2>1. m \in Nat \ {0} /\ j \in Int /\ j \in 1..m BY <1>1, <1>3
  <2> HIDE DEF m
  <2>2. j % m \in 0..(m - 1) BY <2>1
  <2>3. (j % m) + 1 \in 1..m BY <2>1, <2>2
  <2> QED BY <2>1, <2>3 DEF m
<1>5. p.verts[j] \in Int \X Int /\ p.verts[(j % Len(p.verts)) + 1] \in Int \X Int
  <2>1. \A m \in 1..Len(p.verts) : p.verts[m] \in Int \X Int BY <1>1
  <2> QED BY <1>4, <2>1
<1> QED BY <1>1, <1>2, <1>5 DEF EdgeOK

(* The ends of such an edge.                                               *)
LEMMA SlabIs ==
    ASSUME NEW e, EdgeOK(e), NEW side
    PROVE  LET a == Along(e.a, side)
               b == Along(e.b, side) IN
           /\ a \in Int /\ b \in Int /\ SlabCoord(e, side) \in Int
           /\ SlabMin(e, side) = IF a <= b THEN a ELSE b
           /\ SlabMax(e, side) = IF a <= b THEN b ELSE a
<1>1. /\ e.a[1] \in Int /\ e.a[2] \in Int /\ e.b[1] \in Int /\ e.b[2] \in Int
  BY DEF EdgeOK
<1>2. Along(e.a, side) \in Int /\ Along(e.b, side) \in Int /\ SlabCoord(e, side) \in Int
  BY <1>1 DEF Along, Axis, SlabCoord
<1> QED BY <1>2, TwoOf DEF SlabMin, SlabMax

(* The edge of a polygon that another one connects to.                     *)
LEMMA FacingIs ==
    ASSUME NEW n \in DOMAIN Data, NEW e, NEW k \in 1..Len(Data[n].polys), NEW side,
           Facing(e, Data[n], k, side) # 0
    PROVE  LET j == Facing(e, Data[n], k, side)
               f == Edge(Data[n], k, j) IN
           /\ j \in 1..Len(Data[n].polys[k].neis)
           /\ f.nei = ExtLink + side /\ SlabCoord(e, side) = SlabCoord(f, side)
           /\ OverlapSlabs(e, f, side, Data[n].climb)
<1> DEFINE d == Data[n]
           js == {j \in 1..Len(d.polys[k].neis) :
                    LET f == Edge(d, k, j) IN
                    /\ f.nei = ExtLink + side
                    /\ SlabCoord(e, side) = SlabCoord(f, side)
                    /\ OverlapSlabs(e, f, side, d.climb)}
<1>1. Len(d.polys[k].neis) \in Nat BY DataIs
<1>2. Facing(e, d, k, side) = IF js = {} THEN 0 ELSE Min(js) BY DEF Facing
<1>3. js \in SUBSET (1..Len(d.polys[k].neis)) /\ js # {}
  <2>1. js \in SUBSET (1..Len(d.polys[k].neis)) OBVIOUS
  <2> HIDE DEF js
  <2> QED BY <1>2, <2>1
<1>4. Facing(e, d, k, side) \in js
  <2> HIDE DEF js
  <2> QED BY <1>1, <1>2, <1>3, MinIn
<1> QED BY <1>4

(* Of the polygons an edge connects to, the first are taken.               *)
LEMMA ConnectingIs ==
    ASSUME NEW n \in DOMAIN Data, NEW e, NEW side
    PROVE  LET s == FindConnectingPolys(e, Data[n], side) IN
           /\ s \in Seq(1..Len(Data[n].polys))
           /\ \A m \in 1..Len(s) : Facing(e, Data[n], s[m], side) # 0
<1> DEFINE d == Data[n]
           T == {k \in DOMAIN d.polys : Facing(e, d, k, side) # 0}
           found == Those(Numbered(d), T)
           least == Min({Len(found), MaxCon})
           s == SubSeq(found, 1, least)
<1>1. Len(d.polys) \in Nat /\ MaxCon \in Nat BY DataIs, DataAssumption
<1>2. FindConnectingPolys(e, d, side) = s BY DEF FindConnectingPolys
<1>3. \A k \in T : Facing(e, d, k, side) # 0 OBVIOUS
<1> HIDE DEF d, T
<1>4. Numbered(d) \in Seq(1..Len(d.polys)) BY <1>1 DEF Numbered
<1>5. found \in Seq(1..Len(d.polys)) /\ Range(found) = Range(Numbered(d)) \cap T
  BY <1>4, ThoseIs
<1> HIDE DEF found
<1>6. Len(found) \in Nat /\ \A m \in 1..Len(found) : found[m] \in T
  <2>1. Range(found) = {found[m] : m \in 1..Len(found)} BY <1>5, RangeEquality
  <2> QED BY <1>5, <2>1
<1>7. least \in Nat /\ least <= Len(found)
  BY <1>1, <1>6, TwoOf
<1> HIDE DEF least
<1>8. /\ s \in Seq(1..Len(d.polys)) /\ Len(s) = least
      /\ \A m \in 1..least : s[m] = found[m]
  <2>1. \A m \in 1..least : found[m] \in 1..Len(d.polys) BY <1>5, <1>6, <1>7
  <2>2. /\ s \in Seq(1..Len(d.polys))
        /\ Len(s) = IF 1 <= least THEN least - 1 + 1 ELSE 0
        /\ \A m \in 1..(least - 1 + 1) : s[m] = found[1 + m - 1]
    BY <1>7, <2>1, SubSeqProperties
  <2> HIDE DEF s
  <2>3. Len(s) = least BY <1>7, <2>2
  <2>4. ASSUME NEW m \in 1..least PROVE s[m] = found[m]
    <3>1. m \in 1..(least - 1 + 1) /\ 1 + m - 1 = m BY <1>7
    <3> QED BY <2>2, <3>1
  <2> QED BY <2>2, <2>3, <2>4
<1> HIDE DEF s
<1>9. \A m \in 1..Len(s) : Facing(e, d, s[m], side) # 0 BY <1>3, <1>6, <1>7, <1>8
<1> QED BY <1>2, <1>8, <1>9 DEF d

(* A part of a whole, in 255ths.                                           *)
LEMMA ByteIs ==
    ASSUME NEW w \in Nat \ {0}, NEW p \in 0..w
    PROVE  Byte(p, w) \in 0..255
<1> DEFINE x == 2 * 255 * p + w
           m == 2 * w
           q == x \div m
<1>1. x \in Nat /\ m \in Nat \ {0} /\ x < 256 * m OBVIOUS
<1>2. Byte(p, w) = q BY DEF Byte
<1> HIDE DEF x, m
<1>3. q \in Int /\ x = m * q + (x % m) /\ x % m \in 0..(m - 1) BY <1>1
<1> HIDE DEF q
<1>4. m * q = q * m /\ q * m \in Int BY <1>1, <1>3
<1>5. ~(q < 0)
  <2> SUFFICES ASSUME q < 0 PROVE FALSE OBVIOUS
  <2>1. q * m + m <= 0 * m BY <1>1, <1>3, ProductOrder
  <2>2. 0 * m = 0 BY <1>1
  <2> QED BY <1>1, <1>3, <1>4, <2>1, <2>2
<1>6. ~(255 < q)
  <2> SUFFICES ASSUME 255 < q PROVE FALSE OBVIOUS
  <2>1. 255 * m + m <= q * m BY <1>1, <1>3, ProductOrder
  <2>2. 255 * m + m = 256 * m /\ 256 * m \in Int BY <1>1
  <2> QED BY <1>1, <1>3, <1>4, <2>1, <2>2
<1> QED BY <1>2, <1>3, <1>5, <1>6

(* The limits of a portal are bytes.                                       *)
LEMMA LimitsTyped ==
    ASSUME NEW e, EdgeOK(e), NEW f, EdgeOK(f), NEW side, NEW climb,
           OverlapSlabs(e, f, side, climb)
    PROVE  Limits(e, f, side) \in (0..255) \X (0..255)
<1> DEFINE a == Along(e.a, side)
           lo == SlabMin(e, side)
           hi == SlabMax(e, side)
           length == hi - lo
           from == Max({lo, SlabMin(f, side)})
           to == Min({hi, SlabMax(f, side)})
           At(t) == LET n == t - a IN Byte(IF n < 0 THEN -n ELSE n, length)
<1>1. /\ a \in Int /\ lo \in Int /\ hi \in Int /\ lo <= a /\ a <= hi
      /\ SlabMin(f, side) \in Int /\ SlabMax(f, side) \in Int
      /\ a = lo \/ a = hi
  BY SlabIs
<1>2. from < to BY DEF OverlapSlabs
<1>3. Limits(e, f, side) = <<Min({At(from), At(to)}), Max({At(from), At(to)})>>
  BY DEF Limits
<1> HIDE DEF a, lo, hi
<1>4. /\ from \in Int /\ to \in Int /\ lo <= from /\ to <= hi
  <2> DEFINE b == SlabMin(f, side)
             c == SlabMax(f, side)
  <2>1. b \in Int /\ c \in Int /\ lo \in Int /\ hi \in Int BY <1>1
  <2> HIDE DEF b, c
  <2>2. /\ Max({lo, b}) = IF lo <= b THEN b ELSE lo
        /\ Min({hi, c}) = IF hi <= c THEN hi ELSE c
    BY <2>1, TwoOf
  <2> QED BY <2>1, <2>2 DEF b, c
<1> HIDE DEF from, to
<1>5. length \in Nat \ {0} BY <1>1, <1>2, <1>4
<1>6. ASSUME NEW t \in Int, lo <= t, t <= hi PROVE At(t) \in 0..255
  <2> DEFINE n == t - a
             p == IF n < 0 THEN -n ELSE n
  <2>1. p \in 0..length BY <1>1, <1>6
  <2> HIDE DEF p, length
  <2>2. Byte(p, length) \in 0..255 BY <1>5, <2>1, ByteIs
  <2> QED BY <2>2 DEF p
<1>7. At(from) \in 0..255 /\ At(to) \in 0..255 BY <1>1, <1>2, <1>4, <1>6
<1> HIDE DEF At
<1>8. At(from) \in Int /\ At(to) \in Int BY <1>7
<1>9. Min({At(from), At(to)}) \in 0..255 /\ Max({At(from), At(to)}) \in 0..255
  BY <1>7, <1>8, TwoOf
<1> QED BY <1>3, <1>9

-------------------------------------------------------------------------------
(* The links that tiles should have *)

(* The facts of joins, whatever their order.                               *)
LEMMA FactsRange ==
    ASSUME NEW S, NEW joins \in Seq(S), NEW i
    PROVE  FactsIn(i, joins) = {<<i, j.poly, j.link>> : j \in Range(joins)}
<1>1. Range(joins) = {joins[m] : m \in 1..Len(joins)} BY RangeEquality
<1> QED BY <1>1 DEF FactsIn

\* The polygon a connection starts on.
BaseFoot(ss, i, c) ==
    LET d == Header(ss, i)
    IN  FindNearestPolyInTile(d, d.cons[c].from, d.cons[c].rad, d.climb)

\* Polygons that are not ground have links where their connection is placed.
Good(ss) ==
    {x \in Facts(ss) :
        ~Header(ss, x[1]).polys[x[2]].ground =>
            \E c \in 1..Len(Header(ss, x[1]).cons) :
               Header(ss, x[1]).cons[c].poly = x[2] /\ BaseFoot(ss, x[1], c) # 0}

\* The tile a link leads to, and the links from one tile to another.
To(x) == DecodePolyIdTile(x[3].ref)
Between(ss, i, t) == {x \in Good(ss) : x[1] = i /\ To(x) = t}

(* What is no portal and not 0 is the number of a polygon.                 *)
LEMMA LowNumber ==
    ASSUME NEW m \in Nat, NEW s \in Nat, NEW x \in {0} \cup 1..s \cup m..(m + 7),
           x \in 1..(m - 1)
    PROVE  x \in 1..s
OBVIOUS

\* The link over an edge that two polygons share; those of a tile.
InnerFact(ss, i, e) ==
    <<i, e[1], [ref |-> PolyRef(ss, i, Nei(Header(ss, i), e)), edge |-> e[2] - 1,
                side |-> Inside, limits |-> <<0, 0>>]>>
InnerFacts(ss, i) == {InnerFact(ss, i, e) : e \in InnerOf(Header(ss, i))}

(* Links within a tile are of ground polygons.                             *)
LEMMA IntJoinsIs ==
    ASSUME NEW ss, Typed(ss), NEW i \in Slots, Used(ss, i)
    PROVE  /\ IntJoins(ss, i) \in Seq(JoinType(ss, i))
           /\ Len(IntJoins(ss, i)) = Len(InnerEdges(Header(ss, i)))
           /\ FactsIn(i, IntJoins(ss, i)) = InnerFacts(ss, i)
           /\ InnerFacts(ss, i) \subseteq Between(ss, i, i)
<1> DEFINE n == ss[i].data
           d == Header(ss, i)
           inner == InnerEdges(d)
           Join(e) == [poly |-> e[1],
                       link |-> [ref |-> PolyRef(ss, i, Nei(d, e)), edge |-> e[2] - 1,
                                 side |-> Inside, limits |-> <<0, 0>>]]
           joins == [m \in 1..Len(inner) |-> Join(inner[m])]
<1>1. n \in DOMAIN Data /\ d = Data[n] /\ Size(ss, i) = Len(d.polys) BY HeaderIs
<1>2. inner \in Seq(AllEdges(d)) /\ Range(inner) = InnerOf(d) BY <1>1, InnerEdgesIs
<1>3. IntJoins(ss, i) = joins BY DEF IntJoins
<1>4. ASSUME NEW e \in InnerOf(d)
      PROVE  /\ Join(e) \in JoinType(ss, i) /\ InnerFact(ss, i, e) \in Between(ss, i, i)
             /\ InnerFact(ss, i, e) = <<i, Join(e).poly, Join(e).link>>
  <2>1. /\ e \in AllEdges(d) /\ d.polys[e[1]].ground /\ Nei(d, e) \in 1..(ExtLink - 1)
    BY DEF InnerOf
  <2>2. /\ e[1] \in 1..Len(d.polys) /\ e[2] \in 1..Len(d.polys[e[1]].neis)
        /\ Nei(d, e) \in Neis(d)
    BY <1>1, <2>1, EdgeIs
  <2>3. Nei(d, e) \in 1..Size(ss, i)
    <3>1. Size(ss, i) \in Nat /\ Size(ss, i) = Len(d.polys) BY HeaderIs
    <3>2. Nei(d, e) \in {0} \cup 1..Size(ss, i) \cup ExtLink..(ExtLink + 7)
      BY <2>2, <3>1 DEF Neis
    <3> HIDE DEF d
    <3>3. ExtLink \in Nat BY DEF ExtLink
    <3> QED BY <2>1, <3>1, <3>2, <3>3, LowNumber
  <2>4. PolyRef(ss, i, Nei(d, e)) \in Nat /\ DecodePolyIdTile(PolyRef(ss, i, Nei(d, e))) = i
    BY <2>3, PolyRefIs
  <2>5. e[2] - 1 \in Nat
    <3>1. d.polys[e[1]].neis \in Seq(Neis(d)) BY <1>1, <2>2, DataIs
    <3> HIDE DEF d
    <3>2. Len(d.polys[e[1]].neis) \in Nat BY <3>1
    <3> QED BY <2>2, <3>2
  <2>6. Join(e).link \in LinkType BY <2>4, <2>5 DEF LinkType, Inside
  <2>7. e[1] \in 1..Size(ss, i) /\ e[1] \in Nat BY <1>1, <2>2
  <2> HIDE DEF d
  <2>8. Join(e) \in JoinType(ss, i) BY <2>6, <2>7 DEF JoinType
  <2>9. InnerFact(ss, i, e) = <<i, Join(e).poly, Join(e).link>> BY DEF InnerFact, d
  <2>10. Join(e).poly = e[1] /\ Join(e).link.ref = PolyRef(ss, i, Nei(d, e)) OBVIOUS
  <2> HIDE DEF Join
  <2>11. InnerFact(ss, i, e) \in Facts(ss) BY <2>6, <2>7, <2>9, <2>10 DEF Facts
  <2>12. InnerFact(ss, i, e) \in Between(ss, i, i)
    BY <2>1, <2>4, <2>9, <2>10, <2>11 DEF Between, Good, To, d
  <2> QED BY <2>8, <2>9, <2>12
<1> HIDE DEF n, d, inner, Join
<1>5. Len(inner) \in Nat /\ \A m \in 1..Len(inner) : inner[m] \in InnerOf(d)
  <2>1. Range(inner) = {inner[m] : m \in 1..Len(inner)} BY <1>2, RangeEquality
  <2> QED BY <1>2, <2>1
<1>6. joins \in Seq(JoinType(ss, i)) /\ Len(joins) = Len(inner) BY <1>4, <1>5
<1>7. FactsIn(i, joins) = InnerFacts(ss, i)
  <2>1. \A m \in 1..Len(inner) : joins[m] = Join(inner[m]) OBVIOUS
  <2> HIDE DEF joins
  <2>2. FactsIn(i, joins) = {<<i, joins[m].poly, joins[m].link>> : m \in 1..Len(inner)}
    BY <1>6 DEF FactsIn
  <2>3. \A m \in 1..Len(inner) :
           <<i, joins[m].poly, joins[m].link>> = InnerFact(ss, i, inner[m])
    BY <1>4, <1>5, <2>1
  <2>4. FactsIn(i, joins) = {InnerFact(ss, i, inner[m]) : m \in 1..Len(inner)}
    BY <2>2, <2>3
  <2>5. InnerOf(d) = {inner[m] : m \in 1..Len(inner)} BY <1>2, RangeEquality
  <2> QED BY <2>4, <2>5 DEF InnerFacts, d
<1>8. InnerFacts(ss, i) \subseteq Between(ss, i, i) BY <1>4 DEF InnerFacts, d
<1> QED BY <1>3, <1>6, <1>7, <1>8 DEF inner, d

(* A link between polygons of used slots.                                  *)
LEMMA OffMeshIs ==
    ASSUME NEW ss, Typed(ss), NEW i \in Slots, Used(ss, i), NEW k \in 1..Size(ss, i),
           NEW edge \in Nat, NEW side \in 0..7 \cup {Inside}
    PROVE  /\ OffMeshLink(PolyRef(ss, i, k), edge, side) \in LinkType
           /\ OffMeshLink(PolyRef(ss, i, k), edge, side).ref = PolyRef(ss, i, k)
<1>1. PolyRef(ss, i, k) \in Nat BY PolyRefIs
<1> QED BY <1>1 DEF OffMeshLink, LinkType

\* The links between a connection and the polygon it starts on; those of a
\* tile.
BaseFacts(ss, i, c) ==
    LET con == Header(ss, i).cons[c]
        k == BaseFoot(ss, i, c)
    IN  IF k = 0 THEN {}
        ELSE {<<i, con.poly, OffMeshLink(PolyRef(ss, i, k), 0, Inside)>>,
              <<i, k, OffMeshLink(PolyRef(ss, i, con.poly), 255, Inside)>>}
BasesOf(ss, i) == UNION {BaseFacts(ss, i, c) : c \in 1..Len(Header(ss, i).cons)}

(* Where a connection starts is on its tile's ground.                      *)
LEMMA BaseFootIs ==
    ASSUME NEW ss, Typed(ss), NEW i \in Slots, Used(ss, i),
           NEW c \in 1..Len(Header(ss, i).cons), BaseFoot(ss, i, c) # 0
    PROVE  /\ BaseFoot(ss, i, c) \in 1..Size(ss, i)
           /\ Header(ss, i).polys[BaseFoot(ss, i, c)].ground
<1>1. /\ ss[i].data \in DOMAIN Data /\ Header(ss, i) = Data[ss[i].data]
      /\ Size(ss, i) = Len(Header(ss, i).polys)
  BY HeaderIs
<1>2. Header(ss, i).cons[c].from \in Int \X Int \X Int BY <1>1, DataIs
<1> QED BY <1>1, <1>2, NearestIs DEF BaseFoot

(* A connection and its foot are linked both ways.                         *)
LEMMA BaseFactsIs ==
    ASSUME NEW ss, Typed(ss), NEW i \in Slots, Used(ss, i),
           NEW c \in 1..Len(Header(ss, i).cons)
    PROVE  LET d == Header(ss, i)
               join == BaseJoin(ss, i, d.cons[c], BaseFoot(ss, i, c)) IN
           /\ join \in Seq(JoinType(ss, i)) /\ Len(join) <= 2
           /\ {<<i, j.poly, j.link>> : j \in Range(join)} = BaseFacts(ss, i, c)
           /\ BaseFacts(ss, i, c) \subseteq Between(ss, i, i)
           /\ d.cons[c].poly \in 1..Size(ss, i) /\ ~d.polys[d.cons[c].poly].ground
<1> DEFINE d == Header(ss, i)
           p == d.cons[c].poly
           k == BaseFoot(ss, i, c)
           there == OffMeshLink(PolyRef(ss, i, k), 0, Inside)
           back == OffMeshLink(PolyRef(ss, i, p), 255, Inside)
           a == [poly |-> p, link |-> there]
           b == [poly |-> k, link |-> back]
           join == BaseJoin(ss, i, d.cons[c], k)
<1>1. /\ ss[i].data \in DOMAIN Data /\ d = Data[ss[i].data] /\ Size(ss, i) = Len(d.polys)
      /\ Size(ss, i) \in Nat
  BY HeaderIs
<1>2. p \in 1..Size(ss, i) /\ ~d.polys[p].ground
  <2>1. /\ d.cons[c].poly \in 1..Len(d.polys)
        /\ ~d.polys[d.cons[c].poly].ground
    <3> HIDE DEF k, there, back, a, b, join
    <3> QED BY <1>1, DataIs
  <2> QED BY <1>1, <2>1
<1> HIDE DEF d
<1>3. CASE k = 0
  <2>1. join = <<>> BY <1>3 DEF BaseJoin
  <2>2. BaseFacts(ss, i, c) = {} BY <1>3 DEF BaseFacts
  <2>3. {<<i, j.poly, j.link>> : j \in Range(<<>>)} = {} BY DEF Range
  <2>4. <<>> \in Seq(JoinType(ss, i)) /\ Len(<<>>) = 0 OBVIOUS
  <2> HIDE DEF join
  <2> QED BY <1>2, <2>1, <2>2, <2>3, <2>4 DEF join, d
<1>4. CASE k # 0
  <2>1. k \in 1..Size(ss, i) /\ d.polys[k].ground BY <1>4, BaseFootIs DEF d
  <2>2. /\ there \in LinkType /\ there.ref = PolyRef(ss, i, k)
        /\ back \in LinkType /\ back.ref = PolyRef(ss, i, p)
    <3>1. Inside \in 0..7 \cup {Inside} /\ 0 \in Nat /\ 255 \in Nat OBVIOUS
    <3>2. there \in LinkType /\ there.ref = PolyRef(ss, i, k) BY <2>1, <3>1, OffMeshIs
    <3>3. back \in LinkType /\ back.ref = PolyRef(ss, i, p) BY <1>2, <3>1, OffMeshIs
    <3> QED BY <3>2, <3>3
  <2>3. DecodePolyIdTile(PolyRef(ss, i, k)) = i /\ DecodePolyIdTile(PolyRef(ss, i, p)) = i
    BY <1>2, <2>1, PolyRefIs
  <2>4. join = <<a, b>> BY <1>4 DEF BaseJoin
  <2>5. BaseFacts(ss, i, c) = {<<i, p, there>>, <<i, k, back>>} BY <1>4 DEF BaseFacts, d
  <2> HIDE DEF p, k, there, back, join
  <2>6. a \in JoinType(ss, i) /\ b \in JoinType(ss, i) BY <1>2, <2>1, <2>2 DEF JoinType
  <2>7. join \in Seq(JoinType(ss, i)) /\ Len(join) = 2 /\ Range(join) = {a, b}
    <3> HIDE DEF a, b
    <3>1. <<a, b>> \in Seq(JoinType(ss, i)) /\ Len(<<a, b>>) = 2 BY <2>6
    <3>2. Range(<<a, b>>) = {<<a, b>>[m] : m \in 1..2} BY <3>1, RangeEquality
    <3>3. \A m : m \in 1..2 <=> m = 1 \/ m = 2 OBVIOUS
    <3>4. {<<a, b>>[m] : m \in 1..2} = {a, b} BY <3>3
    <3> QED BY <2>4, <3>1, <3>2, <3>4
  <2>8. a.poly = p /\ a.link = there /\ b.poly = k /\ b.link = back OBVIOUS
  <2> HIDE DEF a, b
  <2>9. {<<i, j.poly, j.link>> : j \in Range(join)} = {<<i, p, there>>, <<i, k, back>>}
    BY <2>7, <2>8
  <2>10. <<i, p, there>> \in Facts(ss) /\ <<i, k, back>> \in Facts(ss)
    <3>1. p \in Nat /\ k \in Nat BY <1>1, <1>2, <2>1
    <3> QED BY <1>2, <2>1, <2>2, <3>1 DEF Facts
  <2>11. <<i, p, there>> \in Good(ss)
    <3>1. d.cons[c].poly = p /\ BaseFoot(ss, i, c) # 0 BY <1>4 DEF p, k
    <3> QED BY <2>10, <3>1 DEF Good, d
  <2>12. <<i, k, back>> \in Good(ss) BY <2>1, <2>10 DEF Good, d
  <2>13. {<<i, p, there>>, <<i, k, back>>} \subseteq Between(ss, i, i)
    BY <2>2, <2>3, <2>11, <2>12 DEF Between, To
  <2> QED BY <1>2, <2>5, <2>7, <2>9, <2>13 DEF join, k, d, p
<1> QED BY <1>3, <1>4

(* The links within a tile of its connections, which are few.              *)
LEMMA BaseJoinsIs ==
    ASSUME NEW ss, Typed(ss), NEW i \in Slots, Used(ss, i)
    PROVE  /\ BaseJoins(ss, i) \in Seq(JoinType(ss, i))
           /\ Len(BaseJoins(ss, i)) <= 2 * Len(Header(ss, i).cons)
           /\ FactsIn(i, BaseJoins(ss, i)) = BasesOf(ss, i)
           /\ BasesOf(ss, i) \subseteq Between(ss, i, i)
<1> DEFINE d == Header(ss, i)
           n == Len(d.cons)
           Join(c) == BaseJoin(ss, i, d.cons[c], BaseFoot(ss, i, c))
           seqs == [c \in 1..n |-> Join(c)]
           joins == FlattenSeq(seqs)
           T == JoinType(ss, i)
<1>1. n \in Nat BY HeaderIs, DataIs
<1>2. \A c \in 1..n :
         /\ Join(c) \in Seq(T) /\ Len(Join(c)) <= 2
         /\ {<<i, j.poly, j.link>> : j \in Range(Join(c))} = BaseFacts(ss, i, c)
         /\ BaseFacts(ss, i, c) \subseteq Between(ss, i, i)
  BY BaseFactsIs
<1>3. BaseJoins(ss, i) = joins BY DEF BaseJoins, BaseFoot
<1>4. BasesOf(ss, i) = UNION {BaseFacts(ss, i, c) : c \in 1..n} BY DEF BasesOf
<1> HIDE DEF d, n, T, Join
<1>5. /\ seqs \in Seq(Seq(T)) /\ Len(seqs) = n /\ \A c \in 1..n : seqs[c] = Join(c)
      /\ \A c \in 1..n : Len(seqs[c]) <= 2
  BY <1>1, <1>2
<1> HIDE DEF seqs
<1>6. /\ joins \in Seq(T) /\ Len(joins) <= 2 * n
      /\ Range(joins) = UNION {Range(seqs[c]) : c \in 1..n}
  BY <1>5, FlattenIs, FlattenShort
<1> HIDE DEF joins
<1>7. FactsIn(i, joins) = {<<i, j.poly, j.link>> : j \in Range(joins)}
  BY <1>6, FactsRange
<1>8. ASSUME NEW x
      PROVE  x \in {<<i, j.poly, j.link>> : j \in Range(joins)}
               <=> \E c \in 1..n : x \in BaseFacts(ss, i, c)
  <2>1. ASSUME NEW c \in 1..n, x \in BaseFacts(ss, i, c)
        PROVE  x \in {<<i, j.poly, j.link>> : j \in Range(joins)}
    <3>1. PICK j \in Range(Join(c)) : x = <<i, j.poly, j.link>> BY <1>2, <2>1
    <3>2. j \in Range(joins) BY <1>5, <1>6, <3>1
    <3> QED BY <3>1, <3>2
  <2>2. ASSUME NEW j \in Range(joins), x = <<i, j.poly, j.link>>
        PROVE  \E c \in 1..n : x \in BaseFacts(ss, i, c)
    <3>1. PICK c \in 1..n : j \in Range(Join(c)) BY <1>5, <1>6
    <3>2. x \in BaseFacts(ss, i, c) BY <1>2, <2>2, <3>1
    <3> QED BY <3>2
  <2> QED BY <2>1, <2>2
<1>9. FactsIn(i, joins) = BasesOf(ss, i) BY <1>4, <1>7, <1>8
<1>10. BasesOf(ss, i) \subseteq Between(ss, i, i) BY <1>2, <1>4
<1> QED BY <1>3, <1>6, <1>9, <1>10 DEF n, d, T

-------------------------------------------------------------------------------
(* Portals *)

\* An edge, and the polygons of another tile it meets.
EdgeAt(d, e) == Edge(d, e[1], e[2])
MetBy(d, e, g) == FindConnectingPolys(EdgeAt(d, e), g, OppositeTile(Dir(d, e)))

\* The link of edge e of a tile to polygon k of tile t.
PortalFact(ss, i, t, e, k) ==
    LET d == Header(ss, i)
        g == Header(ss, t)
    IN  <<i, e[1],
          [ref |-> PolyRef(ss, t, k), edge |-> e[2] - 1, side |-> Dir(d, e),
           limits |-> Limits(EdgeAt(d, e),
                             Edge(g, k, Facing(EdgeAt(d, e), g, k,
                                               OppositeTile(Dir(d, e)))),
                             Dir(d, e))]>>
EdgeFacts(ss, i, t, e) ==
    {PortalFact(ss, i, t, e, k) : k \in Range(MetBy(Header(ss, i), e, Header(ss, t)))}
PortalsTo(ss, i, t, side) ==
    UNION {EdgeFacts(ss, i, t, e) : e \in PortalsOf(Header(ss, i), side)}

(* The links of one edge.                                                  *)
LEMMA EdgeJoinsIs ==
    ASSUME NEW ss, Typed(ss), NEW i \in Slots, Used(ss, i), NEW t \in Slots, Used(ss, t),
           NEW side, NEW e \in PortalsOf(Header(ss, i), side)
    PROVE  LET d == Header(ss, i)
               joins == PortalJoins(ss, t, Header(ss, t), e[1], e[2] - 1,
                                    Edge(d, e[1], e[2]), Dir(d, e)) IN
           /\ joins \in Seq(JoinType(ss, i))
           /\ {<<i, j.poly, j.link>> : j \in Range(joins)} = EdgeFacts(ss, i, t, e)
           /\ EdgeFacts(ss, i, t, e) \subseteq Between(ss, i, t)
<1> DEFINE d == Header(ss, i)
           g == Header(ss, t)
           edge == Edge(d, e[1], e[2])
           dir == Dir(d, e)
           opp == OppositeTile(dir)
           con == FindConnectingPolys(edge, g, opp)
           Met(m) == Edge(g, m, Facing(edge, g, m, opp))
           Link(k) == [ref |-> PolyRef(ss, t, k), edge |-> e[2] - 1, side |-> dir,
                       limits |-> Limits(edge, Met(k), dir)]
           joins == [m \in 1..Len(con) |-> [poly |-> e[1], link |-> Link(con[m])]]
<1>1. /\ ss[i].data \in DOMAIN Data /\ d = Data[ss[i].data] /\ Size(ss, i) = Len(d.polys)
      /\ ss[t].data \in DOMAIN Data /\ g = Data[ss[t].data] /\ Size(ss, t) = Len(g.polys)
      /\ Size(ss, i) \in Nat
  BY HeaderIs
<1>2. e \in AllEdges(d) /\ Nei(d, e) >= ExtLink BY DEF PortalsOf
<1>3. /\ e[1] \in 1..Len(d.polys) /\ e[2] \in 1..Len(d.polys[e[1]].neis)
      /\ dir \in 0..7 /\ d.polys[e[1]].ground
  BY <1>1, <1>2, EdgeIs, PortalSide
<1>4. EdgeOK(edge) BY <1>1, <1>3, EdgeTyped
<1>5. PortalJoins(ss, t, g, e[1], e[2] - 1, edge, dir) = joins
  BY DEF PortalJoins, EdgeJoins
<1>6. /\ con \in Seq(1..Len(g.polys))
      /\ \A m \in 1..Len(con) : Facing(edge, g, con[m], opp) # 0
  BY <1>1, ConnectingIs
<1>7. e[2] - 1 \in Nat
  <2>1. d.polys[e[1]].neis \in Seq(Neis(d)) BY <1>1, <1>3, DataIs
  <2> HIDE DEF d
  <2>2. Len(d.polys[e[1]].neis) \in Nat BY <2>1
  <2> QED BY <1>3, <2>2
<1>8. \A k \in Range(con) : PortalFact(ss, i, t, e, k) = <<i, e[1], Link(k)>>
  BY DEF PortalFact, EdgeAt
<1>9. EdgeFacts(ss, i, t, e) = {PortalFact(ss, i, t, e, k) : k \in Range(con)}
  BY DEF EdgeFacts, MetBy, EdgeAt
<1> HIDE DEF d, g, edge, dir, opp, con
<1>10. ASSUME NEW m \in 1..Len(con)
       PROVE  /\ Link(con[m]) \in LinkType
              /\ DecodePolyIdTile(Link(con[m]).ref) = t
  <2> DEFINE k == con[m]
             j == Facing(edge, g, k, opp)
  <2>1. k \in 1..Len(g.polys) /\ j # 0 BY <1>6
  <2>2. j \in 1..Len(g.polys[k].neis) /\ OverlapSlabs(edge, Met(k), opp, g.climb)
    BY <1>1, <2>1, FacingIs
  <2>3. EdgeOK(Met(k)) BY <1>1, <2>1, <2>2, EdgeTyped
  <2>4. \A f, h, c : OverlapSlabs(f, h, opp, c) => OverlapSlabs(f, h, dir, c)
    <3>1. Axis(opp) = Axis(dir)
      <4>1. \A x \in 0..7 : (x + 4) % 8 \in {0, 4} <=> x \in {0, 4} OBVIOUS
      <4> QED BY <1>3, <4>1 DEF Axis, opp, OppositeTile
    <3> QED BY <3>1 DEF OverlapSlabs, SlabMin, SlabMax, Along
  <2>5. Limits(edge, Met(k), dir) \in (0..255) \X (0..255)
    BY <1>4, <2>2, <2>3, <2>4, LimitsTyped
  <2>6. PolyRef(ss, t, k) \in Nat /\ DecodePolyIdTile(PolyRef(ss, t, k)) = t
    BY <1>1, <2>1, PolyRefIs
  <2>7. dir \in 0..7 \cup {Inside} BY <1>3
  <2> HIDE DEF k, Met
  <2> QED BY <1>7, <2>5, <2>6, <2>7 DEF LinkType, k
<1> HIDE DEF Link
<1>11. \A m \in 1..Len(con) : [poly |-> e[1], link |-> Link(con[m])] \in JoinType(ss, i)
  BY <1>1, <1>3, <1>10 DEF JoinType
<1>12. Len(con) \in Nat /\ Range(con) = {con[m] : m \in 1..Len(con)}
  BY <1>6, RangeEquality
<1>13. /\ joins \in Seq(JoinType(ss, i)) /\ Len(joins) = Len(con)
       /\ \A m \in 1..Len(con) : joins[m].poly = e[1] /\ joins[m].link = Link(con[m])
  BY <1>11, <1>12
<1> HIDE DEF joins
<1>14. {<<i, j.poly, j.link>> : j \in Range(joins)} = EdgeFacts(ss, i, t, e)
  <2>1. Range(joins) = {joins[m] : m \in 1..Len(con)} BY <1>13, RangeEquality
  <2>2. {<<i, j.poly, j.link>> : j \in Range(joins)}
           = {<<i, joins[m].poly, joins[m].link>> : m \in 1..Len(con)}
    BY <2>1
  <2>3. \A m \in 1..Len(con) :
           <<i, joins[m].poly, joins[m].link>> = PortalFact(ss, i, t, e, con[m])
    BY <1>8, <1>12, <1>13
  <2>4. {<<i, joins[m].poly, joins[m].link>> : m \in 1..Len(con)}
           = {PortalFact(ss, i, t, e, con[m]) : m \in 1..Len(con)}
    BY <2>3
  <2>5. {PortalFact(ss, i, t, e, con[m]) : m \in 1..Len(con)}
           = {PortalFact(ss, i, t, e, k) : k \in Range(con)}
    BY <1>12
  <2> QED BY <1>9, <2>2, <2>4, <2>5
<1>15. EdgeFacts(ss, i, t, e) \subseteq Between(ss, i, t)
  <2> SUFFICES ASSUME NEW m \in 1..Len(con)
               PROVE  <<i, e[1], Link(con[m])>> \in Between(ss, i, t)
    BY <1>8, <1>9, <1>12
  <2>1. e[1] \in 1..Size(ss, i) /\ e[1] \in Nat BY <1>1, <1>3
  <2>2. <<i, e[1], Link(con[m])>> \in Facts(ss) BY <1>10, <2>1 DEF Facts
  <2> QED BY <1>3, <1>10, <2>2 DEF Between, Good, To, d
<1> QED BY <1>5, <1>13, <1>14, <1>15 DEF d, g, edge, dir

(* Those of all portals to a tile.                                         *)
LEMMA ExtJoinsIs ==
    ASSUME NEW ss, Typed(ss), NEW i \in Slots, Used(ss, i), NEW t \in Slots, Used(ss, t),
           NEW side
    PROVE  /\ ExtJoins(ss, i, t, side) \in Seq(JoinType(ss, i))
           /\ FactsIn(i, ExtJoins(ss, i, t, side)) = PortalsTo(ss, i, t, side)
           /\ PortalsTo(ss, i, t, side) \subseteq Between(ss, i, t)
<1> DEFINE d == Header(ss, i)
           portals == Portals(d, side)
           n == Len(portals)
           Join(e) == PortalJoins(ss, t, Header(ss, t), e[1], e[2] - 1,
                                  Edge(d, e[1], e[2]), Dir(d, e))
           seqs == [m \in 1..n |-> Join(portals[m])]
           joins == FlattenSeq(seqs)
           T == JoinType(ss, i)
<1>1. portals \in Seq(AllEdges(d)) /\ Range(portals) = PortalsOf(d, side)
  BY HeaderIs, PortalsIs
<1>2. \A e \in PortalsOf(d, side) :
         /\ Join(e) \in Seq(T)
         /\ {<<i, j.poly, j.link>> : j \in Range(Join(e))} = EdgeFacts(ss, i, t, e)
         /\ EdgeFacts(ss, i, t, e) \subseteq Between(ss, i, t)
  BY EdgeJoinsIs
<1>3. ExtJoins(ss, i, t, side) = joins BY DEF ExtJoins
<1>4. PortalsTo(ss, i, t, side) = UNION {EdgeFacts(ss, i, t, e) : e \in PortalsOf(d, side)}
  BY DEF PortalsTo
<1> HIDE DEF d, T, Join, portals
<1>5. n \in Nat /\ PortalsOf(d, side) = {portals[m] : m \in 1..n} BY <1>1, RangeEquality
<1> HIDE DEF n
<1>6. /\ seqs \in Seq(Seq(T)) /\ Len(seqs) = n
      /\ \A m \in 1..n : seqs[m] = Join(portals[m])
  BY <1>2, <1>5
<1> HIDE DEF seqs
<1>7. joins \in Seq(T) /\ Range(joins) = UNION {Range(seqs[m]) : m \in 1..n}
  BY <1>6, FlattenIs
<1> HIDE DEF joins
<1>8. FactsIn(i, joins) = {<<i, j.poly, j.link>> : j \in Range(joins)}
  BY <1>7, FactsRange
<1>9. ASSUME NEW x
      PROVE  x \in {<<i, j.poly, j.link>> : j \in Range(joins)}
               <=> \E e \in PortalsOf(d, side) : x \in EdgeFacts(ss, i, t, e)
  <2>1. ASSUME NEW e \in PortalsOf(d, side), x \in EdgeFacts(ss, i, t, e)
        PROVE  x \in {<<i, j.poly, j.link>> : j \in Range(joins)}
    <3>1. PICK j \in Range(Join(e)) : x = <<i, j.poly, j.link>> BY <1>2, <2>1
    <3>2. PICK m \in 1..n : e = portals[m] BY <1>5
    <3>3. j \in Range(joins) BY <1>6, <1>7, <3>1, <3>2
    <3> QED BY <3>1, <3>3
  <2>2. ASSUME NEW j \in Range(joins), x = <<i, j.poly, j.link>>
        PROVE  \E e \in PortalsOf(d, side) : x \in EdgeFacts(ss, i, t, e)
    <3>1. PICK m \in 1..n : j \in Range(Join(portals[m])) BY <1>6, <1>7
    <3>2. portals[m] \in PortalsOf(d, side) BY <1>5
    <3>3. x \in EdgeFacts(ss, i, t, portals[m]) BY <1>2, <2>2, <3>1, <3>2
    <3> QED BY <3>2, <3>3
  <2> QED BY <2>1, <2>2
<1>10. FactsIn(i, joins) = PortalsTo(ss, i, t, side) BY <1>4, <1>8, <1>9
<1>11. PortalsTo(ss, i, t, side) \subseteq Between(ss, i, t) BY <1>2, <1>4
<1> QED BY <1>3, <1>7, <1>10, <1>11 DEF T

-------------------------------------------------------------------------------
(* Landings *)

\* All sides at once, or one of eight.
Sides == {AllSides} \cup 0..7
\* The polygon of tile i that a connection of tile t lands on.
LandFoot(ss, i, t, c) ==
    LET con == Header(ss, t).cons[c]
    IN  FindNearestPolyInTile(Header(ss, i), con.to, con.rad, Header(ss, t).climb)

\* The links of connection c of tile t, where it lands in tile i.
LandFacts(ss, i, t, c, side) ==
    LET con == Header(ss, t).cons[c]
        k == LandFoot(ss, i, t, c)
    IN  IF con.side # OppositeOf(side) \/ BaseFoot(ss, t, c) = 0 \/ k = 0 THEN {}
        ELSE {<<t, con.poly, OffMeshLink(PolyRef(ss, i, k), 1, OppositeOf(side))>>}
             \cup (IF con.flags # Bidir THEN {}
                   ELSE {<<i, k, OffMeshLink(PolyRef(ss, t, con.poly), 255,
                                    IF side = AllSides THEN Inside ELSE side)>>})
LandsIn(ss, i, t, side) ==
    UNION {LandFacts(ss, i, t, c, side) : c \in 1..Len(Header(ss, t).cons)}

(* The side that is opposite is one.                                       *)
LEMMA SidesOpposite ==
    ASSUME NEW side \in Sides
    PROVE  /\ OppositeOf(side) \in 0..7 \cup {Inside}
           /\ (IF side = AllSides THEN Inside ELSE side) \in 0..7 \cup {Inside}
           /\ Opposite(side) \in Sides /\ Opposite(Opposite(side)) = side
<1>1. CASE side = AllSides BY <1>1 DEF OppositeOf, Opposite, Sides
<1>2. CASE side # AllSides
  <2>1. side \in 0..7 BY <1>2 DEF Sides
  <2>2. (side + 4) % 8 \in 0..7 /\ (((side + 4) % 8) + 4) % 8 = side BY <2>1
  <2>3. (side + 4) % 8 # AllSides BY <2>2 DEF AllSides
  <2> QED
    BY <1>2, <2>1, <2>2, <2>3 DEF OppositeOf, Opposite, OppositeTile, Sides
<1> QED BY <1>1, <1>2

(* A connection has links where it is placed, and only there.              *)
LEMMA PlacedHasLinks ==
    ASSUME NEW ss, Typed(ss), NEW t \in Slots, Used(ss, t), NEW V,
           NEW S \in SUBSET Good(ss), NEW B \in SUBSET S, BasesOf(ss, t) \subseteq B,
           NEW ts \in Linking(V, ss, S, B), NEW c \in 1..Len(Header(ss, t).cons)
    PROVE  ts[t].polys[Header(ss, t).cons[c].poly].links = <<>> <=> BaseFoot(ss, t, c) = 0
<1> DEFINE d == Header(ss, t)
           p == d.cons[c].poly
           links == ts[t].polys[p].links
<1>1. /\ p \in 1..Size(ss, t) /\ ~d.polys[p].ground
      /\ \A b \in 1..Len(d.cons) : d.cons[b].poly = p => b = c
  <2>1. /\ ss[t].data \in DOMAIN Data /\ d = Data[ss[t].data]
        /\ Size(ss, t) = Len(d.polys)
    BY HeaderIs
  <2>2. c \in 1..Len(d.cons) OBVIOUS
  <2> HIDE DEF d
  <2> QED BY <2>1, <2>2, ConIs
<1>2. links \in Seq(LinkType)
  <2>1. ts[t] \in TileType(V) /\ Len(ts[t].polys) = Size(ss, t) BY DEF Linking, Shaped
  <2>2. ts[t].polys \in Seq([flags : V, area : V, links : Seq(LinkType)])
    BY <2>1 DEF TileType
  <2>3. ts[t].polys[p] \in [flags : V, area : V, links : Seq(LinkType)]
    <3> DEFINE P == [flags : V, area : V, links : Seq(LinkType)]
    <3>1. ts[t].polys \in Seq(P) /\ p \in 1..Len(ts[t].polys) BY <1>1, <2>1, <2>2
    <3> HIDE DEF p, P
    <3>2. ts[t].polys[p] \in P BY <3>1
    <3> QED BY <3>2 DEF P
  <2> QED BY <2>3
<1>3. ASSUME BaseFoot(ss, t, c) # 0 PROVE links # <<>>
  <2> DEFINE l == OffMeshLink(PolyRef(ss, t, BaseFoot(ss, t, c)), 0, Inside)
  <2>1. <<t, p, l>> \in BaseFacts(ss, t, c) BY <1>3 DEF BaseFacts
  <2>2. <<t, p, l>> \in B BY <2>1 DEF BasesOf
  <2>3. l \in Range(links) BY <2>2 DEF Linking, Made, LinksOf
  <2>4. Range(<<>>) = {} BY DEF Range
  <2> QED BY <2>3, <2>4
<1>4. ASSUME BaseFoot(ss, t, c) = 0 PROVE links = <<>>
  <2> SUFFICES ASSUME links # <<>> PROVE FALSE OBVIOUS
  <2> HIDE DEF p, links
  <2>1. 1 \in DOMAIN links BY <1>2
  <2>2. links[1] \in Range(links) BY <2>1 DEF Range
  <2>3. <<t, p, links[1]>> \in S BY <1>1, <2>2 DEF Linking, LinksOf, links
  <2>4. PICK b \in 1..Len(d.cons) : d.cons[b].poly = p /\ BaseFoot(ss, t, b) # 0
    BY <1>1, <2>3 DEF Good
  <2> QED BY <1>1, <1>4, <2>4
<1> QED BY <1>3, <1>4

(* They are between the two tiles.                                         *)
LEMMA LandFactsIn ==
    ASSUME NEW ss, Typed(ss), NEW i \in Slots, Used(ss, i), NEW t \in Slots, Used(ss, t),
           NEW side \in Sides, NEW c \in 1..Len(Header(ss, t).cons)
    PROVE  LandFacts(ss, i, t, c, side) \subseteq Between(ss, i, t) \cup Between(ss, t, i)
<1> DEFINE d == Header(ss, t)
           con == d.cons[c]
           p == con.poly
           k == LandFoot(ss, i, t, c)
           back == IF side = AllSides THEN Inside ELSE side
           there == OffMeshLink(PolyRef(ss, i, k), 1, OppositeOf(side))
           here == OffMeshLink(PolyRef(ss, t, p), 255, back)
           F == LandFacts(ss, i, t, c, side)
           goes == con.side = OppositeOf(side) /\ BaseFoot(ss, t, c) # 0 /\ k # 0
<1>1. /\ p \in 1..Size(ss, t) /\ ~d.polys[p].ground /\ con.to \in Int \X Int \X Int
      /\ ss[i].data \in DOMAIN Data /\ Header(ss, i) = Data[ss[i].data]
      /\ Size(ss, i) = Len(Header(ss, i).polys)
      /\ Size(ss, i) \in Nat /\ Size(ss, t) \in Nat
  <2>1. /\ ss[t].data \in DOMAIN Data /\ d = Data[ss[t].data]
        /\ Size(ss, t) = Len(d.polys) /\ Size(ss, t) \in Nat
    BY HeaderIs
  <2>2. /\ p \in 1..Size(ss, t) /\ ~d.polys[p].ground /\ con.to \in Int \X Int \X Int
    <3>1. c \in 1..Len(d.cons) OBVIOUS
    <3> HIDE DEF d
    <3> QED BY <2>1, <3>1, ConIs
  <2> QED BY <2>1, <2>2, HeaderIs
<1>2. F \subseteq IF ~goes THEN {} ELSE {<<t, p, there>>, <<i, k, here>>}
  BY DEF LandFacts
<1>3. k # 0 => k \in 1..Size(ss, i) /\ Header(ss, i).polys[k].ground
  BY <1>1, NearestIs DEF LandFoot
<1>4. BaseFoot(ss, t, c) # 0 => \E b \in 1..Len(d.cons) :
                                    d.cons[b].poly = p /\ BaseFoot(ss, t, b) # 0
  OBVIOUS
<1> HIDE DEF F, k, p, con, d
<1> SUFFICES ASSUME goes
             PROVE  <<t, p, there>> \in Between(ss, t, i) /\ <<i, k, here>> \in Between(ss, i, t)
  BY <1>2 DEF F
<1>5. k \in 1..Size(ss, i) /\ Header(ss, i).polys[k].ground BY <1>3
<1>6. /\ OppositeOf(side) \in 0..7 \cup {Inside} /\ back \in 0..7 \cup {Inside}
      /\ 1 \in Nat /\ 255 \in Nat
  BY SidesOpposite
<1> HIDE DEF back
<1>7. there \in LinkType /\ there.ref = PolyRef(ss, i, k) BY <1>5, <1>6, OffMeshIs
<1>8. here \in LinkType /\ here.ref = PolyRef(ss, t, p)
  <2>1. p \in 1..Size(ss, t) BY <1>1
  <2> QED BY <1>6, <2>1, OffMeshIs
<1>9. DecodePolyIdTile(there.ref) = i /\ DecodePolyIdTile(here.ref) = t
  BY <1>1, <1>5, <1>7, <1>8, PolyRefIs
<1> HIDE DEF there, here
<1>10. p \in Nat /\ k \in Nat BY <1>1, <1>5
<1>11. <<t, p, there>> \in Between(ss, t, i)
  <2>1. <<t, p, there>> \in Facts(ss) BY <1>1, <1>7, <1>10 DEF Facts
  <2>2. <<t, p, there>> \in Good(ss) BY <1>4, <2>1 DEF Good, d
  <2> QED BY <1>9, <2>2 DEF Between, To
<1>12. <<i, k, here>> \in Between(ss, i, t)
  <2>1. <<i, k, here>> \in Facts(ss) BY <1>5, <1>8, <1>10 DEF Facts
  <2>2. <<i, k, here>> \in Good(ss) BY <1>5, <2>1 DEF Good
  <2> QED BY <1>9, <2>2 DEF Between, To
<1> QED BY <1>11, <1>12

(* What linking a connection where it lands comes to.                      *)
LEMMA LandLinksIs ==
    ASSUME NEW ss, Typed(ss), NEW i \in Slots, Used(ss, i), NEW t \in Slots, Used(ss, t),
           NEW side \in Sides, NEW V, NEW S \in SUBSET Good(ss), NEW B \in SUBSET S,
           BasesOf(ss, t) \subseteq B,
           NEW ts \in Linking(V, ss, S, B), NEW c \in 1..Len(Header(ss, t).cons)
    PROVE  LandLinks(ss, ts, i, t, Header(ss, t).cons[c], LandFoot(ss, i, t, c), side)
              \in Linking(V, ss, S \cup LandFacts(ss, i, t, c, side), B)
<1> DEFINE con == Header(ss, t).cons[c]
           p == con.poly
           k == LandFoot(ss, i, t, c)
           there == OffMeshLink(PolyRef(ss, i, k), 1, OppositeOf(side))
           here == OffMeshLink(PolyRef(ss, t, p), 255,
                               IF side = AllSides THEN Inside ELSE side)
           new == LandLinks(ss, ts, i, t, con, k, side)
           F == LandFacts(ss, i, t, c, side)
           goes == con.side = OppositeOf(side) /\ BaseFoot(ss, t, c) # 0 /\ k # 0
<1>1. ts[t].polys[p].links = <<>> <=> BaseFoot(ss, t, c) = 0 BY PlacedHasLinks
<1>2. F = IF ~goes THEN {}
          ELSE {<<t, p, there>>} \cup (IF con.flags # Bidir THEN {} ELSE {<<i, k, here>>})
  BY DEF LandFacts
<1>3. new = IF ~goes THEN ts
            ELSE IF con.flags # Bidir THEN AddLink(ts, t, p, there)
            ELSE AddLink(AddLink(ts, t, p, there), i, k, here)
  BY <1>1 DEF LandLinks, LandLink, BackLink
<1>4. F \subseteq Facts(ss)
  <2>1. F \subseteq Between(ss, i, t) \cup Between(ss, t, i) BY LandFactsIn
  <2> HIDE DEF F
  <2> QED BY <2>1 DEF Between, Good
<1>5. S \in SUBSET Facts(ss) BY DEF Good
<1> HIDE DEF new, F, k, p, there, here, con
<1>6. \A a, b, l : <<a, b, l>> \in Facts(ss) => b \in 1..Size(ss, a) /\ l \in LinkType
  BY DEF Facts
<1>7. CASE ~goes
  <2>1. F = {} /\ new = ts BY <1>2, <1>3, <1>7
  <2>2. S \cup F = S BY <2>1
  <2> QED BY <2>1, <2>2 DEF new, F, k, con
<1>8. CASE goes
  <2> DEFINE one == AddLink(ts, t, p, there)
             T == S \cup {<<t, p, there>>}
  <2>1. p \in 1..Size(ss, t) /\ there \in LinkType BY <1>2, <1>4, <1>6, <1>8
  <2>2. one \in Linking(V, ss, T, B) /\ T \in SUBSET Facts(ss)
    BY <1>5, <2>1, FactAdded
  <2>3. CASE con.flags # Bidir
    <3>1. F = {<<t, p, there>>} /\ new = one BY <1>2, <1>3, <1>8, <2>3
    <3> QED BY <2>2, <3>1 DEF new, F, k, con
  <2>4. CASE con.flags = Bidir
    <3>1. F = {<<t, p, there>>} \cup {<<i, k, here>>} /\ new = AddLink(one, i, k, here)
      BY <1>2, <1>3, <1>8, <2>4
    <3>2. S \cup F = T \cup {<<i, k, here>>} BY <3>1
    <3>3. B \in SUBSET T OBVIOUS
    <3>4. k \in 1..Size(ss, i) /\ here \in LinkType BY <1>4, <1>6, <3>1
    <3> HIDE DEF one, T
    <3>5. new \in Linking(V, ss, T \cup {<<i, k, here>>}, B)
      BY <2>2, <3>1, <3>3, <3>4, FactAdded
    <3> QED BY <3>2, <3>5 DEF new, F, k, con
  <2> QED BY <2>3, <2>4
<1> QED BY <1>7, <1>8

(* What linking all the connections that land in a tile comes to.          *)
LEMMA LandsAdded ==
    ASSUME NEW ss, Typed(ss), NEW i \in Slots, Used(ss, i), NEW t \in Slots, Used(ss, t),
           NEW side \in Sides, NEW V, NEW S \in SUBSET Good(ss), NEW B \in SUBSET S,
           BasesOf(ss, t) \subseteq B, NEW ts \in Linking(V, ss, S, B)
    PROVE  LET F == LandsIn(ss, i, t, side) IN
           /\ F \subseteq Between(ss, i, t) \cup Between(ss, t, i)
           /\ ConnectExtOffMeshLinks(ss, ts, i, t, side) \in Linking(V, ss, S \cup F, B)
<1> DEFINE cons == Header(ss, t).cons
           n == Len(cons)
           D == SUBSET (1..n)
           Q == {q \in Shaped(V, ss) : \E G \in SUBSET Good(ss) :
                    S \subseteq G /\ q \in Linking(V, ss, G, B)}
           Added(q, m) == LandLinks(ss, q, i, t, cons[m], LandFoot(ss, i, t, m), side)
           Is(f) == f = [s \in D |->
                           IF s = {} THEN ts ELSE Added(f[s \ {Max(s)}], Max(s))]
           step == [p \in (1..n) \X Q |-> Added(p[2], p[1])]
           I == CHOOSE f : Is(f)
           One(m) == LandFacts(ss, i, t, m, side)
           F(m) == UNION {One(k) : k \in 1..m}
           W == [m \in 0..n |-> Linking(V, ss, S \cup F(m), B)]
<1>1. n \in Nat /\ DOMAIN cons = 1..n
  <2>1. ss[t].data \in DOMAIN Data /\ Header(ss, t) = Data[ss[t].data] BY HeaderIs
  <2> QED BY <2>1, DataIs
<1>2. ConnectExtOffMeshLinks(ss, ts, i, t, side) = I[1..n]
  <2>1. ConnectExtOffMeshLinks(ss, ts, i, t, side) =
           LET f == CHOOSE f : f = [s \in SUBSET DOMAIN cons |->
                       IF s = {} THEN ts ELSE Added(f[s \ {Max(s)}], Max(s))]
           IN  f[DOMAIN cons]
    BY DEF ConnectExtOffMeshLinks, FoldLeft, MapThenFoldSet, LandFoot
  <2> QED BY <1>1, <2>1
<1>3. ASSUME NEW G \in SUBSET Good(ss), S \subseteq G, NEW q \in Linking(V, ss, G, B),
             NEW m \in 1..n
      PROVE  /\ One(m) \subseteq Between(ss, i, t) \cup Between(ss, t, i)
             /\ Added(q, m) \in Linking(V, ss, G \cup One(m), B)
             /\ G \cup One(m) \in SUBSET Good(ss)
  <2>1. B \in SUBSET G BY <1>3
  <2>2. /\ One(m) \subseteq Between(ss, i, t) \cup Between(ss, t, i)
        /\ Added(q, m) \in Linking(V, ss, G \cup One(m), B)
    BY <1>3, <2>1, LandLinksIs, LandFactsIn
  <2>3. Between(ss, i, t) \cup Between(ss, t, i) \subseteq Good(ss) BY DEF Between
  <2> HIDE DEF Added, One
  <2> QED BY <1>3, <2>2, <2>3
<1>4. ts \in Q /\ Q \subseteq Shaped(V, ss) BY DEF Linking
<1> HIDE DEF n, cons, One, Added
<1>5. \A m \in 1..n, q \in Q : Added(q, m) \in Q
  <2> SUFFICES ASSUME NEW m \in 1..n, NEW q \in Q PROVE Added(q, m) \in Q OBVIOUS
  <2>1. PICK G \in SUBSET Good(ss) : S \subseteq G /\ q \in Linking(V, ss, G, B) OBVIOUS
  <2>2. /\ Added(q, m) \in Linking(V, ss, G \cup One(m), B)
        /\ G \cup One(m) \in SUBSET Good(ss)
    BY <1>3, <2>1
  <2>3. S \subseteq G \cup One(m) BY <2>1
  <2> QED BY <2>2, <2>3 DEF Linking
<1>6. step \in [(1..n) \X Q -> Q] BY <1>5
<1>7. \A m \in 1..n, q \in Q : step[<<m, q>>] = Added(q, m) OBVIOUS
<1> HIDE DEF step, Q
<1>8. PICK f \in [D -> Q] :
         \A s \in D : f[s] = IF s = {} THEN ts ELSE step[<<Max(s), f[s \ {Max(s)}]>>]
  <2>1. Folds(n, Q, ts, step) BY <1>1, <1>4, <1>6, Folded
  <2> QED BY <2>1 DEF Folds
<1>9. Is(f)
  <2>1. ASSUME NEW s \in D, s # {}
        PROVE  f[s] = Added(f[s \ {Max(s)}], Max(s))
    <3>1. Max(s) \in s BY <1>1, <2>1, MaxIn
    <3>2. Max(s) \in 1..n /\ f[s \ {Max(s)}] \in Q BY <3>1
    <3> QED BY <1>7, <1>8, <2>1, <3>2
  <2>2. f = [s \in D |-> f[s]] OBVIOUS
  <2>3. \A s \in D : f[s] = IF s = {} THEN ts ELSE Added(f[s \ {Max(s)}], Max(s))
    BY <1>8, <2>1
  <2> HIDE DEF D
  <2> QED BY <2>2, <2>3
<1>10. Is(I) BY <1>9
<1> HIDE DEF I
<1>11. I[{}] = ts
  <2>1. {} \in D OBVIOUS
  <2> QED BY <1>10, <2>1
<1>12. ASSUME NEW m \in 1..n PROVE I[1..m] = Added(I[1..(m - 1)], m)
  <2>1. m \in Nat \ {0} /\ m <= n BY <1>1
  <2>2. 1..m \in D /\ 1..m # {}
    <3>1. 1 \in 1..m BY <2>1
    <3>2. \A k \in 1..m : k \in 1..n BY <1>1, <2>1
    <3> QED BY <3>1, <3>2
  <2>3. Max(1..m) = m /\ (1..m) \ {m} = 1..(m - 1) BY <2>1, MaxFirst
  <2> QED BY <1>10, <2>2, <2>3
<1>13. \A m \in 1..n : One(m) \subseteq Between(ss, i, t) \cup Between(ss, t, i)
  BY <1>3
<1>14. I[{}] \in W[0]
  <2>1. F(0) = {} OBVIOUS
  <2>2. S \cup F(0) = S BY <2>1
  <2>3. 0 \in 0..n BY <1>1
  <2> HIDE DEF F
  <2> QED BY <1>11, <2>2, <2>3
<1>15. \A m \in 1..n : I[1..(m - 1)] \in W[m - 1] => I[1..m] \in W[m]
  <2> SUFFICES ASSUME NEW m \in 1..n, I[1..(m - 1)] \in W[m - 1] PROVE I[1..m] \in W[m]
    OBVIOUS
  <2> DEFINE q == I[1..(m - 1)]
             G == S \cup F(m - 1)
  <2>1. m - 1 \in 0..n /\ m \in 0..n /\ \A k \in 1..(m - 1) : k \in 1..n BY <1>1
  <2>2. q \in Linking(V, ss, G, B) BY <2>1
  <2>3. F(m) = F(m - 1) \cup One(m)
    <3>1. \A k : k \in 1..m <=> k \in 1..(m - 1) \/ k = m BY <1>1
    <3> QED BY <3>1
  <2>4. G \in SUBSET Good(ss)
    <3>1. F(m - 1) \subseteq Good(ss) BY <1>13, <2>1 DEF Between
    <3> HIDE DEF F
    <3> QED BY <3>1
  <2>5. S \cup F(m) = G \cup One(m) BY <2>3
  <2>6. S \subseteq G OBVIOUS
  <2>7. I[1..m] = Added(q, m) BY <1>12
  <2> HIDE DEF q, F, G, W
  <2>8. I[1..m] \in Linking(V, ss, G \cup One(m), B) BY <1>3, <2>2, <2>4, <2>6, <2>7
  <2> QED BY <2>1, <2>5, <2>8 DEF W
<1>16. I[1..n] \in W[n]
  <2> HIDE DEF W
  <2> QED BY <1>1, <1>14, <1>15, FoldIn
<1>17. n \in 0..n BY <1>1
<1>18. F(n) = LandsIn(ss, i, t, side) BY DEF LandsIn, n, cons, One
<1> HIDE DEF F
<1>19. I[1..n] \in Linking(V, ss, S \cup F(n), B) BY <1>16, <1>17
<1>20. F(n) \subseteq Between(ss, i, t) \cup Between(ss, t, i) BY <1>13 DEF F
<1> QED BY <1>2, <1>18, <1>19, <1>20

-------------------------------------------------------------------------------
(* Two tiles connected, one tile linked *)

\* All that connecting two tiles makes.
Both(ss, i, t, side) ==
    PortalsTo(ss, i, t, side) \cup PortalsTo(ss, t, i, Opposite(side))
    \cup LandsIn(ss, i, t, side) \cup LandsIn(ss, t, i, Opposite(side))

\* All that a tile links within itself.
Within(ss, i) == InnerFacts(ss, i) \cup BasesOf(ss, i) \cup LandsIn(ss, i, i, AllSides)

(* It does not matter from which of the two they are connected.            *)
LEMMA BothTurned ==
    ASSUME NEW ss, NEW i, NEW t, NEW side \in Sides
    PROVE  Both(ss, t, i, Opposite(side)) = Both(ss, i, t, side)
<1>1. Opposite(Opposite(side)) = side BY SidesOpposite
<1> QED BY <1>1 DEF Both

(* Fewer links that are sure.                                              *)
LEMMA FewerSure ==
    ASSUME NEW V, NEW ss, NEW S, NEW B, NEW A \in SUBSET B,
           NEW ts \in Linking(V, ss, S, B)
    PROVE  ts \in Linking(V, ss, S, A)
BY DEF Linking

(* The links of the portals of a tile to another.                          *)
LEMMA ExtLinksAdded ==
    ASSUME NEW ss, Typed(ss), NEW i \in Slots, Used(ss, i), NEW t \in Slots, Used(ss, t),
           NEW side, NEW V, NEW S \in SUBSET Good(ss), NEW B \in SUBSET S,
           NEW ts \in Linking(V, ss, S, B)
    PROVE  /\ PortalsTo(ss, i, t, side) \subseteq Between(ss, i, t)
           /\ ConnectExtLinks(ss, ts, i, t, side)
                 \in Linking(V, ss, S \cup PortalsTo(ss, i, t, side), B)
<1>1. /\ ExtJoins(ss, i, t, side) \in Seq(JoinType(ss, i))
      /\ FactsIn(i, ExtJoins(ss, i, t, side)) = PortalsTo(ss, i, t, side)
      /\ PortalsTo(ss, i, t, side) \subseteq Between(ss, i, t)
  BY ExtJoinsIs
<1>2. S \in SUBSET Facts(ss) BY DEF Good
<1>3. AddLinks(ts, i, ExtJoins(ss, i, t, side))
         \in Linking(V, ss, S \cup FactsIn(i, ExtJoins(ss, i, t, side)), B)
  BY <1>1, <1>2, JoinsAdded
<1> QED BY <1>1, <1>3 DEF ConnectExtLinks

(* What connecting two tiles comes to.                                     *)
LEMMA ConnectIs ==
    ASSUME NEW ss, Typed(ss), NEW i \in Slots, Used(ss, i), NEW t \in Slots, Used(ss, t),
           NEW side \in Sides, NEW V, NEW S \in SUBSET Good(ss), NEW B \in SUBSET S,
           BasesOf(ss, i) \subseteq B, BasesOf(ss, t) \subseteq B,
           NEW ts \in Linking(V, ss, S, B)
    PROVE  /\ Both(ss, i, t, side) \subseteq Between(ss, i, t) \cup Between(ss, t, i)
           /\ Connect(ss, ts, i, t, side) \in Linking(V, ss, S \cup Both(ss, i, t, side), B)
<1> DEFINE opp == Opposite(side)
           E == Between(ss, i, t) \cup Between(ss, t, i)
           F1 == PortalsTo(ss, i, t, side)
           F2 == PortalsTo(ss, t, i, opp)
           F3 == LandsIn(ss, i, t, side)
           F4 == LandsIn(ss, t, i, opp)
           S1 == S \cup F1
           S2 == S1 \cup F2
           S3 == S2 \cup F3
           ts1 == ConnectExtLinks(ss, ts, i, t, side)
           ts2 == ConnectExtLinks(ss, ts1, t, i, opp)
           ts3 == ConnectExtOffMeshLinks(ss, ts2, i, t, side)
           ts4 == ConnectExtOffMeshLinks(ss, ts3, t, i, opp)
<1>1. opp \in Sides BY SidesOpposite
<1>2. Connect(ss, ts, i, t, side) = ts4 BY DEF Connect, ConnectCons
<1>3. Both(ss, i, t, side) = F1 \cup F2 \cup F3 \cup F4 BY DEF Both
<1>4. E \subseteq Good(ss) BY DEF Between
<1>5. F1 \subseteq E /\ ts1 \in Linking(V, ss, S1, B) BY ExtLinksAdded
<1>6. S1 \in SUBSET Good(ss) /\ B \in SUBSET S1 BY <1>4, <1>5
<1> HIDE DEF opp, ts1, F1, S1
<1>7. F2 \subseteq E /\ ts2 \in Linking(V, ss, S2, B) BY <1>1, <1>5, <1>6, ExtLinksAdded
<1>8. S2 \in SUBSET Good(ss) /\ B \in SUBSET S2 BY <1>4, <1>6, <1>7
<1> HIDE DEF ts2, F2, S2
<1>9. F3 \subseteq E /\ ts3 \in Linking(V, ss, S3, B) BY <1>1, <1>7, <1>8, LandsAdded
<1>10. S3 \in SUBSET Good(ss) /\ B \in SUBSET S3 BY <1>4, <1>8, <1>9
<1> HIDE DEF ts3, F3, S3
<1>11. F4 \subseteq E /\ ts4 \in Linking(V, ss, S3 \cup F4, B)
  BY <1>1, <1>9, <1>10, LandsAdded
<1> HIDE DEF ts4, F4, E
<1>12. S3 \cup F4 = S \cup (F1 \cup F2 \cup F3 \cup F4) BY DEF S1, S2, S3
<1> QED BY <1>2, <1>3, <1>5, <1>7, <1>9, <1>11, <1>12 DEF E

(* What linking a fresh tile within comes to: it has room for the links of *)
(* its edges and for those where its connections start.                    *)
LEMMA LinkedWithinIs ==
    ASSUME NEW ss, Typed(ss), NEW i \in Slots, Used(ss, i),
           NEW V, NEW S \in SUBSET Good(ss), NEW B \in SUBSET S,
           NEW ts \in Linking(V, ss, S, B), ts[i].free = Header(ss, i).maxLinks
    PROVE  /\ Within(ss, i) \subseteq Between(ss, i, i)
           /\ LinkedWithin(ss, ts, i)
                 \in Linking(V, ss, S \cup Within(ss, i), B \cup BasesOf(ss, i))
<1> DEFINE d == Header(ss, i)
           E == Between(ss, i, i)
           F1 == InnerFacts(ss, i)
           F2 == BasesOf(ss, i)
           F3 == LandsIn(ss, i, i, AllSides)
           S1 == S \cup F1
           S2 == S1 \cup F2
           B1 == B \cup F1
           B2 == B \cup F2
           ts1 == ConnectIntLinks(ss, ts, i)
           ts2 == BaseOffMeshLinks(ss, ts1, i)
           ts3 == ConnectExtOffMeshLinks(ss, ts2, i, i, AllSides)
           inner == Len(InnerEdges(d))
           cons == Len(d.cons)
<1>1. /\ E \subseteq Good(ss) /\ Good(ss) \subseteq Facts(ss) BY DEF Between, Good
<1>2. /\ inner + 2 * cons <= d.maxLinks /\ cons \in Nat /\ d.maxLinks \in Nat
      /\ inner \in Nat
  <2>1. ss[i].data \in DOMAIN Data /\ d = Data[ss[i].data] BY HeaderIs
  <2> HIDE DEF d
  <2>2. InnerEdges(d) \in Seq(AllEdges(d)) BY <2>1, InnerEdgesIs
  <2>3. inner \in Nat BY <2>2
  <2>4. inner + 2 * cons <= d.maxLinks /\ cons \in Nat /\ d.maxLinks \in Nat
    BY <2>1, DataIs
  <2> QED BY <2>3, <2>4
<1>3. /\ IntJoins(ss, i) \in Seq(JoinType(ss, i)) /\ Len(IntJoins(ss, i)) = inner
      /\ FactsIn(i, IntJoins(ss, i)) = F1 /\ F1 \subseteq E
  BY IntJoinsIs
<1>4. /\ BaseJoins(ss, i) \in Seq(JoinType(ss, i)) /\ Len(BaseJoins(ss, i)) <= 2 * cons
      /\ FactsIn(i, BaseJoins(ss, i)) = F2 /\ F2 \subseteq E
  BY BaseJoinsIs
<1>5. ts1 = AddLinks(ts, i, IntJoins(ss, i)) /\ ts2 = AddLinks(ts1, i, BaseJoins(ss, i))
  BY DEF ConnectIntLinks, BaseOffMeshLinks
<1>6. LinkedWithin(ss, ts, i) = ts3 BY DEF LinkedWithin
<1>7. Within(ss, i) = F1 \cup F2 \cup F3 BY DEF Within
<1>8. ts[i].free = d.maxLinks OBVIOUS
<1> HIDE DEF d, inner, cons, F1, F2, F3, E, ts1, ts2
<1>9. ts[i].free >= inner
  <2>1. d.maxLinks >= inner BY <1>2
  <2> QED BY <1>8, <2>1
<1>10. /\ ts1 \in Linking(V, ss, S1, B1) /\ ts1[i].free >= ts[i].free - inner
       /\ S1 \in SUBSET Facts(ss)
  <2>1. S \in SUBSET Facts(ss) BY <1>1
  <2> HIDE DEF S1, B1
  <2> QED BY <1>3, <1>5, <1>9, <2>1, JoinsAdded DEF S1, B1
<1>11. ts1[i].free >= Len(BaseJoins(ss, i))
  <2>1. ts1[i].free \in Nat
    <3>1. ts1[i] \in TileType(V) BY <1>10 DEF Linking, Shaped
    <3> QED BY <3>1 DEF TileType
  <2>2. Len(BaseJoins(ss, i)) \in Nat BY <1>4
  <2>3. \A a, b, c, m, l \in Int :
           a + 2 * b <= m /\ c >= m - a /\ l <= 2 * b => c >= l
    OBVIOUS
  <2>4. ts1[i].free >= d.maxLinks - inner BY <1>8, <1>10
  <2>5. /\ inner \in Int /\ cons \in Int /\ d.maxLinks \in Int /\ ts1[i].free \in Int
        /\ Len(BaseJoins(ss, i)) \in Int
    BY <1>2, <2>1, <2>2
  <2> QED BY <1>2, <1>4, <2>3, <2>4, <2>5
<1>12. ts2 \in Linking(V, ss, S2, B1 \cup F2)
  <2>1. B1 \in SUBSET S1 OBVIOUS
  <2> HIDE DEF S1, B1
  <2> QED BY <1>4, <1>5, <1>10, <1>11, <2>1, JoinsAdded DEF S2
<1>13. ts2 \in Linking(V, ss, S2, B2)
  <2>1. B2 \in SUBSET (B1 \cup F2) OBVIOUS
  <2> HIDE DEF S2, B1, B2
  <2> QED BY <1>12, <2>1, FewerSure
<1>14. S2 \in SUBSET Good(ss) /\ B2 \in SUBSET S2 /\ F2 \subseteq B2
  BY <1>1, <1>3, <1>4
<1>15. AllSides \in Sides BY DEF Sides
<1>16. F3 \subseteq E /\ ts3 \in Linking(V, ss, S2 \cup F3, B2)
  <2> HIDE DEF S2, B2
  <2> QED BY <1>13, <1>14, <1>15, LandsAdded DEF F2, F3, E
<1>17. S2 \cup F3 = S \cup (F1 \cup F2 \cup F3) OBVIOUS
<1> HIDE DEF S2, ts3
<1> QED BY <1>3, <1>4, <1>6, <1>7, <1>16, <1>17 DEF E, F2

\* A tile connected with those of a list in turn, and the links that makes.
ConnectAll(ss, ts, i, list) ==
    FoldLeft(LAMBDA acc, n : Connect(ss, acc, i, n[1], n[2]), ts, list)
BothOf(ss, i, list) == UNION {Both(ss, i, list[m][1], list[m][2]) : m \in 1..Len(list)}

(* What connecting a tile with those of a list comes to.                   *)
LEMMA AllConnected ==
    ASSUME NEW ss, Typed(ss), NEW i \in Slots, Used(ss, i), NEW V,
           NEW S \in SUBSET Good(ss), NEW B \in SUBSET S, BasesOf(ss, i) \subseteq B,
           NEW ts \in Linking(V, ss, S, B), NEW list \in Seq(Slots \X Sides),
           \A m \in 1..Len(list) :
              Used(ss, list[m][1]) /\ BasesOf(ss, list[m][1]) \subseteq B
    PROVE  /\ ConnectAll(ss, ts, i, list)
                 \in Linking(V, ss, S \cup BothOf(ss, i, list), B)
           /\ BothOf(ss, i, list) \subseteq Good(ss)
<1> DEFINE n == Len(list)
           D == SUBSET (1..n)
           Q == {q \in Shaped(V, ss) : \E G \in SUBSET Good(ss) :
                    S \subseteq G /\ q \in Linking(V, ss, G, B)}
           Added(q, m) == Connect(ss, q, i, list[m][1], list[m][2])
           Is(f) == f = [s \in D |->
                           IF s = {} THEN ts ELSE Added(f[s \ {Max(s)}], Max(s))]
           step == [p \in (1..n) \X Q |-> Added(p[2], p[1])]
           I == CHOOSE f : Is(f)
           One(m) == Both(ss, i, list[m][1], list[m][2])
           F(m) == UNION {One(k) : k \in 1..m}
           W == [m \in 0..n |-> Linking(V, ss, S \cup F(m), B)]
<1>1. n \in Nat /\ DOMAIN list = 1..n OBVIOUS
<1>2. ConnectAll(ss, ts, i, list) = I[1..n]
  <2>1. ConnectAll(ss, ts, i, list) =
           LET f == CHOOSE f : f = [s \in SUBSET DOMAIN list |->
                       IF s = {} THEN ts ELSE Added(f[s \ {Max(s)}], Max(s))]
           IN  f[DOMAIN list]
    BY DEF ConnectAll, FoldLeft, MapThenFoldSet
  <2> QED BY <1>1, <2>1
<1>3. ASSUME NEW G \in SUBSET Good(ss), S \subseteq G, NEW q \in Linking(V, ss, G, B),
             NEW m \in 1..n
      PROVE  /\ Added(q, m) \in Linking(V, ss, G \cup One(m), B)
             /\ One(m) \subseteq Good(ss)
  <2>1. B \in SUBSET G BY <1>3
  <2>2. list[m][1] \in Slots /\ list[m][2] \in Sides
    <3>1. list[m] \in Slots \X Sides BY <1>1
    <3> QED BY <3>1
  <2>3. /\ One(m) \subseteq Between(ss, i, list[m][1]) \cup Between(ss, list[m][1], i)
        /\ Added(q, m) \in Linking(V, ss, G \cup One(m), B)
    BY <1>3, <2>1, <2>2, ConnectIs
  <2>4. \A a, b \in Slots : Between(ss, a, b) \subseteq Good(ss) BY DEF Between
  <2> HIDE DEF Added, One
  <2> QED BY <2>2, <2>3, <2>4
<1>4. ts \in Q /\ Q \subseteq Shaped(V, ss) BY DEF Linking
<1>5. F(n) = BothOf(ss, i, list) BY DEF BothOf
<1> HIDE DEF n, One, Added
<1>6. \A m \in 1..n : One(m) \subseteq Good(ss) BY <1>3
<1>7. \A m \in 1..n, q \in Q : Added(q, m) \in Q
  <2> SUFFICES ASSUME NEW m \in 1..n, NEW q \in Q PROVE Added(q, m) \in Q OBVIOUS
  <2>1. PICK G \in SUBSET Good(ss) : S \subseteq G /\ q \in Linking(V, ss, G, B) OBVIOUS
  <2>2. /\ Added(q, m) \in Linking(V, ss, G \cup One(m), B)
        /\ G \cup One(m) \in SUBSET Good(ss)
    BY <1>3, <2>1
  <2>3. S \subseteq G \cup One(m) BY <2>1
  <2> QED BY <2>2, <2>3 DEF Linking
<1>8. step \in [(1..n) \X Q -> Q] BY <1>7
<1>9. \A m \in 1..n, q \in Q : step[<<m, q>>] = Added(q, m) OBVIOUS
<1> HIDE DEF step, Q
<1>10. PICK f \in [D -> Q] :
         \A s \in D : f[s] = IF s = {} THEN ts ELSE step[<<Max(s), f[s \ {Max(s)}]>>]
  <2>1. Folds(n, Q, ts, step) BY <1>1, <1>4, <1>8, Folded
  <2> QED BY <2>1 DEF Folds
<1>11. Is(f)
  <2>1. ASSUME NEW s \in D, s # {}
        PROVE  f[s] = Added(f[s \ {Max(s)}], Max(s))
    <3>1. Max(s) \in s BY <1>1, <2>1, MaxIn
    <3>2. Max(s) \in 1..n /\ f[s \ {Max(s)}] \in Q BY <3>1
    <3> QED BY <1>9, <1>10, <2>1, <3>2
  <2>2. f = [s \in D |-> f[s]] OBVIOUS
  <2>3. \A s \in D : f[s] = IF s = {} THEN ts ELSE Added(f[s \ {Max(s)}], Max(s))
    BY <1>10, <2>1
  <2> HIDE DEF D
  <2> QED BY <2>2, <2>3
<1>12. Is(I) BY <1>11
<1> HIDE DEF I
<1>13. I[{}] = ts
  <2>1. {} \in D OBVIOUS
  <2> QED BY <1>12, <2>1
<1>14. ASSUME NEW m \in 1..n PROVE I[1..m] = Added(I[1..(m - 1)], m)
  <2>1. m \in Nat \ {0} /\ m <= n BY <1>1
  <2>2. 1..m \in D /\ 1..m # {}
    <3>1. 1 \in 1..m BY <2>1
    <3>2. \A k \in 1..m : k \in 1..n BY <1>1, <2>1
    <3> QED BY <3>1, <3>2
  <2>3. Max(1..m) = m /\ (1..m) \ {m} = 1..(m - 1) BY <2>1, MaxFirst
  <2> QED BY <1>12, <2>2, <2>3
<1>15. I[{}] \in W[0]
  <2>1. F(0) = {} OBVIOUS
  <2>2. S \cup F(0) = S BY <2>1
  <2>3. 0 \in 0..n BY <1>1
  <2> HIDE DEF F
  <2> QED BY <1>13, <2>2, <2>3
<1>16. \A m \in 1..n : I[1..(m - 1)] \in W[m - 1] => I[1..m] \in W[m]
  <2> SUFFICES ASSUME NEW m \in 1..n, I[1..(m - 1)] \in W[m - 1] PROVE I[1..m] \in W[m]
    OBVIOUS
  <2> DEFINE q == I[1..(m - 1)]
             G == S \cup F(m - 1)
  <2>1. m - 1 \in 0..n /\ m \in 0..n /\ \A k \in 1..(m - 1) : k \in 1..n BY <1>1
  <2>2. q \in Linking(V, ss, G, B) BY <2>1
  <2>3. F(m) = F(m - 1) \cup One(m)
    <3>1. \A k : k \in 1..m <=> k \in 1..(m - 1) \/ k = m BY <1>1
    <3> QED BY <3>1
  <2>4. G \in SUBSET Good(ss)
    <3>1. F(m - 1) \subseteq Good(ss) BY <1>6, <2>1
    <3> HIDE DEF F
    <3> QED BY <3>1
  <2>5. S \cup F(m) = G \cup One(m) BY <2>3
  <2>6. S \subseteq G OBVIOUS
  <2>7. I[1..m] = Added(q, m) BY <1>14
  <2> HIDE DEF q, F, G, W
  <2>8. I[1..m] \in Linking(V, ss, G \cup One(m), B) BY <1>3, <2>2, <2>4, <2>6, <2>7
  <2> QED BY <2>1, <2>5, <2>8 DEF W
<1>17. I[1..n] \in W[n]
  <2> HIDE DEF W
  <2> QED BY <1>1, <1>15, <1>16, FoldIn
<1>18. n \in 0..n BY <1>1
<1>19. F(n) \subseteq Good(ss) BY <1>6
<1> HIDE DEF F
<1>20. I[1..n] \in Linking(V, ss, S \cup F(n), B) BY <1>17, <1>18
<1> QED BY <1>2, <1>5, <1>19, <1>20

-------------------------------------------------------------------------------
(* Links taken away *)

\* The links that are left when those to t are taken from tiles.
Kept(S, from, t) == {x \in S : ~(x[1] \in from /\ To(x) = t)}

(* unconnectLinks frees the links of a tile to another, whatever their salt. *)
LEMMA UnconnectIs ==
    ASSUME NEW V, NEW ss, NEW S \in SUBSET Facts(ss), NEW B \in SUBSET S,
           NEW ts \in Linking(V, ss, S, B), NEW i \in Slots, NEW t
    PROVE  UnconnectLinks(ts, i, t) \in Linking(V, ss, Kept(S, {i}, t), Kept(B, {i}, t))
<1> DEFINE P == [flags : V, area : V, links : Seq(LinkType)]
           T == {l \in LinkType : DecodePolyIdTile(l.ref) # t}
           polys == ts[i].polys
           n == Len(polys)
           After(k) == Those(polys[k].links,
                             {l \in Range(polys[k].links) : DecodePolyIdTile(l.ref) # t})
           less == [k \in 1..n |-> Len(polys[k].links) - Len(After(k))]
           others == [k \in DOMAIN polys |-> [polys[k] EXCEPT !.links = After(k)]]
           tile == [ts[i] EXCEPT !.polys = others, !.free = @ + Total(less)]
           new == UnconnectLinks(ts, i, t)
<1>1. /\ ts \in [Slots -> TileType(V)]
      /\ \A j \in Slots : /\ Len(ts[j].polys) = Size(ss, j)
                          /\ Total(Counts(ts[j])) + ts[j].free = Room(ss, j)
  BY DEF Linking, Shaped
<1>2. /\ \A j \in Slots : \A k \in 1..Size(ss, j) :
            \A l \in LinksOf(ts, j, k) : <<j, k, l>> \in S
      /\ \A x \in S : Made(ts, x) \/ ts[x[1]].short
      /\ \A x \in B : Made(ts, x)
  BY DEF Linking
<1>3. /\ ts[i] \in TileType(V) /\ polys \in Seq(P) /\ ts[i].free \in Nat
      /\ n \in Nat /\ DOMAIN polys = 1..n /\ n = Size(ss, i)
  <2>1. ts[i] \in TileType(V) BY <1>1
  <2>2. polys \in Seq(P) /\ ts[i].free \in Nat BY <2>1 DEF TileType
  <2> HIDE DEF P
  <2> QED BY <1>1, <2>1, <2>2
<1>4. \A k \in 1..n : polys[k] \in P /\ polys[k].links \in Seq(LinkType)
  <2>1. \A p \in P : p.links \in Seq(LinkType) OBVIOUS
  <2> HIDE DEF P
  <2> QED BY <1>3, <2>1
<1>5. new = [ts EXCEPT ![i] = tile]
  BY <1>1 DEF UnconnectLinks, TileType
<1>6. ASSUME NEW k \in 1..n
      PROVE  /\ After(k) \in Seq(LinkType)
             /\ Range(After(k)) = {l \in Range(polys[k].links) : DecodePolyIdTile(l.ref) # t}
             /\ Len(After(k)) <= Len(polys[k].links)
  <2> DEFINE links == polys[k].links
             R == {l \in Range(links) : DecodePolyIdTile(l.ref) # t}
  <2>1. links \in Seq(LinkType) BY <1>4
  <2>2. Range(links) \cap R = R OBVIOUS
  <2> HIDE DEF links, R
  <2>3. /\ Those(links, R) \in Seq(LinkType) /\ Range(Those(links, R)) = Range(links) \cap R
        /\ Len(Those(links, R)) <= Len(links)
    BY <2>1, ThoseIs
  <2> QED BY <2>2, <2>3 DEF links, R
<1> HIDE DEF After, polys, n, new, P
<1>7. /\ others \in Seq(P) /\ Len(others) = n
      /\ \A k \in 1..n : others[k].links = After(k)
  <2> DEFINE Poly(k) == [polys[k] EXCEPT !.links = After(k)]
  <2>1. \A k \in 1..n : Poly(k) \in P /\ Poly(k).links = After(k)
    BY <1>4, <1>6 DEF P
  <2>2. others = [k \in 1..n |-> Poly(k)] BY <1>3
  <2> HIDE DEF Poly, others
  <2>3. others \in Seq(P) /\ Len(others) = n BY <1>3, <2>1, <2>2
  <2>4. \A k \in 1..n : others[k] = Poly(k) BY <2>2
  <2> QED BY <2>1, <2>3, <2>4
<1>8. /\ less \in Seq(Nat) /\ Total(less) \in Nat
      /\ Total([k \in 1..n |-> Len(After(k))]) + Total(less)
            = Total([k \in 1..n |-> Len(polys[k].links)])
      /\ Total([k \in 1..n |-> Len(After(k))]) \in Int
  <2> DEFINE f == [k \in 1..n |-> Len(polys[k].links)]
             g == [k \in 1..n |-> Len(After(k))]
  <2>1. \A k \in 1..n : Len(polys[k].links) \in Nat /\ Len(After(k)) \in Nat
    BY <1>4, <1>6
  <2>2. \A k \in 1..n : Len(polys[k].links) - Len(After(k)) \in Nat
    BY <1>6, <2>1
  <2>3. less \in Seq(Nat) /\ Len(less) = n BY <1>3, <2>2
  <2>4. f \in Seq(Int) /\ Len(f) = n /\ g \in Seq(Int) /\ Len(g) = n BY <1>3, <2>1
  <2>5. \A k \in 1..n : less[k] = f[k] - g[k] OBVIOUS
  <2> HIDE DEF less, f, g
  <2>6. less \in Seq(Int) BY <2>3
  <2>7. Total(less) = Total(f) - Total(g) /\ {Total(f), Total(g)} \subseteq Int
    <3>1. /\ Len(f) = Len(less) /\ Len(g) = Len(less)
          /\ \A k \in 1..Len(less) : less[k] = f[k] - g[k]
      BY <2>3, <2>4, <2>5
    <3> QED BY <2>4, <2>6, <3>1, TotalMinus
  <2>8. Total(less) \in Nat BY <2>3, TotalNat
  <2> QED BY <2>3, <2>7, <2>8 DEF f, g
<1> HIDE DEF others, less
<1>9. /\ tile.polys = others /\ tile.free = ts[i].free + Total(less)
      /\ tile.short = ts[i].short /\ tile \in TileType(V)
  <2>1. ts[i].free + Total(less) \in Nat BY <1>3, <1>8
  <2>2. ts[i] \in [polys : Seq(P), free : Nat, short : BOOLEAN]
    BY <1>3 DEF TileType, P
  <2>3. tile = [polys |-> others, free |-> ts[i].free + Total(less),
                short |-> ts[i].short]
    <3> DEFINE m == ts[i].free + Total(less)
    <3>1. ts[i] = [polys |-> ts[i].polys, free |-> ts[i].free, short |-> ts[i].short]
      <4> DEFINE A == Seq(P)
      <4>1. ts[i] \in [polys : A, free : Nat, short : BOOLEAN] BY <2>2
      <4> HIDE DEF A
      <4> QED BY <4>1
    <3>2. tile = [ts[i] EXCEPT !.polys = others, !.free = m] OBVIOUS
    <3> HIDE DEF m, tile
    <3>3. tile = [polys |-> others, free |-> m, short |-> ts[i].short] BY <3>1, <3>2
    <3> QED BY <3>3 DEF m
  <2> HIDE DEF tile
  <2>4. tile \in [polys : Seq(P), free : Nat, short : BOOLEAN]
    BY <1>7, <2>1, <2>2, <2>3
  <2> QED BY <2>3, <2>4 DEF TileType, P
<1> HIDE DEF tile
<1>10. /\ new \in [Slots -> TileType(V)] /\ new[i] = tile
       /\ \A j \in Slots : j # i => new[j] = ts[j]
  BY <1>1, <1>5, <1>9
<1>11. Counts(tile) = [k \in 1..n |-> Len(After(k))] BY <1>7, <1>9 DEF Counts
<1>12. Counts(ts[i]) = [k \in 1..n |-> Len(polys[k].links)] BY DEF Counts, polys, n
<1>13. new \in Shaped(V, ss)
  <2>1. Total(Counts(tile)) + tile.free = Room(ss, i)
    <3>1. Total(Counts(ts[i])) + ts[i].free = Room(ss, i) BY <1>1
    <3>2. \A a, b, c, d \in Int : a + b = c => a + (d + b) = c + d OBVIOUS
    <3>3. /\ Total(Counts(tile)) \in Int /\ Total(less) \in Int /\ ts[i].free \in Int
          /\ Total(Counts(tile)) + Total(less) = Total(Counts(ts[i]))
      BY <1>3, <1>8, <1>11, <1>12
    <3>4. Total(Counts(ts[i])) \in Int BY <3>3
    <3>5. Total(Counts(tile)) + (ts[i].free + Total(less)) = Total(Counts(ts[i])) + ts[i].free
      BY <3>2, <3>3, <3>4
    <3> QED BY <1>9, <3>1, <3>5
  <2>2. Len(tile.polys) = Size(ss, i) BY <1>3, <1>7, <1>9
  <2> QED BY <1>1, <1>10, <2>1, <2>2 DEF Shaped
<1>14. ASSUME NEW j \in Slots, NEW k \in 1..Size(ss, j)
       PROVE  LinksOf(new, j, k) = {l \in LinksOf(ts, j, k) : ~(j = i /\ DecodePolyIdTile(l.ref) = t)}
  <2>1. CASE j # i BY <1>10, <2>1 DEF LinksOf
  <2>2. CASE j = i
    <3>1. k \in 1..n BY <1>3, <2>2
    <3>2. LinksOf(new, j, k) = Range(After(k)) BY <1>7, <1>9, <1>10, <2>2, <3>1 DEF LinksOf
    <3> QED BY <1>6, <2>2, <3>1, <3>2 DEF LinksOf, polys
  <2> QED BY <2>1, <2>2
<1>15. \A x \in S : x[1] \in Slots /\ x[2] \in 1..Size(ss, x[1]) BY DEF Facts
<1>16. \A j \in Slots : \A k \in 1..Size(ss, j) :
          \A l \in LinksOf(new, j, k) : <<j, k, l>> \in Kept(S, {i}, t)
  <2> SUFFICES ASSUME NEW j \in Slots, NEW k \in 1..Size(ss, j), NEW l \in LinksOf(new, j, k)
               PROVE  <<j, k, l>> \in Kept(S, {i}, t)
    OBVIOUS
  <2> DEFINE x == <<j, k, l>>
  <2>1. l \in LinksOf(ts, j, k) /\ ~(j = i /\ DecodePolyIdTile(l.ref) = t) BY <1>14
  <2>2. x \in S BY <1>2, <2>1
  <2>3. x[1] = j /\ x[3] = l OBVIOUS
  <2> HIDE DEF x
  <2> QED BY <2>1, <2>2, <2>3 DEF Kept, To, x
<1>17. \A x \in Kept(S, {i}, t) : Made(ts, x) => Made(new, x)
  BY <1>14, <1>15 DEF Kept, To, Made
<1>18. \A x \in Kept(S, {i}, t) : ts[x[1]].short => new[x[1]].short
  BY <1>9, <1>10, <1>15 DEF Kept
<1>19. \A x \in Kept(S, {i}, t) : Made(new, x) \/ new[x[1]].short
  BY <1>2, <1>17, <1>18 DEF Kept
<1>20. \A x \in Kept(B, {i}, t) : Made(new, x) BY <1>2, <1>17 DEF Kept
<1> QED BY <1>13, <1>16, <1>19, <1>20 DEF Linking, new

\* The links to a tile taken from the tiles of a list in turn.
DisconnectAll(ts, i, list) ==
    FoldLeft(LAMBDA acc, n : UnconnectLinks(acc, n[1], i), ts, list)
FirstOf(list) == {list[m][1] : m \in 1..Len(list)}

(* What taking away the links to a tile in those of a list comes to.       *)
LEMMA AllUnconnected ==
    ASSUME NEW V, NEW ss, NEW S \in SUBSET Facts(ss), NEW B \in SUBSET S,
           NEW ts \in Linking(V, ss, S, B), NEW i, NEW list \in Seq(Slots \X Sides)
    PROVE  DisconnectAll(ts, i, list)
              \in Linking(V, ss, Kept(S, FirstOf(list), i), Kept(B, FirstOf(list), i))
<1> DEFINE n == Len(list)
           D == SUBSET (1..n)
           Q == {q \in Shaped(V, ss) : \E G \in SUBSET Facts(ss) : \E A \in SUBSET G :
                    q \in Linking(V, ss, G, A)}
           Added(q, m) == UnconnectLinks(q, list[m][1], i)
           Is(f) == f = [s \in D |->
                           IF s = {} THEN ts ELSE Added(f[s \ {Max(s)}], Max(s))]
           step == [p \in (1..n) \X Q |-> Added(p[2], p[1])]
           I == CHOOSE f : Is(f)
           from(m) == {list[k][1] : k \in 1..m}
           W == [m \in 0..n |-> Linking(V, ss, Kept(S, from(m), i), Kept(B, from(m), i))]
<1>1. n \in Nat /\ DOMAIN list = 1..n /\ \A m \in 1..n : list[m][1] \in Slots
  <2>1. \A m \in 1..n : list[m] \in Slots \X Sides OBVIOUS
  <2>2. \A x \in Slots \X Sides : x[1] \in Slots OBVIOUS
  <2> QED BY <2>1, <2>2
<1>2. DisconnectAll(ts, i, list) = I[1..n]
  <2>1. DisconnectAll(ts, i, list) =
           LET f == CHOOSE f : f = [s \in SUBSET DOMAIN list |->
                       IF s = {} THEN ts ELSE Added(f[s \ {Max(s)}], Max(s))]
           IN  f[DOMAIN list]
    BY DEF DisconnectAll, FoldLeft, MapThenFoldSet
  <2> QED BY <1>1, <2>1
<1>3. ASSUME NEW G \in SUBSET Facts(ss), NEW A \in SUBSET G,
             NEW q \in Linking(V, ss, G, A), NEW m \in 1..n
      PROVE  Added(q, m) \in Linking(V, ss, Kept(G, {list[m][1]}, i), Kept(A, {list[m][1]}, i))
  BY <1>1, UnconnectIs
<1>4. \A G, A : A \subseteq G => \A C : Kept(G, C, i) \subseteq G /\ Kept(A, C, i) \subseteq Kept(G, C, i)
  BY DEF Kept
<1>5. ts \in Q /\ Q \subseteq Shaped(V, ss) BY DEF Linking
<1>6. from(n) = FirstOf(list) BY DEF FirstOf
<1> HIDE DEF n, Added
<1>7. \A m \in 1..n, q \in Q : Added(q, m) \in Q
  <2> SUFFICES ASSUME NEW m \in 1..n, NEW q \in Q PROVE Added(q, m) \in Q OBVIOUS
  <2>1. PICK G \in SUBSET Facts(ss) : \E A \in SUBSET G : q \in Linking(V, ss, G, A) OBVIOUS
  <2>2. PICK A \in SUBSET G : q \in Linking(V, ss, G, A) BY <2>1
  <2> DEFINE K == Kept(G, {list[m][1]}, i)
             L == Kept(A, {list[m][1]}, i)
  <2>3. Added(q, m) \in Linking(V, ss, K, L) BY <1>3, <2>2
  <2>4. K \in SUBSET Facts(ss) /\ L \in SUBSET K BY <1>4
  <2> HIDE DEF K, L
  <2>5. Added(q, m) \in Shaped(V, ss) BY <2>3 DEF Linking
  <2> QED BY <2>3, <2>4, <2>5
<1>8. step \in [(1..n) \X Q -> Q] BY <1>7
<1>9. \A m \in 1..n, q \in Q : step[<<m, q>>] = Added(q, m) OBVIOUS
<1> HIDE DEF step, Q
<1>10. PICK f \in [D -> Q] :
         \A s \in D : f[s] = IF s = {} THEN ts ELSE step[<<Max(s), f[s \ {Max(s)}]>>]
  <2>1. Folds(n, Q, ts, step) BY <1>1, <1>5, <1>8, Folded
  <2> QED BY <2>1 DEF Folds
<1>11. Is(f)
  <2>1. ASSUME NEW s \in D, s # {}
        PROVE  f[s] = Added(f[s \ {Max(s)}], Max(s))
    <3>1. Max(s) \in s BY <1>1, <2>1, MaxIn
    <3>2. Max(s) \in 1..n /\ f[s \ {Max(s)}] \in Q BY <3>1
    <3> QED BY <1>9, <1>10, <2>1, <3>2
  <2>2. f = [s \in D |-> f[s]] OBVIOUS
  <2>3. \A s \in D : f[s] = IF s = {} THEN ts ELSE Added(f[s \ {Max(s)}], Max(s))
    BY <1>10, <2>1
  <2> HIDE DEF D
  <2> QED BY <2>2, <2>3
<1>12. Is(I) BY <1>11
<1> HIDE DEF I
<1>13. I[{}] = ts
  <2>1. {} \in D OBVIOUS
  <2> QED BY <1>12, <2>1
<1>14. ASSUME NEW m \in 1..n PROVE I[1..m] = Added(I[1..(m - 1)], m)
  <2>1. m \in Nat \ {0} /\ m <= n BY <1>1
  <2>2. 1..m \in D /\ 1..m # {}
    <3>1. 1 \in 1..m BY <2>1
    <3>2. \A k \in 1..m : k \in 1..n BY <1>1, <2>1
    <3> QED BY <3>1, <3>2
  <2>3. Max(1..m) = m /\ (1..m) \ {m} = 1..(m - 1) BY <2>1, MaxFirst
  <2> QED BY <1>12, <2>2, <2>3
<1>15. I[{}] \in W[0]
  <2>1. from(0) = {} OBVIOUS
  <2>2. Kept(S, {}, i) = S /\ Kept(B, {}, i) = B BY DEF Kept
  <2>3. 0 \in 0..n BY <1>1
  <2> HIDE DEF from
  <2> QED BY <1>13, <2>1, <2>2, <2>3
<1>16. \A m \in 1..n : I[1..(m - 1)] \in W[m - 1] => I[1..m] \in W[m]
  <2> SUFFICES ASSUME NEW m \in 1..n, I[1..(m - 1)] \in W[m - 1] PROVE I[1..m] \in W[m]
    OBVIOUS
  <2> DEFINE q == I[1..(m - 1)]
             G == Kept(S, from(m - 1), i)
             A == Kept(B, from(m - 1), i)
  <2>1. m - 1 \in 0..n /\ m \in 0..n BY <1>1
  <2>2. q \in Linking(V, ss, G, A) BY <2>1
  <2>3. from(m) = from(m - 1) \cup {list[m][1]}
    <3>1. \A k : k \in 1..m <=> k \in 1..(m - 1) \/ k = m BY <1>1
    <3> QED BY <3>1
  <2> HIDE DEF from
  <2>4. G \in SUBSET Facts(ss) /\ A \in SUBSET G BY <1>4
  <2>5. /\ Kept(S, from(m), i) = Kept(G, {list[m][1]}, i)
        /\ Kept(B, from(m), i) = Kept(A, {list[m][1]}, i)
    BY <2>3 DEF Kept
  <2>6. I[1..m] = Added(q, m) BY <1>14
  <2> HIDE DEF q, G, A, W
  <2>7. I[1..m] \in Linking(V, ss, Kept(G, {list[m][1]}, i), Kept(A, {list[m][1]}, i))
    BY <1>3, <2>2, <2>4, <2>6
  <2> QED BY <2>1, <2>5, <2>7 DEF W
<1>17. I[1..n] \in W[n]
  <2> HIDE DEF W
  <2> QED BY <1>1, <1>15, <1>16, FoldIn
<1>18. n \in 0..n BY <1>1
<1> HIDE DEF from
<1> QED BY <1>2, <1>6, <1>17, <1>18

-------------------------------------------------------------------------------
(* The tiles round a tile *)

\* The place of a tile in the grid.
PlaceOf(ss, j) == <<Header(ss, j).x, Header(ss, j).y>>

\* Used slots; those of them in one place.
UsedIn(ss) == {j \in Slots : Used(ss, j)}
TilesOn(ss, U, place) == {j \in U : PlaceOf(ss, j) = place}

\* The chains hold the slots of U where they belong.
LutFor(ss, lookup, U) ==
    \A h \in 0..(LutSize - 1) :
        /\ OnceIn(lookup[h])
        /\ \A j \in Slots : Holds(lookup[h], j) <=>
               j \in U /\ h = TileHash(Header(ss, j).x, Header(ss, j).y)

\* No two tiles have one place and layer.
LayersApart(ss) ==
    \A j, k \in Slots :
        Used(ss, j) /\ Used(ss, k) /\ PlaceOf(ss, j) = PlaceOf(ss, k)
           /\ Header(ss, j).layer = Header(ss, k).layer => j = k

(* There is a chain for every place.                                       *)
LEMMA HashIs ==
    ASSUME NEW x \in Int, NEW y \in Int
    PROVE  TileHash(x, y) \in 0..(LutSize - 1)
<1>1. MaxTiles \in Nat \ {0} BY TilesAssumption
<1>2. LutSize \in Nat \ {0}
  <2>1. CASE MaxTiles < 4 BY <2>1 DEF LutSize
  <2>2. CASE ~(MaxTiles < 4)
    <3>1. MaxTiles \div 4 \in Nat \ {0} BY <1>1, <2>2
    <3>2. NextPow2(MaxTiles \div 4) \in Nat \ {0} BY <3>1, NextPow2Is
    <3> QED BY <2>2, <3>2 DEF LutSize
  <2> QED BY <2>1, <2>2
<1>3. 45891 * x + 14401 * y \in Int OBVIOUS
<1>4. \A a \in Int, n \in Nat \ {0} : a % n \in 0..(n - 1) OBVIOUS
<1> QED BY <1>2, <1>3, <1>4 DEF TileHash

(* getTilesAt has room for the layers of a place, and finds them all.      *)
LEMMA TilesAtIs ==
    ASSUME NEW ss, Typed(ss), LayersApart(ss), NEW U \in SUBSET UsedIn(ss),
           NEW lookup, LutFor(ss, lookup, U), NEW x \in Int, NEW y \in Int
    PROVE  /\ GetTilesAt(ss, lookup, x, y) \in Seq(Slots)
           /\ Range(GetTilesAt(ss, lookup, x, y)) = TilesOn(ss, U, <<x, y>>)
           /\ GetTilesAt(ss, lookup, x, y) = TilesIn(ss, lookup[TileHash(x, y)], x, y)
<1> DEFINE h == TileHash(x, y)
           chain == lookup[h]
           T == {j \in Range(chain) : Header(ss, j).x = x /\ Header(ss, j).y = y}
           found == Those(chain, T)
           K == {k \in 1..Len(chain) : chain[k] \in T}
           Layer == [k \in K |-> Header(ss, chain[k]).layer]
           L == LayersAt(x, y)
<1>1. h \in 0..(LutSize - 1) BY HashIs
<1>2. /\ chain \in Seq(Slots) /\ \A a, b \in 1..Len(chain) : chain[a] = chain[b] => a = b
      /\ \A j \in Slots : Holds(chain, j) <=>
            j \in U /\ h = TileHash(Header(ss, j).x, Header(ss, j).y)
  BY <1>1 DEF LutFor, OnceIn
<1>3. TilesIn(ss, chain, x, y) = found BY DEF TilesIn
<1>4. /\ found \in Seq(Slots) /\ Range(found) = Range(chain) \cap T
      /\ Len(found) = Cardinality(K)
  <2> HIDE DEF chain, T, K
  <2> QED BY <1>2, ThoseIs DEF K
<1>5. \A j : j \in Range(chain) <=> Holds(chain, j)
  <2>1. Range(chain) = {chain[k] : k \in 1..Len(chain)} BY <1>2, RangeEquality
  <2> QED BY <2>1 DEF Holds
<1>6. Range(chain) \subseteq Slots BY <1>2, RangeEquality
<1>7. \A j \in T : j \in U /\ Used(ss, j) /\ Header(ss, j).x = x /\ Header(ss, j).y = y
  BY <1>2, <1>5, <1>6 DEF UsedIn
<1>8. Range(found) = TilesOn(ss, U, <<x, y>>)
  <2>1. ASSUME NEW j \in U, Header(ss, j).x = x, Header(ss, j).y = y PROVE j \in T
    BY <1>2, <1>5, <2>1 DEF UsedIn
  <2>2. \A j : PlaceOf(ss, j) = <<x, y>> <=> Header(ss, j).x = x /\ Header(ss, j).y = y
    BY DEF PlaceOf
  <2>3. T \subseteq Range(chain) OBVIOUS
  <2> HIDE DEF T, found
  <2> QED BY <1>4, <1>7, <2>1, <2>2, <2>3 DEF TilesOn
<1>9. Len(found) <= MaxNeis
  <2>1. MaxNeis \in Nat BY DataAssumption
  <2>2. CASE K = {}
    <3>1. Cardinality(K) = 0 BY <2>2, FS_EmptySet
    <3> QED BY <1>4, <2>1, <3>1
  <2>3. CASE K # {}
    <3>1. \A k \in K : /\ chain[k] \in T /\ chain[k] \in Slots /\ k \in 1..Len(chain)
                       /\ ss[chain[k]].data \in DOMAIN Data
                       /\ Header(ss, chain[k]) = Data[ss[chain[k]].data]
      BY <1>6, <1>7, HeaderIs
    <3> HIDE DEF T, chain, h
    <3>2. ASSUME NEW k \in K PROVE Layer[k] \in L
      <4>1. Data[ss[chain[k]].data].x = x /\ Data[ss[chain[k]].data].y = y
        BY <1>7, <3>1
      <4> QED BY <3>1, <4>1 DEF LayersAt
    <3>3. ASSUME NEW k \in K, NEW m \in K, Layer[k] = Layer[m] PROVE k = m
      <4>1. Header(ss, chain[k]).layer = Header(ss, chain[m]).layer BY <3>3
      <4>2. PlaceOf(ss, chain[k]) = PlaceOf(ss, chain[m]) BY <1>7, <3>1 DEF PlaceOf
      <4>3. chain[k] = chain[m] BY <1>7, <3>1, <4>1, <4>2 DEF LayersApart
      <4> QED BY <1>2, <3>1, <4>3
    <3>4. Layer \in Injection(K, L) BY <3>2, <3>3 DEF Injection, IsInjective
    <3>5. IsFiniteSet(L)
      <4> DEFINE N == {n \in DOMAIN Data : Data[n].x = x /\ Data[n].y = y}
                 f == [n \in N |-> Data[n].layer]
      <4>1. IsFiniteSet(N) BY DataAssumption, FS_Subset
      <4>2. L = {Data[n].layer : n \in N} BY DEF LayersAt
      <4>3. f \in [N -> L] /\ \A l \in L : \E n \in N : f[n] = l BY <4>2
      <4>4. f \in Surjection(N, L) BY <4>3 DEF Surjection
      <4> QED BY <4>1, <4>4, FS_Surjection DEF ExistsSurjection
    <3>6. Cardinality(K) <= Cardinality(L) /\ IsFiniteSet(K) BY <3>4, <3>5, FS_Injection
    <3>7. Cardinality(L) <= MaxNeis
      <4>1. PICK k \in K : TRUE BY <2>3
      <4>2. /\ ss[chain[k]].data \in DOMAIN Data
            /\ Data[ss[chain[k]].data].x = x /\ Data[ss[chain[k]].data].y = y
        BY <1>7, <3>1
      <4> QED BY <4>2, DataAssumption
    <3>8. Cardinality(K) \in Nat /\ Cardinality(L) \in Nat BY <3>5, <3>6, FS_CardinalityType
    <3> QED BY <1>4, <2>1, <3>6, <3>7, <3>8
  <2> QED BY <2>2, <2>3
<1>10. GetTilesAt(ss, lookup, x, y) = found BY <1>3, <1>9 DEF GetTilesAt
<1> HIDE DEF found
<1> QED BY <1>3, <1>4, <1>8, <1>10

\* Tile t is where one side of tile i is.
Near(ss, i, t, side) ==
    Beside(Header(ss, i).x, Header(ss, i).y, side) = PlaceOf(ss, t)

\* How far a side is, along x and along y.
StepX(side) ==
    CASE side \in {0, 1, 7} -> 1 [] side \in {3, 4, 5} -> -1 [] OTHER -> 0
StepY(side) ==
    CASE side \in {1, 2, 3} -> 1 [] side \in {5, 6, 7} -> -1 [] OTHER -> 0

(* A step to one side, and to the opposite one.                            *)
LEMMA BesideIs ==
    ASSUME NEW x, NEW y, NEW side
    PROVE  /\ Beside(x, y, side) = <<x + StepX(side), y + StepY(side)>>
           /\ StepX(side) \in Int /\ StepY(side) \in Int
<1>1. StepX(side) \in Int
  <2>1. CASE side \in {0, 1, 7} BY <2>1 DEF StepX
  <2>2. CASE side \in {3, 4, 5} BY <2>2 DEF StepX
  <2>3. CASE side \notin {0, 1, 7} /\ side \notin {3, 4, 5} BY <2>3 DEF StepX
  <2> QED BY <2>1, <2>2, <2>3
<1>2. StepY(side) \in Int
  <2>1. CASE side \in {1, 2, 3} BY <2>1 DEF StepY
  <2>2. CASE side \in {5, 6, 7} BY <2>2 DEF StepY
  <2>3. CASE side \notin {1, 2, 3} /\ side \notin {5, 6, 7} BY <2>3 DEF StepY
  <2> QED BY <2>1, <2>2, <2>3
<1> QED BY <1>1, <1>2 DEF Beside, StepX, StepY

(* A step to the opposite side is the step back.                           *)
LEMMA StepsBack ==
    ASSUME NEW side \in Sides
    PROVE  /\ StepX(Opposite(side)) = 0 - StepX(side)
           /\ StepY(Opposite(side)) = 0 - StepY(side)
<1>1. side \in {-1, 0, 1, 2, 3, 4, 5, 6, 7} BY DEF Sides, AllSides
<1>2. Opposite(side) = IF side = -1 THEN -1 ELSE (side + 4) % 8
  BY DEF Opposite, OppositeTile, AllSides
<1>3. StepX(Opposite(side)) = 0 - StepX(side)
  <2>1. CASE side \in {0, 1, 7}
    <3>1. Opposite(side) \in {3, 4, 5} BY <1>2, <2>1
    <3>2. StepX(Opposite(side)) = -1 /\ StepX(side) = 1 BY <2>1, <3>1 DEF StepX
    <3> QED BY <3>2
  <2>2. CASE side \in {3, 4, 5}
    <3>1. Opposite(side) \in {0, 1, 7} BY <1>2, <2>2
    <3>2. StepX(Opposite(side)) = 1 /\ StepX(side) = -1 BY <2>2, <3>1 DEF StepX
    <3> QED BY <3>2
  <2>3. CASE side \in {-1, 2, 6}
    <3>1. Opposite(side) \in {-1, 2, 6} BY <1>2, <2>3
    <3>2. StepX(Opposite(side)) = 0 /\ StepX(side) = 0 BY <2>3, <3>1 DEF StepX
    <3> QED BY <3>2
  <2> QED BY <1>1, <2>1, <2>2, <2>3
<1>4. StepY(Opposite(side)) = 0 - StepY(side)
  <2>1. CASE side \in {1, 2, 3}
    <3>1. Opposite(side) \in {5, 6, 7} BY <1>2, <2>1
    <3>2. StepY(Opposite(side)) = -1 /\ StepY(side) = 1 BY <2>1, <3>1 DEF StepY
    <3> QED BY <3>2
  <2>2. CASE side \in {5, 6, 7}
    <3>1. Opposite(side) \in {1, 2, 3} BY <1>2, <2>2
    <3>2. StepY(Opposite(side)) = 1 /\ StepY(side) = -1 BY <2>2, <3>1 DEF StepY
    <3> QED BY <3>2
  <2>3. CASE side \in {-1, 0, 4}
    <3>1. Opposite(side) \in {-1, 0, 4} BY <1>2, <2>3
    <3>2. StepY(Opposite(side)) = 0 /\ StepY(side) = 0 BY <2>3, <3>1 DEF StepY
    <3> QED BY <3>2
  <2> QED BY <1>1, <2>1, <2>2, <2>3
<1> QED BY <1>3, <1>4

(* The place beside a place is one.                                        *)
LEMMA BesideTyped ==
    ASSUME NEW x \in Int, NEW y \in Int, NEW side
    PROVE  Beside(x, y, side) \in Int \X Int
BY BesideIs

(* Who is on one side of a tile has it on the opposite one.                *)
LEMMA BesideBack ==
    ASSUME NEW x \in Int, NEW y \in Int, NEW side \in Sides
    PROVE  LET at == Beside(x, y, side) IN
           Beside(at[1], at[2], Opposite(side)) = <<x, y>>
<1> DEFINE at == Beside(x, y, side)
           a == StepX(side)
           b == StepY(side)
<1>1. at = <<x + a, y + b>> /\ a \in Int /\ b \in Int BY BesideIs
<1>2. Beside(at[1], at[2], Opposite(side)) = <<at[1] + (0 - a), at[2] + (0 - b)>>
  BY BesideIs, StepsBack
<1> HIDE DEF at, a, b
<1>3. at[1] + (0 - a) = x /\ at[2] + (0 - b) = y BY <1>1
<1> QED BY <1>2, <1>3 DEF at

(* Tiles are on opposite sides of each other.                              *)
LEMMA NearTurned ==
    ASSUME NEW ss, Typed(ss), NEW i \in Slots, Used(ss, i), NEW t \in Slots, Used(ss, t),
           NEW side \in Sides, Near(ss, i, t, side)
    PROVE  Near(ss, t, i, Opposite(side))
<1>1. Header(ss, i).x \in Int /\ Header(ss, i).y \in Int BY HeaderIs, DataIs
<1>2. Beside(Header(ss, i).x, Header(ss, i).y, side) = <<Header(ss, t).x, Header(ss, t).y>>
  BY DEF Near, PlaceOf
<1>3. Beside(Header(ss, t).x, Header(ss, t).y, Opposite(side))
         = <<Header(ss, i).x, Header(ss, i).y>>
  BY <1>1, <1>2, BesideBack
<1> QED BY <1>3 DEF Near, PlaceOf

\* The slots of U round tile i, each with the side it is on.
NearOf(ss, U, i) == {n \in U \X Sides : n[1] # i /\ Near(ss, i, n[1], n[2])}

(* The tiles that a tile is linked with, and unlinked from, are those      *)
(* round it.                                                               *)
LEMMA OthersIs ==
    ASSUME NEW ss, Typed(ss), LayersApart(ss), NEW U \in SUBSET UsedIn(ss),
           NEW lookup, LutFor(ss, lookup, U), NEW i \in Slots, Used(ss, i)
    PROVE  LET list == Others(ss, lookup, Header(ss, i), i) IN
           list \in Seq(Slots \X Sides) /\ Range(list) = NearOf(ss, U, i)
<1> DEFINE x == Header(ss, i).x
           y == Header(ss, i).y
           P == Slots \X Sides
           is(s) == GetNeighbourTilesAt(ss, lookup, x, y, s)
           At(s) == [m \in 1..Len(is(s)) |-> <<is(s)[m], s>>]
           at(s) == {<<j, s>> : j \in TilesOn(ss, U, Beside(x, y, s))}
           around == Around(ss, lookup, x, y)
<1>0. \A a, b \in Int :
         /\ GetTilesAt(ss, lookup, a, b) \in Seq(Slots)
         /\ Range(GetTilesAt(ss, lookup, a, b)) = TilesOn(ss, U, <<a, b>>)
  <2> HIDE DEF x, y
  <2> SUFFICES ASSUME NEW a \in Int, NEW b \in Int
               PROVE  /\ GetTilesAt(ss, lookup, a, b) \in Seq(Slots)
                      /\ Range(GetTilesAt(ss, lookup, a, b))
                            = TilesOn(ss, U, <<a, b>>)
    OBVIOUS
  <2>1. GetTilesAt(ss, lookup, a, b) \in Seq(Slots) BY TilesAtIs
  <2>2. Range(GetTilesAt(ss, lookup, a, b)) = TilesOn(ss, U, <<a, b>>) BY TilesAtIs
  <2> QED BY <2>1, <2>2
<1>1. x \in Int /\ y \in Int BY HeaderIs, DataIs
<1>2. ASSUME NEW s \in Sides PROVE At(s) \in Seq(P) /\ Range(At(s)) = at(s)
  <2> DEFINE b == Beside(x, y, s)
             J == TilesOn(ss, U, b)
             l == is(s)
  <2>1. b = <<b[1], b[2]>> /\ b[1] \in Int /\ b[2] \in Int BY <1>1, BesideTyped
  <2>2. l = GetTilesAt(ss, lookup, b[1], b[2]) BY DEF GetNeighbourTilesAt
  <2> HIDE DEF b, l
  <2>3. l \in Seq(Slots) /\ Range(l) = J
    <3>1. /\ l \in Seq(Slots)
          /\ Range(l) = TilesOn(ss, U, <<b[1], b[2]>>)
      BY <1>0, <2>1, <2>2
    <3> QED BY <2>1, <3>1
  <2>4. Range(l) = {l[m] : m \in 1..Len(l)} /\ Len(l) \in Nat BY <2>3, RangeEquality
  <2> DEFINE A == [m \in 1..Len(l) |-> <<l[m], s>>]
  <2>5. A \in Seq(P) /\ Len(A) = Len(l) BY <2>3, <2>4
  <2>6. Range(A) = {A[m] : m \in 1..Len(A)} BY <2>5, RangeEquality
  <2>7. {A[m] : m \in 1..Len(A)} = {<<l[m], s>> : m \in 1..Len(l)} BY <2>5
  <2>8. {<<l[m], s>> : m \in 1..Len(l)} = {<<j, s>> : j \in J} BY <2>3, <2>4
  <2> QED BY <2>5, <2>6, <2>7, <2>8 DEF l, b
<1>3. around = At(AllSides) \o At(0) \o At(1) \o At(2) \o At(3) \o At(4) \o At(5)
                 \o At(6) \o At(7)
  BY DEF Around
<1>4. Others(ss, lookup, Header(ss, i), i)
         = Those(around, {n \in Range(around) : n[1] # i})
  BY DEF Others
<1>5. Sides = {AllSides, 0, 1, 2, 3, 4, 5, 6, 7} BY DEF Sides
<1> HIDE DEF x, y, At, around, P
<1>6. \A a, b \in Seq(P) : a \o b \in Seq(P) /\ Range(a \o b) = Range(a) \cup Range(b)
  BY ConcatProperties, RangeConcatenation
<1> DEFINE U1 == At(AllSides) \o At(0)
           U2 == U1 \o At(1)
           U3 == U2 \o At(2)
           U4 == U3 \o At(3)
           U5 == U4 \o At(4)
           U6 == U5 \o At(5)
           U7 == U6 \o At(6)
           U8 == U7 \o At(7)
<1>7. around = U8 BY <1>3
<1>8. U1 \in Seq(P) /\ Range(U1) = at(AllSides) \cup at(0) BY <1>2, <1>5, <1>6
<1> HIDE DEF U1
<1>9. U2 \in Seq(P) /\ Range(U2) = Range(U1) \cup at(1) BY <1>2, <1>5, <1>6, <1>8
<1> HIDE DEF U2
<1>10. U3 \in Seq(P) /\ Range(U3) = Range(U2) \cup at(2) BY <1>2, <1>5, <1>6, <1>9
<1> HIDE DEF U3
<1>11. U4 \in Seq(P) /\ Range(U4) = Range(U3) \cup at(3) BY <1>2, <1>5, <1>6, <1>10
<1> HIDE DEF U4
<1>12. U5 \in Seq(P) /\ Range(U5) = Range(U4) \cup at(4) BY <1>2, <1>5, <1>6, <1>11
<1> HIDE DEF U5
<1>13. U6 \in Seq(P) /\ Range(U6) = Range(U5) \cup at(5) BY <1>2, <1>5, <1>6, <1>12
<1> HIDE DEF U6
<1>14. U7 \in Seq(P) /\ Range(U7) = Range(U6) \cup at(6) BY <1>2, <1>5, <1>6, <1>13
<1> HIDE DEF U7
<1>15. U8 \in Seq(P) /\ Range(U8) = Range(U7) \cup at(7) BY <1>2, <1>5, <1>6, <1>14
<1> HIDE DEF U8, at
<1>16. Range(around) = UNION {at(s) : s \in Sides}
  BY <1>5, <1>7, <1>8, <1>9, <1>10, <1>11, <1>12, <1>13, <1>14, <1>15
<1> DEFINE T == {n \in Range(around) : n[1] # i}
           list == Those(around, T)
<1>17. list \in Seq(P) /\ Range(list) = Range(around) \cap T
  <2>1. around \in Seq(P) BY <1>7, <1>15
  <2> HIDE DEF T
  <2> QED BY <2>1, ThoseIs
<1>18. Range(list) = NearOf(ss, U, i)
  <2>1. ASSUME NEW n PROVE n \in Range(list) <=> n \in NearOf(ss, U, i)
    <3>1. n \in Range(list) <=> n \in Range(around) /\ n[1] # i BY <1>17
    <3>2. n \in Range(around) <=> \E s \in Sides : \E j \in U :
                                    n = <<j, s>> /\ PlaceOf(ss, j) = Beside(x, y, s)
      BY <1>16 DEF at, TilesOn
    <3>3. n \in NearOf(ss, U, i) <=> /\ n \in U \X Sides /\ n[1] # i
                                     /\ Beside(x, y, n[2]) = PlaceOf(ss, n[1])
      BY DEF NearOf, Near, x, y
    <3> HIDE DEF list
    <3> QED BY <3>1, <3>2, <3>3
  <2> QED BY <2>1
<1> QED BY <1>4, <1>17, <1>18 DEF P

-------------------------------------------------------------------------------
(* All the links of a mesh *)

(* The links of a tile within, and those of two tiles.                     *)
LEMMA WithinIn ==
    ASSUME NEW ss, Typed(ss), NEW i \in Slots, Used(ss, i)
    PROVE  Within(ss, i) \subseteq Between(ss, i, i)
<1>1. AllSides \in Sides BY DEF Sides
<1>2. InnerFacts(ss, i) \subseteq Between(ss, i, i) BY IntJoinsIs
<1>3. BasesOf(ss, i) \subseteq Between(ss, i, i) BY BaseJoinsIs
<1>4. LandsIn(ss, i, i, AllSides) \subseteq Between(ss, i, i)
  BY <1>1, LandFactsIn DEF LandsIn
<1> QED BY <1>2, <1>3, <1>4 DEF Within

(* The links that connecting two tiles makes are between the two.          *)
LEMMA BothIn ==
    ASSUME NEW ss, Typed(ss), NEW i \in Slots, Used(ss, i), NEW t \in Slots, Used(ss, t),
           NEW side \in Sides
    PROVE  Both(ss, i, t, side) \subseteq Between(ss, i, t) \cup Between(ss, t, i)
<1>1. Opposite(side) \in Sides BY SidesOpposite
<1>2. PortalsTo(ss, i, t, side) \subseteq Between(ss, i, t) BY ExtJoinsIs
<1>3. PortalsTo(ss, t, i, Opposite(side)) \subseteq Between(ss, t, i) BY ExtJoinsIs
<1>4. LandsIn(ss, i, t, side) \subseteq Between(ss, i, t) \cup Between(ss, t, i)
  BY LandFactsIn DEF LandsIn
<1>5. LandsIn(ss, t, i, Opposite(side))
         \subseteq Between(ss, i, t) \cup Between(ss, t, i)
  BY <1>1, LandFactsIn DEF LandsIn
<1> QED BY <1>2, <1>3, <1>4, <1>5 DEF Both

(* They are the same when the two slots are.                               *)
LEMMA SameData ==
    ASSUME NEW ss, NEW s0, NEW i, ss[i] = s0[i]
    PROVE  /\ Used(ss, i) <=> Used(s0, i)
           /\ Header(ss, i) = Header(s0, i) /\ Size(ss, i) = Size(s0, i)
           /\ Room(ss, i) = Room(s0, i)
           /\ \A k : PolyRef(ss, i, k) = PolyRef(s0, i, k)
           /\ \A c : BaseFoot(ss, i, c) = BaseFoot(s0, i, c)
<1>1. Used(ss, i) <=> Used(s0, i) BY DEF Used
<1>2. Header(ss, i) = Header(s0, i) BY DEF Header
<1>3. TileRef(ss, i) = TileRef(s0, i) BY DEF TileRef
<1> QED BY <1>1, <1>2, <1>3 DEF Size, Room, PolyRef, BaseFoot

(* The links of portals depend on the two tiles alone.                     *)
LEMMA SamePortals ==
    ASSUME NEW ss, NEW s0, NEW i, NEW t, NEW side, ss[i] = s0[i], ss[t] = s0[t]
    PROVE  PortalsTo(ss, i, t, side) = PortalsTo(s0, i, t, side)
<1>1. /\ Header(ss, i) = Header(s0, i) /\ Header(ss, t) = Header(s0, t)
      /\ \A k : PolyRef(ss, t, k) = PolyRef(s0, t, k)
  BY SameData
<1>2. \A e, k : PortalFact(ss, i, t, e, k) = PortalFact(s0, i, t, e, k)
  BY <1>1 DEF PortalFact
<1>3. ASSUME NEW e PROVE EdgeFacts(ss, i, t, e) = EdgeFacts(s0, i, t, e)
  BY <1>1, <1>2 DEF EdgeFacts
<1> QED BY <1>1, <1>3 DEF PortalsTo

(* So do the links of connections that land.                               *)
LEMMA SameLands ==
    ASSUME NEW ss, NEW s0, NEW i, NEW t, NEW side, ss[i] = s0[i], ss[t] = s0[t]
    PROVE  LandsIn(ss, i, t, side) = LandsIn(s0, i, t, side)
<1>1. /\ Header(ss, i) = Header(s0, i) /\ Header(ss, t) = Header(s0, t)
      /\ \A k : PolyRef(ss, t, k) = PolyRef(s0, t, k)
      /\ \A k : PolyRef(ss, i, k) = PolyRef(s0, i, k)
      /\ \A c : BaseFoot(ss, t, c) = BaseFoot(s0, t, c)
  BY SameData
<1>2. \A c : LandFoot(ss, i, t, c) = LandFoot(s0, i, t, c) BY <1>1 DEF LandFoot
<1>3. ASSUME NEW c PROVE LandFacts(ss, i, t, c, side) = LandFacts(s0, i, t, c, side)
  BY <1>1, <1>2 DEF LandFacts
<1> QED BY <1>1, <1>3 DEF LandsIn

(* Where connections start depends on their tile alone.                    *)
LEMMA SameBases ==
    ASSUME NEW ss, NEW s0, NEW i, ss[i] = s0[i]
    PROVE  BasesOf(ss, i) = BasesOf(s0, i)
<1>1. /\ Header(ss, i) = Header(s0, i)
      /\ \A k : PolyRef(ss, i, k) = PolyRef(s0, i, k)
      /\ \A c : BaseFoot(ss, i, c) = BaseFoot(s0, i, c)
  BY SameData
<1>2. ASSUME NEW c PROVE BaseFacts(ss, i, c) = BaseFacts(s0, i, c)
  BY <1>1 DEF BaseFacts
<1> QED BY <1>1, <1>2 DEF BasesOf

(* So do all the links within a tile.                                      *)
LEMMA SameWithin ==
    ASSUME NEW ss, NEW s0, NEW i, ss[i] = s0[i]
    PROVE  Within(ss, i) = Within(s0, i)
<1>1. /\ Header(ss, i) = Header(s0, i)
      /\ \A k : PolyRef(ss, i, k) = PolyRef(s0, i, k)
  BY SameData
<1>2. InnerFacts(ss, i) = InnerFacts(s0, i) BY <1>1 DEF InnerFacts, InnerFact
<1> QED BY <1>2, SameBases, SameLands DEF Within

(* The links of two tiles depend on these two alone.                       *)
LEMMA SameBoth ==
    ASSUME NEW ss, NEW s0, NEW i, NEW t, NEW side, ss[i] = s0[i], ss[t] = s0[t]
    PROVE  Both(ss, i, t, side) = Both(s0, i, t, side)
<1>1. PortalsTo(ss, i, t, side) = PortalsTo(s0, i, t, side) BY SamePortals
<1>2. PortalsTo(ss, t, i, Opposite(side)) = PortalsTo(s0, t, i, Opposite(side))
  BY SamePortals
<1>3. LandsIn(ss, i, t, side) = LandsIn(s0, i, t, side) BY SameLands
<1>4. LandsIn(ss, t, i, Opposite(side)) = LandsIn(s0, t, i, Opposite(side))
  BY SameLands
<1> QED BY <1>1, <1>2, <1>3, <1>4 DEF Both

\* Two tiles that are side by side, or layers of one place.
Pairs(ss) ==
    {x \in UsedIn(ss) \X UsedIn(ss) \X Sides :
        x[1] # x[2] /\ Near(ss, x[1], x[2], x[3])}

\* The links of a mesh: within tiles, between tiles, and where connections
\* start.
AllWithin(ss) == UNION {Within(ss, i) : i \in UsedIn(ss)}
AllBetween(ss) == UNION {Both(ss, x[1], x[2], x[3]) : x \in Pairs(ss)}
All(ss) == AllWithin(ss) \cup AllBetween(ss)
AllBases(ss) == UNION {BasesOf(ss, i) : i \in UsedIn(ss)}

(* They are links of polygons that are there to such polygons.             *)
LEMMA AllIs ==
    ASSUME NEW ss, Typed(ss)
    PROVE  /\ All(ss) \subseteq Good(ss) /\ Good(ss) \subseteq Facts(ss)
           /\ AllBases(ss) \subseteq All(ss)
           /\ \A x \in All(ss) : Used(ss, x[1]) /\ Used(ss, To(x))
<1>1. \A i, t : Between(ss, i, t) \subseteq Good(ss) BY DEF Between
<1>2. ASSUME NEW i \in UsedIn(ss)
      PROVE  /\ Within(ss, i) \subseteq Good(ss)
             /\ \A x \in Within(ss, i) : Used(ss, x[1]) /\ Used(ss, To(x))
  <2>1. i \in Slots /\ Used(ss, i) BY DEF UsedIn
  <2>2. Within(ss, i) \subseteq Between(ss, i, i) BY <2>1, WithinIn
  <2> QED BY <2>1, <2>2 DEF Between
<1>3. ASSUME NEW x \in Pairs(ss)
      PROVE  /\ Both(ss, x[1], x[2], x[3]) \subseteq Good(ss)
             /\ \A y \in Both(ss, x[1], x[2], x[3]) : Used(ss, y[1]) /\ Used(ss, To(y))
  <2>1. /\ x[1] \in Slots /\ Used(ss, x[1]) /\ x[2] \in Slots /\ Used(ss, x[2])
        /\ x[3] \in Sides
    BY DEF Pairs, UsedIn
  <2>2. Both(ss, x[1], x[2], x[3])
           \subseteq Between(ss, x[1], x[2]) \cup Between(ss, x[2], x[1])
    BY <2>1, BothIn
  <2> QED BY <2>1, <2>2 DEF Between
<1>4. AllBases(ss) \subseteq AllWithin(ss) BY DEF AllBases, AllWithin, Within
<1>5. Good(ss) \subseteq Facts(ss) BY DEF Good
<1>6. \A x \in AllWithin(ss) : x \in Good(ss) /\ Used(ss, x[1]) /\ Used(ss, To(x))
  BY <1>2 DEF AllWithin
<1>7. \A x \in AllBetween(ss) : x \in Good(ss) /\ Used(ss, x[1]) /\ Used(ss, To(x))
  BY <1>3 DEF AllBetween
<1> QED BY <1>4, <1>5, <1>6, <1>7 DEF All

\* Slot i is empty in s0 and used in ss; the others are alike.
Fills(s0, ss, i) ==
    /\ Typed(s0) /\ Typed(ss) /\ i \in Slots /\ ~Used(s0, i) /\ Used(ss, i)
    /\ \A j \in Slots : j # i => ss[j] = s0[j]

\* The links of a tile with those round it.
RoundOf(ss, i) == UNION {Both(ss, i, n[1], n[2]) : n \in NearOf(ss, UsedIn(ss), i)}

(* A tile brings the links within it and those with the tiles round it.    *)
LEMMA AllFilled ==
    ASSUME NEW s0, NEW ss, NEW i, Fills(s0, ss, i)
    PROVE  /\ UsedIn(ss) = UsedIn(s0) \cup {i} /\ i \notin UsedIn(s0)
           /\ AllWithin(ss) = AllWithin(s0) \cup Within(ss, i)
           /\ AllBetween(ss) = AllBetween(s0) \cup RoundOf(ss, i)
           /\ AllBases(ss) = AllBases(s0) \cup BasesOf(ss, i)
<1>1. \A j \in Slots : j # i => ss[j] = s0[j] BY DEF Fills
<1>2. \A j \in Slots : j # i => (Used(ss, j) <=> Used(s0, j)) BY <1>1, SameData
<1>3. UsedIn(ss) = UsedIn(s0) \cup {i} /\ i \notin UsedIn(s0)
  BY <1>2 DEF UsedIn, Fills
<1>4. \A j \in UsedIn(s0) : j \in Slots /\ j # i BY <1>3 DEF UsedIn
<1>5. \A j \in UsedIn(s0) : Within(ss, j) = Within(s0, j) BY <1>1, <1>4, SameWithin
<1>6. \A j \in UsedIn(s0) : BasesOf(ss, j) = BasesOf(s0, j) BY <1>1, <1>4, SameBases
<1>7. AllWithin(ss) = AllWithin(s0) \cup Within(ss, i)
  BY <1>3, <1>5 DEF AllWithin
<1>8. AllBases(ss) = AllBases(s0) \cup BasesOf(ss, i)
  BY <1>3, <1>6 DEF AllBases
<1>9. \A j \in UsedIn(s0) : Header(ss, j) = Header(s0, j) BY <1>1, <1>4, SameData
<1>10. ASSUME NEW x \in Pairs(s0)
       PROVE  /\ x \in Pairs(ss)
              /\ Both(ss, x[1], x[2], x[3]) = Both(s0, x[1], x[2], x[3])
  <2>1. /\ x \in UsedIn(s0) \X UsedIn(s0) \X Sides /\ x[1] # x[2]
        /\ Near(s0, x[1], x[2], x[3])
        /\ x[1] \in UsedIn(s0) /\ x[2] \in UsedIn(s0)
    BY DEF Pairs
  <2>2. Near(ss, x[1], x[2], x[3]) BY <1>9, <2>1 DEF Near, PlaceOf
  <2>3. x \in UsedIn(ss) \X UsedIn(ss) \X Sides BY <1>3, <2>1
  <2>4. x \in Pairs(ss) BY <2>1, <2>2, <2>3 DEF Pairs
  <2>5. ss[x[1]] = s0[x[1]] /\ ss[x[2]] = s0[x[2]] BY <1>1, <1>4, <2>1
  <2> QED BY <2>4, <2>5, SameBoth
<1>11. ASSUME NEW n \in NearOf(ss, UsedIn(ss), i)
       PROVE  <<i, n[1], n[2]>> \in Pairs(ss)
  <2>1. /\ n[1] \in UsedIn(ss) /\ n[2] \in Sides /\ n[1] # i /\ Near(ss, i, n[1], n[2])
        /\ i \in UsedIn(ss)
    BY <1>3 DEF NearOf
  <2> QED BY <2>1 DEF Pairs
<1>12. ASSUME NEW x \in Pairs(ss), x \notin Pairs(s0)
       PROVE  Both(ss, x[1], x[2], x[3]) \subseteq RoundOf(ss, i)
  <2>1. /\ x = <<x[1], x[2], x[3]>> /\ x[1] \in UsedIn(ss) /\ x[2] \in UsedIn(ss)
        /\ x[3] \in Sides /\ x[1] # x[2] /\ Near(ss, x[1], x[2], x[3])
    BY DEF Pairs
  <2>2. CASE x[1] = i
    <3>1. <<x[2], x[3]>> \in NearOf(ss, UsedIn(ss), i) BY <2>1, <2>2 DEF NearOf
    <3> QED BY <2>2, <3>1 DEF RoundOf
  <2>3. CASE x[2] = i
    <3>1. /\ x[1] \in Slots /\ Used(ss, x[1]) /\ x[2] \in Slots /\ Used(ss, x[2])
          /\ Typed(ss)
      BY <2>1 DEF UsedIn, Fills
    <3>2. Near(ss, i, x[1], Opposite(x[3])) BY <2>1, <2>3, <3>1, NearTurned
    <3>3. Opposite(x[3]) \in Sides BY <2>1, SidesOpposite
    <3>4. <<x[1], Opposite(x[3])>> \in NearOf(ss, UsedIn(ss), i)
      BY <2>1, <2>3, <3>2, <3>3 DEF NearOf
    <3>5. Both(ss, i, x[1], Opposite(x[3])) = Both(ss, x[1], i, x[3])
      BY <2>1, BothTurned
    <3> QED BY <2>3, <3>4, <3>5 DEF RoundOf
  <2>4. CASE x[1] # i /\ x[2] # i
    <3>1. x[1] \in UsedIn(s0) /\ x[2] \in UsedIn(s0) BY <1>3, <2>1, <2>4
    <3>2. Near(s0, x[1], x[2], x[3]) BY <1>9, <2>1, <3>1 DEF Near, PlaceOf
    <3>3. x \in Pairs(s0) BY <2>1, <3>1, <3>2 DEF Pairs
    <3> QED BY <1>12, <3>3
  <2> QED BY <2>2, <2>3, <2>4
<1>13. AllBetween(ss) \subseteq AllBetween(s0) \cup RoundOf(ss, i)
  BY <1>10, <1>12 DEF AllBetween
<1>14. AllBetween(s0) \subseteq AllBetween(ss) BY <1>10 DEF AllBetween
<1>15. RoundOf(ss, i) \subseteq AllBetween(ss)
  <2>1. ASSUME NEW n \in NearOf(ss, UsedIn(ss), i), NEW y \in Both(ss, i, n[1], n[2])
        PROVE  y \in AllBetween(ss)
    <3> DEFINE x == <<i, n[1], n[2]>>
    <3>1. x \in Pairs(ss) /\ y \in Both(ss, x[1], x[2], x[3]) BY <1>11, <2>1
    <3> HIDE DEF x
    <3> QED BY <3>1 DEF AllBetween
  <2> QED BY <2>1 DEF RoundOf
<1> QED BY <1>3, <1>7, <1>8, <1>13, <1>14, <1>15

-------------------------------------------------------------------------------
(* A tile put in a slot, a tile taken out *)

(* The marks of polygons may be of more kinds.                             *)
LEMMA MoreMarks ==
    ASSUME NEW V, NEW W, V \subseteq W, NEW ss, NEW S, NEW B,
           NEW ts \in Linking(V, ss, S, B)
    PROVE  ts \in Linking(W, ss, S, B)
<1> DEFINE P(U) == [flags : U, area : U, links : Seq(LinkType)]
<1>1. P(V) \subseteq P(W) OBVIOUS
<1> HIDE DEF P
<1>2. Seq(P(V)) \subseteq Seq(P(W)) BY <1>1
<1>3. TileType(V) = [polys : Seq(P(V)), free : Nat, short : BOOLEAN]
      /\ TileType(W) = [polys : Seq(P(W)), free : Nat, short : BOOLEAN]
  BY DEF TileType, P
<1>4. TileType(V) \subseteq TileType(W) BY <1>2, <1>3
<1>5. ts \in [Slots -> TileType(V)] BY DEF Linking, Shaped
<1>6. ts \in [Slots -> TileType(W)] BY <1>4, <1>5
<1>7. ts \in Shaped(W, ss) BY <1>6 DEF Linking, Shaped
<1> QED BY <1>7 DEF Linking

\* The marks of the polygons of a tile.
MarksOf(n) ==
    {Data[n].polys[k].flags : k \in 1..Len(Data[n].polys)}
    \cup {Data[n].polys[k].area : k \in 1..Len(Data[n].polys)}

(* The polygons of a tile not yet linked.                                  *)
LEMMA UnlinkedIs ==
    ASSUME NEW n \in DOMAIN Data, NEW W, MarksOf(n) \subseteq W
    PROVE  /\ Unlinked(n) \in TileType(W) /\ Unlinked(n).free = Data[n].maxLinks
           /\ Len(Unlinked(n).polys) = Len(Data[n].polys)
           /\ Total(Counts(Unlinked(n))) = 0
           /\ \A k \in 1..Len(Data[n].polys) : Unlinked(n).polys[k].links = <<>>
<1> DEFINE d == Data[n]
           polys == [k \in 1..Len(d.polys) |->
                        [flags |-> d.polys[k].flags, area |-> d.polys[k].area,
                         links |-> <<>>]]
           P == [flags : W, area : W, links : Seq(LinkType)]
<1>1. d.maxLinks \in Nat /\ Len(d.polys) \in Nat BY DataIs
<1>2. /\ Unlinked(n).polys = polys /\ Unlinked(n).free = d.maxLinks
      /\ Unlinked(n).short = FALSE
      /\ Unlinked(n) = [free |-> d.maxLinks, short |-> FALSE, polys |-> polys]
  BY DEF Unlinked
<1>3. ASSUME NEW k \in 1..Len(d.polys)
      PROVE  polys[k] \in P /\ polys[k].links = <<>>
  <2>1. d.polys[k].flags \in W /\ d.polys[k].area \in W BY DEF MarksOf
  <2>2. <<>> \in Seq(LinkType) OBVIOUS
  <2> QED BY <2>1, <2>2
<1>4. polys \in Seq(P) /\ Len(polys) = Len(d.polys)
  <2> DEFINE m == Len(d.polys)
  <2>1. m \in Nat /\ polys = [k \in 1..m |-> polys[k]] /\ \A k \in 1..m : polys[k] \in P
    BY <1>1, <1>3
  <2> HIDE DEF m, polys, P
  <2> QED BY <2>1 DEF m
<1> HIDE DEF polys
<1>5. Unlinked(n) \in TileType(W)
  <2> HIDE DEF P
  <2>1. Unlinked(n) \in [polys : Seq(P), free : Nat, short : BOOLEAN]
    BY <1>1, <1>2, <1>4
  <2> QED BY <2>1 DEF TileType, P
<1>6. /\ Counts(Unlinked(n)) \in Seq(Int)
      /\ \A k \in 1..Len(Counts(Unlinked(n))) : Counts(Unlinked(n))[k] = 0
  <2> DEFINE m == Len(d.polys)
             cs == Counts(Unlinked(n))
  <2>1. cs = [k \in 1..m |-> Len(polys[k].links)] BY <1>2, <1>4 DEF Counts
  <2>2. \A k \in 1..m : Len(polys[k].links) = 0 BY <1>3
  <2>3. m \in Nat BY <1>1
  <2> HIDE DEF m, cs
  <2>4. cs \in Seq(Int) /\ \A k \in 1..Len(cs) : cs[k] = 0 BY <2>1, <2>2, <2>3
  <2> QED BY <2>4 DEF cs
<1>7. Total(Counts(Unlinked(n))) = 0 BY <1>6, TotalZero
<1> QED BY <1>2, <1>3, <1>4, <1>5, <1>7

(* A fresh tile in slot i changes no link of the others.                   *)
LEMMA FreshIn ==
    ASSUME NEW s0, NEW ss, NEW i, Fills(s0, ss, i), NEW V,
           NEW ts \in Linking(V, s0, All(s0), AllBases(s0)),
           NEW W, V \subseteq W, MarksOf(ss[i].data) \subseteq W
    PROVE  [ts EXCEPT ![i] = Unlinked(ss[i].data)]
              \in Linking(W, ss, All(s0), AllBases(s0))
<1> DEFINE n == ss[i].data
           new == [ts EXCEPT ![i] = Unlinked(n)]
<1>1. Typed(s0) /\ Typed(ss) /\ i \in Slots /\ ~Used(s0, i) /\ Used(ss, i)
      /\ \A j \in Slots : j # i => ss[j] = s0[j]
  BY DEF Fills
<1>2. /\ n \in DOMAIN Data /\ Size(ss, i) = Len(Data[n].polys)
      /\ Room(ss, i) = Data[n].maxLinks /\ Room(ss, i) \in Nat
  BY <1>1, HeaderIs
<1>3. \A j \in Slots : j # i => Size(ss, j) = Size(s0, j) /\ Room(ss, j) = Room(s0, j)
  BY <1>1, SameData
<1>4. ts \in Linking(W, s0, All(s0), AllBases(s0)) BY MoreMarks
<1>5. /\ ts \in [Slots -> TileType(W)]
      /\ \A j \in Slots : /\ Len(ts[j].polys) = Size(s0, j)
                          /\ Total(Counts(ts[j])) + ts[j].free = Room(s0, j)
  BY <1>4 DEF Linking, Shaped
<1>6. /\ Unlinked(n) \in TileType(W) /\ Unlinked(n).free = Data[n].maxLinks
      /\ Len(Unlinked(n).polys) = Len(Data[n].polys)
      /\ Total(Counts(Unlinked(n))) = 0
      /\ \A k \in 1..Len(Data[n].polys) : Unlinked(n).polys[k].links = <<>>
  BY <1>2, UnlinkedIs
<1>7. /\ new \in [Slots -> TileType(W)] /\ new[i] = Unlinked(n)
      /\ \A j \in Slots : j # i => new[j] = ts[j]
  BY <1>1, <1>5, <1>6
<1> HIDE DEF new, n
<1>8. new \in Shaped(W, ss)
  <2>1. ASSUME NEW j \in Slots
        PROVE  /\ Len(new[j].polys) = Size(ss, j)
               /\ Total(Counts(new[j])) + new[j].free = Room(ss, j)
    <3>1. CASE j = i BY <1>2, <1>6, <1>7, <3>1
    <3>2. CASE j # i BY <1>3, <1>5, <1>7, <3>2
    <3> QED BY <3>1, <3>2
  <2> QED BY <1>7, <2>1 DEF Shaped
<1>9. ASSUME NEW j \in Slots, NEW k \in 1..Size(ss, j), NEW l \in LinksOf(new, j, k)
      PROVE  <<j, k, l>> \in All(s0)
  <2>1. CASE j = i
    <3>1. LinksOf(new, j, k) = Range(<<>>) BY <1>2, <1>6, <1>7, <2>1 DEF LinksOf
    <3>2. Range(<<>>) = {} BY DEF Range
    <3> QED BY <1>9, <3>1, <3>2
  <2>2. CASE j # i
    <3>1. k \in 1..Size(s0, j) /\ LinksOf(new, j, k) = LinksOf(ts, j, k)
      BY <1>3, <1>7, <2>2 DEF LinksOf
    <3> QED BY <1>9, <3>1 DEF Linking
  <2> QED BY <2>1, <2>2
<1>10. \A x \in All(s0) : x[1] \in Slots /\ x[1] # i
  <2>1. All(s0) \subseteq Facts(s0) BY <1>1, AllIs
  <2>2. \A x \in All(s0) : Used(s0, x[1]) BY <1>1, AllIs
  <2>3. \A x \in Facts(s0) : x[1] \in Slots BY DEF Facts
  <2> QED BY <1>1, <2>1, <2>2, <2>3
<1>11. \A x \in All(s0) : /\ Made(new, x) <=> Made(ts, x)
                          /\ new[x[1]].short = ts[x[1]].short
  BY <1>7, <1>10 DEF Made, LinksOf
<1>12. \A x \in All(s0) : Made(new, x) \/ new[x[1]].short BY <1>11 DEF Linking
<1>13. \A x \in AllBases(s0) : Made(new, x)
  <2>1. AllBases(s0) \subseteq All(s0) BY <1>1, AllIs
  <2> QED BY <1>11, <2>1 DEF Linking
<1>14. new \in Linking(W, ss, All(s0), AllBases(s0))
  BY <1>8, <1>9, <1>12, <1>13 DEF Linking
<1> QED BY <1>14 DEF new, n

(* addTile leaves all the links there should be.                           *)
LEMMA TileLinked ==
    ASSUME NEW s0, NEW ss, NEW i, Fills(s0, ss, i), LayersApart(ss),
           NEW lookup, LutFor(ss, lookup, UsedIn(ss)), NEW V,
           NEW ts \in Linking(V, s0, All(s0), AllBases(s0)),
           NEW W, V \subseteq W, MarksOf(ss[i].data) \subseteq W
    PROVE  Linked(ss, [ts EXCEPT ![i] = Unlinked(ss[i].data)], i, lookup)
              \in Linking(W, ss, All(ss), AllBases(ss))
<1> DEFINE new == [ts EXCEPT ![i] = Unlinked(ss[i].data)]
           list == Others(ss, lookup, Header(ss, i), i)
           within == LinkedWithin(ss, new, i)
           S == All(s0)
           T == S \cup Within(ss, i)
           B == AllBases(ss)
<1>1. /\ Typed(s0) /\ Typed(ss) /\ i \in Slots /\ Used(ss, i) BY DEF Fills
<1>2. new \in Linking(W, ss, S, AllBases(s0)) BY FreshIn
<1>3. /\ UsedIn(ss) = UsedIn(s0) \cup {i} /\ i \notin UsedIn(s0)
      /\ AllWithin(ss) = AllWithin(s0) \cup Within(ss, i)
      /\ AllBetween(ss) = AllBetween(s0) \cup RoundOf(ss, i)
      /\ B = AllBases(s0) \cup BasesOf(ss, i)
  BY AllFilled
<1>4. All(ss) = T \cup RoundOf(ss, i) BY <1>3 DEF All
<1>5. All(ss) \subseteq Good(ss) /\ B \subseteq All(ss) BY <1>1, AllIs
<1>6. AllBases(s0) \subseteq S BY <1>1, AllIs
<1>7. T \subseteq Good(ss) /\ S \subseteq Good(ss) BY <1>4, <1>5
<1>8. BasesOf(ss, i) \subseteq Within(ss, i) BY DEF Within
<1>9. B \subseteq T BY <1>3, <1>6, <1>8
<1>10. new[i].free = Header(ss, i).maxLinks
  <2>1. ss[i].data \in DOMAIN Data /\ Header(ss, i) = Data[ss[i].data]
    BY <1>1, HeaderIs
  <2>2. Unlinked(ss[i].data).free = Data[ss[i].data].maxLinks BY DEF Unlinked
  <2>3. ts \in [Slots -> TileType(V)] BY DEF Linking, Shaped
  <2>4. new[i] = Unlinked(ss[i].data) BY <1>1, <2>3
  <2> HIDE DEF new
  <2> QED BY <2>1, <2>2, <2>4
<1> HIDE DEF new, S, B
<1>11. within \in Linking(W, ss, T, B)
  <2>1. within \in Linking(W, ss, S \cup Within(ss, i), AllBases(s0) \cup BasesOf(ss, i))
    <3>1. S \in SUBSET Good(ss) /\ AllBases(s0) \in SUBSET S BY <1>6, <1>7
    <3> QED BY <1>1, <1>2, <1>10, <3>1, LinkedWithinIs
  <2> QED BY <1>3, <2>1
<1>12. list \in Seq(Slots \X Sides) /\ Range(list) = NearOf(ss, UsedIn(ss), i)
  <2>1. UsedIn(ss) \in SUBSET UsedIn(ss) OBVIOUS
  <2> QED BY <1>1, <2>1, OthersIs
<1> HIDE DEF list, within, T
<1>13. \A m \in 1..Len(list) : list[m] \in NearOf(ss, UsedIn(ss), i)
  <2>1. DOMAIN list = 1..Len(list) BY <1>12
  <2> QED BY <1>12, <2>1 DEF Range
<1>14. ASSUME NEW m \in 1..Len(list)
       PROVE  Used(ss, list[m][1]) /\ BasesOf(ss, list[m][1]) \subseteq B
  <2>1. list[m][1] \in UsedIn(ss) BY <1>13 DEF NearOf
  <2> QED BY <2>1 DEF UsedIn, AllBases, B
<1>15. BothOf(ss, i, list) = RoundOf(ss, i)
  <2>1. BothOf(ss, i, list) \subseteq RoundOf(ss, i) BY <1>13 DEF BothOf, RoundOf
  <2>2. ASSUME NEW n \in NearOf(ss, UsedIn(ss), i) PROVE \E m \in 1..Len(list) : n = list[m]
    BY <1>12 DEF Range
  <2>3. RoundOf(ss, i) \subseteq BothOf(ss, i, list) BY <2>2 DEF BothOf, RoundOf
  <2> QED BY <2>1, <2>3
<1>16. ConnectAll(ss, within, i, list) \in Linking(W, ss, T \cup BothOf(ss, i, list), B)
  <2>1. T \in SUBSET Good(ss) /\ B \in SUBSET T /\ BasesOf(ss, i) \subseteq B
    BY <1>3, <1>7, <1>9
  <2> QED BY <1>1, <1>11, <1>12, <1>14, <2>1, AllConnected
<1>17. Linked(ss, new, i, lookup) = ConnectAll(ss, within, i, list)
  BY DEF Linked, ConnectAll, within, list
<1> QED BY <1>4, <1>15, <1>16, <1>17 DEF new, B

(* The polygons of no tile.                                                *)
LEMMA ClearedIs ==
    ASSUME NEW W
    PROVE  /\ Cleared \in TileType(W) /\ Cleared.free = 0 /\ Len(Cleared.polys) = 0
           /\ Total(Counts(Cleared)) = 0
<1>1. Cleared = [polys |-> <<>>, free |-> 0, short |-> FALSE] BY DEF Cleared
<1>2. Cleared \in TileType(W) BY <1>1 DEF TileType
<1>3. Cleared.free = 0 /\ Cleared.polys = <<>> /\ Len(Cleared.polys) = 0 BY <1>1
<1>4. Counts(Cleared) \in Seq(Int) /\ Len(Counts(Cleared)) = 0
  BY <1>3 DEF Counts
<1>5. Total(Counts(Cleared)) = 0
  <2> DEFINE cs == Counts(Cleared)
  <2>1. cs \in Seq(Int) /\ Len(cs) = 0 BY <1>4
  <2> HIDE DEF cs
  <2>2. \A k \in 1..Len(cs) : cs[k] = 0 BY <2>1
  <2>3. Total(cs) = 0 BY <2>1, <2>2, TotalZero
  <2> QED BY <2>3 DEF cs
<1> QED BY <1>2, <1>3, <1>5

(* The links there were with tile i are its own, or in a tile near it.     *)
LEMMA GoneWithIt ==
    ASSUME NEW s0, NEW ss, NEW i, Fills(s0, ss, i)
    PROVE  /\ \A x \in All(ss) :
                 \/ x \in All(s0) \/ x[1] = i
                 \/ To(x) = i /\ \E n \in NearOf(ss, UsedIn(ss) \ {i}, i) : x[1] = n[1]
           /\ \A x \in All(s0) : x \in All(ss) /\ x[1] # i /\ To(x) # i
           /\ AllBases(s0) \subseteq AllBases(ss)
<1>1. Typed(s0) /\ Typed(ss) /\ i \in Slots /\ Used(ss, i) /\ ~Used(s0, i) BY DEF Fills
<1>2. /\ AllWithin(ss) = AllWithin(s0) \cup Within(ss, i)
      /\ AllBetween(ss) = AllBetween(s0) \cup RoundOf(ss, i)
      /\ AllBases(ss) = AllBases(s0) \cup BasesOf(ss, i)
  BY AllFilled
<1>3. \A x \in All(s0) : Used(s0, x[1]) /\ Used(s0, To(x)) BY <1>1, AllIs
<1>4. \A x \in Within(ss, i) : x[1] = i
  <2>1. Within(ss, i) \subseteq Between(ss, i, i) BY <1>1, WithinIn
  <2> QED BY <2>1 DEF Between
<1>5. ASSUME NEW x \in RoundOf(ss, i)
      PROVE  \/ x[1] = i
             \/ To(x) = i /\ \E n \in NearOf(ss, UsedIn(ss) \ {i}, i) : x[1] = n[1]
  <2>1. PICK n \in NearOf(ss, UsedIn(ss), i) : x \in Both(ss, i, n[1], n[2])
    BY DEF RoundOf
  <2>2. /\ n[1] \in Slots /\ Used(ss, n[1]) /\ n[2] \in Sides
        /\ n \in NearOf(ss, UsedIn(ss) \ {i}, i)
    BY <2>1 DEF NearOf, UsedIn
  <2>3. x \in Between(ss, i, n[1]) \cup Between(ss, n[1], i)
    BY <1>1, <2>1, <2>2, BothIn
  <2>4. x[1] = i \/ (x[1] = n[1] /\ To(x) = i) BY <2>3 DEF Between
  <2> QED BY <2>2, <2>4
<1>6. \A x \in All(s0) : x \in All(ss) BY <1>2 DEF All
<1>7. \A x \in All(s0) : x[1] # i /\ To(x) # i BY <1>1, <1>3
<1>8. \A x \in All(ss) : x \in All(s0) \/ x \in Within(ss, i) \/ x \in RoundOf(ss, i)
  BY <1>2 DEF All
<1> QED BY <1>2, <1>4, <1>5, <1>6, <1>7, <1>8

(* removeTile leaves all the links there should be, and no others.         *)
LEMMA TileUnlinked ==
    ASSUME NEW s0, NEW ss, NEW i, Fills(s0, ss, i), LayersApart(ss),
           NEW lookup, LutFor(ss, lookup, UsedIn(ss) \ {i}), NEW V,
           NEW ts \in Linking(V, ss, All(ss), AllBases(ss))
    PROVE  [DisconnectAll(ts, i, Others(ss, lookup, Header(ss, i), i))
               EXCEPT ![i] = Cleared] \in Linking(V, s0, All(s0), AllBases(s0))
<1> DEFINE U == UsedIn(ss) \ {i}
           list == Others(ss, lookup, Header(ss, i), i)
           from == FirstOf(list)
           alone == DisconnectAll(ts, i, list)
           new == [alone EXCEPT ![i] = Cleared]
           S == Kept(All(ss), from, i)
           B == Kept(AllBases(ss), from, i)
<1>1. Typed(s0) /\ Typed(ss) /\ i \in Slots /\ Used(ss, i) /\ ~Used(s0, i)
      /\ \A j \in Slots : j # i => ss[j] = s0[j]
  BY DEF Fills
<1>2. /\ list \in Seq(Slots \X Sides) /\ Range(list) = NearOf(ss, U, i)
  <2>1. U \in SUBSET UsedIn(ss) OBVIOUS
  <2> HIDE DEF U
  <2> QED BY <1>1, <2>1, OthersIs DEF U
<1>3. alone \in Linking(V, ss, S, B)
  <2>1. All(ss) \in SUBSET Facts(ss) /\ AllBases(ss) \in SUBSET All(ss)
    BY <1>1, AllIs
  <2> QED BY <1>2, <2>1, AllUnconnected
<1>4. \A n \in NearOf(ss, U, i) : n[1] \in from
  <2>1. DOMAIN list = 1..Len(list) BY <1>2
  <2> QED BY <1>2, <2>1 DEF FirstOf, Range
<1> HIDE DEF alone, list, from, U
<1>5. \A x \in S : x \in All(s0) \/ x[1] = i
  <2>1. \A x \in S : x \in All(ss) /\ ~(x[1] \in from /\ To(x) = i) BY DEF Kept
  <2> QED BY <1>4, <2>1, GoneWithIt DEF U
<1>6. \A x \in All(s0) : x \in S /\ x[1] # i
  <2>1. \A x \in All(s0) : x \in All(ss) /\ x[1] # i /\ To(x) # i BY GoneWithIt
  <2> QED BY <2>1 DEF Kept
<1>7. \A x \in AllBases(s0) : x \in B /\ x[1] # i
  <2>1. \A x \in AllBases(s0) : x \in All(s0) BY <1>1, AllIs
  <2>2. \A x \in All(s0) : x \in All(ss) /\ x[1] # i /\ To(x) # i BY GoneWithIt
  <2>3. AllBases(s0) \subseteq AllBases(ss) BY GoneWithIt
  <2> QED BY <2>1, <2>2, <2>3 DEF Kept
<1> HIDE DEF S, B
<1>8. /\ alone \in [Slots -> TileType(V)]
      /\ \A j \in Slots : /\ Len(alone[j].polys) = Size(ss, j)
                          /\ Total(Counts(alone[j])) + alone[j].free = Room(ss, j)
  BY <1>3 DEF Linking, Shaped
<1>9. /\ Cleared \in TileType(V) /\ Cleared.free = 0 /\ Len(Cleared.polys) = 0
      /\ Total(Counts(Cleared)) = 0
  BY ClearedIs
<1>10. /\ new \in [Slots -> TileType(V)] /\ new[i] = Cleared
       /\ \A j \in Slots : j # i => new[j] = alone[j]
  BY <1>1, <1>8, <1>9
<1>11. \A j \in Slots : j # i => Size(ss, j) = Size(s0, j) /\ Room(ss, j) = Room(s0, j)
  BY <1>1, SameData
<1>12. Size(s0, i) = 0 /\ Room(s0, i) = 0 BY <1>1 DEF Size, Room
<1> HIDE DEF new
<1>13. new \in Shaped(V, s0)
  <2>1. ASSUME NEW j \in Slots
        PROVE  /\ Len(new[j].polys) = Size(s0, j)
               /\ Total(Counts(new[j])) + new[j].free = Room(s0, j)
    <3>1. CASE j = i BY <1>9, <1>10, <1>12, <3>1
    <3>2. CASE j # i BY <1>8, <1>10, <1>11, <3>2
    <3> QED BY <3>1, <3>2
  <2> QED BY <1>10, <2>1 DEF Shaped
<1>14. ASSUME NEW j \in Slots, NEW k \in 1..Size(s0, j), NEW l \in LinksOf(new, j, k)
       PROVE  <<j, k, l>> \in All(s0)
  <2>1. j # i BY <1>12
  <2>2. k \in 1..Size(ss, j) /\ LinksOf(new, j, k) = LinksOf(alone, j, k)
    BY <1>10, <1>11, <2>1 DEF LinksOf
  <2>3. <<j, k, l>> \in S BY <1>3, <1>14, <2>2 DEF Linking
  <2> QED BY <1>5, <2>1, <2>3
<1>15. \A x \in S : x \in All(s0) => x[1] \in Slots
  <2>1. \A x \in All(s0) : x \in Facts(s0) BY <1>1, AllIs
  <2> QED BY <2>1 DEF Facts
<1>16. \A x \in All(s0) : /\ Made(new, x) <=> Made(alone, x)
                          /\ new[x[1]].short = alone[x[1]].short
  BY <1>6, <1>10, <1>15 DEF Made, LinksOf
<1>17. \A x \in All(s0) : Made(new, x) \/ new[x[1]].short
  BY <1>3, <1>6, <1>16 DEF Linking
<1>18. \A x \in AllBases(s0) : Made(new, x)
  <2>1. AllBases(s0) \subseteq All(s0) BY <1>1, AllIs
  <2> QED BY <1>3, <1>7, <1>16, <2>1 DEF Linking
<1>19. new \in Linking(V, s0, All(s0), AllBases(s0))
  BY <1>13, <1>14, <1>17, <1>18 DEF Linking
<1> QED BY <1>19 DEF new, alone, list

-------------------------------------------------------------------------------
(* The links of the mesh, throughout *)

\* The tiles' links are those that the tiles there are should have, and the
\* chains find the tiles of a place.
LinksOK == \E V : tiles \in Linking(V, slots, All(slots), AllBases(slots))
MeshOK == DOMAIN lut = 0..(LutSize - 1) /\ LayersApart(slots) /\ LinksOK

(* Other marks on polygons leave their links what they are.                *)
LEMMA OtherMarks ==
    ASSUME NEW V, NEW W, NEW ss, NEW S \in SUBSET Facts(ss), NEW B \in SUBSET S,
           NEW ts \in Linking(V, ss, S, B), NEW new \in [Slots -> TileType(W)],
           \A i \in Slots :
              /\ Len(new[i].polys) = Len(ts[i].polys)
              /\ new[i].free = ts[i].free /\ new[i].short = ts[i].short
              /\ \A k \in 1..Len(ts[i].polys) :
                    new[i].polys[k].links = ts[i].polys[k].links
    PROVE  new \in Linking(W, ss, S, B)
<1>1. ts \in Shaped(V, ss) BY DEF Linking
<1>2. \A i \in Slots : Counts(new[i]) = Counts(ts[i]) BY DEF Counts
<1>3. new \in Shaped(W, ss) BY <1>1, <1>2 DEF Shaped
<1>4. \A i \in Slots : Len(ts[i].polys) = Size(ss, i) BY <1>1 DEF Shaped
<1>5. \A i \in Slots : \A k \in 1..Size(ss, i) : LinksOf(new, i, k) = LinksOf(ts, i, k)
  BY <1>4 DEF LinksOf
<1>6. \A x \in Facts(ss) : Made(new, x) <=> Made(ts, x)
  BY <1>5 DEF Facts, Made
<1>7. \A x \in S : x[1] \in Slots BY DEF Facts
<1>8. \A x \in S : Made(new, x) \/ new[x[1]].short BY <1>6, <1>7 DEF Linking
<1>9. \A x \in B : Made(new, x) BY <1>6 DEF Linking
<1>10. \A i \in Slots : \A k \in 1..Size(ss, i) : \A l \in LinksOf(new, i, k) :
          <<i, k, l>> \in S
  BY <1>5 DEF Linking
<1> QED BY <1>3, <1>8, <1>9, <1>10 DEF Linking

(* getTileAt finds the tile of a place and layer, if there is one.         *)
LEMMA TileAtIs ==
    ASSUME ListsOK, MeshOK, NEW x \in Int, NEW y \in Int, NEW layer
    PROVE  LET t == GetTileAt(x, y, layer) IN
           \A j \in Slots :
              Used(slots, j) /\ PlaceOf(slots, j) = <<x, y>>
                 /\ Header(slots, j).layer = layer => t = j /\ t # NoTile
<1> DEFINE at == TilesIn(slots, lut[TileHash(x, y)], x, y)
           P == {i \in Range(at) : Header(slots, i).layer = layer}
           found == Those(at, P)
<1> SUFFICES ASSUME NEW j \in Slots, Used(slots, j), PlaceOf(slots, j) = <<x, y>>,
                    Header(slots, j).layer = layer
             PROVE  GetTileAt(x, y, layer) = j /\ GetTileAt(x, y, layer) # NoTile
  OBVIOUS
<1>1. Typed(slots) /\ LayersApart(slots)
  BY DEF ListsOK, SlotsTyped, Typed, MeshOK
<1>2. LutFor(slots, lut, UsedIn(slots))
  BY DEF ListsOK, MeshOK, LutOK, LutFor, InChain, UsedIn
<1>3. at \in Seq(Slots) /\ Range(at) = TilesOn(slots, UsedIn(slots), <<x, y>>)
  <2>1. UsedIn(slots) \in SUBSET UsedIn(slots) OBVIOUS
  <2>2. GetTilesAt(slots, lut, x, y) = at BY <1>1, <1>2, <2>1, TilesAtIs
  <2>3. GetTilesAt(slots, lut, x, y) \in Seq(Slots) BY <1>1, <1>2, <2>1, TilesAtIs
  <2>4. Range(GetTilesAt(slots, lut, x, y)) = TilesOn(slots, UsedIn(slots), <<x, y>>)
    BY <1>1, <1>2, <2>1, TilesAtIs
  <2> QED BY <2>2, <2>3, <2>4
<1> HIDE DEF at
<1>4. j \in Range(at) BY <1>3 DEF TilesOn, UsedIn
<1>5. found \in Seq(Slots) /\ Range(found) = Range(at) \cap P BY <1>3, ThoseIs
<1>6. j \in P BY <1>4
<1>7. \A k \in P : k = j
  <2> SUFFICES ASSUME NEW k \in P PROVE k = j OBVIOUS
  <2>1. /\ k \in Slots /\ Used(slots, k) /\ PlaceOf(slots, k) = <<x, y>>
        /\ Header(slots, k).layer = layer
    BY <1>3 DEF TilesOn, UsedIn
  <2> QED BY <1>1, <2>1 DEF LayersApart
<1>8. Range(found) = {j} BY <1>4, <1>5, <1>6, <1>7
<1> HIDE DEF found, P
<1>9. found # <<>> /\ Head(found) = j
  <2>1. DOMAIN found = 1..Len(found) /\ Len(found) \in Nat BY <1>5
  <2>2. PICK m \in 1..Len(found) : found[m] = j BY <1>8, <2>1 DEF Range
  <2>3. 1 \in 1..Len(found) BY <2>1, <2>2
  <2>4. found[1] \in Range(found) BY <2>1, <2>3 DEF Range
  <2>5. found[1] = j BY <1>8, <2>4
  <2> QED BY <1>5, <2>1, <2>3, <2>5
<1>10. GetTileAt(x, y, layer) = j BY <1>9 DEF GetTileAt, at, found, P
<1>11. j # NoTile BY Rooms DEF NoTile
<1> QED BY <1>10, <1>11

(* At first there are no tiles.                                            *)
LEMMA InitMesh == Init => MeshOK
<1> SUFFICES ASSUME Init PROVE MeshOK OBVIOUS
<1>1. /\ slots = [i \in Slots |-> FreeSlot(1)] /\ tiles = [i \in Slots |-> Cleared]
      /\ lut = [h \in 0..(LutSize - 1) |-> <<>>]
  BY DEF Init
<1>2. \A i \in Slots : ~Used(slots, i) BY <1>1 DEF Used, FreeSlot
<1>3. LayersApart(slots) BY <1>2 DEF LayersApart
<1>4. UsedIn(slots) = {} BY <1>2 DEF UsedIn
<1>5. All(slots) = {} /\ AllBases(slots) = {}
  BY <1>4 DEF All, AllWithin, AllBetween, AllBases, Pairs
<1>6. \A i \in Slots : Size(slots, i) = 0 /\ Room(slots, i) = 0
  BY <1>2 DEF Size, Room
<1>7. tiles \in Shaped({}, slots)
  <2>1. /\ Cleared \in TileType({}) /\ Cleared.free = 0 /\ Len(Cleared.polys) = 0
        /\ Total(Counts(Cleared)) = 0
    BY ClearedIs
  <2>2. tiles \in [Slots -> TileType({})] BY <1>1, <2>1
  <2>3. \A i \in Slots : tiles[i] = Cleared BY <1>1
  <2> QED BY <1>6, <2>1, <2>2, <2>3 DEF Shaped
<1>8. tiles \in Linking({}, slots, All(slots), AllBases(slots))
  BY <1>5, <1>6, <1>7 DEF Linking
<1>9. DOMAIN lut = 0..(LutSize - 1) BY <1>1
<1> QED BY <1>3, <1>8, <1>9 DEF MeshOK, LinksOK

(* The chains are those of the tiles there are.                            *)
LEMMA ChainsAre ==
    ASSUME ListsOK, DOMAIN lut = 0..(LutSize - 1)
    PROVE  Typed(slots) /\ LutFor(slots, lut, UsedIn(slots))
BY DEF ListsOK, SlotsTyped, Typed, LutOK, LutFor, InChain, UsedIn

(* Adding a tile leaves all its links, and no two tiles at one place.      *)
LEMMA AddTileMesh ==
    ASSUME IInv, IInv', MeshOK, NEW n \in DOMAIN Data, NEW lastRef,
           \/ lastRef = NoRef
           \/ lastRef \in DOMAIN held /\ held[lastRef] = n,
           AddTile(n, lastRef), ~UNCHANGED vars
    PROVE  MeshOK'
<1> DEFINE d == Data[n]
           wanted == DecodePolyIdTile(lastRef)
           i == IF lastRef = NoRef THEN Head(freeList) ELSE wanted
           salt == IF lastRef = NoRef THEN slots[i].salt
                   ELSE DecodePolyIdSalt(lastRef)
           h == TileHash(d.x, d.y)
<1>1. /\ GetTileAt(d.x, d.y, d.layer) = NoTile
      /\ IF lastRef = NoRef THEN freeList # <<>> ELSE wanted \in Range(freeList)
      /\ lut' = [lut EXCEPT ![h] = <<i>> \o @]
      /\ slots' = [slots EXCEPT ![i] = [salt |-> salt, data |-> n]]
      /\ tiles' = Linked(slots', [tiles EXCEPT ![i] = Unlinked(n)], i, lut')
  BY DEF AddTile
<1>2. ListsOK /\ ListsOK' BY DEF IInv
<1>3. freeList \in Seq(Slots) BY <1>2 DEF ListsOK, FreeOK, OnceIn
<1>4. i \in Slots /\ Holds(freeList, i)
  <2>1. CASE lastRef = NoRef
    <3>1. freeList # <<>> /\ i = Head(freeList) BY <1>1, <2>1
    <3>2. 1 \in 1..Len(freeList) /\ freeList[1] = i BY <1>3, <3>1
    <3> HIDE DEF i
    <3> QED BY <1>3, <3>2 DEF Holds
  <2>2. CASE lastRef # NoRef
    <3>1. i \in Range(freeList) BY <1>1, <2>2
    <3> HIDE DEF i
    <3> QED BY <1>3, <3>1 DEF Range, Holds
  <2> QED BY <2>1, <2>2
<1>5. ~Used(slots, i) BY <1>2, <1>4 DEF ListsOK, FreeOK
<1> HIDE DEF i, salt, h
<1>6. Typed(slots) /\ Typed(slots') BY <1>2 DEF ListsOK, SlotsTyped, Typed
<1>7. /\ slots'[i].data = n /\ \A j \in Slots : j # i => slots'[j] = slots[j]
  BY <1>1, <1>4, <1>6 DEF Typed
<1>8. Used(slots', i) BY <1>7, TilesAssumption DEF Used
<1>9. Fills(slots, slots', i) BY <1>4, <1>5, <1>6, <1>7, <1>8 DEF Fills
<1>10. DOMAIN lut' = 0..(LutSize - 1) BY <1>1 DEF MeshOK
<1>11. LutFor(slots', lut', UsedIn(slots'))
  BY <1>2, <1>10 DEF ListsOK, LutOK, LutFor, InChain, UsedIn
<1>12. LayersApart(slots')
  <2>1. d.x \in Int /\ d.y \in Int BY DataIs
  <2>2. ASSUME NEW j \in Slots, j # i, Used(slots', j),
               PlaceOf(slots', j) = <<d.x, d.y>>, Header(slots', j).layer = d.layer
        PROVE  FALSE
    <3>1. /\ Used(slots, j) /\ Header(slots', j) = Header(slots, j)
      BY <1>7, <2>2, SameData
    <3>2. /\ PlaceOf(slots, j) = <<d.x, d.y>> /\ Header(slots, j).layer = d.layer
      BY <2>2, <3>1 DEF PlaceOf
    <3> QED BY <1>1, <1>2, <2>1, <3>1, <3>2, TileAtIs
  <2>3. Header(slots', i) = d /\ PlaceOf(slots', i) = <<d.x, d.y>>
    BY <1>7 DEF Header, PlaceOf
  <2>4. ASSUME NEW j \in Slots, NEW k \in Slots, Used(slots', j), Used(slots', k),
               PlaceOf(slots', j) = PlaceOf(slots', k),
               Header(slots', j).layer = Header(slots', k).layer, j # i, k # i
        PROVE  j = k
    <3>1. /\ Used(slots, j) /\ Header(slots', j) = Header(slots, j)
          /\ Used(slots, k) /\ Header(slots', k) = Header(slots, k)
      BY <1>7, <2>4, SameData
    <3>2. LayersApart(slots) BY DEF MeshOK
    <3> QED BY <2>4, <3>1, <3>2 DEF LayersApart, PlaceOf
  <2> QED BY <2>2, <2>3, <2>4 DEF LayersApart
<1>13. LinksOK'
  <2>1. PICK V : tiles \in Linking(V, slots, All(slots), AllBases(slots))
    BY DEF MeshOK, LinksOK
  <2> DEFINE W == V \cup MarksOf(n)
  <2>2. V \subseteq W /\ MarksOf(slots'[i].data) \subseteq W BY <1>7
  <2> HIDE DEF W
  <2>3. Linked(slots', [tiles EXCEPT ![i] = Unlinked(slots'[i].data)], i, lut')
           \in Linking(W, slots', All(slots'), AllBases(slots'))
    BY <1>9, <1>11, <1>12, <2>1, <2>2, TileLinked
  <2>4. tiles' \in Linking(W, slots', All(slots'), AllBases(slots'))
    BY <1>1, <1>7, <2>3
  <2> QED BY <2>4 DEF LinksOK
<1> QED BY <1>10, <1>12, <1>13 DEF MeshOK

(* A reference that finds a slot finds the tile it was given out for.      *)
LEMMA FoundUsed ==
    ASSUME ListsOK, RefsOK, NEW r \in DOMAIN held, GetTileByRef(r) # NoTile
    PROVE  GetTileByRef(r) \in Slots /\ Used(slots, GetTileByRef(r))
<1> DEFINE i == GetTileByRef(r)
<1>1. i \in Slots /\ i = DecodePolyIdTile(r) /\ slots[i].salt = DecodePolyIdSalt(r)
  BY DEF GetTileByRef
<1> HIDE DEF i
<1>2. slots[i].salt \in Nat BY <1>1, Rooms DEF ListsOK, SlotsTyped, Salt
<1>3. held[r] \in DOMAIN Data /\ Past(slots[i].salt, i, held[r]) BY <1>1, HeldAs
<1>4. ~(slots[i].salt < slots[i].salt) BY <1>2
<1>5. slots[i].data = held[r] BY <1>3, <1>4 DEF Past
<1> QED BY <1>1, <1>3, <1>5, TilesAssumption DEF Used, i

(* Removing one leaves those of the others.                                *)
LEMMA RemoveTileMesh ==
    ASSUME IInv, IInv', MeshOK, NEW r \in DOMAIN held, RemoveTile(r),
           GetTileByRef(r) # NoTile
    PROVE  MeshOK'
<1> DEFINE i == GetTileByRef(r)
           d == Header(slots, i)
           h == TileHash(d.x, d.y)
           list == Others(slots, lut', d, i)
           salt == NextSalt(slots[i].salt)
<1>1. /\ lut' = [lut EXCEPT ![h] = Without(@, i)]
      /\ slots' = [slots EXCEPT ![i] = FreeSlot(salt)]
      /\ tiles' = [DisconnectAll(tiles, i, list) EXCEPT ![i] = Cleared]
  BY DEF RemoveTile, DisconnectAll
<1>2. ListsOK /\ RefsOK /\ ListsOK' BY DEF IInv
<1>3. i \in Slots /\ Used(slots, i) BY <1>2, FoundUsed
<1> HIDE DEF i, salt, h
<1>4. Typed(slots) /\ Typed(slots') BY <1>2 DEF ListsOK, SlotsTyped, Typed
<1>5. /\ ~Used(slots', i) /\ \A j \in Slots : j # i => slots'[j] = slots[j]
  BY <1>1, <1>3, <1>4 DEF Typed, FreeSlot, Used
<1>6. Fills(slots', slots, i) BY <1>3, <1>4, <1>5 DEF Fills
<1>7. DOMAIN lut' = 0..(LutSize - 1) BY <1>1 DEF MeshOK
<1>8. \A j \in Slots : j # i => /\ Used(slots', j) <=> Used(slots, j)
                                /\ Header(slots', j) = Header(slots, j)
  BY <1>5, SameData
<1>9. LutFor(slots, lut', UsedIn(slots) \ {i})
  <2>1. ASSUME NEW g \in 0..(LutSize - 1), NEW j \in Slots
        PROVE  Holds(lut'[g], j) <=>
                  j \in UsedIn(slots) \ {i}
                     /\ g = TileHash(Header(slots, j).x, Header(slots, j).y)
    <3>1. Holds(lut'[g], j) <=> Used(slots', j)
             /\ g = TileHash(Header(slots', j).x, Header(slots', j).y)
      BY <1>2, <1>7 DEF ListsOK, LutOK, InChain
    <3> QED BY <1>5, <1>8, <3>1 DEF UsedIn
  <2>2. \A g \in 0..(LutSize - 1) : OnceIn(lut'[g])
    BY <1>2, <1>7 DEF ListsOK, LutOK
  <2> QED BY <2>1, <2>2 DEF LutFor
<1>10. LayersApart(slots) BY DEF MeshOK
<1>11. LayersApart(slots')
  <2> SUFFICES ASSUME NEW j \in Slots, NEW k \in Slots, Used(slots', j),
                      Used(slots', k), PlaceOf(slots', j) = PlaceOf(slots', k),
                      Header(slots', j).layer = Header(slots', k).layer
               PROVE  j = k
    BY DEF LayersApart
  <2>1. j # i /\ k # i BY <1>5
  <2> QED BY <1>8, <1>10, <2>1 DEF LayersApart, PlaceOf
<1>12. LinksOK'
  <2>1. PICK V : tiles \in Linking(V, slots, All(slots), AllBases(slots))
    BY DEF MeshOK, LinksOK
  <2>2. [DisconnectAll(tiles, i, Others(slots, lut', Header(slots, i), i))
            EXCEPT ![i] = Cleared] \in Linking(V, slots', All(slots'), AllBases(slots'))
    BY <1>6, <1>9, <1>10, <2>1, TileUnlinked
  <2>3. tiles' \in Linking(V, slots', All(slots'), AllBases(slots'))
    BY <1>1, <2>2
  <2> QED BY <2>3 DEF LinksOK
<1> QED BY <1>7, <1>11, <1>12 DEF MeshOK

\* A polygon with marks from V.
PolyType(V) == [flags : V, area : V, links : Seq(LinkType)]

(* The marks of the polygons of a tile may be set.                         *)
LEMMA MarksSet ==
    ASSUME ListsOK, MeshOK, UNCHANGED <<slots, lut>>, NEW i \in Slots, NEW W,
           NEW V, V \subseteq W, tiles \in Linking(V, slots, All(slots), AllBases(slots)),
           NEW polys \in Seq(PolyType(W)), Len(polys) = Len(tiles[i].polys),
           \A k \in 1..Len(polys) : polys[k].links = tiles[i].polys[k].links,
           tiles' = [tiles EXCEPT ![i].polys = polys]
    PROVE  MeshOK'
<1>1. tiles \in Linking(W, slots, All(slots), AllBases(slots)) BY MoreMarks
<1>2. tiles \in [Slots -> TileType(W)] BY <1>1 DEF Linking, Shaped
<1>3. \A j \in Slots : tiles[j] \in [polys : Seq(PolyType(W)), free : Nat, short : BOOLEAN]
  BY <1>2 DEF TileType, PolyType
<1>4. /\ tiles' = [tiles EXCEPT ![i] = [@ EXCEPT !.polys = polys]]
  OBVIOUS
<1>5. [tiles[i] EXCEPT !.polys = polys] \in TileType(W)
  BY <1>3 DEF TileType, PolyType
<1>6. tiles' \in [Slots -> TileType(W)] BY <1>2, <1>4, <1>5
<1>7. /\ tiles'[i].polys = polys /\ tiles'[i].free = tiles[i].free
      /\ tiles'[i].short = tiles[i].short
      /\ \A j \in Slots : j # i => tiles'[j] = tiles[j]
  BY <1>2, <1>3, <1>4
<1>8. \A j \in Slots :
         /\ Len(tiles'[j].polys) = Len(tiles[j].polys)
         /\ tiles'[j].free = tiles[j].free /\ tiles'[j].short = tiles[j].short
         /\ \A k \in 1..Len(tiles[j].polys) :
               tiles'[j].polys[k].links = tiles[j].polys[k].links
  BY <1>7
<1>9. All(slots) \in SUBSET Facts(slots) /\ AllBases(slots) \in SUBSET All(slots)
  BY AllIs DEF ListsOK, SlotsTyped, Typed
<1>10. tiles' \in Linking(W, slots, All(slots), AllBases(slots))
  <2> DEFINE new == tiles'
             S == All(slots)
             B == AllBases(slots)
  <2> HIDE DEF new, S, B
  <2>1. new \in [Slots -> TileType(W)] BY <1>6 DEF new
  <2>2. \A j \in Slots :
           /\ Len(new[j].polys) = Len(tiles[j].polys)
           /\ new[j].free = tiles[j].free /\ new[j].short = tiles[j].short
           /\ \A k \in 1..Len(tiles[j].polys) :
                 new[j].polys[k].links = tiles[j].polys[k].links
    BY <1>8 DEF new
  <2>3. S \in SUBSET Facts(slots) /\ B \in SUBSET S /\ tiles \in Linking(W, slots, S, B)
    BY <1>1, <1>9 DEF S, B
  <2>4. new \in Linking(W, slots, S, B) BY <2>1, <2>2, <2>3, OtherMarks
  <2> QED BY <2>4 DEF new, S, B
<1> QED BY <1>10 DEF MeshOK, LinksOK

(* A tile reference that is valid is of the first polygon of its tile.     *)
LEMMA FirstPoly ==
    ASSUME ListsOK, RefsOK, NEW r \in DOMAIN held, IsValidPolyRef(r)
    PROVE  LET i == GetTileByRef(r) IN
           /\ i \in Slots /\ PolyOf(r) \in 1..Size(slots, i)
<1> DEFINE i == GetTileByRef(r)
<1>1. /\ i # NoTile /\ Used(slots, i) /\ PolyOf(r) <= Len(Header(slots, i).polys)
  BY DEF IsValidPolyRef
<1>2. i \in Slots BY <1>1 DEF GetTileByRef
<1>3. /\ Size(slots, i) = Len(Header(slots, i).polys) /\ Size(slots, i) \in Nat
  BY <1>1, <1>2, HeaderIs DEF ListsOK, SlotsTyped, Typed
<1>4. PolyOf(r) = 1
  <2>1. PICK salt \in Salt, j \in Slots : r = RefOf(salt, j)
    BY DEF RefsOK, RefsPast
  <2>2. /\ salt \in 0..(Salts - 1) /\ j \in 0..(TileNumbers - 1)
        /\ 0 \in 0..(PolyNumbers - 1)
    BY Rooms DEF Salt
  <2>3. DecodePolyIdPoly(r) = 0 BY <2>1, <2>2, ReferencesDecode DEF RefOf
  <2> QED BY <2>3 DEF PolyOf
<1> QED BY <1>1, <1>2, <1>3, <1>4

(* Marks that are set, or restored, leave the links.                       *)
LEMMA SetPolyFlagsMesh ==
    ASSUME IInv, MeshOK, NEW r \in DOMAIN held, NEW flags, SetPolyFlags(r, flags)
    PROVE  MeshOK'
<1> DEFINE i == GetTileByRef(r)
           p == PolyOf(r)
           poly == [tiles[i].polys[p] EXCEPT !.flags = flags]
           polys == [tiles[i].polys EXCEPT ![p] = poly]
<1>1. ListsOK /\ RefsOK BY DEF IInv
<1>2. /\ tiles' = [tiles EXCEPT ![i].polys[p].flags = flags]
      /\ UNCHANGED <<slots, lut>> /\ IsValidPolyRef(r)
  BY DEF SetPolyFlags
<1>3. i \in Slots /\ p \in 1..Size(slots, i) BY <1>1, <1>2, FirstPoly
<1>4. PICK V : tiles \in Linking(V, slots, All(slots), AllBases(slots))
  BY DEF MeshOK, LinksOK
<1> HIDE DEF i, p
<1> DEFINE W == V \cup {flags}
<1>5. tiles \in Linking(W, slots, All(slots), AllBases(slots)) BY <1>4, MoreMarks
<1>6. /\ tiles[i].polys \in Seq(PolyType(W)) /\ Len(tiles[i].polys) = Size(slots, i)
  BY <1>3, <1>5 DEF Linking, Shaped, TileType, PolyType
<1>7. V \subseteq W /\ flags \in W OBVIOUS
<1> HIDE DEF W
<1>8. /\ polys \in Seq(PolyType(W)) /\ Len(polys) = Len(tiles[i].polys)
      /\ \A k \in 1..Len(polys) : polys[k].links = tiles[i].polys[k].links
  <2>1. tiles[i].polys[p] \in PolyType(W) BY <1>3, <1>6
  <2>2. poly \in PolyType(W) /\ poly.links = tiles[i].polys[p].links
    BY <1>7, <2>1 DEF PolyType
  <2> HIDE DEF poly
  <2> QED BY <1>3, <1>6, <2>2
<1>9. tiles' = [tiles EXCEPT ![i].polys = polys] BY <1>2
<1> HIDE DEF polys
<1> QED BY <1>1, <1>2, <1>3, <1>4, <1>7, <1>8, <1>9, MarksSet

(* setPolyArea leaves the links what they are.                             *)
LEMMA SetPolyAreaMesh ==
    ASSUME IInv, MeshOK, NEW r \in DOMAIN held, NEW area, SetPolyArea(r, area)
    PROVE  MeshOK'
<1> DEFINE i == GetTileByRef(r)
           p == PolyOf(r)
           poly == [tiles[i].polys[p] EXCEPT !.area = area]
           polys == [tiles[i].polys EXCEPT ![p] = poly]
<1>1. ListsOK /\ RefsOK BY DEF IInv
<1>2. /\ tiles' = [tiles EXCEPT ![i].polys[p].area = area]
      /\ UNCHANGED <<slots, lut>> /\ IsValidPolyRef(r)
  BY DEF SetPolyArea
<1>3. i \in Slots /\ p \in 1..Size(slots, i) BY <1>1, <1>2, FirstPoly
<1>4. PICK V : tiles \in Linking(V, slots, All(slots), AllBases(slots))
  BY DEF MeshOK, LinksOK
<1> HIDE DEF i, p
<1> DEFINE W == V \cup {area}
<1>5. tiles \in Linking(W, slots, All(slots), AllBases(slots)) BY <1>4, MoreMarks
<1>6. /\ tiles[i].polys \in Seq(PolyType(W)) /\ Len(tiles[i].polys) = Size(slots, i)
  BY <1>3, <1>5 DEF Linking, Shaped, TileType, PolyType
<1>7. V \subseteq W /\ area \in W OBVIOUS
<1> HIDE DEF W
<1>8. /\ polys \in Seq(PolyType(W)) /\ Len(polys) = Len(tiles[i].polys)
      /\ \A k \in 1..Len(polys) : polys[k].links = tiles[i].polys[k].links
  <2>1. tiles[i].polys[p] \in PolyType(W) BY <1>3, <1>6
  <2>2. poly \in PolyType(W) /\ poly.links = tiles[i].polys[p].links
    BY <1>7, <2>1 DEF PolyType
  <2> HIDE DEF poly
  <2> QED BY <1>3, <1>6, <2>2
<1>9. tiles' = [tiles EXCEPT ![i].polys = polys] BY <1>2
<1> HIDE DEF polys
<1> QED BY <1>1, <1>2, <1>3, <1>4, <1>7, <1>8, <1>9, MarksSet

(* restoreTileState sets marks of polygons, and leaves their links.        *)
LEMMA RestoreTileStateMesh ==
    ASSUME IInv, MeshOK, NEW i \in Slots, RestoreTileState(i)
    PROVE  MeshOK'
<1> DEFINE old == tiles[i].polys
           polys == [k \in DOMAIN old |-> [old[k] EXCEPT !.flags = saved.polys[k][1],
                                                         !.area = saved.polys[k][2]]]
<1>1. ListsOK /\ RefsOK BY DEF IInv
<1>2. tiles' = [tiles EXCEPT ![i].polys = polys] /\ UNCHANGED <<slots, lut>>
  BY DEF RestoreTileState
<1>3. PICK V : tiles \in Linking(V, slots, All(slots), AllBases(slots))
  BY DEF MeshOK, LinksOK
<1> DEFINE W == V \cup {saved.polys[k][1] : k \in 1..Len(old)}
                  \cup {saved.polys[k][2] : k \in 1..Len(old)}
<1>4. tiles \in Linking(W, slots, All(slots), AllBases(slots)) BY <1>3, MoreMarks
<1>5. old \in Seq(PolyType(W)) BY <1>4 DEF Linking, Shaped, TileType, PolyType
<1>6. /\ V \subseteq W
      /\ \A k \in 1..Len(old) : saved.polys[k][1] \in W /\ saved.polys[k][2] \in W
  OBVIOUS
<1> HIDE DEF W
<1>7. /\ polys \in Seq(PolyType(W)) /\ Len(polys) = Len(old)
      /\ \A k \in 1..Len(polys) : polys[k].links = old[k].links
  <2>1. DOMAIN old = 1..Len(old) /\ Len(old) \in Nat BY <1>5
  <2>2. ASSUME NEW k \in 1..Len(old)
        PROVE  polys[k] \in PolyType(W) /\ polys[k].links = old[k].links
    <3>1. old[k] \in PolyType(W) BY <1>5, <2>1
    <3>2. polys[k] = [old[k] EXCEPT !.flags = saved.polys[k][1],
                                    !.area = saved.polys[k][2]]
      BY <2>1
    <3>3. saved.polys[k][1] \in W /\ saved.polys[k][2] \in W BY <1>6
    <3> HIDE DEF polys
    <3> QED BY <3>1, <3>2, <3>3 DEF PolyType
  <2>3. DOMAIN polys = 1..Len(old) /\ polys = [k \in 1..Len(old) |-> polys[k]]
    BY <2>1
  <2> HIDE DEF polys, old
  <2> QED BY <2>1, <2>2, <2>3
<1> HIDE DEF polys
<1> QED BY <1>1, <1>2, <1>3, <1>6, <1>7, MarksSet

(* So the links are as they should be throughout.                          *)
LEMMA NextMesh == IInv /\ MeshOK /\ [Next]_vars => MeshOK'
<1> SUFFICES ASSUME IInv, MeshOK, [Next]_vars PROVE MeshOK' OBVIOUS
<1>1. IInv' BY NextIInv
<1>2. \A r \in DOMAIN held : held[r] \in DOMAIN Data
  BY DEF IInv, RefsOK, RefsPast
<1>3. ASSUME UNCHANGED <<slots, tiles, lut>> PROVE MeshOK'
  BY <1>3 DEF MeshOK, LinksOK
<1>4. ASSUME NEW n \in DOMAIN Data, AddTile(n, NoRef) PROVE MeshOK'
  BY <1>1, <1>3, <1>4, AddTileMesh DEF vars
<1>5. ASSUME NEW r \in DOMAIN held, AddTile(held[r], r) PROVE MeshOK'
  BY <1>1, <1>2, <1>3, <1>5, AddTileMesh DEF vars
<1>6. ASSUME NEW r \in DOMAIN held, RemoveTile(r) PROVE MeshOK'
  <2>1. CASE GetTileByRef(r) = NoTile BY <1>3, <1>6, <2>1 DEF RemoveTile, vars
  <2> QED BY <1>1, <1>6, <2>1, RemoveTileMesh
<1>7. ASSUME NEW r \in DOMAIN held, NEW f, SetPolyFlags(r, f) PROVE MeshOK'
  BY <1>7, SetPolyFlagsMesh
<1>8. ASSUME NEW r \in DOMAIN held, NEW a, SetPolyArea(r, a) PROVE MeshOK'
  BY <1>8, SetPolyAreaMesh
<1>9. ASSUME NEW i \in Slots, RestoreTileState(i) PROVE MeshOK'
  BY <1>9, RestoreTileStateMesh
<1>10. \/ \E n \in DOMAIN Data : AddTile(n, NoRef)
       \/ \E r \in DOMAIN held : AddTile(held[r], r)
       \/ \E r \in DOMAIN held : RemoveTile(r)
       \/ \E r \in DOMAIN held : \E f : SetPolyFlags(r, f)
       \/ \E r \in DOMAIN held : \E a : SetPolyArea(r, a)
       \/ \E i \in Slots : RestoreTileState(i)
       \/ UNCHANGED <<slots, tiles, lut>>
  BY DEF Next, vars, StoreTileState, MarkedPolys
<1> QED BY <1>3, <1>4, <1>5, <1>6, <1>7, <1>8, <1>9, <1>10

(* The lists, the references and the links are in order throughout.        *)
LEMMA MeshInductive == Spec => [](IInv /\ MeshOK)
<1>1. Init => IInv /\ MeshOK BY InitIInv, InitMesh
<1>2. IInv /\ MeshOK /\ [Next]_vars => (IInv /\ MeshOK)' BY NextIInv, NextMesh
<1> QED BY <1>1, <1>2, PTL DEF Spec

-------------------------------------------------------------------------------
(* What the links are *)

(* Types hold, and every slot is in one list, once: a tile in the chain of *)
(* its location, where it is found, any other in the free list; and every  *)
(* link of a tile is in a polygon's list or free (addTile and removeTile,  *)
(* allocLink and freeLink).                                                *)
THEOREM SlotsSound == Spec => []SlotsOK
<1>1. IInv /\ MeshOK => SlotsOK
  <2> SUFFICES ASSUME IInv, MeshOK PROVE SlotsOK OBVIOUS
  <2>1. /\ FreeOK /\ LutOK /\ SlotsTyped /\ ListsOK /\ RefsOK
    BY DEF IInv, ListsOK
  <2>2. FreeSlotsListed BY <2>1, Counted DEF FreeOK, FreeSlotsListed
  <2>3. ASSUME NEW i \in Slots, NEW h \in DOMAIN lut
        PROVE  Times(i, lut[h]) = IF InChain(i, h) THEN 1 ELSE 0
    <3>1. OnceIn(lut[h]) /\ (Holds(lut[h], i) <=> InChain(i, h))
      BY <2>1 DEF LutOK
    <3> QED BY <3>1, Counted
  <2>4. PICK V : tiles \in Shaped(V, slots) BY DEF MeshOK, LinksOK, Linking
  <2>5. \A i \in Slots : /\ tiles[i] \in TileType(V)
                         /\ Total(Counts(tiles[i])) + tiles[i].free = Room(slots, i)
    BY <2>4 DEF Shaped
  <2>6. ASSUME NEW i \in UsedSlots PROVE TileFound(i) /\ LinksCounted(i)
    <3>1. i \in Slots /\ Used(slots, i) BY DEF UsedSlots
    <3>2. /\ slots[i].data \in DOMAIN Data /\ Header(slots, i) = Data[slots[i].data]
          /\ Room(slots, i) = Header(slots, i).maxLinks
      BY <2>1, <3>1, HeaderIs DEF SlotsTyped, Typed
    <3>3. Header(slots, i).x \in Int /\ Header(slots, i).y \in Int BY <3>2, DataIs
    <3>4. TileFound(i) BY <2>1, <3>1, <3>3, TileAtIs DEF TileFound, PlaceOf
    <3>5. LinkCount(i) = Total(Counts(tiles[i])) BY DEF LinkCount, Counts
    <3> QED BY <2>5, <3>1, <3>2, <3>4, <3>5 DEF LinksCounted
  <2>7. TypeOK
    <3>1. ASSUME NEW i \in Slots, NEW k \in 1..Len(tiles[i].polys),
                 NEW l \in Range(tiles[i].polys[k].links)
          PROVE  /\ l.limits[1] \in 0..255 /\ l.limits[2] \in 0..255
                 /\ l.side \in 0..7 \cup {Inside}
      <4> DEFINE polys == tiles[i].polys
      <4>3. polys \in Seq(PolyType(V)) BY <2>5 DEF TileType, PolyType
      <4>4. polys[k] \in PolyType(V)
        <5> HIDE DEF polys
        <5> QED BY <4>3 DEF polys
      <4>1. tiles[i].polys[k].links \in Seq(LinkType) BY <4>4 DEF PolyType
      <4>2. l \in LinkType BY <4>1 DEF Range
      <4> QED BY <4>2 DEF LinkType
    <3>2. \A i \in Slots : tiles[i].free \in Nat BY <2>5 DEF TileType
    <3>3. \A i \in Slots : /\ slots[i].salt \in 1..(Salts - 1)
                           /\ slots[i].data \in DOMAIN Data \cup {NoData}
      BY <2>1 DEF SlotsTyped, Salt
    <3>4. \A r \in DOMAIN held : held[r] \in DOMAIN Data BY <2>1 DEF RefsOK, RefsPast
    <3> QED BY <3>1, <3>2, <3>3, <3>4 DEF TypeOK
  <2> QED BY <2>2, <2>3, <2>6, <2>7 DEF SlotsOK, TilesListed
<1> QED BY <1>1, MeshInductive, PTL

\* A link without where it lies on an edge, as the properties name it.
Seen(x) == <<x[1], x[2], x[3].ref>>

\* Tile t is on one side of tile i, or is tile i.
Meets(ss, i, t, side) == IF i = t THEN side = AllSides ELSE Near(ss, i, t, side)

(* Links are within tiles, from where connections start, of portals to     *)
(* tiles that meet, and from connections to where they land.               *)
LEMMA AllAre ==
    ASSUME NEW ss, Typed(ss)
    PROVE  /\ \A i \in UsedIn(ss) : InnerFacts(ss, i) \cup BasesOf(ss, i) \subseteq All(ss)
           /\ \A i, t \in UsedIn(ss), side \in Sides : Meets(ss, i, t, side) =>
                 /\ i # t => PortalsTo(ss, i, t, side) \subseteq All(ss)
                 /\ LandsIn(ss, i, t, side) \subseteq All(ss)
           /\ \A x \in All(ss) :
                 \/ \E i \in UsedIn(ss) : x \in InnerFacts(ss, i)
                 \/ \E i \in UsedIn(ss) : x \in BasesOf(ss, i)
                 \/ \E i, t \in UsedIn(ss), side \in Sides :
                       /\ Meets(ss, i, t, side)
                       /\ i # t /\ x \in PortalsTo(ss, i, t, side)
                 \/ \E i, t \in UsedIn(ss), side \in Sides :
                       Meets(ss, i, t, side) /\ x \in LandsIn(ss, i, t, side)
<1>1. ASSUME NEW i \in UsedIn(ss)
      PROVE  /\ InnerFacts(ss, i) \subseteq All(ss) /\ BasesOf(ss, i) \subseteq All(ss)
             /\ LandsIn(ss, i, i, AllSides) \subseteq All(ss)
  BY DEF All, AllWithin, Within
<1>2. ASSUME NEW i \in UsedIn(ss), NEW t \in UsedIn(ss), NEW side \in Sides,
             Meets(ss, i, t, side), i # t
      PROVE  PortalsTo(ss, i, t, side) \cup LandsIn(ss, i, t, side) \subseteq All(ss)
  <2> DEFINE x == <<i, t, side>>
  <2>1. x \in Pairs(ss) BY <1>2 DEF Pairs, Meets
  <2>2. PortalsTo(ss, i, t, side) \cup LandsIn(ss, i, t, side)
           \subseteq Both(ss, x[1], x[2], x[3])
    BY DEF Both
  <2> HIDE DEF x
  <2> QED BY <2>1, <2>2 DEF All, AllBetween
<1>3. ASSUME NEW i \in UsedIn(ss), NEW t \in UsedIn(ss), NEW side \in Sides,
             Meets(ss, i, t, side)
      PROVE  LandsIn(ss, i, t, side) \subseteq All(ss)
  BY <1>1, <1>2, <1>3 DEF Meets
<1>4. ASSUME NEW x \in AllWithin(ss)
      PROVE  \/ \E i \in UsedIn(ss) : x \in InnerFacts(ss, i)
             \/ \E i \in UsedIn(ss) : x \in BasesOf(ss, i)
             \/ \E i, t \in UsedIn(ss), side \in Sides :
                   Meets(ss, i, t, side) /\ x \in LandsIn(ss, i, t, side)
  <2>1. PICK i \in UsedIn(ss) : x \in Within(ss, i) BY DEF AllWithin
  <2>2. AllSides \in Sides /\ Meets(ss, i, i, AllSides) BY DEF Sides, Meets
  <2> QED BY <2>1, <2>2 DEF Within
<1>5. ASSUME NEW x \in AllBetween(ss)
      PROVE  \E i, t \in UsedIn(ss), side \in Sides :
                /\ Meets(ss, i, t, side) /\ i # t
                /\ x \in PortalsTo(ss, i, t, side) \cup LandsIn(ss, i, t, side)
  <2>1. PICK p \in Pairs(ss) : x \in Both(ss, p[1], p[2], p[3]) BY DEF AllBetween
  <2> DEFINE i == p[1]
             t == p[2]
             side == p[3]
             back == Opposite(side)
  <2>2. /\ i \in UsedIn(ss) /\ t \in UsedIn(ss) /\ side \in Sides /\ i # t
        /\ Near(ss, i, t, side)
        /\ i \in Slots /\ Used(ss, i) /\ t \in Slots /\ Used(ss, t)
    BY DEF Pairs, UsedIn
  <2> HIDE DEF i, t, side
  <2>3. back \in Sides /\ Near(ss, t, i, back) BY <2>2, SidesOpposite, NearTurned
  <2>4. Meets(ss, i, t, side) /\ Meets(ss, t, i, back) BY <2>2, <2>3 DEF Meets
  <2>5. \/ x \in PortalsTo(ss, i, t, side) \cup LandsIn(ss, i, t, side)
        \/ x \in PortalsTo(ss, t, i, back) \cup LandsIn(ss, t, i, back)
    BY <2>1 DEF Both, i, t, side
  <2> HIDE DEF back
  <2> QED BY <2>2, <2>3, <2>4, <2>5
<1> QED BY <1>1, <1>2, <1>3, <1>4, <1>5 DEF All

(* The links between polygons of a tile that share an edge.                *)
LEMMA SeenInner ==
    ASSUME NEW ss, Typed(ss), NEW i \in Slots, Used(ss, i)
    PROVE  {Seen(x) : x \in InnerFacts(ss, i)}
              = {<<i, j[1], PolyRef(ss, i, j[2])>> : j \in Sharing[ss[i].data]}
<1> DEFINE n == ss[i].data
           d == Data[n]
           s == Sharing[n]
<1>1. n \in DOMAIN Data /\ Header(ss, i) = d BY HeaderIs
<1> HIDE DEF n
<1>2. /\ DOMAIN d.polys = 1..Len(d.polys)
      /\ \A k \in 1..Len(d.polys) : DOMAIN d.polys[k].neis = 1..Len(d.polys[k].neis)
  BY <1>1, DataIs
<1>3. ASSUME NEW e \in InnerOf(d)
      PROVE  <<e[1], Nei(d, e)>> \in s
  <2>1. /\ e[1] \in DOMAIN d.polys /\ e[2] \in DOMAIN d.polys[e[1]].neis
        /\ Nei(d, e) = d.polys[e[1]].neis[e[2]] /\ Nei(d, e) \in 1..(ExtLink - 1)
    BY <1>1, <1>2, EdgeIs DEF InnerOf
  <2> QED BY <1>1, <2>1 DEF Sharing
<1>4. ASSUME NEW j \in s
      PROVE  \E e \in InnerOf(d) : j = <<e[1], Nei(d, e)>>
  <2>1. PICK k \in DOMAIN d.polys : \E q \in DOMAIN d.polys[k].neis :
           j = <<k, d.polys[k].neis[q]>> /\ d.polys[k].neis[q] \in 1..(ExtLink - 1)
    BY <1>1 DEF Sharing
  <2>7. PICK q \in DOMAIN d.polys[k].neis :
           j = <<k, d.polys[k].neis[q]>> /\ d.polys[k].neis[q] \in 1..(ExtLink - 1)
    BY <2>1
  <2> DEFINE e == <<k, q>>
  <2>2. e \in AllEdges(d) BY <1>2, <2>7 DEF AllEdges
  <2>3. Nei(d, e) = d.polys[k].neis[q] /\ e[1] = k BY DEF Nei
  <2>4. Nei(d, e) # 0 BY <2>3, <2>7
  <2>5. d.polys[k].ground BY <1>1, <2>2, <2>3, <2>4, EdgeIs
  <2>6. e \in InnerOf(d) BY <2>2, <2>3, <2>5, <2>7 DEF InnerOf
  <2> HIDE DEF e
  <2> QED BY <2>3, <2>6, <2>7
<1> HIDE DEF s, d
<1>5. \A e : Seen(InnerFact(ss, i, e)) = <<i, e[1], PolyRef(ss, i, Nei(d, e))>>
  BY <1>1 DEF Seen, InnerFact
<1>6. ASSUME NEW x \in InnerFacts(ss, i)
      PROVE  Seen(x) \in {<<i, j[1], PolyRef(ss, i, j[2])>> : j \in s}
  <2>1. PICK e \in InnerOf(d) : x = InnerFact(ss, i, e) BY <1>1 DEF InnerFacts
  <2> DEFINE j == <<e[1], Nei(d, e)>>
  <2>2. j \in s /\ Seen(x) = <<i, j[1], PolyRef(ss, i, j[2])>> BY <1>3, <1>5, <2>1
  <2> HIDE DEF j
  <2> QED BY <2>2
<1>7. ASSUME NEW j \in s
      PROVE  <<i, j[1], PolyRef(ss, i, j[2])>> \in {Seen(x) : x \in InnerFacts(ss, i)}
  <2>1. PICK e \in InnerOf(d) : j = <<e[1], Nei(d, e)>> BY <1>4
  <2>2. InnerFact(ss, i, e) \in InnerFacts(ss, i) BY <1>1 DEF InnerFacts
  <2>3. Seen(InnerFact(ss, i, e)) = <<i, j[1], PolyRef(ss, i, j[2])>> BY <1>5, <2>1
  <2> QED BY <2>2, <2>3
<1>8. {Seen(x) : x \in InnerFacts(ss, i)} = {<<i, j[1], PolyRef(ss, i, j[2])>> : j \in s}
  BY <1>6, <1>7
<1> QED BY <1>8 DEF s, n

\* Polygons of tiles of data d and g that meet on one side of d.
MeetOn(d, g, side) ==
    UNION {{<<e[1], k>> : k \in Range(MetBy(d, e, g))} : e \in Range(Portals(d, side))}

(* The links of portals to a tile that meets.                              *)
LEMMA SeenPortals ==
    ASSUME NEW ss, Typed(ss), NEW i \in Slots, Used(ss, i), NEW t \in Slots, Used(ss, t),
           NEW side
    PROVE  {Seen(x) : x \in PortalsTo(ss, i, t, side)}
              = {<<i, j[1], PolyRef(ss, t, j[2])>> :
                    j \in MeetOn(Header(ss, i), Header(ss, t), side)}
<1> DEFINE d == Header(ss, i)
           g == Header(ss, t)
           s == MeetOn(d, g, side)
           A == {Seen(x) : x \in PortalsTo(ss, i, t, side)}
           C == {<<i, j[1], PolyRef(ss, t, j[2])>> : j \in s}
<1>1. ss[i].data \in DOMAIN Data /\ d = Data[ss[i].data] BY HeaderIs
<1>2. Range(Portals(d, side)) = PortalsOf(d, side) BY <1>1, PortalsIs
<1>3. \A e, k : Seen(PortalFact(ss, i, t, e, k)) = <<i, e[1], PolyRef(ss, t, k)>>
  BY DEF Seen, PortalFact
<1>4. ASSUME NEW x \in PortalsTo(ss, i, t, side) PROVE Seen(x) \in C
  <2>4. PICK e \in PortalsOf(d, side) : x \in EdgeFacts(ss, i, t, e) BY DEF PortalsTo
  <2>1. PICK k \in Range(MetBy(d, e, g)) : x = PortalFact(ss, i, t, e, k)
    BY <2>4 DEF EdgeFacts
  <2> DEFINE j == <<e[1], k>>
  <2>2. j \in s BY <1>2, <2>1 DEF MeetOn
  <2>3. Seen(x) = <<i, j[1], PolyRef(ss, t, j[2])>> BY <1>3, <2>1
  <2> HIDE DEF j, s
  <2> QED BY <2>2, <2>3
<1>5. ASSUME NEW j \in s PROVE <<i, j[1], PolyRef(ss, t, j[2])>> \in A
  <2>4. PICK e \in PortalsOf(d, side) : j \in {<<e[1], k>> : k \in Range(MetBy(d, e, g))}
    BY <1>2 DEF MeetOn
  <2>1. PICK k \in Range(MetBy(d, e, g)) : j = <<e[1], k>> BY <2>4
  <2>2. PortalFact(ss, i, t, e, k) \in PortalsTo(ss, i, t, side)
    BY <2>1 DEF PortalsTo, EdgeFacts
  <2>3. Seen(PortalFact(ss, i, t, e, k)) = <<i, j[1], PolyRef(ss, t, j[2])>>
    BY <1>3, <2>1
  <2> QED BY <2>2, <2>3
<1> QED BY <1>4, <1>5

\* The connections of tiles, and where they have to be to land in tile i.
HopsOf(ss) == {x \in UsedIn(ss) \X Nat : x[2] \in 1..Len(Header(ss, x[1]).cons)}
\* A connection, where it starts and lands, and the side it lies on.
Con(ss, x) == Header(ss, x[1]).cons[x[2]]
Start(ss, x) == BaseFoot(ss, x[1], x[2])
Landing(ss, x, i) == LandFoot(ss, i, x[1], x[2])
SideOf(con) == IF con.side = Inside THEN AllSides ELSE con.side
Lands(ss, x, i) ==
    /\ Start(ss, x) # 0 /\ Landing(ss, x, i) # 0
    /\ Neighbour(Header(ss, x[1]), Header(ss, i), SideOf(Con(ss, x)))

\* The links at the start of a connection, and at its end.
StartLinks(ss, x) ==
    {<<x[1], Con(ss, x).poly, PolyRef(ss, x[1], Start(ss, x))>>,
     <<x[1], Start(ss, x), PolyRef(ss, x[1], Con(ss, x).poly)>>}
EndLinks(ss, x, i) ==
    {<<x[1], Con(ss, x).poly, PolyRef(ss, i, Landing(ss, x, i))>>}
    \cup (IF Con(ss, x).flags # Bidir THEN {}
          ELSE {<<i, Landing(ss, x, i), PolyRef(ss, x[1], Con(ss, x).poly)>>})

(* Where the ends of connections are put.                                  *)
LEMMA FootingIs ==
    ASSUME Typed(slots), NEW x \in HopsOf(slots), NEW i \in UsedIn(slots)
    PROVE  /\ Footing[<<slots[x[1]].data, x[2]>>, "from", slots[x[1]].data]
                 = Start(slots, x)
           /\ Footing[<<slots[x[1]].data, x[2]>>, "to", slots[i].data]
                 = Landing(slots, x, i)
<1> DEFINE n == slots[x[1]].data
           m == slots[i].data
           hop == <<n, x[2]>>
<1>1. /\ x[1] \in Slots /\ Used(slots, x[1]) /\ i \in Slots /\ Used(slots, i)
      /\ x[2] \in 1..Len(Header(slots, x[1]).cons)
  BY DEF HopsOf, UsedIn
<1>2. /\ n \in DOMAIN Data /\ Header(slots, x[1]) = Data[n]
      /\ m \in DOMAIN Data /\ Header(slots, i) = Data[m]
  BY <1>1, HeaderIs
<1> HIDE DEF n, m
<1>3. DOMAIN Data[n].cons = 1..Len(Data[n].cons) BY <1>2, DataIs
<1>4. hop \in AllHops
  <2>1. x[2] \in DOMAIN Data[n].cons BY <1>1, <1>2, <1>3
  <2>2. hop \in {n} \X DOMAIN Data[n].cons BY <2>1
  <2> HIDE DEF hop
  <2> QED BY <1>2, <2>2 DEF AllHops
<1>5. hop[1] = n /\ hop[2] = x[2] OBVIOUS
<1> HIDE DEF hop
<1>6. ASSUME NEW end \in {"from", "to"}, NEW q \in DOMAIN Data
      PROVE  Footing[hop, end, q]
                = FindNearestPolyInTile(Data[q], Data[n].cons[x[2]][end],
                                        Data[n].cons[x[2]].rad, Data[n].climb)
  BY <1>4, <1>5, <1>6 DEF Footing
<1>7. Footing[hop, "from", n] = Start(slots, x)
  BY <1>2, <1>6 DEF Start, BaseFoot
<1>8. Footing[hop, "to", m] = Landing(slots, x, i)
  BY <1>2, <1>6 DEF Landing, LandFoot
<1> QED BY <1>7, <1>8 DEF hop, n, m

(* The links that connections should have.                                 *)
LEMMA ConnectionLinksAre ==
    ASSUME Typed(slots)
    PROVE  /\ \A x \in HopsOf(slots) :
                 Start(slots, x) # 0 => StartLinks(slots, x) \subseteq ConnectionLinks
           /\ \A x \in HopsOf(slots), i \in UsedIn(slots) :
                 Lands(slots, x, i) => EndLinks(slots, x, i) \subseteq ConnectionLinks
           /\ \A y \in ConnectionLinks :
                 \/ \E x \in HopsOf(slots) :
                       Start(slots, x) # 0 /\ y \in StartLinks(slots, x)
                 \/ \E x \in HopsOf(slots), i \in UsedIn(slots) :
                       Lands(slots, x, i) /\ y \in EndLinks(slots, x, i)
<1> DEFINE Hops == UNION {{i} \X (DOMAIN Header(slots, i).cons) : i \in UsedSlots}
           Foot(x, end, t) == Footing[<<slots[x[1]].data, x[2]>>, end, slots[t].data]
           In(x, t) == /\ Foot(x, "to", t) # 0
                       /\ Neighbour(Header(slots, x[1]), Header(slots, t),
                                    SideOf(Con(slots, x)))
           Ref(x) == PolyRef(slots, x[1], Con(slots, x).poly)
           Placed == {x \in Hops : Foot(x, "from", x[1]) # 0}
           Landed == {y \in Placed \X UsedSlots : In(y[1], y[2])}
           One(x) == <<x[1], Con(slots, x).poly,
                       PolyRef(slots, x[1], Foot(x, "from", x[1]))>>
           Two(x) == <<x[1], Foot(x, "from", x[1]), Ref(x)>>
           Three(y) == <<y[1][1], Con(slots, y[1]).poly,
                         PolyRef(slots, y[2], Foot(y[1], "to", y[2]))>>
           Four(y) == <<y[2], Foot(y[1], "to", y[2]), Ref(y[1])>>
<1>1. ConnectionLinks
         = {One(x) : x \in Placed} \cup {Two(x) : x \in Placed}
           \cup {Three(y) : y \in Landed}
           \cup {Four(y) : y \in {y \in Landed : Con(slots, y[1]).flags = Bidir}}
  BY DEF ConnectionLinks, SideOf, Con
<1>2. UsedSlots = UsedIn(slots) BY DEF UsedSlots, UsedIn
<1>3. Hops = HopsOf(slots)
  <2>1. ASSUME NEW i \in UsedIn(slots)
        PROVE  DOMAIN Header(slots, i).cons = 1..Len(Header(slots, i).cons)
    <3>1. /\ slots[i].data \in DOMAIN Data /\ Header(slots, i) = Data[slots[i].data]
      BY HeaderIs DEF UsedIn
    <3> QED BY <3>1, DataIs
  <2>2. \A x \in Hops : x \in HopsOf(slots) BY <1>2, <2>1 DEF HopsOf
  <2>3. \A x \in HopsOf(slots) : x \in Hops
    <3> SUFFICES ASSUME NEW x \in HopsOf(slots) PROVE x \in Hops OBVIOUS
    <3>1. x = <<x[1], x[2]>> /\ x[1] \in UsedIn(slots)
          /\ x[2] \in DOMAIN Header(slots, x[1]).cons
      BY <2>1 DEF HopsOf
    <3> QED BY <1>2, <3>1
  <2> HIDE DEF Hops
  <2> QED BY <2>2, <2>3
<1>4. \A x \in HopsOf(slots) : Foot(x, "from", x[1]) = Start(slots, x)
  <2>1. \A x \in HopsOf(slots) : x[1] \in UsedIn(slots) BY DEF HopsOf
  <2> QED BY <2>1, FootingIs
<1>5. \A x \in HopsOf(slots) : \A i \in UsedIn(slots) :
         Foot(x, "to", i) = Landing(slots, x, i)
  BY FootingIs
<1> HIDE DEF Hops, Foot
<1>6. \A x : x \in Placed <=> x \in HopsOf(slots) /\ Start(slots, x) # 0
  BY <1>3, <1>4
<1>7. \A x, i : <<x, i>> \in Landed <=> x \in HopsOf(slots) /\ i \in UsedIn(slots)
                                          /\ Lands(slots, x, i)
  BY <1>2, <1>5, <1>6 DEF Lands
<1>8. \A y \in Landed : y = <<y[1], y[2]>> OBVIOUS
<1> HIDE DEF Placed, Landed
<1>9. \A x \in Placed : StartLinks(slots, x) = {One(x), Two(x)}
  BY <1>4, <1>6 DEF StartLinks
<1>10. ASSUME NEW x, NEW i, <<x, i>> \in Landed
       PROVE  EndLinks(slots, x, i) = {Three(<<x, i>>)} \cup
                 (IF Con(slots, x).flags # Bidir THEN {} ELSE {Four(<<x, i>>)})
  BY <1>5, <1>7, <1>10 DEF EndLinks
<1> HIDE DEF One, Two, Three, Four
<1>11. ASSUME NEW x \in HopsOf(slots), Start(slots, x) # 0
       PROVE  StartLinks(slots, x) \subseteq ConnectionLinks
  BY <1>1, <1>6, <1>9, <1>11
<1>12. ASSUME NEW x \in HopsOf(slots), NEW i \in UsedIn(slots), Lands(slots, x, i)
       PROVE  EndLinks(slots, x, i) \subseteq ConnectionLinks
  <2>1. <<x, i>> \in Landed BY <1>7, <1>12
  <2>2. Three(<<x, i>>) \in ConnectionLinks BY <1>1, <2>1
  <2>3. Con(slots, x).flags = Bidir => Four(<<x, i>>) \in ConnectionLinks
    <3> DEFINE y == <<x, i>>
    <3>1. y \in Landed /\ y[1] = x BY <2>1
    <3> HIDE DEF y
    <3> QED BY <1>1, <3>1 DEF y
  <2> QED BY <1>10, <2>1, <2>2, <2>3
<1>13. ASSUME NEW z \in ConnectionLinks
       PROVE  \/ \E x \in HopsOf(slots) :
                    Start(slots, x) # 0 /\ z \in StartLinks(slots, x)
              \/ \E x \in HopsOf(slots), i \in UsedIn(slots) :
                    Lands(slots, x, i) /\ z \in EndLinks(slots, x, i)
  <2>1. \/ \E x \in Placed : z = One(x) \/ z = Two(x)
        \/ \E y \in Landed : z = Three(y)
        \/ \E y \in Landed : Con(slots, y[1]).flags = Bidir /\ z = Four(y)
    BY <1>1
  <2>2. ASSUME NEW x \in Placed, z = One(x) \/ z = Two(x)
        PROVE  x \in HopsOf(slots) /\ Start(slots, x) # 0 /\ z \in StartLinks(slots, x)
    BY <1>6, <1>9, <2>2
  <2>3. ASSUME NEW y \in Landed,
               z = Three(y) \/ (Con(slots, y[1]).flags = Bidir /\ z = Four(y))
        PROVE  /\ y[1] \in HopsOf(slots) /\ y[2] \in UsedIn(slots)
               /\ Lands(slots, y[1], y[2]) /\ z \in EndLinks(slots, y[1], y[2])
    <3>1. y = <<y[1], y[2]>> /\ <<y[1], y[2]>> \in Landed BY <1>8
    <3>2. z \in EndLinks(slots, y[1], y[2]) BY <1>10, <2>3, <3>1
    <3> QED BY <1>7, <3>1, <3>2
  <2> QED BY <2>1, <2>2, <2>3
<1> QED BY <1>11, <1>12, <1>13

(* The links where a connection starts.                                    *)
LEMMA SeenBase ==
    ASSUME NEW ss, NEW i, NEW c, BaseFoot(ss, i, c) # 0
    PROVE  {Seen(x) : x \in BaseFacts(ss, i, c)} = StartLinks(ss, <<i, c>>)
<1> DEFINE con == Header(ss, i).cons[c]
           k == BaseFoot(ss, i, c)
           a == <<i, con.poly, OffMeshLink(PolyRef(ss, i, k), 0, Inside)>>
           b == <<i, k, OffMeshLink(PolyRef(ss, i, con.poly), 255, Inside)>>
<1>1. BaseFacts(ss, i, c) = {a, b} BY DEF BaseFacts
<1>2. StartLinks(ss, <<i, c>>)
         = {<<i, con.poly, PolyRef(ss, i, k)>>, <<i, k, PolyRef(ss, i, con.poly)>>}
  BY DEF StartLinks, Con, Start
<1>3. /\ Seen(a) = <<i, con.poly, PolyRef(ss, i, k)>>
      /\ Seen(b) = <<i, k, PolyRef(ss, i, con.poly)>>
  BY DEF Seen, OffMeshLink
<1> HIDE DEF a, b
<1> QED BY <1>1, <1>2, <1>3

(* Those where it lands.                                                   *)
LEMMA SeenLand ==
    ASSUME NEW ss, NEW i, NEW t, NEW c, NEW side,
           Header(ss, t).cons[c].side = OppositeOf(side),
           BaseFoot(ss, t, c) # 0, LandFoot(ss, i, t, c) # 0
    PROVE  {Seen(x) : x \in LandFacts(ss, i, t, c, side)} = EndLinks(ss, <<t, c>>, i)
<1> DEFINE con == Header(ss, t).cons[c]
           k == LandFoot(ss, i, t, c)
           a == <<t, con.poly, OffMeshLink(PolyRef(ss, i, k), 1, OppositeOf(side))>>
           b == <<i, k, OffMeshLink(PolyRef(ss, t, con.poly), 255,
                                    IF side = AllSides THEN Inside ELSE side)>>
           p == <<t, con.poly, PolyRef(ss, i, k)>>
           q == <<i, k, PolyRef(ss, t, con.poly)>>
<1>1. LandFacts(ss, i, t, c, side) = {a} \cup (IF con.flags # Bidir THEN {} ELSE {b})
  BY DEF LandFacts
<1>2. EndLinks(ss, <<t, c>>, i) = {p} \cup (IF con.flags # Bidir THEN {} ELSE {q})
  BY DEF EndLinks, Con, Landing
<1>3. Seen(a) = p /\ Seen(b) = q BY DEF Seen, OffMeshLink
<1> HIDE DEF a, b, p, q, con
<1>4. CASE con.flags = Bidir BY <1>1, <1>2, <1>3, <1>4
<1>5. CASE con.flags # Bidir BY <1>1, <1>2, <1>3, <1>5
<1> QED BY <1>4, <1>5

(* A connection is looked at from the tile it should land in, and only     *)
(* from there.                                                             *)
LEMMA LandsWhere ==
    ASSUME NEW ss, Typed(ss), NEW i \in UsedIn(ss), NEW x \in HopsOf(ss)
    PROVE  (\E side \in Sides : Meets(ss, i, x[1], side)
                                  /\ Con(ss, x).side = OppositeOf(side))
              <=> Neighbour(Header(ss, x[1]), Header(ss, i), SideOf(Con(ss, x)))
<1> DEFINE t == x[1]
           con == Con(ss, x)
           back == SideOf(con)
<1>1. /\ i \in Slots /\ Used(ss, i) /\ t \in Slots /\ Used(ss, t)
      /\ x[2] \in 1..Len(Header(ss, t).cons)
  BY DEF UsedIn, HopsOf
<1>2. con.side \in 0..7 \cup {Inside}
  <2>1. ss[t].data \in DOMAIN Data /\ Header(ss, t) = Data[ss[t].data]
    BY <1>1, HeaderIs
  <2> QED BY <1>1, <2>1, DataIs DEF Con
<1> HIDE DEF t, con
<1>3. back \in Sides /\ con.side = OppositeOf(Opposite(back))
      /\ Opposite(Opposite(back)) = back /\ Opposite(back) \in Sides
  <2>1. back \in Sides BY <1>2 DEF SideOf, Sides
  <2>2. CASE con.side = Inside
    BY <2>1, <2>2, SidesOpposite DEF SideOf, Opposite, OppositeOf
  <2>3. CASE con.side # Inside
    <3>1. con.side \in 0..7 /\ back = con.side /\ con.side # AllSides
      BY <1>2, <2>3 DEF SideOf, AllSides
    <3>2. Opposite(back) = OppositeTile(back) BY <3>1 DEF Opposite
    <3>3. Opposite(Opposite(back)) = back /\ Opposite(back) \in Sides
      BY <2>1, SidesOpposite
    <3>4. OppositeTile(back) # AllSides
      BY <3>1 DEF OppositeTile, AllSides
    <3> QED BY <2>1, <3>1, <3>2, <3>3, <3>4 DEF OppositeOf, Opposite
  <2> QED BY <2>2, <2>3
<1>4. ASSUME NEW side \in Sides, con.side = OppositeOf(side)
      PROVE  side = Opposite(back)
  <2>1. CASE side = AllSides
    BY <1>4, <2>1 DEF OppositeOf, SideOf, Opposite
  <2>2. CASE side # AllSides
    <3>1. side \in 0..7 /\ con.side = OppositeTile(side)
      BY <1>4, <2>2 DEF OppositeOf, Sides
    <3>2. OppositeTile(side) \in 0..7 BY <3>1 DEF OppositeTile
    <3>3. back = con.side BY <3>1, <3>2 DEF SideOf, Inside
    <3>4. Opposite(side) = con.side BY <2>2, <3>1 DEF Opposite
    <3>5. Opposite(Opposite(side)) = side BY SidesOpposite
    <3> QED BY <3>3, <3>4, <3>5
  <2> QED BY <2>1, <2>2
<1> HIDE DEF back
<1>5. Near(ss, t, i, back) <=> Neighbour(Header(ss, t), Header(ss, i), back)
  BY DEF Near, Neighbour, PlaceOf
<1>6. CASE i # t
  <2>1. Near(ss, t, i, back) => Near(ss, i, t, Opposite(back))
    BY <1>1, <1>3, NearTurned
  <2>2. Near(ss, i, t, Opposite(back)) => Near(ss, t, i, back)
    BY <1>1, <1>3, NearTurned
  <2>3. Meets(ss, i, t, Opposite(back)) <=> Near(ss, i, t, Opposite(back))
    BY <1>6 DEF Meets
  <2> QED BY <1>3, <1>4, <1>5, <2>1, <2>2, <2>3 DEF t, con, back
<1>7. CASE i = t
  <2>1. Near(ss, i, i, back) <=> back = AllSides
    <3>1. /\ ss[i].data \in DOMAIN Data /\ Header(ss, i) = Data[ss[i].data]
      BY <1>1, HeaderIs
    <3>2. Header(ss, i).x \in Int /\ Header(ss, i).y \in Int BY <3>1, DataIs
    <3>3. Near(ss, i, i, back) <=> StepX(back) = 0 /\ StepY(back) = 0
      <4> DEFINE u == Header(ss, i).x
                 v == Header(ss, i).y
      <4>1. /\ Beside(u, v, back) = <<u + StepX(back), v + StepY(back)>>
            /\ StepX(back) \in Int /\ StepY(back) \in Int
        BY BesideIs
      <4>2. Near(ss, i, i, back) <=>
               u + StepX(back) = u /\ v + StepY(back) = v
        BY <4>1 DEF Near, PlaceOf
      <4>3. u \in Int /\ v \in Int BY <3>2
      <4> HIDE DEF u, v
      <4> QED BY <4>1, <4>2, <4>3
    <3>4. StepX(back) = 0 /\ StepY(back) = 0 <=> back = AllSides
      BY <1>3 DEF StepX, StepY, Sides, AllSides
    <3> QED BY <3>3, <3>4
  <2>2. Meets(ss, i, t, Opposite(back)) <=> Opposite(back) = AllSides
    BY <1>7 DEF Meets
  <2>3. Opposite(back) = AllSides <=> back = AllSides
    <3>1. Opposite(AllSides) = AllSides BY DEF Opposite
    <3> QED BY <1>3, <3>1
  <2> QED BY <1>3, <1>4, <1>5, <1>7, <2>1, <2>2, <2>3 DEF t, con, back
<1> QED BY <1>6, <1>7

(* Which polygons of two tiles meet, on whatever side.                     *)
LEMMA MeetingIs ==
    ASSUME NEW ss, Typed(ss), NEW i \in Slots, Used(ss, i), NEW t \in Slots, Used(ss, t)
    PROVE  Meeting[<<ss[i].data, ss[t].data>>]
              = UNION {MeetOn(Header(ss, i), Header(ss, t), side) :
                          side \in {side \in Sides : Near(ss, i, t, side)}}
<1> DEFINE x == <<ss[i].data, ss[t].data>>
           d == Data[x[1]]
           g == Data[x[2]]
           Met(e) == FindConnectingPolys(Edge(d, e[1], e[2]), g, OppositeTile(Dir(d, e)))
           S == {s \in {AllSides} \cup 0..7 : Neighbour(d, g, s)}
<1>1. /\ x[1] \in DOMAIN Data /\ Header(ss, i) = d
      /\ x[2] \in DOMAIN Data /\ Header(ss, t) = g
  BY HeaderIs
<1>2. x \in (DOMAIN Data) \X (DOMAIN Data) BY <1>1
<1> HIDE DEF x
<1>3. Meeting[x] = UNION {UNION {{<<e[1], k>> : k \in Range(Met(e))} :
                             e \in Range(Portals(d, s))} : s \in S}
  BY <1>2 DEF Meeting
<1>4. \A e : Met(e) = MetBy(d, e, g) BY DEF MetBy, EdgeAt
<1> HIDE DEF Met
<1>5. \A s : UNION {{<<e[1], k>> : k \in Range(Met(e))} : e \in Range(Portals(d, s))}
                = MeetOn(d, g, s)
  BY <1>4 DEF MeetOn
<1>6. S = {side \in Sides : Near(ss, i, t, side)}
  BY <1>1 DEF Sides, Near, Neighbour, PlaceOf
<1> HIDE DEF S, d, g
<1> QED BY <1>1, <1>3, <1>5, <1>6 DEF x

(* The links there should be, as LinksAsIfFresh puts them.                 *)
LEMMA SeenPortalLinks ==
    ASSUME Typed(slots)
    PROVE  /\ \A i, t \in UsedIn(slots), side \in Sides :
                 i # t /\ Meets(slots, i, t, side) =>
                    {Seen(x) : x \in PortalsTo(slots, i, t, side)} \subseteq PortalLinks
           /\ \A y \in PortalLinks : \E i, t \in UsedIn(slots), side \in Sides :
                 /\ i # t /\ Meets(slots, i, t, side)
                 /\ y \in {Seen(x) : x \in PortalsTo(slots, i, t, side)}
<1> DEFINE P(i, t) == {<<i, j[1], PolyRef(slots, t, j[2])>> :
                          j \in Meeting[<<slots[i].data, slots[t].data>>]}
           Q(i, t, side) == {<<i, j[1], PolyRef(slots, t, j[2])>> :
                                j \in MeetOn(Header(slots, i), Header(slots, t), side)}
<1>1. UsedSlots = UsedIn(slots) BY DEF UsedSlots, UsedIn
<1>2. PortalLinks = UNION {UNION {P(i, t) : t \in UsedSlots \ {i}} : i \in UsedSlots}
  BY DEF PortalLinks
<1>3. ASSUME NEW i \in UsedIn(slots), NEW t \in UsedIn(slots)
      PROVE  /\ Meeting[<<slots[i].data, slots[t].data>>]
                   = UNION {MeetOn(Header(slots, i), Header(slots, t), side) :
                               side \in {side \in Sides : Near(slots, i, t, side)}}
             /\ \A side : {Seen(x) : x \in PortalsTo(slots, i, t, side)} = Q(i, t, side)
  <2>1. i \in Slots /\ Used(slots, i) /\ t \in Slots /\ Used(slots, t) BY DEF UsedIn
  <2> QED BY <2>1, MeetingIs, SeenPortals
<1>4. ASSUME NEW i \in UsedIn(slots), NEW t \in UsedIn(slots), NEW side \in Sides,
             i # t, Meets(slots, i, t, side)
      PROVE  {Seen(x) : x \in PortalsTo(slots, i, t, side)} \subseteq PortalLinks
  <2>1. Near(slots, i, t, side) BY <1>4 DEF Meets
  <2>2. Q(i, t, side) \subseteq P(i, t) BY <1>3, <2>1
  <2>3. {Seen(x) : x \in PortalsTo(slots, i, t, side)} = Q(i, t, side) BY <1>3
  <2> HIDE DEF P, Q
  <2>4. P(i, t) \subseteq PortalLinks BY <1>1, <1>2, <1>4
  <2> QED BY <2>2, <2>3, <2>4
<1>5. ASSUME NEW y \in PortalLinks
      PROVE  \E i, t \in UsedIn(slots), side \in Sides :
                /\ i # t /\ Meets(slots, i, t, side)
                /\ y \in {Seen(x) : x \in PortalsTo(slots, i, t, side)}
  <2>1. PICK i \in UsedIn(slots) : y \in UNION {P(i, t) : t \in UsedSlots \ {i}}
    <3> HIDE DEF P
    <3> QED BY <1>1, <1>2
  <2>2. PICK t \in UsedIn(slots) : i # t /\ y \in P(i, t)
    <3> HIDE DEF P
    <3> QED BY <1>1, <2>1
  <2>3. PICK j \in Meeting[<<slots[i].data, slots[t].data>>] :
           y = <<i, j[1], PolyRef(slots, t, j[2])>>
    BY <2>2
  <2>4. PICK side \in Sides :
           Near(slots, i, t, side) /\ j \in MeetOn(Header(slots, i), Header(slots, t), side)
    BY <1>3, <2>3
  <2>5. y \in Q(i, t, side) BY <2>3, <2>4
  <2>6. Meets(slots, i, t, side) BY <2>2, <2>4 DEF Meets
  <2> HIDE DEF P, Q
  <2> QED BY <1>3, <2>2, <2>5, <2>6
<1> QED BY <1>4, <1>5

(* The links of connections that land are those the property names.        *)
LEMMA SeenLandsIn ==
    ASSUME Typed(slots)
    PROVE  /\ \A i, t \in UsedIn(slots), side \in Sides :
                 Meets(slots, i, t, side) =>
                    {Seen(x) : x \in LandsIn(slots, i, t, side)} \subseteq ConnectionLinks
           /\ \A h \in HopsOf(slots), i \in UsedIn(slots) : Lands(slots, h, i) =>
                 \E t \in UsedIn(slots), side \in Sides :
                    /\ Meets(slots, i, t, side)
                    /\ EndLinks(slots, h, i)
                          \subseteq {Seen(x) : x \in LandsIn(slots, i, t, side)}
<1>1. ASSUME NEW i \in UsedIn(slots), NEW t \in UsedIn(slots), NEW side \in Sides,
             Meets(slots, i, t, side), NEW x \in LandsIn(slots, i, t, side)
      PROVE  Seen(x) \in ConnectionLinks
  <2>1. PICK c \in 1..Len(Header(slots, t).cons) : x \in LandFacts(slots, i, t, c, side)
    BY DEF LandsIn
  <2>2. /\ Header(slots, t).cons[c].side = OppositeOf(side)
        /\ BaseFoot(slots, t, c) # 0 /\ LandFoot(slots, i, t, c) # 0
    BY <2>1 DEF LandFacts
  <2> DEFINE h == <<t, c>>
  <2>3. h[1] = t /\ h[2] = c OBVIOUS
  <2>4. {Seen(y) : y \in LandFacts(slots, i, t, c, side)} = EndLinks(slots, h, i)
    BY <2>2, SeenLand
  <2>5. c \in Nat OBVIOUS
  <2>6. h \in HopsOf(slots) BY <2>5 DEF HopsOf
  <2> HIDE DEF h
  <2>7. Con(slots, h).side = OppositeOf(side) /\ Start(slots, h) # 0
        /\ Landing(slots, h, i) # 0
    BY <2>2, <2>3 DEF Con, Start, Landing
  <2>8. Neighbour(Header(slots, t), Header(slots, i), SideOf(Con(slots, h)))
    BY <1>1, <2>3, <2>6, <2>7, LandsWhere
  <2>9. Lands(slots, h, i) BY <2>3, <2>7, <2>8 DEF Lands
  <2>10. EndLinks(slots, h, i) \subseteq ConnectionLinks
    BY <2>6, <2>9, ConnectionLinksAre
  <2> QED BY <2>1, <2>4, <2>10
<1>2. ASSUME NEW h \in HopsOf(slots), NEW i \in UsedIn(slots), Lands(slots, h, i)
      PROVE  \E t \in UsedIn(slots), side \in Sides :
                /\ Meets(slots, i, t, side)
                /\ EndLinks(slots, h, i)
                      \subseteq {Seen(x) : x \in LandsIn(slots, i, t, side)}
  <2> DEFINE t == h[1]
             c == h[2]
  <2>1. h = <<t, c>> /\ t \in UsedIn(slots) /\ c \in 1..Len(Header(slots, t).cons)
    BY DEF HopsOf
  <2>2. Neighbour(Header(slots, t), Header(slots, i), SideOf(Con(slots, h)))
        /\ Start(slots, h) # 0 /\ Landing(slots, h, i) # 0
    BY <1>2 DEF Lands
  <2>3. PICK side \in Sides : Meets(slots, i, t, side)
                                 /\ Con(slots, h).side = OppositeOf(side)
    BY <2>2, LandsWhere
  <2>4. /\ Header(slots, t).cons[c].side = OppositeOf(side)
        /\ BaseFoot(slots, t, c) # 0 /\ LandFoot(slots, i, t, c) # 0
    BY <2>2, <2>3 DEF Con, Start, Landing
  <2>5. {Seen(x) : x \in LandFacts(slots, i, t, c, side)} = EndLinks(slots, <<t, c>>, i)
    BY <2>4, SeenLand
  <2> HIDE DEF t, c
  <2>6. LandFacts(slots, i, t, c, side) \subseteq LandsIn(slots, i, t, side)
    BY <2>1 DEF LandsIn
  <2>7. EndLinks(slots, h, i) \subseteq {Seen(x) : x \in LandsIn(slots, i, t, side)}
    BY <2>1, <2>5, <2>6
  <2> QED BY <2>1, <2>3, <2>7
<1> QED BY <1>1, <1>2

(* The links tiles should have are, but for where they lie on an edge,     *)
(* those that the property names.                                          *)
LEMMA AllSeen ==
    ASSUME Typed(slots)
    PROVE  {Seen(x) : x \in All(slots)} = PortalLinks \cup InnerLinks \cup ConnectionLinks
<1> DEFINE Should == PortalLinks \cup InnerLinks \cup ConnectionLinks
           Inner(i) == {<<i, j[1], PolyRef(slots, i, j[2])>> : j \in Sharing[slots[i].data]}
<1>1. InnerLinks = UNION {Inner(i) : i \in UsedIn(slots)}
  BY DEF InnerLinks, UsedSlots, UsedIn
<1>2. \A i \in UsedIn(slots) : {Seen(x) : x \in InnerFacts(slots, i)} = Inner(i)
  BY SeenInner DEF UsedIn
<1> HIDE DEF Inner
<1>3. ASSUME NEW i \in UsedIn(slots), NEW x \in BasesOf(slots, i)
      PROVE  Seen(x) \in ConnectionLinks
  <2>1. PICK c \in 1..Len(Header(slots, i).cons) : x \in BaseFacts(slots, i, c)
    BY DEF BasesOf
  <2>2. BaseFoot(slots, i, c) # 0 BY <2>1 DEF BaseFacts
  <2> DEFINE h == <<i, c>>
  <2>3. {Seen(y) : y \in BaseFacts(slots, i, c)} = StartLinks(slots, h)
    BY <2>2, SeenBase
  <2>4. c \in Nat /\ h[1] = i /\ h[2] = c OBVIOUS
  <2>5. h \in HopsOf(slots) BY <2>4 DEF HopsOf
  <2> HIDE DEF h
  <2>6. Start(slots, h) # 0 BY <2>2, <2>4 DEF Start
  <2>7. StartLinks(slots, h) \subseteq ConnectionLinks
    BY <2>5, <2>6, ConnectionLinksAre
  <2> QED BY <2>1, <2>3, <2>7
<1>4. ASSUME NEW x \in All(slots) PROVE Seen(x) \in Should
  <2>1. CASE \E i \in UsedIn(slots) : x \in InnerFacts(slots, i) BY <1>1, <1>2, <2>1
  <2>2. CASE \E i \in UsedIn(slots) : x \in BasesOf(slots, i) BY <1>3, <2>2
  <2>3. CASE \E i, t \in UsedIn(slots), side \in Sides :
                /\ Meets(slots, i, t, side)
                /\ i # t /\ x \in PortalsTo(slots, i, t, side)
    <3>1. PICK i \in UsedIn(slots), t \in UsedIn(slots), side \in Sides :
             Meets(slots, i, t, side) /\ i # t /\ x \in PortalsTo(slots, i, t, side)
      BY <2>3
    <3>2. {Seen(y) : y \in PortalsTo(slots, i, t, side)} \subseteq PortalLinks
      BY <3>1, SeenPortalLinks
    <3> QED BY <3>1, <3>2
  <2>4. CASE \E i, t \in UsedIn(slots), side \in Sides :
                Meets(slots, i, t, side) /\ x \in LandsIn(slots, i, t, side)
    <3>1. PICK i \in UsedIn(slots), t \in UsedIn(slots), side \in Sides :
             Meets(slots, i, t, side) /\ x \in LandsIn(slots, i, t, side)
      BY <2>4
    <3>2. {Seen(y) : y \in LandsIn(slots, i, t, side)} \subseteq ConnectionLinks
      BY <3>1, SeenLandsIn
    <3> QED BY <3>1, <3>2
  <2> QED BY <2>1, <2>2, <2>3, <2>4, AllAre
<1>5. ASSUME NEW y \in PortalLinks PROVE \E x \in All(slots) : y = Seen(x)
  <2>1. PICK i \in UsedIn(slots), t \in UsedIn(slots), side \in Sides :
           /\ i # t /\ Meets(slots, i, t, side)
           /\ y \in {Seen(x) : x \in PortalsTo(slots, i, t, side)}
    BY SeenPortalLinks
  <2>2. PortalsTo(slots, i, t, side) \subseteq All(slots) BY <2>1, AllAre
  <2> QED BY <2>1, <2>2
<1>6. ASSUME NEW y \in InnerLinks PROVE \E x \in All(slots) : y = Seen(x)
  <2>1. PICK i \in UsedIn(slots) : y \in Inner(i) BY <1>1
  <2>2. y \in {Seen(x) : x \in InnerFacts(slots, i)} BY <1>2, <2>1
  <2>3. InnerFacts(slots, i) \cup BasesOf(slots, i) \subseteq All(slots) BY AllAre
  <2> QED BY <2>2, <2>3
<1>7. ASSUME NEW y \in ConnectionLinks PROVE \E x \in All(slots) : y = Seen(x)
  <2>1. CASE \E h \in HopsOf(slots) : Start(slots, h) # 0 /\ y \in StartLinks(slots, h)
    <3>1. PICK h \in HopsOf(slots) : Start(slots, h) # 0 /\ y \in StartLinks(slots, h)
      BY <2>1
    <3> DEFINE i == h[1]
               c == h[2]
    <3>2. h = <<i, c>> /\ i \in UsedIn(slots) /\ c \in 1..Len(Header(slots, i).cons)
      BY DEF HopsOf
    <3>3. BaseFoot(slots, i, c) # 0 BY <3>1 DEF Start
    <3> HIDE DEF i, c
    <3>4. {Seen(x) : x \in BaseFacts(slots, i, c)} = StartLinks(slots, h)
      BY <3>2, <3>3, SeenBase
    <3>5. BaseFacts(slots, i, c) \subseteq BasesOf(slots, i) BY <3>2 DEF BasesOf
    <3>6. InnerFacts(slots, i) \cup BasesOf(slots, i) \subseteq All(slots)
      BY <3>2, AllAre
    <3> QED BY <3>1, <3>4, <3>5, <3>6
  <2>2. CASE \E h \in HopsOf(slots), i \in UsedIn(slots) :
                Lands(slots, h, i) /\ y \in EndLinks(slots, h, i)
    <3>1. PICK h \in HopsOf(slots), i \in UsedIn(slots) :
             Lands(slots, h, i) /\ y \in EndLinks(slots, h, i)
      BY <2>2
    <3>2. PICK t \in UsedIn(slots), side \in Sides :
             /\ Meets(slots, i, t, side)
             /\ EndLinks(slots, h, i) \subseteq {Seen(x) : x \in LandsIn(slots, i, t, side)}
      BY <3>1, SeenLandsIn
    <3>3. LandsIn(slots, i, t, side) \subseteq All(slots) BY <3>2, AllAre
    <3> QED BY <3>1, <3>2, <3>3
  <2> QED BY <2>1, <2>2, ConnectionLinksAre
<1> HIDE DEF Should
<1>8. {Seen(x) : x \in All(slots)} \subseteq Should BY <1>4
<1>9. Should \subseteq {Seen(x) : x \in All(slots)} BY <1>5, <1>6, <1>7 DEF Should
<1> QED BY <1>8, <1>9 DEF Should

(* The links that are made.                                                *)
LEMMA MadeIs ==
    ASSUME ListsOK, NEW V, NEW S \in SUBSET Facts(slots), NEW B \in SUBSET S,
           tiles \in Linking(V, slots, S, B), \A x \in S : Used(slots, x[1])
    PROVE  /\ \A y \in MadeLinks : \E x \in S : Made(tiles, x) /\ y = Seen(x)
           /\ \A x \in S : Made(tiles, x) => Seen(x) \in MadeLinks
<1>1. tiles \in Shaped(V, slots) BY DEF Linking
<1>2. \A i \in Slots : Len(tiles[i].polys) = Size(slots, i) BY <1>1 DEF Shaped
<1> DEFINE Of(i, k) == {<<i, k, l.ref>> : l \in Range(tiles[i].polys[k].links)}
<1>3. MadeLinks = UNION {UNION {Of(i, k) : k \in 1..Len(tiles[i].polys)} : i \in UsedSlots}
  BY DEF MadeLinks
<1>4. ASSUME NEW y \in MadeLinks PROVE \E x \in S : Made(tiles, x) /\ y = Seen(x)
  <2>1. PICK i \in UsedSlots : y \in UNION {Of(i, k) : k \in 1..Len(tiles[i].polys)}
    <3> HIDE DEF Of
    <3> QED BY <1>3
  <2>2. PICK k \in 1..Len(tiles[i].polys) : y \in Of(i, k)
    <3> HIDE DEF Of
    <3> QED BY <2>1
  <2>3. PICK l \in LinksOf(tiles, i, k) : y = <<i, k, l.ref>> BY <2>2 DEF LinksOf
  <2> DEFINE x == <<i, k, l>>
  <2>4. i \in Slots /\ k \in 1..Size(slots, i) BY <1>2, <2>2 DEF UsedSlots
  <2>5. x \in S BY <2>3, <2>4 DEF Linking
  <2>6. Made(tiles, x) /\ Seen(x) = y BY <2>3 DEF Made, Seen
  <2> HIDE DEF x
  <2> QED BY <2>5, <2>6
<1>5. ASSUME NEW x \in S, Made(tiles, x) PROVE Seen(x) \in MadeLinks
  <2>1. x[1] \in UsedSlots /\ x[2] \in 1..Size(slots, x[1])
    BY DEF Facts, UsedSlots
  <2>2. x[2] \in 1..Len(tiles[x[1]].polys) BY <1>2, <2>1 DEF UsedSlots
  <2>3. Seen(x) \in Of(x[1], x[2]) BY <1>5 DEF Made, LinksOf, Seen
  <2> HIDE DEF Of
  <2> QED BY <1>3, <2>1, <2>2, <2>3
<1> QED BY <1>4, <1>5

(* Whatever was added and removed before, and under which salts, the links *)
(* are those of the tiles that are there now: none to a tile that went,    *)
(* and none missing, except in a tile that went without a link             *)
(* (connectIntLinks, connectExtLinks, baseOffMeshLinks,                    *)
(* connectExtOffMeshLinks and unconnectLinks, called from addTile and      *)
(* removeTile).                                                            *)
THEOREM LinksFresh == Spec => []LinksAsIfFresh
<1>1. IInv /\ MeshOK => LinksAsIfFresh
  <2> SUFFICES ASSUME IInv, MeshOK PROVE LinksAsIfFresh OBVIOUS
  <2> DEFINE should == PortalLinks \cup InnerLinks \cup ConnectionLinks
             S == All(slots)
  <2>1. ListsOK /\ Typed(slots) BY DEF IInv, ListsOK, SlotsTyped, Typed
  <2>2. PICK V : tiles \in Linking(V, slots, S, AllBases(slots))
    BY DEF MeshOK, LinksOK
  <2>3. /\ S \in SUBSET Facts(slots) /\ AllBases(slots) \in SUBSET S
        /\ \A x \in S : Used(slots, x[1])
    BY <2>1, AllIs
  <2>4. {Seen(x) : x \in S} = should BY <2>1, AllSeen
  <2> HIDE DEF S, should
  <2>5. \A y \in MadeLinks : \E x \in S : y = Seen(x) BY <2>1, <2>2, <2>3, MadeIs
  <2>6. \A x \in S : Made(tiles, x) => Seen(x) \in MadeLinks BY <2>1, <2>2, <2>3, MadeIs
  <2>7. MadeLinks \subseteq should BY <2>4, <2>5
  <2>8. ASSUME NEW y \in should, y \notin MadeLinks PROVE tiles[y[1]].short
    <3>1. PICK x \in S : y = Seen(x) BY <2>4
    <3>2. ~Made(tiles, x) BY <2>6, <2>8, <3>1
    <3>3. tiles[x[1]].short BY <2>2, <3>2 DEF Linking
    <3>4. y[1] = x[1] BY <3>1 DEF Seen
    <3> QED BY <3>3, <3>4
  <2> QED BY <2>7, <2>8 DEF LinksAsIfFresh, should
<1> QED BY <1>1, MeshInductive, PTL

-------------------------------------------------------------------------------
(* The ends of connections *)

(* Edges lead to ground, within a tile and out of it.                      *)
LEMMA EdgesToGround ==
    ASSUME NEW ss, Typed(ss), NEW i \in UsedIn(ss), NEW t \in UsedIn(ss), NEW f,
           (f \in InnerFacts(ss, i) /\ t = i) \/ \E side : f \in PortalsTo(ss, i, t, side)
    PROVE  /\ \E k \in 1..Size(ss, t) :
                 f[3].ref = PolyRef(ss, t, k) /\ Header(ss, t).polys[k].ground
           /\ f[1] = i /\ Header(ss, i).polys[f[2]].ground
<1> DEFINE d == Header(ss, i)
           g == Header(ss, t)
<1>1. /\ i \in Slots /\ Used(ss, i) /\ t \in Slots /\ Used(ss, t) BY DEF UsedIn
<1>2. /\ ss[i].data \in DOMAIN Data /\ d = Data[ss[i].data] /\ Size(ss, i) = Len(d.polys)
      /\ ss[t].data \in DOMAIN Data /\ g = Data[ss[t].data] /\ Size(ss, t) = Len(g.polys)
  BY <1>1, HeaderIs
<1>3. CASE f \in InnerFacts(ss, i) /\ t = i
  <2>1. PICK e \in InnerOf(d) : f = InnerFact(ss, i, e) BY <1>3 DEF InnerFacts
  <2>2. /\ e \in AllEdges(d) /\ d.polys[e[1]].ground /\ Nei(d, e) \in 1..(ExtLink - 1)
    BY DEF InnerOf
  <2>3. /\ e[1] \in 1..Len(d.polys) /\ e[2] \in 1..Len(d.polys[e[1]].neis)
        /\ Nei(d, e) = d.polys[e[1]].neis[e[2]] /\ Nei(d, e) \in Neis(d)
    BY <1>2, <2>2, EdgeIs
  <2>4. Len(d.polys) \in Nat BY <1>2, DataIs
  <2>5. Nei(d, e) \in 1..Len(d.polys) /\ Nei(d, e) < ExtLink
    <3>1. ExtLink \in Nat BY DEF ExtLink
    <3>2. Nei(d, e) \in {0} \cup 1..Len(d.polys) \cup ExtLink..(ExtLink + 7)
      BY <2>3 DEF Neis
    <3> HIDE DEF d
    <3>3. Nei(d, e) \in 1..Len(d.polys) BY <2>2, <2>4, <3>1, <3>2, LowNumber
    <3> QED BY <2>2, <3>1, <3>3
  <2>6. \A j \in 1..Len(d.polys[e[1]].neis) :
           (/\ d.polys[e[1]].neis[j] \in 1..Len(d.polys)
            /\ d.polys[e[1]].neis[j] < ExtLink)
           => d.polys[d.polys[e[1]].neis[j]].ground
    BY <1>2, <2>3, DataIs
  <2>7. d.polys[Nei(d, e)].ground
    <3> HIDE DEF d
    <3> QED BY <2>3, <2>5, <2>6
  <2>8. f[1] = i /\ f[2] = e[1] /\ f[3].ref = PolyRef(ss, i, Nei(d, e))
    BY <2>1 DEF InnerFact
  <2> QED BY <1>2, <1>3, <2>2, <2>5, <2>7, <2>8
<1>4. CASE \E side : f \in PortalsTo(ss, i, t, side)
  <2>1. PICK side : f \in PortalsTo(ss, i, t, side) BY <1>4
  <2>2. PICK e \in PortalsOf(d, side) : f \in EdgeFacts(ss, i, t, e)
    BY <2>1 DEF PortalsTo
  <2>3. PICK k \in Range(MetBy(d, e, g)) : f = PortalFact(ss, i, t, e, k)
    BY <2>2 DEF EdgeFacts
  <2>4. e \in AllEdges(d) /\ Nei(d, e) >= ExtLink BY DEF PortalsOf
  <2>5. d.polys[e[1]].ground BY <1>2, <2>4, PortalSide
  <2>6. f[1] = i /\ f[2] = e[1] /\ f[3].ref = PolyRef(ss, t, k)
    BY <2>3 DEF PortalFact
  <2> DEFINE s == MetBy(d, e, g)
             opp == OppositeTile(Dir(d, e))
             j == Facing(EdgeAt(d, e), g, k, opp)
  <2>7. s \in Seq(1..Len(g.polys)) /\ \A m \in 1..Len(s) : Facing(EdgeAt(d, e), g, s[m], opp) # 0
    BY <1>2, ConnectingIs DEF MetBy
  <2>8. k \in 1..Len(g.polys) /\ j # 0
    <3>1. Range(s) = {s[m] : m \in 1..Len(s)} BY <2>7, RangeEquality
    <3>2. PICK m \in 1..Len(s) : k = s[m] BY <3>1
    <3> HIDE DEF s
    <3> QED BY <2>7, <3>2
  <2>9. j \in 1..Len(g.polys[k].neis) /\ Edge(g, k, j).nei = ExtLink + opp
    BY <1>2, <2>8, FacingIs
  <2>10. Nei(g, <<k, j>>) = ExtLink + opp
    BY <2>9 DEF Edge, Nei
  <2>11. opp \in 0..7
    <3>1. Dir(d, e) \in 0..7 BY <1>2, <2>4, PortalSide
    <3>2. \A n \in 0..7 : (n + 4) % 8 \in 0..7 OBVIOUS
    <3> QED BY <3>1, <3>2 DEF OppositeTile
  <2> HIDE DEF opp, j, s
  <2>12. <<k, j>> \in AllEdges(g) BY <2>8, <2>9 DEF AllEdges
  <2>13. Nei(g, <<k, j>>) # 0 BY <2>10, <2>11 DEF ExtLink
  <2>14. g.polys[k].ground BY <1>2, <2>12, <2>13, EdgeIs
  <2> QED BY <1>2, <2>5, <2>6, <2>8, <2>14
<1> QED BY <1>3, <1>4

(* What the two links of a connection's start are.                         *)
LEMMA StartFactsAre ==
    ASSUME NEW ss, Typed(ss), NEW i \in UsedIn(ss), NEW f \in BasesOf(ss, i)
    PROVE  /\ f[1] = i
           /\ \E c \in 1..Len(Header(ss, i).cons) :
                 LET p == Header(ss, i).cons[c].poly
                     k == BaseFoot(ss, i, c) IN
                 /\ k # 0 /\ p \in 1..Size(ss, i) /\ ~Header(ss, i).polys[p].ground
                 /\ k \in 1..Size(ss, i) /\ Header(ss, i).polys[k].ground
                 /\ \/ f[2] = p /\ f[3].ref = PolyRef(ss, i, k)
                    \/ f[2] = k /\ f[3].ref = PolyRef(ss, i, p)
<1>1. PICK c \in 1..Len(Header(ss, i).cons) : f \in BaseFacts(ss, i, c) BY DEF BasesOf
<1> DEFINE p == Header(ss, i).cons[c].poly
           k == BaseFoot(ss, i, c)
<1>2. i \in Slots /\ Used(ss, i) BY DEF UsedIn
<1>3. k # 0 BY <1>1 DEF BaseFacts
<1>4. p \in 1..Size(ss, i) /\ ~Header(ss, i).polys[p].ground BY <1>2, BaseFactsIs
<1>5. k \in 1..Size(ss, i) /\ Header(ss, i).polys[k].ground BY <1>2, <1>3, BaseFootIs
<1>6. /\ f[1] = i
      /\ \/ f[2] = p /\ f[3].ref = PolyRef(ss, i, k)
         \/ f[2] = k /\ f[3].ref = PolyRef(ss, i, p)
  BY <1>1 DEF BaseFacts, OffMeshLink
<1> QED BY <1>3, <1>4, <1>5, <1>6

(* And those of its end, one of them on the polygon where it lands.        *)
LEMMA EndFactsAre ==
    ASSUME NEW ss, Typed(ss), NEW i \in UsedIn(ss), NEW t \in UsedIn(ss), NEW side,
           NEW f \in LandsIn(ss, i, t, side)
    PROVE  \E c \in 1..Len(Header(ss, t).cons) :
              LET p == Header(ss, t).cons[c].poly
                  k == LandFoot(ss, i, t, c) IN
              /\ BaseFoot(ss, t, c) # 0
              /\ p \in 1..Size(ss, t) /\ ~Header(ss, t).polys[p].ground
              /\ k \in 1..Size(ss, i) /\ Header(ss, i).polys[k].ground
              /\ \/ f[1] = t /\ f[2] = p /\ f[3].ref = PolyRef(ss, i, k) /\ f[3].edge = 1
                 \/ f[1] = i /\ f[2] = k /\ f[3].ref = PolyRef(ss, t, p) /\ f[3].edge = 255
<1>1. PICK c \in 1..Len(Header(ss, t).cons) : f \in LandFacts(ss, i, t, c, side)
  BY DEF LandsIn
<1> DEFINE p == Header(ss, t).cons[c].poly
           k == LandFoot(ss, i, t, c)
<1>2. i \in Slots /\ Used(ss, i) /\ t \in Slots /\ Used(ss, t) BY DEF UsedIn
<1>3. k # 0 /\ BaseFoot(ss, t, c) # 0 BY <1>1 DEF LandFacts
<1>4. /\ ss[i].data \in DOMAIN Data /\ Header(ss, i) = Data[ss[i].data]
      /\ Size(ss, i) = Len(Header(ss, i).polys)
      /\ ss[t].data \in DOMAIN Data /\ Header(ss, t) = Data[ss[t].data]
      /\ Size(ss, t) = Len(Header(ss, t).polys)
  BY <1>2, HeaderIs
<1>5. /\ p \in 1..Size(ss, t) /\ ~Header(ss, t).polys[p].ground
      /\ Header(ss, t).cons[c].to \in Int \X Int \X Int
  BY <1>4, ConIs
<1>6. k \in 1..Size(ss, i) /\ Header(ss, i).polys[k].ground
  BY <1>3, <1>4, <1>5, NearestIs DEF LandFoot
<1>7. \/ f[1] = t /\ f[2] = p /\ f[3].ref = PolyRef(ss, i, k) /\ f[3].edge = 1
      \/ f[1] = i /\ f[2] = k /\ f[3].ref = PolyRef(ss, t, p) /\ f[3].edge = 255
  BY <1>1 DEF LandFacts, OffMeshLink
<1> QED BY <1>3, <1>5, <1>6, <1>7

(* What leads to a connection lies where it starts or where it lands.      *)
LEMMA ToConnection ==
    ASSUME NEW ss, Typed(ss), NEW f \in All(ss),
           ~Header(ss, To(f)).polys[PolyOf(f[3].ref)].ground
    PROVE  /\ f[1] \in UsedIn(ss) /\ To(f) \in UsedIn(ss) /\ f[2] \in 1..Size(ss, f[1])
           /\ \E c \in 1..Len(Header(ss, To(f)).cons) :
                 /\ Header(ss, To(f)).cons[c].poly = PolyOf(f[3].ref)
                 /\ PolyOf(f[3].ref) \in 1..Size(ss, To(f))
                 /\ BaseFoot(ss, To(f), c) # 0
                 /\ \/ f[1] = To(f) /\ f[2] = BaseFoot(ss, To(f), c)
                    \/ f[2] = LandFoot(ss, f[1], To(f), c)
<1>1. ASSUME NEW t \in UsedIn(ss), NEW k \in 1..Size(ss, t), f[3].ref = PolyRef(ss, t, k)
      PROVE  To(f) = t /\ PolyOf(f[3].ref) = k
  <2>1. t \in Slots /\ Used(ss, t) BY DEF UsedIn
  <2> QED BY <1>1, <2>1, PolyRefIs DEF To
<1>2. ASSUME NEW i \in UsedIn(ss), NEW t \in UsedIn(ss),
             (f \in InnerFacts(ss, i) /\ t = i) \/ \E side : f \in PortalsTo(ss, i, t, side)
      PROVE  FALSE
  <2>1. PICK k \in 1..Size(ss, t) :
           f[3].ref = PolyRef(ss, t, k) /\ Header(ss, t).polys[k].ground
    BY <1>2, EdgesToGround
  <2> QED BY <1>1, <2>1
<1>3. CASE \E i \in UsedIn(ss) : f \in BasesOf(ss, i)
  <2>1. PICK i \in UsedIn(ss) : f \in BasesOf(ss, i) BY <1>3
  <2>2. PICK c \in 1..Len(Header(ss, i).cons) :
           LET p == Header(ss, i).cons[c].poly
               k == BaseFoot(ss, i, c) IN
           /\ k # 0 /\ p \in 1..Size(ss, i) /\ ~Header(ss, i).polys[p].ground
           /\ k \in 1..Size(ss, i) /\ Header(ss, i).polys[k].ground
           /\ \/ f[2] = p /\ f[3].ref = PolyRef(ss, i, k)
              \/ f[2] = k /\ f[3].ref = PolyRef(ss, i, p)
    BY <2>1, StartFactsAre
  <2> DEFINE p == Header(ss, i).cons[c].poly
             k == BaseFoot(ss, i, c)
  <2>3. f[1] = i BY <2>1, StartFactsAre
  <2>4. ~(f[2] = p /\ f[3].ref = PolyRef(ss, i, k)) BY <1>1, <2>2
  <2>5. f[2] = k /\ f[3].ref = PolyRef(ss, i, p) BY <2>2, <2>4
  <2>6. To(f) = i /\ PolyOf(f[3].ref) = p BY <1>1, <2>2, <2>5
  <2> QED BY <2>2, <2>3, <2>5, <2>6
<1>4. CASE \E i, t \in UsedIn(ss), side \in Sides :
              Meets(ss, i, t, side) /\ f \in LandsIn(ss, i, t, side)
  <2>1. PICK i \in UsedIn(ss), t \in UsedIn(ss), side \in Sides :
           f \in LandsIn(ss, i, t, side)
    BY <1>4
  <2>2. PICK c \in 1..Len(Header(ss, t).cons) :
           LET p == Header(ss, t).cons[c].poly
               k == LandFoot(ss, i, t, c) IN
           /\ BaseFoot(ss, t, c) # 0
           /\ p \in 1..Size(ss, t) /\ ~Header(ss, t).polys[p].ground
           /\ k \in 1..Size(ss, i) /\ Header(ss, i).polys[k].ground
           /\ \/ f[1] = t /\ f[2] = p /\ f[3].ref = PolyRef(ss, i, k) /\ f[3].edge = 1
              \/ f[1] = i /\ f[2] = k /\ f[3].ref = PolyRef(ss, t, p) /\ f[3].edge = 255
    BY <2>1, EndFactsAre
  <2> DEFINE p == Header(ss, t).cons[c].poly
             k == LandFoot(ss, i, t, c)
  <2>3. ~(f[3].ref = PolyRef(ss, i, k)) BY <1>1, <2>2
  <2>4. f[1] = i /\ f[2] = k /\ f[3].ref = PolyRef(ss, t, p) BY <2>2, <2>3
  <2>5. To(f) = t /\ PolyOf(f[3].ref) = p BY <1>1, <2>2, <2>4
  <2> QED BY <2>2, <2>4, <2>5
<1> QED BY <1>2, <1>3, <1>4, AllAre

(* The links of a connection whose edge is 0 are to where it starts.       *)
LEMMA StartLinkIs ==
    ASSUME NEW ss, Typed(ss), NEW f \in All(ss), f[3].edge = 0,
           NEW c \in 1..Len(Header(ss, f[1]).cons), f[2] = Header(ss, f[1]).cons[c].poly
    PROVE  f[3].ref = PolyRef(ss, f[1], BaseFoot(ss, f[1], c))
<1> DEFINE t == f[1]
<1>1. t \in Slots /\ Used(ss, t) /\ t \in UsedIn(ss) BY AllIs DEF UsedIn, Good, Facts
<1>2. ss[t].data \in DOMAIN Data /\ Header(ss, t) = Data[ss[t].data] BY <1>1, HeaderIs
<1>3. /\ ~Header(ss, t).polys[f[2]].ground
      /\ \A b \in 1..Len(Header(ss, t).cons) : Header(ss, t).cons[b].poly = f[2] => b = c
  <2> DEFINE d == Header(ss, t)
  <2>1. c \in 1..Len(d.cons) /\ f[2] = d.cons[c].poly OBVIOUS
  <2>2. d = Data[ss[t].data] BY <1>2
  <2>3. ss[t].data \in DOMAIN Data BY <1>2
  <2> HIDE DEF d, t
  <2>4. /\ ~d.polys[f[2]].ground
        /\ \A b \in 1..Len(d.cons) : d.cons[b].poly = f[2] => b = c
    BY <2>1, <2>2, <2>3, ConIs
  <2> QED BY <2>4 DEF d, t
<1>4. ASSUME NEW i \in UsedIn(ss), NEW q \in UsedIn(ss),
             (f \in InnerFacts(ss, i) /\ q = i) \/ \E side : f \in PortalsTo(ss, i, q, side)
      PROVE  FALSE
  BY <1>3, <1>4, EdgesToGround
<1>5. CASE \E i \in UsedIn(ss) : f \in BasesOf(ss, i)
  <2>1. f \in BasesOf(ss, t) BY <1>5, StartFactsAre
  <2>2. PICK b \in 1..Len(Header(ss, t).cons) :
           LET p == Header(ss, t).cons[b].poly
               k == BaseFoot(ss, t, b) IN
           /\ k # 0 /\ p \in 1..Size(ss, t) /\ ~Header(ss, t).polys[p].ground
           /\ k \in 1..Size(ss, t) /\ Header(ss, t).polys[k].ground
           /\ \/ f[2] = p /\ f[3].ref = PolyRef(ss, t, k)
              \/ f[2] = k /\ f[3].ref = PolyRef(ss, t, p)
    BY <1>1, <2>1, StartFactsAre
  <2>3. f[2] = Header(ss, t).cons[b].poly /\ f[3].ref = PolyRef(ss, t, BaseFoot(ss, t, b))
    BY <1>3, <2>2
  <2> QED BY <1>3, <2>3
<1>6. CASE \E i, q \in UsedIn(ss), side \in Sides :
              Meets(ss, i, q, side) /\ f \in LandsIn(ss, i, q, side)
  <2>1. PICK i \in UsedIn(ss), q \in UsedIn(ss), side \in Sides :
           f \in LandsIn(ss, i, q, side)
    BY <1>6
  <2>2. PICK b \in 1..Len(Header(ss, q).cons) :
           LET p == Header(ss, q).cons[b].poly
               k == LandFoot(ss, i, q, b) IN
           /\ BaseFoot(ss, q, b) # 0
           /\ p \in 1..Size(ss, q) /\ ~Header(ss, q).polys[p].ground
           /\ k \in 1..Size(ss, i) /\ Header(ss, i).polys[k].ground
           /\ \/ f[1] = q /\ f[2] = p /\ f[3].ref = PolyRef(ss, i, k) /\ f[3].edge = 1
              \/ f[1] = i /\ f[2] = k /\ f[3].ref = PolyRef(ss, q, p) /\ f[3].edge = 255
    BY <2>1, EndFactsAre, SMTT(30)
  <2> QED BY <1>3, <2>2
<1> QED BY <1>4, <1>5, <1>6, AllAre

(* The end of a connection that a polygon's link of edge 0 says is first.  *)
LEMMA FirstEndIs ==
    ASSUME IInv, MeshOK, NEW t \in UsedIn(slots), NEW c \in 1..Len(Header(slots, t).cons),
           BaseFoot(slots, t, c) # 0, NEW from
    PROVE  FirstEnd(t, Header(slots, t).cons[c].poly, from)
              = IF PolyRef(slots, t, BaseFoot(slots, t, c)) # from THEN "to" ELSE "from"
<1> DEFINE q == Header(slots, t).cons[c].poly
           k == BaseFoot(slots, t, c)
           links == tiles[t].polys[q].links
           E == {l \in Range(links) : l.edge = 0}
           starts == Those(links, E)
           link == OffMeshLink(PolyRef(slots, t, k), 0, Inside)
           b == <<t, q, link>>
<1>1. Typed(slots) BY DEF IInv, ListsOK, SlotsTyped, Typed
<1>2. PICK V : tiles \in Linking(V, slots, All(slots), AllBases(slots))
  BY DEF MeshOK, LinksOK
<1>3. t \in Slots /\ Used(slots, t) BY DEF UsedIn
<1>4. q \in 1..Size(slots, t) BY <1>1, <1>3, BaseFactsIs
<1>5. links \in Seq(LinkType)
  <2>1. tiles[t] \in TileType(V) /\ Len(tiles[t].polys) = Size(slots, t)
    BY <1>2, <1>3 DEF Linking, Shaped
  <2>2. tiles[t].polys \in Seq(PolyType(V)) BY <2>1 DEF TileType, PolyType
  <2>3. tiles[t].polys[q] \in PolyType(V)
    <3> HIDE DEF q
    <3> QED BY <1>4, <2>1, <2>2
  <2> QED BY <2>3 DEF PolyType
<1>6. b \in AllBases(slots) /\ b \in All(slots)
  <2>1. b \in BaseFacts(slots, t, c) BY DEF BaseFacts
  <2>2. b \in BasesOf(slots, t) BY <2>1 DEF BasesOf
  <2> HIDE DEF b
  <2>3. b \in AllBases(slots) BY <2>2 DEF AllBases
  <2> QED BY <1>1, <2>3, AllIs
<1>7. link \in Range(links) /\ link.edge = 0
  <2>1. Made(tiles, b) BY <1>2, <1>6 DEF Linking
  <2>2. link \in Range(links) BY <2>1 DEF Made, LinksOf
  <2> QED BY <2>2 DEF OffMeshLink
<1>8. ASSUME NEW l \in Range(links), l.edge = 0
      PROVE  l.ref = PolyRef(slots, t, k)
  <2> DEFINE f == <<t, q, l>>
  <2>1. l \in LinksOf(tiles, t, q) BY DEF LinksOf
  <2>2. f \in All(slots) BY <1>2, <1>3, <1>4, <2>1 DEF Linking
  <2>3. f[1] = t /\ f[2] = q /\ f[3] = l OBVIOUS
  <2> HIDE DEF f
  <2>4. f[3].ref = PolyRef(slots, f[1], BaseFoot(slots, f[1], c))
    BY <1>1, <1>8, <2>2, <2>3, StartLinkIs
  <2> QED BY <2>3, <2>4
<1>9. FirstEnd(t, q, from)
         = IF starts # <<>> /\ Head(starts).ref # from THEN "to" ELSE "from"
  BY DEF FirstEnd
<1> HIDE DEF q, k, links, link, b
<1>10. link \in E /\ E \subseteq Range(links) /\ \A l \in E : l.ref = PolyRef(slots, t, k)
  BY <1>7, <1>8
<1> HIDE DEF E
<1>11. starts \in Seq(LinkType) /\ Range(starts) = E
  <2>1. starts \in Seq(LinkType) /\ Range(starts) = Range(links) \cap E
    BY <1>5, ThoseIs
  <2> HIDE DEF starts
  <2> QED BY <1>10, <2>1
<1> HIDE DEF starts
<1>12. starts # <<>> /\ Head(starts) \in E
  <2>1. Range(starts) = {starts[m] : m \in 1..Len(starts)} BY <1>11, RangeEquality
  <2>2. starts # <<>>
    <3> SUFFICES ASSUME starts = <<>> PROVE FALSE OBVIOUS
    <3>1. Range(<<>>) = {} BY DEF Range
    <3> QED BY <1>10, <1>11, <3>1
  <2>3. 1 \in 1..Len(starts) /\ Head(starts) = starts[1] BY <1>11, <2>2
  <2> QED BY <1>11, <2>1, <2>2, <2>3
<1>13. Head(starts).ref = PolyRef(slots, t, k) BY <1>10, <1>12
<1> QED BY <1>9, <1>12, <1>13 DEF q, k

(* One who comes from a polygon that leads to a connection starts at the   *)
(* end that lies on this polygon, though both ends lead to the connection  *)
(* (getOffMeshConnectionPolyEndPoints, with the links that                 *)
(* baseOffMeshLinks and connectExtOffMeshLinks made).                      *)
THEOREM StartsSound == Spec => []StartsWhereOneIs
<1>1. IInv /\ MeshOK => StartsWhereOneIs
  <2> SUFFICES ASSUME IInv, MeshOK, NEW x \in MadeLinks,
                      ~Header(slots, DecodePolyIdTile(x[3])).polys[PolyOf(x[3])].ground
               PROVE  LET t == DecodePolyIdTile(x[3])
                          from == PolyRef(slots, x[1], x[2])
                          con == CHOOSE c \in 1..Len(Header(slots, t).cons) :
                                     Header(slots, t).cons[c].poly = PolyOf(x[3])
                      IN  Footing[<<slots[t].data, con>>, FirstEnd(t, PolyOf(x[3]), from),
                                  slots[x[1]].data] = x[2]
    BY DEF StartsWhereOneIs
  <2> DEFINE t == DecodePolyIdTile(x[3])
             q == PolyOf(x[3])
             from == PolyRef(slots, x[1], x[2])
             con == CHOOSE c \in 1..Len(Header(slots, t).cons) :
                       Header(slots, t).cons[c].poly = q
             ends == FirstEnd(t, q, from)
  <2>1. ListsOK /\ Typed(slots) BY DEF IInv, ListsOK, SlotsTyped, Typed
  <2>2. PICK f \in All(slots) : x = Seen(f)
    <3>1. PICK V : tiles \in Linking(V, slots, All(slots), AllBases(slots))
      BY DEF MeshOK, LinksOK
    <3>2. /\ All(slots) \in SUBSET Facts(slots) /\ AllBases(slots) \in SUBSET All(slots)
          /\ \A y \in All(slots) : Used(slots, y[1])
      BY <2>1, AllIs
    <3> QED BY <2>1, <3>1, <3>2, MadeIs
  <2>3. x[1] = f[1] /\ x[2] = f[2] /\ x[3] = f[3].ref /\ t = To(f)
    BY <2>2 DEF Seen, To
  <2>4. /\ x[1] \in UsedIn(slots) /\ t \in UsedIn(slots) /\ x[2] \in 1..Size(slots, x[1])
        /\ \E c \in 1..Len(Header(slots, t).cons) :
              /\ Header(slots, t).cons[c].poly = q
              /\ BaseFoot(slots, t, c) # 0
              /\ \/ x[1] = t /\ x[2] = BaseFoot(slots, t, c)
                 \/ x[2] = LandFoot(slots, x[1], t, c)
    <3>1. ~Header(slots, To(f)).polys[PolyOf(f[3].ref)].ground BY <2>3
    <3>2. /\ f[1] \in UsedIn(slots) /\ To(f) \in UsedIn(slots)
          /\ f[2] \in 1..Size(slots, f[1])
      BY <2>1, <3>1, ToConnection
    <3>3. PICK c \in 1..Len(Header(slots, To(f)).cons) :
             /\ Header(slots, To(f)).cons[c].poly = PolyOf(f[3].ref)
             /\ BaseFoot(slots, To(f), c) # 0
             /\ \/ f[1] = To(f) /\ f[2] = BaseFoot(slots, To(f), c)
                \/ f[2] = LandFoot(slots, f[1], To(f), c)
      BY <2>1, <3>1, ToConnection
    <3> QED BY <2>3, <3>2, <3>3
  <2>5. PICK c \in 1..Len(Header(slots, t).cons) :
           /\ Header(slots, t).cons[c].poly = q
           /\ BaseFoot(slots, t, c) # 0
           /\ \/ x[1] = t /\ x[2] = BaseFoot(slots, t, c)
              \/ x[2] = LandFoot(slots, x[1], t, c)
    BY <2>4
  <2> DEFINE i == x[1]
             k == BaseFoot(slots, t, c)
             h == <<t, c>>
  <2>6. i \in Slots /\ Used(slots, i) /\ t \in Slots /\ Used(slots, t)
    BY <2>4 DEF UsedIn
  <2> HIDE DEF t, q, from, con, ends
  <2>7. con = c
    <3> DEFINE d == Header(slots, t)
    <3>1. slots[t].data \in DOMAIN Data /\ d = Data[slots[t].data] BY <2>1, <2>6, HeaderIs
    <3>2. c \in 1..Len(d.cons) /\ d.cons[c].poly = q BY <2>5
    <3>3. con = CHOOSE m \in 1..Len(d.cons) : d.cons[m].poly = q BY DEF con
    <3> HIDE DEF d
    <3>4. con \in 1..Len(d.cons) /\ d.cons[con].poly = q BY <3>2, <3>3
    <3>5. \A m \in 1..Len(d.cons) : d.cons[m].poly = d.cons[c].poly => m = c
      BY <3>1, <3>2, ConIs
    <3> QED BY <3>2, <3>4, <3>5
  <2>8. ends = IF PolyRef(slots, t, k) # from THEN "to" ELSE "from"
    BY <2>4, <2>5, FirstEndIs DEF ends
  <2>9. k \in 1..Size(slots, t) BY <2>1, <2>5, <2>6, BaseFootIs
  <2>10. /\ Footing[<<slots[t].data, c>>, "from", slots[t].data] = k
         /\ Footing[<<slots[t].data, c>>, "to", slots[i].data] = LandFoot(slots, i, t, c)
    <3>1. h \in HopsOf(slots)
      <4>1. c \in Nat OBVIOUS
      <4> QED BY <2>4, <4>1 DEF HopsOf
    <3>2. h[1] = t /\ h[2] = c OBVIOUS
    <3> HIDE DEF h
    <3>3. Start(slots, h) = k /\ Landing(slots, h, i) = LandFoot(slots, i, t, c)
      BY <3>2 DEF Start, Landing
    <3> QED BY <2>1, <2>4, <3>1, <3>2, <3>3, FootingIs
  <2>11. CASE PolyRef(slots, t, k) = from
    <3>1. PolyRef(slots, t, k) = PolyRef(slots, i, x[2]) BY <2>11 DEF from
    <3>2. /\ DecodePolyIdTile(PolyRef(slots, t, k)) = t /\ PolyOf(PolyRef(slots, t, k)) = k
      BY <2>1, <2>6, <2>9, PolyRefIs
    <3>3. /\ DecodePolyIdTile(PolyRef(slots, i, x[2])) = i
          /\ PolyOf(PolyRef(slots, i, x[2])) = x[2]
      BY <2>1, <2>4, <2>6, PolyRefIs
    <3>4. i = t /\ x[2] = k BY <3>1, <3>2, <3>3
    <3>5. ends = "from" BY <2>8, <2>11
    <3> HIDE DEF i, k
    <3>6. Footing[<<slots[t].data, con>>, ends, slots[i].data] = x[2]
      BY <2>7, <2>10, <3>4, <3>5
    <3> QED BY <3>6 DEF t, q, from, con, ends, i
  <2>12. CASE PolyRef(slots, t, k) # from
    <3>1. x[2] = LandFoot(slots, i, t, c) BY <2>5, <2>12 DEF from
    <3>2. ends = "to" BY <2>8, <2>12
    <3> HIDE DEF i, k
    <3>3. Footing[<<slots[t].data, con>>, ends, slots[i].data] = x[2]
      BY <2>7, <2>10, <3>1, <3>2
    <3> QED BY <3>3 DEF t, q, from, con, ends, i
  <2> QED BY <2>11, <2>12
<1> QED BY <1>1, MeshInductive, PTL

-------------------------------------------------------------------------------
(* Links back *)

(* A side and the one opposite are measured along the same axis.           *)
LEMMA SameAxis ==
    ASSUME NEW side \in 0..7
    PROVE  /\ OppositeTile(side) \in 0..7 /\ OppositeTile(OppositeTile(side)) = side
           /\ Axis(OppositeTile(side)) = Axis(side)
           /\ \A e : /\ SlabCoord(e, OppositeTile(side)) = SlabCoord(e, side)
                     /\ SlabMin(e, OppositeTile(side)) = SlabMin(e, side)
                     /\ SlabMax(e, OppositeTile(side)) = SlabMax(e, side)
<1>1. \A n \in 0..7 : /\ (n + 4) % 8 \in 0..7 /\ (((n + 4) % 8) + 4) % 8 = n
                      /\ (n + 4) % 8 \in {0, 4} <=> n \in {0, 4}
  OBVIOUS
<1>2. /\ OppositeTile(side) \in 0..7 /\ OppositeTile(OppositeTile(side)) = side
      /\ OppositeTile(side) \in {0, 4} <=> side \in {0, 4}
  BY <1>1 DEF OppositeTile
<1>3. Axis(OppositeTile(side)) = Axis(side) BY <1>2 DEF Axis
<1>4. \A v : Along(v, OppositeTile(side)) = Along(v, side) BY <1>3 DEF Along
<1> QED BY <1>2, <1>3, <1>4 DEF SlabCoord, SlabMin, SlabMax

(* Slabs overlap from either side, for the same climb.                     *)
LEMMA OverlapBack ==
    ASSUME NEW e, EdgeOK(e), NEW f, EdgeOK(f), NEW side \in 0..7, NEW climb \in Int,
           OverlapSlabs(e, f, OppositeTile(side), climb)
    PROVE  OverlapSlabs(f, e, side, climb)
<1> DEFINE a == SlabMin(e, side)
           b == SlabMin(f, side)
           c == SlabMax(e, side)
           d == SlabMax(f, side)
<1>1. {a, b} = {b, a} /\ {c, d} = {d, c} OBVIOUS
<1>2. /\ Max({a, b}) < Min({c, d})
      /\ (e.y - f.y) * (e.y - f.y) <= (2 * climb) * (2 * climb)
  BY SameAxis DEF OverlapSlabs
<1>3. e.y \in Int /\ f.y \in Int BY DEF EdgeOK
<1>4. \A x, y \in Int : (x - y) * (x - y) = (y - x) * (y - x) OBVIOUS
<1>5. (f.y - e.y) * (f.y - e.y) <= (2 * climb) * (2 * climb) BY <1>2, <1>3, <1>4
<1>6. Max({b, a}) < Min({d, c}) BY <1>1, <1>2
<1> QED BY <1>5, <1>6 DEF OverlapSlabs

(* An edge that faces another is faced.                                    *)
LEMMA FacingSome ==
    ASSUME NEW n \in DOMAIN Data, NEW e, NEW k \in 1..Len(Data[n].polys), NEW side,
           NEW j \in 1..Len(Data[n].polys[k].neis),
           LET f == Edge(Data[n], k, j) IN
           /\ f.nei = ExtLink + side /\ SlabCoord(e, side) = SlabCoord(f, side)
           /\ OverlapSlabs(e, f, side, Data[n].climb)
    PROVE  Facing(e, Data[n], k, side) # 0
<1> DEFINE d == Data[n]
           js == {m \in 1..Len(d.polys[k].neis) :
                    LET f == Edge(d, k, m) IN
                    /\ f.nei = ExtLink + side
                    /\ SlabCoord(e, side) = SlabCoord(f, side)
                    /\ OverlapSlabs(e, f, side, d.climb)}
<1>1. Len(d.polys[k].neis) \in Nat BY DataIs
<1>2. Facing(e, d, k, side) = IF js = {} THEN 0 ELSE Min(js) BY DEF Facing
<1>3. j \in js /\ js \in SUBSET (1..Len(d.polys[k].neis)) OBVIOUS
<1> HIDE DEF js
<1>4. Min(js) \in 1..Len(d.polys[k].neis) BY <1>1, <1>3, MinIn
<1> QED BY <1>2, <1>3, <1>4

(* So where a portal meets a polygon, an edge of this is a portal that     *)
(* meets the first one's polygon.                                          *)
LEMMA MetBack ==
    ASSUME NEW n \in DOMAIN Data, NEW m \in DOMAIN Data, Data[n].climb = Data[m].climb,
           NEW e \in AllEdges(Data[n]), Nei(Data[n], e) >= ExtLink,
           NEW k \in 1..Len(Data[m].polys),
           Facing(EdgeAt(Data[n], e), Data[m], k, OppositeTile(Dir(Data[n], e))) # 0
    PROVE  \E j \in 1..Len(Data[m].polys[k].neis) :
              /\ <<k, j>> \in AllEdges(Data[m]) /\ Nei(Data[m], <<k, j>>) >= ExtLink
              /\ Dir(Data[m], <<k, j>>) = OppositeTile(Dir(Data[n], e))
              /\ Facing(EdgeAt(Data[m], <<k, j>>), Data[n], e[1],
                        OppositeTile(Dir(Data[m], <<k, j>>))) # 0
<1> DEFINE d == Data[n]
           g == Data[m]
           side == Dir(d, e)
           opp == OppositeTile(side)
           a == EdgeAt(d, e)
           j == Facing(a, g, k, opp)
           b == Edge(g, k, j)
           e2 == <<k, j>>
<1>1. side \in 0..7 /\ Nei(d, e) = ExtLink + side BY PortalSide
<1>2. opp \in 0..7 /\ OppositeTile(opp) = side
  <2> HIDE DEF side
  <2> QED BY <1>1, SameAxis
<1>3. /\ j \in 1..Len(g.polys[k].neis) /\ b.nei = ExtLink + opp
      /\ SlabCoord(a, opp) = SlabCoord(b, opp) /\ OverlapSlabs(a, b, opp, g.climb)
  BY FacingIs
<1>4. e2 \in AllEdges(g) BY <1>3 DEF AllEdges
<1>5. Nei(g, e2) = ExtLink + opp BY <1>3 DEF Edge, Nei
<1>6. Nei(g, e2) >= ExtLink /\ Dir(g, e2) = opp
  <2>1. \A x \in 0..7 : (32768 + x) % 256 = x /\ 32768 + x >= 32768 OBVIOUS
  <2> HIDE DEF opp, e2
  <2> QED BY <1>2, <1>5, <2>1 DEF Dir, ExtLink
<1>7. /\ e[1] \in 1..Len(d.polys) /\ e[2] \in 1..Len(d.polys[e[1]].neis)
      /\ Nei(d, e) = d.polys[e[1]].neis[e[2]]
  BY EdgeIs
<1>8. a = Edge(d, e[1], e[2]) /\ EdgeAt(g, e2) = b BY DEF EdgeAt
<1>9. EdgeOK(a) /\ EdgeOK(b) BY <1>3, <1>7, <1>8, EdgeTyped
<1>10. a.nei = ExtLink + side
  <2>1. Edge(d, e[1], e[2]).nei = d.polys[e[1]].neis[e[2]] BY DEF Edge
  <2> HIDE DEF a, side, d
  <2> QED BY <1>1, <1>7, <1>8, <2>1
<1>11. g.climb = d.climb /\ d.climb \in Int BY DataIs
<1>12. SlabCoord(b, side) = SlabCoord(a, side) /\ OverlapSlabs(b, a, side, d.climb)
  <2> HIDE DEF side, a, b, d, g
  <2>1. SlabCoord(b, side) = SlabCoord(a, side) BY <1>1, <1>3, SameAxis
  <2>2. OverlapSlabs(b, a, side, d.climb) BY <1>1, <1>3, <1>9, <1>11, OverlapBack
  <2> QED BY <2>1, <2>2
<1> HIDE DEF a, b, side, opp, j
<1>13. Facing(b, d, e[1], side) # 0 BY <1>7, <1>8, <1>10, <1>12, FacingSome
<1>14. Facing(EdgeAt(g, e2), d, e[1], OppositeTile(Dir(g, e2))) # 0
  BY <1>2, <1>6, <1>8, <1>13
<1> QED BY <1>3, <1>4, <1>6, <1>14 DEF opp, side

(* A polygon that an edge meets is linked, or as many are that come before *)
(* it as an edge may be linked to.                                         *)
LEMMA ConnectedOrCut ==
    ASSUME NEW n \in DOMAIN Data, NEW e, NEW side, NEW k \in 1..Len(Data[n].polys),
           Facing(e, Data[n], k, side) # 0
    PROVE  LET s == FindConnectingPolys(e, Data[n], side) IN
           /\ \A a, b \in 1..Len(s) : s[a] = s[b] => a = b
           /\ \/ k \in Range(s)
              \/ Len(s) = MaxCon /\ \A m \in 1..MaxCon : s[m] \in 1..(k - 1)
<1> DEFINE d == Data[n]
           T == {q \in DOMAIN d.polys : Facing(e, d, q, side) # 0}
           found == Those(Numbered(d), T)
           least == Min({Len(found), MaxCon})
           s == SubSeq(found, 1, least)
<1>1. Len(d.polys) \in Nat /\ DOMAIN d.polys = 1..Len(d.polys) /\ MaxCon \in Nat
  BY DataIs, DataAssumption
<1>2. FindConnectingPolys(e, d, side) = s BY DEF FindConnectingPolys
<1>3. k \in T BY <1>1
<1> HIDE DEF T, d
<1>4. /\ Numbered(d) \in Seq(1..Len(d.polys)) /\ Len(Numbered(d)) = Len(d.polys)
      /\ \A q \in 1..Len(d.polys) : Numbered(d)[q] = q
  BY <1>1 DEF Numbered
<1>5. found \in Seq(1..Len(d.polys)) /\ Range(found) = Range(Numbered(d)) \cap T
  BY <1>4, ThoseIs
<1>6. \A a, b \in 1..Len(found) : a < b => found[a] < found[b]
  BY <1>1, ThoseAscend DEF Numbered
<1> HIDE DEF found
<1>7. /\ Len(found) \in Nat /\ \A q \in 1..Len(found) : found[q] \in 1..Len(d.polys)
      /\ Range(found) = {found[q] : q \in 1..Len(found)}
  BY <1>5, RangeEquality
<1>8. PICK at \in 1..Len(found) : found[at] = k
  <2>1. Range(Numbered(d)) = {Numbered(d)[q] : q \in 1..Len(Numbered(d))}
    BY <1>4, RangeEquality
  <2>2. k \in Range(Numbered(d)) BY <1>4, <2>1 DEF d
  <2> QED BY <1>3, <1>5, <1>7, <2>2
<1>9. least \in Nat /\ least <= Len(found) /\ least = IF Len(found) <= MaxCon THEN Len(found) ELSE MaxCon
  <2> DEFINE len == Len(found)
  <2>1. len \in Int /\ MaxCon \in Int BY <1>1, <1>7
  <2>2. least = IF len <= MaxCon THEN len ELSE MaxCon
    <3> HIDE DEF len
    <3> QED BY <2>1, TwoOf DEF len
  <2> HIDE DEF least
  <2> QED BY <1>1, <1>7, <2>2
<1> HIDE DEF least
<1>10. /\ s \in Seq(1..Len(d.polys)) /\ Len(s) = least
       /\ \A q \in 1..least : s[q] = found[q]
  <2>2. /\ s \in Seq(1..Len(d.polys))
        /\ Len(s) = IF 1 <= least THEN least - 1 + 1 ELSE 0
        /\ \A q \in 1..(least - 1 + 1) : s[q] = found[1 + q - 1]
    <3>1. \A q \in 1..least : found[q] \in 1..Len(d.polys) BY <1>7, <1>9
    <3> QED BY <1>9, <3>1, SubSeqProperties
  <2> HIDE DEF s
  <2>3. Len(s) = least BY <1>9, <2>2
  <2>4. ASSUME NEW q \in 1..least PROVE s[q] = found[q]
    <3>1. q \in 1..(least - 1 + 1) /\ 1 + q - 1 = q BY <1>9
    <3> QED BY <2>2, <3>1
  <2> QED BY <2>2, <2>3, <2>4
<1> HIDE DEF s
<1>11. \A a, b \in 1..Len(found) : found[a] = found[b] => a = b BY <1>6, <1>7
<1>12. \A q \in 1..least : q \in 1..Len(found) BY <1>7, <1>9
<1>13. \A a, b \in 1..Len(s) : s[a] = s[b] => a = b BY <1>10, <1>11, <1>12
<1>14. CASE at <= least
  <2>1. at \in 1..Len(s) /\ s[at] = k BY <1>8, <1>9, <1>10, <1>14
  <2>2. Range(s) = {s[q] : q \in 1..Len(s)} BY <1>10, RangeEquality
  <2> QED BY <1>2, <1>13, <2>1, <2>2 DEF d
<1>15. CASE least < at
  <2>1. least = MaxCon BY <1>7, <1>8, <1>9, <1>15
  <2>2. ASSUME NEW q \in 1..MaxCon PROVE s[q] \in 1..(k - 1)
    <3>1. s[q] = found[q] /\ q \in 1..Len(found) BY <1>10, <1>12, <2>1
    <3>2. q < at BY <1>1, <1>15, <2>1
    <3>3. found[q] < k /\ found[q] \in 1..Len(d.polys) BY <1>6, <1>7, <1>8, <3>1, <3>2
    <3>4. k \in Nat OBVIOUS
    <3> QED BY <1>1, <3>1, <3>3, <3>4
  <2> QED BY <1>2, <1>10, <1>13, <2>1, <2>2 DEF d
<1>16. at \in Int /\ least \in Int BY <1>9
<1> QED BY <1>14, <1>15, <1>16

(* What leads from ground to another tile, and not to a connection, is a   *)
(* portal's.                                                               *)
LEMMA ByPortal ==
    ASSUME NEW ss, Typed(ss), NEW f \in All(ss), f[1] # To(f),
           Header(ss, f[1]).polys[f[2]].ground,
           f[3].edge # 255 \/ Header(ss, To(f)).polys[PolyOf(f[3].ref)].ground
    PROVE  /\ f[1] \in UsedIn(ss) /\ To(f) \in UsedIn(ss)
           /\ \E side \in Sides :
                 /\ Meets(ss, f[1], To(f), side)
                 /\ \E e \in PortalsOf(Header(ss, f[1]), side) :
                       f \in EdgeFacts(ss, f[1], To(f), e)
<1>1. ASSUME NEW t \in UsedIn(ss), NEW k \in 1..Size(ss, t), f[3].ref = PolyRef(ss, t, k)
      PROVE  To(f) = t /\ PolyOf(f[3].ref) = k
  <2>1. t \in Slots /\ Used(ss, t) BY DEF UsedIn
  <2> QED BY <1>1, <2>1, PolyRefIs DEF To
<1>2. CASE \E i \in UsedIn(ss) : f \in InnerFacts(ss, i)
  <2>1. PICK i \in UsedIn(ss) : f \in InnerFacts(ss, i) BY <1>2
  <2>2. PICK k \in 1..Size(ss, i) : f[3].ref = PolyRef(ss, i, k) BY <2>1, EdgesToGround
  <2>3. f[1] = i BY <2>1, EdgesToGround
  <2> QED BY <1>1, <2>2, <2>3
<1>3. CASE \E i \in UsedIn(ss) : f \in BasesOf(ss, i)
  <2>1. PICK i \in UsedIn(ss) : f \in BasesOf(ss, i) BY <1>3
  <2>2. PICK c \in 1..Len(Header(ss, i).cons) :
           LET p == Header(ss, i).cons[c].poly
               k == BaseFoot(ss, i, c) IN
           /\ k # 0 /\ p \in 1..Size(ss, i) /\ ~Header(ss, i).polys[p].ground
           /\ k \in 1..Size(ss, i) /\ Header(ss, i).polys[k].ground
           /\ \/ f[2] = p /\ f[3].ref = PolyRef(ss, i, k)
              \/ f[2] = k /\ f[3].ref = PolyRef(ss, i, p)
    BY <2>1, StartFactsAre
  <2>3. f[1] = i BY <2>1, StartFactsAre
  <2>4. To(f) = i BY <1>1, <2>2
  <2> QED BY <2>3, <2>4
<1>4. CASE \E i, t \in UsedIn(ss), side \in Sides :
              /\ Meets(ss, i, t, side)
              /\ i # t /\ f \in PortalsTo(ss, i, t, side)
  <2>1. PICK i \in UsedIn(ss), t \in UsedIn(ss), side \in Sides :
           Meets(ss, i, t, side) /\ f \in PortalsTo(ss, i, t, side)
    BY <1>4
  <2>2. PICK k \in 1..Size(ss, t) : f[3].ref = PolyRef(ss, t, k) BY <2>1, EdgesToGround
  <2>3. f[1] = i BY <2>1, EdgesToGround
  <2>4. To(f) = t BY <1>1, <2>2
  <2>5. \E e \in PortalsOf(Header(ss, i), side) : f \in EdgeFacts(ss, i, t, e)
    BY <2>1 DEF PortalsTo
  <2> QED BY <2>1, <2>3, <2>4, <2>5
<1>5. CASE \E i, t \in UsedIn(ss), side \in Sides :
              Meets(ss, i, t, side) /\ f \in LandsIn(ss, i, t, side)
  <2>1. PICK i \in UsedIn(ss), t \in UsedIn(ss), side \in Sides :
           f \in LandsIn(ss, i, t, side)
    BY <1>5
  <2>2. PICK c \in 1..Len(Header(ss, t).cons) :
           LET p == Header(ss, t).cons[c].poly
               k == LandFoot(ss, i, t, c) IN
           /\ BaseFoot(ss, t, c) # 0
           /\ p \in 1..Size(ss, t) /\ ~Header(ss, t).polys[p].ground
           /\ k \in 1..Size(ss, i) /\ Header(ss, i).polys[k].ground
           /\ \/ f[1] = t /\ f[2] = p /\ f[3].ref = PolyRef(ss, i, k) /\ f[3].edge = 1
              \/ f[1] = i /\ f[2] = k /\ f[3].ref = PolyRef(ss, t, p) /\ f[3].edge = 255
    BY <2>1, EndFactsAre, SMTT(30)
  <2> DEFINE p == Header(ss, t).cons[c].poly
             k == LandFoot(ss, i, t, c)
  <2>3. ~(f[1] = t /\ f[2] = p) BY <2>2
  <2>4. f[3].ref = PolyRef(ss, t, p) /\ f[3].edge = 255 BY <2>2, <2>3
  <2>5. To(f) = t /\ PolyOf(f[3].ref) = p BY <1>1, <2>2, <2>4
  <2> QED BY <2>2, <2>4, <2>5
<1> QED BY <1>2, <1>3, <1>4, <1>5, AllAre

(* A tile that went without no link has one for each polygon an edge is    *)
(* connected to, and of this edge to their tile no others.                 *)
LEMMA LinksOfEdge ==
    ASSUME NEW V, NEW ss, Typed(ss), NEW ts \in Linking(V, ss, All(ss), AllBases(ss)),
           NEW t \in UsedIn(ss), NEW i \in UsedIn(ss), t # i, ~ts[t].short,
           NEW side \in Sides, Meets(ss, t, i, side),
           NEW e \in PortalsOf(Header(ss, t), side), NEW N \in SUBSET (1..Size(ss, i)),
           LET s == MetBy(Header(ss, t), e, Header(ss, i)) IN
           /\ \A a, b \in 1..Len(s) : s[a] = s[b] => a = b
           /\ \A a \in 1..Len(s) : s[a] \in N
    PROVE  Len(MetBy(Header(ss, t), e, Header(ss, i))) =
              Cardinality({l \in LinksOf(ts, t, e[1]) :
                              /\ l.edge = e[2] - 1
                              /\ l.ref \in {PolyRef(ss, i, n) : n \in N}})
<1> DEFINE g == Header(ss, t)
           d == Header(ss, i)
           s == MetBy(g, e, d)
           L == {l \in LinksOf(ts, t, e[1]) :
                    /\ l.edge = e[2] - 1 /\ l.ref \in {PolyRef(ss, i, n) : n \in N}}
           F == [m \in 1..Len(s) |-> PortalFact(ss, t, i, e, s[m])[3]]
<1>1. /\ i \in Slots /\ Used(ss, i) /\ t \in Slots /\ Used(ss, t) BY DEF UsedIn
<1>2. /\ ss[i].data \in DOMAIN Data /\ d = Data[ss[i].data] /\ Size(ss, i) = Len(d.polys)
      /\ ss[t].data \in DOMAIN Data /\ g = Data[ss[t].data] /\ Size(ss, t) = Len(g.polys)
  BY <1>1, HeaderIs
<1>3. /\ e \in AllEdges(g) /\ e = <<e[1], e[2]>> /\ e[1] \in 1..Size(ss, t)
      /\ e[2] \in 1..Len(g.polys[e[1]].neis) /\ g.polys[e[1]].ground
  BY <1>2, EdgeIs, PortalSide DEF PortalsOf
<1>4. e[2] \in Nat /\ e[2] <= 6
  <2> DEFINE p == g.polys[e[1]]
  <2>1. /\ p.verts \in Seq(Int \X Int) /\ Len(p.verts) <= MaxVerts
        /\ p.neis \in Seq(Neis(g)) /\ Len(p.neis) <= Len(p.verts)
    <3>1. e[1] \in 1..Len(g.polys) BY <1>2, <1>3
    <3> HIDE DEF g
    <3> QED BY <1>2, <3>1, DataIs
  <2>2. e[2] \in 1..Len(p.neis) BY <1>3
  <2> HIDE DEF p
  <2> QED BY <2>1, <2>2 DEF MaxVerts
<1>5. s \in Seq(1..Size(ss, i)) BY <1>2, ConnectingIs DEF MetBy
<1>6. Len(s) \in Nat /\ \A m \in 1..Len(s) : s[m] \in 1..Size(ss, i) /\ s[m] \in N
  <2>1. \A m \in 1..Len(s) : s[m] \in N OBVIOUS
  <2>2. \A S, q : q \in Seq(S) => Len(q) \in Nat /\ \A m \in 1..Len(q) : q[m] \in S
    OBVIOUS
  <2>3. Len(s) \in Nat /\ \A m \in 1..Len(s) : s[m] \in 1..Size(ss, i)
    <3> HIDE DEF s
    <3> QED BY <1>5, <2>2
  <2> QED BY <2>1, <2>3
<1>7. \A m : /\ PortalFact(ss, t, i, e, m)[1] = t /\ PortalFact(ss, t, i, e, m)[2] = e[1]
             /\ PortalFact(ss, t, i, e, m)[3].ref = PolyRef(ss, i, m)
             /\ PortalFact(ss, t, i, e, m)[3].edge = e[2] - 1
  BY DEF PortalFact
<1>8. Range(s) = {s[m] : m \in 1..Len(s)} BY <1>5, RangeEquality
<1>9. ASSUME NEW m \in 1..Len(s) PROVE F[m] \in L
  <2> DEFINE f == PortalFact(ss, t, i, e, s[m])
  <2>1. f \in EdgeFacts(ss, t, i, e) BY <1>8 DEF EdgeFacts
  <2>2. f \in PortalsTo(ss, t, i, side) BY <2>1 DEF PortalsTo
  <2>3. f \in All(ss) BY <2>2, AllAre
  <2>4. /\ f[1] = t /\ f[2] = e[1] /\ f[3].ref = PolyRef(ss, i, s[m])
        /\ f[3].edge = e[2] - 1 /\ F[m] = f[3]
    BY <1>7
  <2> HIDE DEF f, F, s
  <2>5. f[3] \in LinksOf(ts, t, e[1]) BY <2>3, <2>4 DEF Linking, Made
  <2> QED BY <1>6, <2>4, <2>5
<1>10. ASSUME NEW l \in L PROVE \E m \in 1..Len(s) : F[m] = l
  <2> DEFINE f == <<t, e[1], l>>
  <2>1. l \in LinksOf(ts, t, e[1]) /\ l.edge = e[2] - 1 OBVIOUS
  <2>2. PICK n \in N : l.ref = PolyRef(ss, i, n) OBVIOUS
  <2>3. f \in All(ss) BY <1>1, <1>3, <2>1 DEF Linking
  <2>4. f[1] = t /\ f[2] = e[1] /\ f[3] = l OBVIOUS
  <2> HIDE DEF f, L, F, s
  <2>5. To(f) = i
    <3>1. n \in 1..Size(ss, i) OBVIOUS
    <3> QED BY <1>1, <2>2, <2>4, <3>1, PolyRefIs DEF To
  <2>6. f[3].edge # 255 BY <1>4, <2>1, <2>4
  <2>7. Header(ss, f[1]).polys[f[2]].ground /\ f[1] # To(f) BY <1>3, <2>4, <2>5
  <2>8. \E w \in Sides : \E b \in PortalsOf(g, w) : f \in EdgeFacts(ss, t, i, b)
    <3>1. \E w \in Sides :
             /\ Meets(ss, f[1], To(f), w)
             /\ \E b \in PortalsOf(Header(ss, f[1]), w) : f \in EdgeFacts(ss, f[1], To(f), b)
      BY <2>3, <2>6, <2>7, ByPortal
    <3> QED BY <2>4, <2>5, <3>1
  <2>9. PICK w \in Sides : \E b \in PortalsOf(g, w) : f \in EdgeFacts(ss, t, i, b)
    BY <2>8
  <2>10. PICK b \in PortalsOf(g, w) : f \in EdgeFacts(ss, t, i, b) BY <2>9
  <2>11. PICK k \in Range(MetBy(g, b, d)) : f = PortalFact(ss, t, i, b, k)
    BY <2>10 DEF EdgeFacts
  <2>12. b \in AllEdges(g) BY DEF PortalsOf
  <2>13. b = <<b[1], b[2]>> /\ b[2] \in 1..Len(g.polys[b[1]].neis) BY <1>2, <2>12, EdgeIs
  <2>14. f[2] = b[1] /\ f[3].edge = b[2] - 1 BY <2>11 DEF PortalFact
  <2>15. b = e
    <3>1. b[1] = e[1] BY <2>4, <2>14
    <3>2. b[2] \in Int /\ b[2] - 1 = e[2] - 1 BY <2>1, <2>4, <2>13, <2>14
    <3>3. b[2] = e[2] BY <1>4, <3>2
    <3> QED BY <1>3, <2>13, <3>1, <3>3
  <2>16. k \in Range(s) BY <2>11, <2>15 DEF s
  <2>17. PICK m \in 1..Len(s) : k = s[m] BY <1>8, <2>16
  <2>18. F[m] = f[3] BY <2>11, <2>15, <2>17 DEF F
  <2> QED BY <2>4, <2>17, <2>18
<1>11. ASSUME NEW a \in 1..Len(s), NEW b \in 1..Len(s), F[a] = F[b] PROVE a = b
  <2>1. F[a].ref = PolyRef(ss, i, s[a]) /\ F[b].ref = PolyRef(ss, i, s[b]) BY <1>7
  <2> HIDE DEF F, s
  <2>2. PolyOf(PolyRef(ss, i, s[a])) = s[a] /\ PolyOf(PolyRef(ss, i, s[b])) = s[b]
    BY <1>1, <1>6, PolyRefIs
  <2>3. s[a] = s[b] BY <1>11, <2>1, <2>2
  <2> QED BY <2>3 DEF s
<1> HIDE DEF L, s
<1>12. F \in [1..Len(s) -> L] /\ DOMAIN F = 1..Len(s) BY <1>9
<1> HIDE DEF F
<1>13. F \in Bijection(1..Len(s), L)
  BY <1>10, <1>11, <1>12 DEF Bijection, Injection, Surjection, IsInjective
<1>14. ExistsBijection(1..Len(s), L) BY <1>13 DEF ExistsBijection
<1>15. IsFiniteSet(1..Len(s)) /\ Cardinality(1..Len(s)) = Len(s)
  <2>1. /\ IsFiniteSet(1..Len(s))
        /\ Cardinality(1..Len(s)) = IF 1 > Len(s) THEN 0 ELSE Len(s) - 1 + 1
    BY <1>6, FS_Interval
  <2> QED BY <1>6, <2>1
<1>16. Cardinality(L) = Len(s) BY <1>14, <1>15, FS_Bijection
<1> QED BY <1>16 DEF L, s

\* Tiles are built for one height that agents climb.
SameClimbs == \A m, n \in DOMAIN Data : Data[m].climb = Data[n].climb

(* Where tiles are built for one height that agents climb, a portal leads  *)
(* back: polygons of two tiles are linked both ways, unless a tile went    *)
(* without a link or the edge met as many as it may be linked to first     *)
(* (connectExtLinks, called both ways, and findConnectingPolys).           *)
THEOREM LinksBack ==
    ASSUME SameClimbs
    PROVE  Spec => []LinksMutual
<1>1. IInv /\ MeshOK => LinksMutual
  <2> SUFFICES ASSUME IInv, MeshOK, NEW x \in MadeLinks,
                      x[1] # DecodePolyIdTile(x[3]),
                      Header(slots, x[1]).polys[x[2]].ground,
                      Header(slots, DecodePolyIdTile(x[3])).polys[PolyOf(x[3])].ground,
                      ~tiles[DecodePolyIdTile(x[3])].short
               PROVE  LET t == DecodePolyIdTile(x[3])
                          k == PolyOf(x[3])
                          i == x[1]
                      IN  \/ <<t, k, PolyRef(slots, i, x[2])>> \in MadeLinks
                          \/ \E e \in Range(EdgesOf(Header(slots, t), k)) :
                                MaxCon = Cardinality(
                                   {l \in Range(tiles[t].polys[k].links) :
                                      /\ l.edge = e[2] - 1
                                      /\ l.ref \in {PolyRef(slots, i, n) : n \in 1..(x[2] - 1)}})
    BY DEF LinksMutual
  <2> DEFINE t == DecodePolyIdTile(x[3])
             k == PolyOf(x[3])
             i == x[1]
             d == Header(slots, i)
             g == Header(slots, t)
             Before(e) == {l \in Range(tiles[t].polys[k].links) :
                             /\ l.edge = e[2] - 1
                             /\ l.ref \in {PolyRef(slots, i, n) : n \in 1..(x[2] - 1)}}
  <2>1. ListsOK /\ Typed(slots) BY DEF IInv, ListsOK, SlotsTyped, Typed
  <2>2. PICK V : tiles \in Linking(V, slots, All(slots), AllBases(slots))
    BY DEF MeshOK, LinksOK
  <2>3. /\ All(slots) \in SUBSET Facts(slots) /\ AllBases(slots) \in SUBSET All(slots)
        /\ \A y \in All(slots) : Used(slots, y[1])
    BY <2>1, AllIs
  <2>4. PICK f \in All(slots) : x = Seen(f) BY <2>1, <2>2, <2>3, MadeIs
  <2>5. f[1] = i /\ f[2] = x[2] /\ f[3].ref = x[3] /\ To(f) = t
    BY <2>4 DEF Seen, To
  <2>6. /\ i \in UsedIn(slots) /\ t \in UsedIn(slots)
        /\ \E side \in Sides : /\ Meets(slots, i, t, side)
                               /\ \E e \in PortalsOf(d, side) : f \in EdgeFacts(slots, i, t, e)
    <3>1. f[1] # To(f) /\ Header(slots, f[1]).polys[f[2]].ground BY <2>5
    <3>2. Header(slots, To(f)).polys[PolyOf(f[3].ref)].ground BY <2>5
    <3>3. /\ f[1] \in UsedIn(slots) /\ To(f) \in UsedIn(slots)
          /\ \E side \in Sides :
                /\ Meets(slots, f[1], To(f), side)
                /\ \E e \in PortalsOf(Header(slots, f[1]), side) :
                      f \in EdgeFacts(slots, f[1], To(f), e)
      BY <2>1, <3>1, <3>2, ByPortal
    <3> QED BY <2>5, <3>3
  <2>7. PICK side \in Sides :
           Meets(slots, i, t, side) /\ \E e \in PortalsOf(d, side) : f \in EdgeFacts(slots, i, t, e)
    BY <2>6
  <2>8. PICK e \in PortalsOf(d, side) : f \in EdgeFacts(slots, i, t, e) BY <2>7
  <2>9. PICK m \in Range(MetBy(d, e, g)) : f = PortalFact(slots, i, t, e, m)
    BY <2>8 DEF EdgeFacts
  <2> DEFINE opp == OppositeTile(Dir(d, e))
             back == Opposite(side)
  <2>10. i \in Slots /\ Used(slots, i) /\ t \in Slots /\ Used(slots, t)
    BY <2>6 DEF UsedIn
  <2>11. /\ slots[i].data \in DOMAIN Data /\ d = Data[slots[i].data]
         /\ slots[t].data \in DOMAIN Data /\ g = Data[slots[t].data]
         /\ Size(slots, i) = Len(d.polys) /\ Size(slots, t) = Len(g.polys)
    BY <2>1, <2>10, HeaderIs
  <2>12. f[2] = e[1] /\ f[3].ref = PolyRef(slots, t, m) BY <2>9 DEF PortalFact
  <2>13. /\ e \in AllEdges(d) /\ Nei(d, e) >= ExtLink /\ side \in {AllSides, Dir(d, e)}
    BY DEF PortalsOf
  <2>14. e[1] \in 1..Len(d.polys) /\ x[2] = e[1] /\ Dir(d, e) \in 0..7
    BY <2>5, <2>11, <2>12, <2>13, EdgeIs, PortalSide
  <2>15. m \in 1..Len(g.polys) /\ Facing(EdgeAt(d, e), g, m, opp) # 0
    <3> DEFINE s == MetBy(d, e, g)
    <3>1. /\ s \in Seq(1..Len(g.polys))
          /\ \A a \in 1..Len(s) : Facing(EdgeAt(d, e), g, s[a], opp) # 0
      BY <2>11, ConnectingIs DEF MetBy
    <3>2. Range(s) = {s[a] : a \in 1..Len(s)} BY <3>1, RangeEquality
    <3>3. PICK a \in 1..Len(s) : m = s[a] BY <3>2
    <3> HIDE DEF s
    <3> QED BY <3>1, <3>3
  <2>16. m = k
    <3>1. PolyOf(PolyRef(slots, t, m)) = m BY <2>1, <2>10, <2>11, <2>15, PolyRefIs
    <3> QED BY <2>5, <2>12, <3>1
  <2>17. d.climb = g.climb BY <2>11 DEF SameClimbs
  <2>18. PICK j \in 1..Len(g.polys[m].neis) :
            /\ <<m, j>> \in AllEdges(g) /\ Nei(g, <<m, j>>) >= ExtLink
            /\ Dir(g, <<m, j>>) = opp
            /\ Facing(EdgeAt(g, <<m, j>>), d, e[1], OppositeTile(Dir(g, <<m, j>>))) # 0
    <3> HIDE DEF d, g
    <3> QED BY <2>11, <2>13, <2>15, <2>17, MetBack
  <2> DEFINE e2 == <<m, j>>
             s == MetBy(g, e2, d)
  <2>19. back \in Sides /\ Meets(slots, t, i, back)
    <3>1. Near(slots, i, t, side) BY <2>7 DEF Meets
    <3>2. back \in Sides BY SidesOpposite
    <3>3. Near(slots, t, i, back) BY <2>1, <2>10, <3>1, NearTurned
    <3> QED BY <3>2, <3>3 DEF Meets
  <2>20. e2 \in PortalsOf(g, back)
    <3>1. back \in {AllSides, opp} BY <2>13 DEF Opposite
    <3> HIDE DEF opp, back, g
    <3> QED BY <2>18, <3>1 DEF PortalsOf
  <2>21. /\ \A a, b \in 1..Len(s) : s[a] = s[b] => a = b
         /\ \/ e[1] \in Range(s)
            \/ Len(s) = MaxCon /\ \A a \in 1..MaxCon : s[a] \in 1..(e[1] - 1)
    <3> DEFINE a2 == EdgeAt(g, e2)
               turned == OppositeTile(Dir(g, e2))
               name == slots[i].data
               w == FindConnectingPolys(a2, Data[name], turned)
    <3>1. s = w BY <2>11 DEF MetBy
    <3>2. name \in DOMAIN Data /\ e[1] \in 1..Len(Data[name].polys) BY <2>11, <2>14
    <3>3. Facing(a2, Data[name], e[1], turned) # 0 BY <2>11, <2>18
    <3> HIDE DEF a2, turned, name, s
    <3>4. /\ \A a, b \in 1..Len(w) : w[a] = w[b] => a = b
          /\ \/ e[1] \in Range(w)
             \/ Len(w) = MaxCon /\ \A a \in 1..MaxCon : w[a] \in 1..(e[1] - 1)
      BY <3>2, <3>3, ConnectedOrCut
    <3> QED BY <3>1, <3>4
  <2>22. CASE e[1] \in Range(s)
    <3> DEFINE b == PortalFact(slots, t, i, e2, e[1])
    <3>1. b \in EdgeFacts(slots, t, i, e2) BY <2>22 DEF EdgeFacts
    <3>2. b \in PortalsTo(slots, t, i, back) BY <2>20, <3>1 DEF PortalsTo
    <3>3. b[1] = t /\ Seen(b) = <<t, m, PolyRef(slots, i, e[1])>>
      BY DEF PortalFact, Seen
    <3> HIDE DEF b, back, e2, s
    <3>4. b \in All(slots)
      <4>1. PortalsTo(slots, t, i, back) \subseteq All(slots) BY <2>1, <2>6, <2>19, AllAre
      <4> QED BY <3>2, <4>1
    <3>5. Made(tiles, b) BY <2>2, <3>3, <3>4 DEF Linking
    <3>6. Seen(b) \in MadeLinks BY <2>1, <2>2, <2>3, <3>4, <3>5, MadeIs
    <3>7. <<t, k, PolyRef(slots, i, x[2])>> \in MadeLinks BY <2>14, <2>16, <3>3, <3>6
    <3> QED BY <3>7
  <2>23. CASE Len(s) = MaxCon /\ \A a \in 1..MaxCon : s[a] \in 1..(e[1] - 1)
    <3> DEFINE N == 1..(e[1] - 1)
               L == {l \in LinksOf(tiles, t, e2[1]) :
                       l.edge = e2[2] - 1 /\ l.ref \in {PolyRef(slots, i, n) : n \in N}}
    <3>1. N \in SUBSET (1..Size(slots, i))
      <4>1. e[1] \in 1..Size(slots, i) /\ Size(slots, i) \in Nat
        BY <2>1, <2>10, <2>11, <2>14, HeaderIs
      <4> QED BY <4>1
    <3>2. \A a \in 1..Len(s) : s[a] \in N BY <2>23
    <3> HIDE DEF N
    <3>3. Len(s) = Cardinality(L)
      <4> HIDE DEF e2, back
      <4> QED BY <2>1, <2>2, <2>6, <2>19, <2>20, <2>21, <3>1, <3>2, LinksOfEdge
    <3>4. L = Before(e2) BY <2>14, <2>16 DEF LinksOf, N
    <3>5. e2 \in Range(EdgesOf(g, k))
      <4>1. Range(EdgesOf(g, m)) = {<<m, a>> : a \in 1..Len(g.polys[m].neis)}
        BY <2>11, <2>15, EdgesOfIs
      <4> QED BY <2>16, <4>1
    <3>6. MaxCon = Cardinality(Before(e2)) BY <2>23, <3>3, <3>4
    <3> HIDE DEF L, e2, s
    <3>7. \E a \in Range(EdgesOf(g, k)) : MaxCon = Cardinality(Before(a))
      BY <3>5, <3>6
    <3> QED BY <3>7
  <2> QED BY <2>21, <2>22, <2>23
<1> QED BY <1>1, MeshInductive, PTL
===============================================================================
