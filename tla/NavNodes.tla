------------------------------- MODULE NavNodes -------------------------------
(***************************************************************************)
(* dtNodePool, the hashed arena a search takes its nodes from, and         *)
(* dtNodeQueue, the binary heap that is its open list.  A node is known by *)
(* its index, from 1; 0 is "none", both as a parent and at the end of a    *)
(* hash chain (DT_NULL_IDX).  The heap is a function from its slots 0..n-1 *)
(* to node indexes, ordered by the nodes' totals.                          *)
(***************************************************************************)
EXTENDS NavNumbers, Sequences, FiniteSets, FiniteSetsExt, Functions

CONSTANT HashRef(_)  \* dtHashRef, whatever it makes of a reference

-------------------------------------------------------------------------------
(* dtNodePool *)

NodePool(maxNodes, hashSize) ==
    [max |-> maxNodes, nodes |-> <<>>, next |-> <<>>,
     first |-> [b \in 0..(hashSize - 1) |-> 0]]

ClearPool(pool) ==
    [pool EXCEPT !.nodes = <<>>, !.next = <<>>,
                 !.first = [b \in DOMAIN @ |-> 0]]

Bucket(pool, id) == HashRef(id) % Cardinality(DOMAIN pool.first)

\* The nodes of one hash chain, as the walk along m_next meets them.  A new
\* node goes to the head of its chain, so the walk only ever meets older ones.
Chain(pool, b) ==
    LET From[i \in 0..Len(pool.nodes)] ==
            IF i = 0 THEN <<>> ELSE <<i>> \o From[pool.next[i]]
    IN  From[pool.first[b]]

FindNodes(pool, id, maxNodes) ==
    LET From[i \in 0..Len(pool.nodes)] ==
            IF i = 0 THEN <<>>
            ELSE (IF pool.nodes[i].id = id THEN <<i>> ELSE <<>>)
                   \o From[pool.next[i]]
        found == From[pool.first[Bucket(pool, id)]]
    IN  SubSeq(found, 1, Min({Len(found), maxNodes}))

\* The node of a polygon and state, 0 when it has none.
FindNode(pool, id, state) ==
    LET From[i \in 0..Len(pool.nodes)] ==
            IF \/ i = 0
               \/ pool.nodes[i].id = id /\ pool.nodes[i].state = state
            THEN i ELSE From[pool.next[i]]
    IN  From[pool.first[Bucket(pool, id)]]

\* getNode: that node, or the next of the arena, or none when that is spent.
CanGetNode(pool, id, state) ==
    FindNode(pool, id, state) # 0 \/ Len(pool.nodes) < pool.max

NodeIdx(pool, id, state) ==
    LET found == FindNode(pool, id, state)
    IN  IF found # 0 THEN found ELSE Len(pool.nodes) + 1

GetNode(pool, id, state) ==
    IF FindNode(pool, id, state) # 0 THEN pool
    ELSE LET b == Bucket(pool, id)
             i == Len(pool.nodes) + 1
         IN  [pool EXCEPT
                !.nodes = Append(@, [id |-> id, state |-> state, pidx |-> 0,
                                     pos |-> <<>>, cost |-> 0, total |-> 0,
                                     flags |-> {}]),
                !.next = Append(@, pool.first[b]),
                !.first[b] = i]

\* The nodes from i back to the start, in the order of the path.
Trail(nodes, i) ==
    LET To[n \in 0..Len(nodes)] ==
            IF n = 0 THEN <<>> ELSE Append(To[nodes[n].pidx], n)
    IN  To[i]

Refs(nodes, trail) == [k \in 1..Len(trail) |-> nodes[trail[k]].id]

GetPathToNode_Tail(nodes, i, maxPath) ==
    LET trail == Trail(nodes, i)
        from == Max({1, Len(trail) - maxPath + 1})
    IN  [path |-> Refs(nodes, SubSeq(trail, from, Len(trail))),
         details |-> IF Len(trail) > maxPath THEN {"BUFFER_TOO_SMALL"} ELSE {}]

\* getPathToNode: the start of the path, if not all of it fits.
GetPathToNode(nodes, i, maxPath) ==
    LET trail == Trail(nodes, i)
    IN  [path |-> Refs(nodes, SubSeq(trail, 1, Min({Len(trail), maxPath}))),
         details |-> IF Len(trail) > maxPath THEN {"BUFFER_TOO_SMALL"} ELSE {}]

-------------------------------------------------------------------------------
(* dtNodeQueue *)

EmptyQueue == [s \in {} |-> 0]
Parent(s) == (s - 1) \div 2

\* A hole at slot `at` climbs past every ancestor of a larger total, each of
\* which moves down into it; the node fills the hole where it stops.
BubbleUp(pool, heap, at, node) ==
    LET Total(i) == pool.nodes[i].total
        Climb[s \in 0..at] ==
            IF s > 0 /\ Total(heap[Parent(s)]) > Total(node)
            THEN {s} \cup Climb[Parent(s)] ELSE {s}
        hole == Climb[at]
    IN  [s \in DOMAIN heap \cup {at} |->
            IF s = Min(hole) THEN node
            ELSE IF s \in hole THEN heap[Parent(s)] ELSE heap[s]]

Child_Left(pool, heap, s) == 2 * s + 1

\* The smaller child, the left one of two equal ones.
Child(pool, heap, s) ==
    LET left == 2 * s + 1
    IN  IF /\ left + 1 \in DOMAIN heap
           /\ pool.nodes[heap[left]].total > pool.nodes[heap[left + 1]].total
        THEN left + 1 ELSE left

\* A hole at the root sinks to a leaf along the smaller children, whatever the
\* node's total, and the node climbs from there.
TrickleDown(pool, heap, node) ==
    LET Sink[s \in DOMAIN heap] ==
            IF 2 * s + 1 \in DOMAIN heap
            THEN {s} \cup Sink[Child(pool, heap, s)] ELSE {s}
        leaf == Max(Sink[0])
        sunk == [s \in DOMAIN heap |->
                   IF s \in Sink[0] \ {leaf} THEN heap[Child(pool, heap, s)]
                   ELSE heap[s]]
    IN  BubbleUp(pool, sunk, leaf, node)

Top(heap) == heap[0]

Pop(pool, heap) ==
    LET last == Cardinality(DOMAIN heap) - 1
        rest == Restrict(heap, 0..(last - 1))
    IN  IF last = 0 THEN EmptyQueue ELSE TrickleDown(pool, rest, heap[last])

Push(pool, heap, node) == BubbleUp(pool, heap, Cardinality(DOMAIN heap), node)

Modify(pool, heap, node) ==
    IF \E s \in DOMAIN heap : heap[s] = node
    THEN BubbleUp(pool, heap, Min({s \in DOMAIN heap : heap[s] = node}), node)
    ELSE heap

-------------------------------------------------------------------------------
(* What the two structures promise their users. *)

\* A node is in the chain of its reference's bucket and no other, and no two
\* nodes stand for one polygon in one state: findNode has one answer.
ChainsOK(pool) ==
    /\ \A b \in DOMAIN pool.first : \A k \in 1..Len(Chain(pool, b)) :
          Bucket(pool, pool.nodes[Chain(pool, b)[k]].id) = b
    /\ \A i, j \in 1..Len(pool.nodes) :
          i # j => <<pool.nodes[i].id, pool.nodes[i].state>>
                     # <<pool.nodes[j].id, pool.nodes[j].state>>
    /\ \A i \in 1..Len(pool.nodes) :
          FindNode(pool, pool.nodes[i].id, pool.nodes[i].state) = i

\* No parent in the heap has a larger total than its child.
HeapOK(pool, heap) ==
    /\ DOMAIN heap = 0..(Cardinality(DOMAIN heap) - 1)
    /\ \A s \in DOMAIN heap \ {0} :
          pool.nodes[heap[Parent(s)]].total <= pool.nodes[heap[s]].total

\* The heap holds exactly the nodes flagged open, each once.
OpenOK(pool, heap) ==
    /\ IsInjective(heap)
    /\ Range(heap) = {i \in 1..Len(pool.nodes) : "OPEN" \in pool.nodes[i].flags}
===============================================================================
