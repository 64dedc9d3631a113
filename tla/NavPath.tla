------------------------------- MODULE NavPath --------------------------------
(***************************************************************************)
(* The path searches of dtNavMeshQuery: findPath, which runs to its end,   *)
(* and the sliced search, which a caller starts, updates a few iterations  *)
(* at a time and finalizes, while tiles of the mesh may go.  Both use the  *)
(* query's one node pool and open list.  A step of a loop is an action;    *)
(* nothing else happens during findPath's.  An update stands for one of    *)
(* its iterations: several in one call are as many calls of one iteration. *)
(* Other calls wait until a sliced search is finalized, as the warning of  *)
(* initSlicedFindPath asks.                                                *)
(* DT_FINDPATH_ANY_ANGLE, whose steps also cast rays, is not modelled.     *)
(***************************************************************************)
EXTENDS NavCosts, NavNodes, SequencesExt

CONSTANTS
    PoolSizes,  \* bound: the values of init's maxNodes
    PathSizes   \* bound: the values of maxPath

ASSUME PoolSizesAssumption == PoolSizes \subseteq Nat \ 0..3
ASSUME PathSizesAssumption == PathSizes \subseteq Nat \ {0}
ASSUME PolysAssumption ==
    \A mesh \in Meshes :
       /\ IsFiniteSet(Polys(mesh))
       /\ \A p \in Polys(mesh) \cup DOMAIN mesh.spot : HashRef(p) \in Nat

VARIABLES
    mesh,    \* m_nav
    gone,    \* its removed tiles
    pool,    \* m_nodePool
    heap,    \* m_openList
    query,   \* m_query, the sliced search
    call,    \* the locals of findPath while it runs
    answer   \* what the call just made returned

vars == <<mesh, gone, pool, heap, query, call, answer>>

Status(code, details) == [code |-> code, details |-> details]
NoQuery == [status |-> Status("NONE", {}), start |-> NoRef, end |-> NoRef,
            last |-> 0]
NoCall == [start |-> NoRef]
NoAnswer == [op |-> "none"]

SliceUnderWay ==
    query.status.code \in {"IN_PROGRESS", "SUCCESS"} /\ query.start # query.end

-------------------------------------------------------------------------------
(* The steps both searches share.  A search is a record `s` of the pool, the *)
(* heap, the best node so far (`last`), how far that is from the end, and    *)
(* whether the pool ran out; a job says what is searched.                    *)

StartNode(j) ==
    LET fresh == ClearPool(pool)
        i == NodeIdx(fresh, j.start, 0)
        toGo == Heuristic(mesh.spot[j.start], mesh.spot[j.end])
        started == [GetNode(fresh, j.start, 0) EXCEPT
                      !.nodes[i] = [@ EXCEPT !.pos = mesh.spot[j.start],
                                             !.total = toGo,
                                             !.flags = {"OPEN"}]]
    IN  [pool |-> started, heap |-> Push(started, EmptyQueue, i),
         last |-> i, lastCost |-> toGo, full |-> FALSE]

CrossSide(link) == IF link.side = Inside THEN 0 ELSE link.side \div 2

Offer_NoParentCost(j, nodes, best, i) ==
    LET pos == GetEdgeMidPoint(mesh, nodes[best].id, nodes[i].id)
    IN  [pos |-> pos, toGo |-> Heuristic(pos, mesh.spot[j.end]),
         cost |-> GetCost(j.filter, mesh, nodes[best].pos, pos, nodes[best].id)]

\* The cost of reaching node i from the best node, and what is left from there.
Offer(j, nodes, best, i) ==
    LET from == nodes[best]
        to == nodes[i]
        goal == mesh.spot[j.end]
        pos == IF to.flags = {} THEN GetEdgeMidPoint(mesh, from.id, to.id)
               ELSE to.pos
        curCost == GetCost(j.filter, mesh, from.pos, pos, from.id)
        endCost == GetCost(j.filter, mesh, pos, goal, to.id)
    IN  IF to.id = j.end
        THEN [pos |-> pos, cost |-> from.cost + curCost + endCost, toGo |-> 0]
        ELSE [pos |-> pos, cost |-> from.cost + curCost,
              toGo |-> Heuristic(pos, goal)]

SetNode(p, best, i, offer) ==
    [p EXCEPT !.nodes[i] = [@ EXCEPT !.pos = offer.pos,
                                     !.pidx = best,
                                     !.cost = offer.cost,
                                     !.total = offer.cost + offer.toGo,
                                     !.flags = {"OPEN"}]]

Reached_LastAlways(s, best, i, offer) ==
    LET set == SetNode(s.pool, best, i, offer)
    IN  [s EXCEPT
           !.pool = set,
           !.heap = IF "OPEN" \in s.pool.nodes[i].flags
                    THEN Modify(set, @, i) ELSE Push(set, @, i),
           !.last = i, !.lastCost = offer.toGo]

\* "Add or update the node", and the nearest node so far.
Reached(s, best, i, offer) ==
    LET wasOpen == "OPEN" \in s.pool.nodes[i].flags
        set == SetNode(s.pool, best, i, offer)
        nearer == offer.toGo < s.lastCost
    IN  [s EXCEPT
           !.pool = set,
           !.heap = IF wasOpen THEN Modify(set, @, i) ELSE Push(set, @, i),
           !.last = IF nearer THEN i ELSE @,
           !.lastCost = IF nearer THEN offer.toGo ELSE @]

\* A sliced search leaves alone what it reached from the best node's parent.
Sibling_Root(j, nodes, best, i) == j.sliced /\ nodes[i].pidx = nodes[best].pidx

Sibling(j, nodes, best, i) ==
    j.sliced /\ nodes[i].pidx # 0 /\ nodes[i].pidx = nodes[best].pidx

Relax(j, best, s, link) ==
    LET parent == s.pool.nodes[best].pidx
        back == parent # 0 /\ link.to = s.pool.nodes[parent].id
        state == IF j.sliced THEN 0 ELSE CrossSide(link)
        got == GetNode(s.pool, link.to, state)
        i == NodeIdx(s.pool, link.to, state)
        offer == Offer(j, got.nodes, best, i)
        worse == /\ got.nodes[i].flags # {}
                 /\ offer.cost + offer.toGo >= got.nodes[i].total
    IN  IF \/ ~IsLeft(mesh, gone, link) \/ back
           \/ ~PassFilter(j.filter, mesh, link.to) THEN s
        ELSE IF ~CanGetNode(s.pool, link.to, state) THEN [s EXCEPT !.full = TRUE]
        ELSE IF Sibling(j, got.nodes, best, i) \/ worse THEN s
        ELSE Reached([s EXCEPT !.pool = got], best, i, offer)

PopBest_Peek(s) ==
    [s EXCEPT !.pool.nodes[Top(s.heap)].flags = (@ \ {"OPEN"}) \cup {"CLOSED"}]

\* The best node leaves the open list for the closed.
PopBest(s) ==
    [s EXCEPT !.heap = Pop(s.pool, @),
              !.pool.nodes[Top(s.heap)].flags = (@ \ {"OPEN"}) \cup {"CLOSED"}]

\* The links of the best node in the order of their list.  Each step of the
\* fold is made a value, so that TLC evaluates it once.
Expand(j, s) ==
    LET best == Top(s.heap)
        links == mesh.links[s.pool.nodes[best].id]
        After[k \in 0..Len(links)] ==
            IF k = 0 THEN PopBest(s)
            ELSE CHOOSE r \in {Relax(j, best, acc, links[k]) :
                                  acc \in {After[k - 1]}} : TRUE
    IN  After[Len(links)]

Locals(r) == [pool |-> pool, heap |-> heap, last |-> r.last,
              lastCost |-> r.lastCost, full |-> r.full]

-------------------------------------------------------------------------------
(* findPath *)

InitQuery(maxNodes) ==
    /\ call = NoCall /\ query = NoQuery
    /\ pool' = IF pool.max < maxNodes
               THEN NodePool(maxNodes, NextPow2(maxNodes \div 4))
               ELSE ClearPool(pool)
    /\ heap' = EmptyQueue
    /\ answer' = NoAnswer
    /\ UNCHANGED <<mesh, gone, query, call>>

FindPath(start, end, filter, maxPath) ==
    /\ call = NoCall
    /\ query = NoQuery
    /\ IF \/ ~IsValidPolyRef(mesh, gone, start)
          \/ ~IsValidPolyRef(mesh, gone, end)
       THEN /\ answer' = [op |-> "find", start |-> start, end |-> end,
                          status |-> Status("FAILURE", {"INVALID_PARAM"}),
                          path |-> <<>>, max |-> maxPath, ended |-> TRUE]
            /\ UNCHANGED <<pool, heap, call>>
       ELSE IF start = end
       THEN /\ answer' = [op |-> "find", start |-> start, end |-> end,
                          status |-> Status("SUCCESS", {}), path |-> <<start>>,
                          max |-> maxPath, ended |-> TRUE]
            /\ UNCHANGED <<pool, heap, call>>
       ELSE LET j == [start |-> start, end |-> end, filter |-> filter,
                      sliced |-> FALSE]
                s == StartNode(j)
            IN  /\ pool' = s.pool /\ heap' = s.heap
                /\ call' = [start |-> start, end |-> end, job |-> j,
                            max |-> maxPath, found |-> FALSE, last |-> s.last,
                            lastCost |-> s.lastCost, full |-> FALSE]
                /\ answer' = NoAnswer
    /\ UNCHANGED <<mesh, gone, query>>

BestId == pool.nodes[Top(heap)].id

FindPathStep ==
    /\ call # NoCall /\ ~call.found
    /\ heap # EmptyQueue
    /\ \E s \in {IF BestId = call.end
                 THEN [PopBest(Locals(call)) EXCEPT !.last = Top(heap)]
                 ELSE Expand(call.job, Locals(call))} :
           /\ pool' = s.pool /\ heap' = s.heap
           /\ call' = [call EXCEPT !.found = BestId = call.end,
                                   !.last = s.last, !.lastCost = s.lastCost,
                                   !.full = s.full]
    /\ UNCHANGED <<mesh, gone, query, answer>>

FindPathReturns ==
    /\ call # NoCall
    /\ call.found \/ heap = EmptyQueue
    /\ LET got == GetPathToNode(pool.nodes, call.last, call.max)
           partial == pool.nodes[call.last].id # call.end
       IN  answer' = [op |-> "find", start |-> call.start, end |-> call.end,
                      filter |-> call.job.filter,
                      status |-> Status("SUCCESS", got.details
                          \cup (IF partial THEN {"PARTIAL_RESULT"} ELSE {})
                          \cup (IF call.full THEN {"OUT_OF_NODES"} ELSE {})),
                      path |-> got.path, max |-> call.max, ended |-> TRUE]
    /\ call' = NoCall
    /\ UNCHANGED <<mesh, gone, pool, heap, query>>

-------------------------------------------------------------------------------
(* The sliced search *)

QueryJob == [start |-> query.start, end |-> query.end,
             filter |-> query.filter, sliced |-> TRUE]

InitSlicedFindPath(start, end, filter) ==
    /\ call = NoCall
    /\ IF \/ ~IsValidPolyRef(mesh, gone, start)
          \/ ~IsValidPolyRef(mesh, gone, end)
       THEN /\ query' = [NoQuery EXCEPT !.status = Status("FAILURE", {}),
                                        !.start = start, !.end = end]
            /\ UNCHANGED <<pool, heap>>
       ELSE IF start = end
       THEN /\ query' = [NoQuery EXCEPT !.status = Status("SUCCESS", {}),
                                        !.start = start, !.end = end]
            /\ UNCHANGED <<pool, heap>>
       ELSE LET j == [start |-> start, end |-> end, filter |-> filter,
                      sliced |-> TRUE]
                s == StartNode(j)
            IN  /\ pool' = s.pool /\ heap' = s.heap
                /\ query' = [status |-> Status("IN_PROGRESS", {}),
                             start |-> start, end |-> end, filter |-> filter,
                             last |-> s.last, lastCost |-> s.lastCost,
                             full |-> FALSE]
    /\ answer' = NoAnswer
    /\ UNCHANGED <<mesh, gone, call>>

\* "The polygon has disappeared during the sliced query": the best node's, its
\* parent's or its grandparent's.
Disappeared ==
    LET parent == pool.nodes[Top(heap)].pidx
        grandpa == IF parent = 0 THEN 0 ELSE pool.nodes[parent].pidx
        Lost(i) == i # 0 /\ ~IsValidPolyRef(mesh, gone, pool.nodes[i].id)
    IN  Lost(Top(heap)) \/ Lost(parent) \/ Lost(grandpa)

EndsValid == /\ IsValidPolyRef(mesh, gone, query.start)
             /\ IsValidPolyRef(mesh, gone, query.end)

Details(full) == IF full THEN {"OUT_OF_NODES"} ELSE {}

Searched(s, code) ==
    /\ pool' = s.pool /\ heap' = s.heap
    /\ query' = [query EXCEPT !.status = Status(code, Details(s.full)),
                              !.last = s.last, !.lastCost = s.lastCost,
                              !.full = s.full]

UpdateSlicedFindPath ==
    /\ call = NoCall
    /\ query.status.code = "IN_PROGRESS"
    /\ \/ /\ ~EndsValid
          /\ query' = [query EXCEPT !.status = Status("FAILURE", {})]
          /\ UNCHANGED <<pool, heap>>
       \/ /\ EndsValid
          /\ heap # EmptyQueue /\ BestId = query.end
          /\ Searched([PopBest(Locals(query)) EXCEPT !.last = Top(heap)],
                      "SUCCESS")
       \/ /\ EndsValid
          /\ heap # EmptyQueue /\ BestId # query.end /\ Disappeared
          /\ pool' = PopBest(Locals(query)).pool
          /\ heap' = PopBest(Locals(query)).heap
          /\ query' = [query EXCEPT !.status = Status("FAILURE", {})]
       \/ /\ EndsValid
          /\ heap # EmptyQueue => BestId # query.end /\ ~Disappeared
          /\ LET s == IF heap = EmptyQueue THEN Locals(query)
                      ELSE Expand(QueryJob, Locals(query))
             IN  Searched(s, IF s.heap = EmptyQueue THEN "SUCCESS"
                             ELSE "IN_PROGRESS")
    /\ answer' = NoAnswer
    /\ UNCHANGED <<mesh, gone, call>>

\* The parents along a trail are turned round, to point to the next node.
Reversed(nodes, trail) ==
    [i \in 1..Len(nodes) |->
        IF i \notin Range(trail) THEN nodes[i]
        ELSE LET k == CHOOSE k \in 1..Len(trail) : trail[k] = i
             IN  [nodes[i] EXCEPT !.pidx = IF k = Len(trail) THEN 0
                                           ELSE trail[k + 1]]]

\* Both finalize functions: the path to a node, and the query reset.
Finalized(op, i, partial, maxPath) ==
    LET trail == Trail(pool.nodes, i)
        tooSmall == Len(trail) >= maxPath
    IN  /\ answer' = [op |-> op, start |-> query.start, end |-> query.end,
                      filter |-> query.filter,
                      status |-> Status("SUCCESS", query.status.details
                          \cup (IF partial THEN {"PARTIAL_RESULT"} ELSE {})
                          \cup (IF tooSmall THEN {"BUFFER_TOO_SMALL"} ELSE {})),
                      path |-> Refs(pool.nodes,
                                  SubSeq(trail, 1, Min({Len(trail), maxPath}))),
                      max |-> maxPath,
                      ended |-> query.status.code = "SUCCESS"]
        /\ pool' = [pool EXCEPT !.nodes = Reversed(@, trail)]

Failed(op, maxPath) ==
    /\ query.status.code = "FAILURE"
    /\ answer' = [op |-> op, start |-> query.start, end |-> query.end,
                  status |-> Status("FAILURE", {}), path |-> <<>>,
                  max |-> maxPath, ended |-> TRUE]
    /\ UNCHANGED pool

SamePoly(op, maxPath) ==
    /\ query.status.code # "FAILURE" /\ query.start = query.end
    /\ answer' = [op |-> op, start |-> query.start, end |-> query.end,
                  status |-> Status("SUCCESS", query.status.details),
                  path |-> <<query.start>>, max |-> maxPath, ended |-> TRUE]
    /\ UNCHANGED pool

FinalizeSlicedFindPath(maxPath) ==
    /\ call = NoCall
    /\ \/ Failed("sliced", maxPath)
       \/ SamePoly("sliced", maxPath)
       \/ /\ SliceUnderWay
          /\ Finalized("sliced", query.last,
                       pool.nodes[query.last].id # query.end, maxPath)
    /\ query' = NoQuery
    /\ UNCHANGED <<mesh, gone, heap, call>>

\* The node of the furthest polygon of `existing` that was visited, 0 if none.
Furthest(existing) ==
    LET seen == {k \in 1..Len(existing) :
                    FindNodes(pool, existing[k], 1) # <<>>}
    IN  IF seen = {} THEN 0 ELSE Head(FindNodes(pool, existing[Max(seen)], 1))

FinalizeSlicedFindPathPartial(existing, maxPath) ==
    /\ call = NoCall
    /\ \/ Failed("partial", maxPath)
       \/ SamePoly("partial", maxPath)
       \/ /\ SliceUnderWay
          /\ LET i == Furthest(existing)
             IN  Finalized("partial", IF i # 0 THEN i ELSE query.last,
                           i = 0, maxPath)
    /\ query' = NoQuery
    /\ UNCHANGED <<mesh, gone, heap, call>>

\* removeTile between two calls; NavTiles has what it does to the mesh.
RemoveTile(t) ==
    /\ call = NoCall
    /\ t \notin gone
    /\ gone' = gone \cup {t}
    /\ answer' = NoAnswer
    /\ UNCHANGED <<mesh, pool, heap, query, call>>

-------------------------------------------------------------------------------

Init ==
    /\ mesh \in Meshes
    /\ gone = {}
    /\ \E n \in PoolSizes : pool = NodePool(n, NextPow2(n \div 4))
    /\ heap = EmptyQueue
    /\ query = NoQuery
    /\ call = NoCall
    /\ answer = NoAnswer

Existing == {<<p, q>> : p, q \in DOMAIN mesh.spot}

Next ==
    \/ \E n \in PoolSizes : InitQuery(n)
    \/ \E p, q \in DOMAIN mesh.spot, f \in Filters, n \in PathSizes :
          FindPath(p, q, f, n)
    \/ FindPathStep
    \/ FindPathReturns
    \/ \E p, q \in DOMAIN mesh.spot, f \in Filters :
          InitSlicedFindPath(p, q, f)
    \/ UpdateSlicedFindPath
    \/ \E n \in PathSizes : FinalizeSlicedFindPath(n)
    \/ \E e \in Existing, n \in PathSizes : FinalizeSlicedFindPathPartial(e, n)
    \/ \E t \in Range(mesh.tile) : RemoveTile(t)

Spec == Init /\ [][Next]_vars

Searching == call # NoCall \/ SliceUnderWay

\* The polygons the links and the filter let one walk to.
Reachable(j) ==
    LET Beyond(ps) == {q \in Polys(mesh) :
            /\ PassFilter(j.filter, mesh, q)
            /\ \E p \in ps : \E l \in Range(mesh.links[p]) :
                  l.to = q /\ IsLeft(mesh, gone, l)}
        Ball[n \in 0..Cardinality(Polys(mesh))] ==
            IF n = 0 THEN {j.start}
            ELSE LET ball == Ball[n - 1] IN ball \cup Beyond(ball)
    IN  Ball[Cardinality(Polys(mesh))]

\* findPath runs its loop to the end.
FairSpec == Spec /\ WF_vars(FindPathStep \/ FindPathReturns)

-------------------------------------------------------------------------------
(* Properties *)

\* The search NavSearch describes is the one under way: its entries are the
\* nodes, by polygon and state; when a call returned, none is.
Job == IF call # NoCall THEN call.job
       ELSE IF SliceUnderWay THEN QueryJob ELSE [start |-> NoRef]

NodeOf(i) == <<pool.nodes[i].id, pool.nodes[i].state>>
Nodes == IF Searching THEN 1..Len(pool.nodes) ELSE {}

Entries ==
    [k \in {NodeOf(i) : i \in Nodes} |->
        LET n == pool.nodes[FindNode(pool, k[1], k[2])]
        IN  [pos |-> n.pos, cost |-> n.cost, total |-> n.total,
             parent |-> IF n.pidx = 0 THEN <<>> ELSE NodeOf(n.pidx)]]

LastNode == IF call # NoCall THEN call.last ELSE query.last

OpenNodes == IF Searching THEN {NodeOf(i) : i \in Range(heap)} ELSE {}
NearNode == IF Searching THEN NodeOf(LastNode) ELSE <<>>

EndFound ==
    \/ call # NoCall /\ call.found
    \/ /\ call = NoCall /\ SliceUnderWay
       /\ query.status.code = "SUCCESS"
       /\ pool.nodes[query.last].id = query.end

Search == INSTANCE NavSearch WITH
    capacity <- pool.max,
    job <- Job,
    entry <- Entries,
    open <- OpenNodes,
    near <- NearNode,
    found <- EndFound

\* Type correctness: the shape of nodes, heap, sliced query and answers.
TypeOK ==
    /\ pool.max \in PoolSizes /\ Len(pool.nodes) <= pool.max
    /\ \A i \in 1..Len(pool.nodes) :
          /\ pool.nodes[i].id \in Polys(mesh)
          /\ pool.nodes[i].state \in 0..3
          /\ pool.nodes[i].pidx \in 0..Len(pool.nodes)
          /\ pool.nodes[i].flags \in {{"OPEN"}, {"CLOSED"}}
    /\ Range(heap) \subseteq 1..Len(pool.nodes)
    /\ query.status.code \in {"NONE", "FAILURE", "IN_PROGRESS", "SUCCESS"}
    /\ answer # NoAnswer => Len(answer.path) <= answer.max

\* Types hold, the pool's hash finds every node, and the heap holds the open
\* ones with the least at its root, through every push, pop and lowered total (DetourNode).
NodesOK ==
    /\ TypeOK
    /\ ChainsOK(pool)
    /\ HeapOK(pool, heap)
    /\ Searching => OpenOK(pool, heap)

\* No entry is its own ancestor (NavSearch): following parents ends at the
\* start, which is what getPathToNode's and finalize's loops rely on to end.
Rooted == Search!Rooted

\* The search does what NavSearch says: nothing it has found is lost from the
\* map or from the open set, least totals go first, and the nearest is kept.
Refines == Search!SearchSpec

Linked(p, q) == \E l \in Range(mesh.links[p]) : l.to = q

\* A path starts at the start, every polygon of it is linked to the next, and
\* it ends at the end unless the answer says it is partial or cut short.
PathLinked ==
    answer # NoAnswer /\ answer.path # <<>> =>
        /\ Head(answer.path) = answer.start
        /\ \A k \in 1..(Len(answer.path) - 1) :
              Linked(answer.path[k], answer.path[k + 1])
        /\ answer.op # "partial" =>
              \/ answer.path[Len(answer.path)] = answer.end
              \/ answer.status.details
                   \cap {"PARTIAL_RESULT", "BUFFER_TOO_SMALL"} # {}

\* A search that ended without running out of nodes is partial only when there
\* is no way to the end.
Complete ==
    answer # NoAnswer /\ answer.op # "partial" /\ answer.ended
      /\ "PARTIAL_RESULT" \in answer.status.details
      /\ "OUT_OF_NODES" \notin answer.status.details =>
        answer.end \notin Reachable([start |-> answer.start,
                                    filter |-> answer.filter])

\* findPath returns: closed nodes may be opened again, but not for ever.
FindEnds == call # NoCall ~> call = NoCall
===============================================================================
