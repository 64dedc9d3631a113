------------------------------ MODULE NavSearch -------------------------------
(***************************************************************************)
(* What a path search of dtNavMeshQuery promises, without its node pool,   *)
(* hash chains and heap: a best-first search over a partial map `entry`    *)
(* from what it reached to how, and a set `open` of what it has not        *)
(* expanded since.  A polygon may be reached in several states (findPath   *)
(* tells the tile sides apart by which it was entered).                    *)
(***************************************************************************)
EXTENDS NavCosts, FiniteSets

VARIABLES
    mesh,      \* the mesh searched
    gone,      \* its tiles that have been removed
    capacity,  \* how many entries the query has room for
    job,       \* what is searched, NoJob between searches
    entry,     \* <<polygon, state>> -> how it was reached
    open,      \* the entries still to expand
    near,      \* the entry nearest the end
    found      \* the end has been taken from `open`

searchVars == <<mesh, gone, capacity, job, entry, open, near, found>>

NoJob == [start |-> NoRef]
NoKey == <<>>
NoEntry == [k \in {} |-> NoKey]

StartKey(j) == <<j.start, 0>>
Goal(j) == mesh.spot[j.end]

ToGo(k, e) == IF k[1] = job.end THEN 0 ELSE Heuristic(e.pos, Goal(job))

\* No other entry is nearer the end.
Nearest(k, entries) ==
    k \in DOMAIN entries /\ \A other \in DOMAIN entries :
        ToGo(k, entries[k]) <= ToGo(other, entries[other])

StateOf(link) ==
    IF job.sliced \/ link.side = Inside THEN 0 ELSE link.side \div 2

\* Where the expansion of an entry leads: not straight back, not where the
\* filter forbids, and in a sliced search not to its own siblings.
Steps(n) ==
    {<<l.to, StateOf(l)>> : l \in
        {l \in Range(mesh.links[n[1]]) :
            /\ mesh.tile[l.to] \notin gone
            /\ PassFilter(job.filter, mesh, l.to)
            /\ entry[n].parent # NoKey => l.to # entry[n].parent[1]}}
      \ {m \in DOMAIN entry : /\ job.sliced
                              /\ entry[m].parent # NoKey
                              /\ entry[m].parent = entry[n].parent}

PositionFrom(n, m) ==
    IF m \in DOMAIN entry THEN entry[m].pos
    ELSE GetEdgeMidPoint(mesh, n[1], m[1])

Candidate(n, m) ==
    LET pos == PositionFrom(n, m)
        cost == entry[n].cost
                  + GetCost(job.filter, mesh, entry[n].pos, pos, n[1])
                  + IF m[1] = job.end
                    THEN GetCost(job.filter, mesh, pos, Goal(job), m[1]) ELSE 0
        toGo == IF m[1] = job.end THEN 0 ELSE Heuristic(pos, Goal(job))
    IN  [pos |-> pos, cost |-> cost, total |-> cost + toGo, parent |-> n]

Improves(n, m) ==
    m \in DOMAIN entry => Candidate(n, m).total < entry[m].total

Least(n) == n \in open /\ \A k \in open : entry[n].total <= entry[k].total

-------------------------------------------------------------------------------

SearchInit ==
    /\ mesh \in Meshes
    /\ gone = {}
    /\ capacity \in Nat
    /\ job = NoJob
    /\ entry = NoEntry
    /\ open = {}
    /\ near = NoKey
    /\ found = FALSE

Begin(start, end, filter, sliced) ==
    /\ job = NoJob \/ (job.sliced /\ sliced)
    /\ start # end
    /\ IsValidPolyRef(mesh, gone, start) /\ IsValidPolyRef(mesh, gone, end)
    /\ job' = [start |-> start, end |-> end, filter |-> filter,
               sliced |-> sliced]
    /\ LET toGo == Heuristic(mesh.spot[start], mesh.spot[end])
       IN  entry' = [k \in {StartKey(job')} |->
                       [pos |-> mesh.spot[start], cost |-> 0, total |-> toGo,
                        parent |-> NoKey]]
    /\ open' = {StartKey(job')}
    /\ near' = StartKey(job')
    /\ found' = FALSE
    /\ UNCHANGED <<mesh, gone, capacity>>

\* Expand an open entry of least total.  What is reached for the first time
\* may be dropped, but only once the entries fill the query.
Settle(n) ==
    /\ job # NoJob /\ ~found
    /\ Least(n) /\ n[1] # job.end
    /\ LET all == DOMAIN entry \cup Steps(n)
           kept == DOMAIN entry'
           better == {m \in Steps(n) \cap kept : Improves(n, m)}
       IN  /\ DOMAIN entry \subseteq kept /\ kept \subseteq all
           /\ kept # all => Cardinality(kept) = capacity
           /\ entry' = [k \in kept |->
                          IF k \in better THEN Candidate(n, k) ELSE entry[k]]
           /\ open' = (open \ {n}) \cup better
    /\ Nearest(near', entry')
    /\ UNCHANGED <<mesh, gone, capacity, job, found>>

\* The end is the open entry of least total.
Reach(n) ==
    /\ job # NoJob /\ ~found
    /\ Least(n) /\ n[1] = job.end
    /\ open' = open \ {n}
    /\ near' = n
    /\ found' = TRUE
    /\ UNCHANGED <<mesh, gone, capacity, job, entry>>

\* A plain search ends when it has the end or nothing more to expand; the
\* caller of a sliced one may end it at any time.
End ==
    /\ job # NoJob
    /\ job.sliced \/ found \/ open = {}
    /\ job' = NoJob
    /\ entry' = NoEntry
    /\ open' = {}
    /\ near' = NoKey
    /\ found' = FALSE
    /\ UNCHANGED <<mesh, gone, capacity>>

Resize ==
    /\ job = NoJob
    /\ capacity' \in Nat
    /\ UNCHANGED <<mesh, gone, job, entry, open, near, found>>

\* Tiles may go while a sliced search waits for its next slice.
LoseTile(t) ==
    /\ job = NoJob \/ job.sliced
    /\ gone' = gone \cup {t}
    /\ UNCHANGED <<mesh, capacity, job, entry, open, near, found>>

SearchNext ==
    \/ \E start, end \in DOMAIN mesh.spot, filter \in Filters, s \in BOOLEAN :
          Begin(start, end, filter, s)
    \/ \E n \in open : Settle(n) \/ Reach(n)
    \/ End
    \/ Resize
    \/ \E t \in Range(mesh.tile) : LoseTile(t)

SearchSpec == SearchInit /\ [][SearchNext]_searchVars

-------------------------------------------------------------------------------
(* Properties *)

\* Only the start has no parent, and what an entry cost is at least what its
\* parent costs now and the way from there: a parent found cheaper later
\* leaves its children behind, never ahead.
CostsGrow ==
    \A k \in DOMAIN entry :
        IF entry[k].parent = NoKey THEN k = StartKey(job)
        ELSE LET from == entry[k].parent
             IN  /\ from \in DOMAIN entry
                 /\ entry[k].cost >= entry[from].cost
                      + GetCost(job.filter, mesh, entry[from].pos,
                                entry[k].pos, from[1])

\* No entries have all their parents among them: with a ring of parents the
\* walk back from it would never end.  Costs alone do not say so, since a way
\* may cost nothing.
NoRing ==
    \A ring \in SUBSET DOMAIN entry :
        (\A k \in ring : entry[k].parent \in ring) => ring = {}

\* Parents lead from every entry back to the start.
Rooted == CostsGrow /\ NoRing

-------------------------------------------------------------------------------
(* The inductive invariant, from which the parents lead back to the start  *)
(* whatever the mesh, the costs and the tiles that go (NavPathProofs)      *)

Jobs(m) == [start : DOMAIN m.spot, end : DOMAIN m.spot, filter : Filters,
            sliced : BOOLEAN]

\* What the costs of a search are made of.
EntriesTyped ==
    /\ mesh \in Meshes
    /\ DOMAIN entry # {} => job \in Jobs(mesh)
    /\ open \subseteq DOMAIN entry
    /\ \A k \in DOMAIN entry :
          /\ k # NoKey
          /\ k[1] \in Polys(mesh)
          /\ entry[k].pos \in Points(mesh)
          /\ entry[k].cost \in Nat
          /\ entry[k].total = entry[k].cost + ToGo(k, entry[k])

IInv == EntriesTyped /\ CostsGrow /\ NoRing

===============================================================================
