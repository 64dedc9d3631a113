# ms2ex in TLA+

ms2ex is a MapleStory 2 server in Elixir. One BEAM node runs a process per
connected client, per online character, per field (a map instance), per party,
guild and chat, and a few registries. Each process handles one message at a time;
what makes the server hard to get right is everything between two messages:
copies of another process's state, calls in both directions, timers that fire
late, and processes that stop in between. Under it lies a navigation library in C++
(Detour, bound through Rust) that finds the npcs' ways. It is hard for another reason:
its searches, links and references live in arrays of fixed size that are used again,
and are asked while the mesh under them changes. This directory models those parts,
checks the models with TLC and proves what matters most of them with TLAPS.

Contents: [the system](#1-the-system), [hard behaviours](#2-what-is-hard),
[modules](#3-the-modules), [runs](#4-the-runs), [proofs](#5-the-proofs),
[findings](#6-findings), [known disagreements](#7-known-disagreements),
[what is not modelled](#8-what-is-not-modelled), [plan](#9-plan).

Paths below are relative to `lib/ms2ex/` unless they begin with `docs/`, `test/` or
`native/`. Of the library, `Detour*.cpp` and `Detour*.h` are in `Source/` and `Include/`
under `native/navigation/csrc/recastnavigation/`.


## 1. The system

### Components, their state and operations

| Component | Process and state | Operations | Correct when |
|---|---|---|---|
| Network session (`net/session.ex`, `net/sender_session.ex`, `handlers/`) | one process per socket and one for its output; keys, account, character id | decode a packet, run its handler to the end, push packets | a handler's copy of shared state does no harm when it is written back |
| Character (`managers/character.ex`, `managers/character/`) | one per online character; the character struct: stats, death, cooldowns, buffs' gifts, field pid | lookup, update, hits, stat changes, regeneration, casts, revival; cleanup when the session goes down | health within bounds, one regeneration chain, death and tombstone agree |
| Field (`managers/field.ex`, `managers/field/`) | one per map, channel and instance; sessions, players, npcs, buffs, items, tombstones, timers | add and remove characters, buffs, ticks, broadcasts; stops when empty | it lives as long as its players, ends when empty, and every buff ends |
| Buff (`managers/buff.ex`) | an agent per buff, registered by local id | read, update, stop | one agent per registered buff |
| Party (`managers/party_server.ex`) | one per party; members with snapshots, leader, kick vote, ready check, damage meter | join, leave, kick, promote, vote, ready check, go offline | there is a leader; votes are fair and end; the index agrees |
| Party directory (`managers/party_manager.ex`, `party_search_server.ex`) | character → party; public listings | create, lookup, register, unregister, list | index and listings follow the parties |
| Guild (`managers/guild_server.ex`, `guild_manager.ex`) | one per guild; a cache of its rows, online members, invitations | invite, accept, leave, expel, ranks, leader, donate, check in | cache and rows agree; one leader |
| Group chat (`managers/group_chat.ex`) | one per chat; member ids | add, remove, stop when empty | chat and members agree on membership |
| Inventory, wallet, shop, storage, mail (`managers/*.ex`) | one process per character each; rows, balances, an open shop | add, move, consume, pay, deposit, collect | nothing is lost or duplicated across them |
| Quest, achievement, mastery, fishing, configuration | one process per character each | condition updates, rewards, saves | a reward is given once |
| Registries (`managers/session_manager.ex`, `global_counter.ex`) | account → sessions; next object id | register, look up, count | ids are unique |
| Formulas, metadata, packets, ciphers, web | no state of their own | compute, look up, encode | numbers and layouts |
| Mesh (`DetourNavMesh.cpp`) | slots for tiles with a salt each; per tile its polygons and a pool of links; flags, areas | add a tile (under a new reference or its old one), remove it, store and restore its state | references name the tile they were given for, or nothing; links join exactly what lies together |
| Node pool and open list (`DetourNode.cpp`) | an arena with a hash by reference, a binary heap | find or make a node, push, pop, lower a total | each polygon has one node in each state, the heap's root is least |
| Path search (`DetourNavMeshQuery.cpp`) | the pool, and the query of a sliced search | `findPath`; init, update, finalize of the sliced search | it ends; the path is linked; it is partial only if nodes ran out or there is no way |
| Searches round a point (same file) | the pool | polygons in a circle or shape, a random point, the distance to the wall, a path from the last search's nodes | complete, in the order of cost, no wall missed |
| Queries over a short range (same file) | a pool of 64 nodes, or none | `findLocalNeighbourhood`, `moveAlongSurface`, `raycast`, `getPolyWallSegments` | each answers as documented, and they agree on what is a wall |
| Queries by place (same file; `DetourNavMeshBuilder.cpp` builds the tree) | a tree of boxes per tile | `queryPolygons`, `findNearestPoly` | no polygon in the box is passed over |
| Straight path (same file) | none | `findStraightPath` | taut, in the corridor, cut where the corridor or the buffer ends |
| Binding (`native/navigation/src/lib.rs`, `csrc/shim.cpp`) | a mesh per map | load, snap, find a path, a random point | a partial route ends at the closest point |

### How they interact

- **Calls by name.** `Managed.call/2` finds a process by its registered name and
  calls it with the default 5 s; no process is `:error`, but an exit (timeout, the
  callee stopping) reaches the caller. `Field.call/2` catches it and returns `:error`.
- **Both directions.** Sessions and characters call the field (enter, leave, cast a
  buff); the field calls characters (look up a peer, update a joiner, send updates,
  compute a buff's amounts). Characters call the party in their cleanup; the party
  calls a character it kicks.
- **Casts.** Damage, heals, tombstones, buff removals, votes and directory updates are
  casts: ordered per sender, never answered.
- **Copies.** A handler looks a character or party up, works with that struct, and
  writes it back with `{:update, struct}`. `Character.update_state/2` decides which
  fields survive such a write.
- **Timers.** Regeneration, buff ticks and removals, vote and check deadlines, the
  field's grace window: messages to oneself by `Process.send_after`, of which only
  some can be cancelled.
- **Navigation.** The field asks the binding for a route or a point; each request makes a
  query of its own on the map's mesh. Within the library, queries read the mesh's links
  and keep their nodes in the pool until the next one clears it; a sliced search and
  `getPathFromDijkstraSearch` read nodes that an earlier call left there.
- **Monitors.** A character monitors its session and cleans up when it goes down;
  `PartyManager` monitors parties. Nothing is supervised: a field, party or character
  that crashes is gone until somebody starts it again.


## 2. What is hard

`PROJECT.json` lists the hazards at their lines; further ones are in the
known disagreements (section 7) and, of parts that are not modelled yet, in the plan
(section 9). The main groups:

- a handler acts on a state it read earlier (party snapshots, character copies, a buff
  sent in a reply, an answer to a vote that is over);
- a timer of something that has ended meets its successor (votes, ready checks, buffs
  refreshed since, a field that was entered again);
- calls that cross (field ↔ character, party ↔ character, guild ↔ character) end in
  timeouts, and a request whose caller gave up is handled all the same;
- a process stops between two steps of another (field dispose against enter, logout
  against add_character);
- one part of an operation is done and the next is not (stats given, agent not
  updated; currency paid, item refused);
- something that must happen in the end (every vote closes, every buff expires, the
  wounded regenerate, every logout finishes, every search ends).

In the navigation library:

- the node pool runs out in the middle of a search; entries that wait are lowered, and
  entries that were expanded are opened again, by costs that depend on the way they came;
- tiles go between two slices of a search, and between a search and the string pulled
  through its corridor;
- slots are used again, salts wrap and tiles come back under an old reference, while
  links, one by one, are put in and taken out from both sides;
- a tile has room for so many links, and an edge for four neighbours;
- a circle narrows with every wall met, and a funnel starts again from a corner it passed;
- a buffer is too small for the answer;
- floors lie over each other, tiles meet along parts of edges, boxes are rounded to cells:
  every query has its own way to tell what is near, open or a wall, and they should agree.


## 3. The modules

A GenServer handles one message at a time, so a handler is one action with every
state change it makes. An action is split only where the code lets another process
in: between a session's lookup and its update, between a call and its return.
Definitions carry the names of the functions they translate; `PROJECT.json` maps each
to its lines. Operators named `X_Suffix` just before a definition `X` are mutants:
plausible mistakes in that place, which the properties must detect.

### PartyServer — one party

| Variable | In the code |
|---|---|
| `members`, `online`, `leader` | `state.members`, the snapshots' `online?`, `state.leader_id` |
| `vote`, `voteTimers`, `nextVote` | `state.vote_kick`, pending `{:end_vote_kick, ref}`, `make_ref()` |
| `ready`, `checkTimers` | `state.ready_check`, pending `:end_ready_check` |
| `mailbox` | casts that sessions have sent after their own checks |
| `indexed` | `PartyManager`'s entries for this party |
| `status`, `stopping` | alive; `:shutdown` sent to self |

`SetLeader`, `MemberOffline`, `UpdateMember`, `RemoveMember`, `KickMember` are the
calls; `SendStartVote`, `SendStartCheck`, `SendAnswer` the checks sessions make before
they cast; `StartVoteKick`, `VoteKick`, `VoteKickAfterEnd` (the crash on a vote that is
over), `StartReadyCheck`, `ReadyCheck` the casts; `EndReadyCheck`, `EndVoteKick` and
`Shutdown` the messages to itself. Members are a set: the order of the list only
decides whom `Enum.find` returns, which is left open.

### CharacterVitals — health, death and revival

One character process, with the session handlers that hold copies of it (`copy`), the
buffs that move its maximum, the casts it has sent its field (`fieldMail`), and the
tombstone on that field. Clock readings are two flags: the regeneration deadline has
not passed (`wait`), the death penalty is on (`penalty`). The actions are the hits,
drains and falls, the potions, `RegenMessage` in its four cases, the revival by the
player, by the tombstone and for money, the daily reset, buffs applied and removed,
stat rebuilds, a handler's `Lookup` and `Update`, and the field's tombstone. A revival
to another map calls the character from inside itself and ends it (`RespawnElsewhere`).

### FieldBuffs — the buffs of fields

The helpers of `managers/field/buff.ex` thread the field's state; so do the operators
here, with a record of what they change: `count` (ids), `registered` (`state.buffs`),
`agents`, `timers`, `bonus` (what the owner's maximum is above its base, or below it) and
`cut`, which is not in the code. Time is explicit, and messages are handled up to
`MaxDelay` late; `Process.cancel_timer` reaches only those that are not due yet
(`WithoutRemoval`), so a buff can be refreshed while its removal is in the mailbox. What an
effect does to its owner is one number, a gain or a loss. `Modified` is
`Stats.modify_max/3` for the maximum: with `Base`, the maximum without buffs, it is floored
at 0, and as the code records the whole loss, its removal gives the whole of it back; `cut`
says that this has happened. A skill's buff takes two
steps, as in the code: the field registers it and replies (`AddBuff`), the character
gives itself the stats and writes the buff it was sent back into the agent
(`ApplyStatus`). Effects are constant functions — duration, interval, cap, what they
cancel, fire or stack — with the values of `test/ms2ex/buff_chain_test.exs`, but for the
amounts: in the runs the chill takes.

### FieldCalls — one shared field and the calls around it

The field has a mailbox (`inbox`) and, while it handles a message that makes it call, a
`task`. `waits` holds the processes with a call under way, `older` which of two of them
called first. Sessions enter, leave, cast and disconnect; characters pass a cast on to the
field, clean up and stop; the field adds (looking every peer up, then updating the joiner), removes, sends updates once a
second, applies skill buffs, and disposes of itself five minutes after its last player
left. `starts` is the field's incarnation and stands for its pid: a character that
holds the pid of a former one gets `:error`.

All calls have the same timeout, so the oldest runs out first; a process that is not
itself waiting answers long before. Hence a call times out only when it is the oldest
and its callee waits. A request whose caller has given up stays in the mailbox with
`live = FALSE`.

### The navigation library

Fifteen modules, one idea each, so that the data structures can be checked under every
search that uses them. Coordinates are whole numbers, polygons level rectangles.

| Module | Models | Extends |
|---|---|---|
| `NavGraph`, `NavCosts` | a mesh as a search sees it: polygons, links in list order, flags, areas, filters; costs and heuristic in thousandths | – |
| `NavNumbers` | `dtNextPow2`, by which both hash tables are sized | – |
| `NavNodes` | `dtNodePool` (arena, hash chains) and `dtNodeQueue` (binary heap), index by index | `NavNumbers` |
| `NavSearch` | the abstract path search: what is reached and how, what is open | `NavCosts` |
| `NavPath` | `findPath`, the sliced search with both ways to finalize it, `init`, tiles that go | `NavCosts`, `NavNodes` |
| `NavBoxes`, `NavPortals` | rectangles and distances; edges, portals, `getPortalPoints` | `NavGraph` |
| `NavTiles` | `dtNavMesh`: slots, salts, position lookup, links, connections, tile states | `NavBoxes`, `NavNumbers` |
| `NavStraight` | `findStraightPath` and the binding's `find_path_impl` | `NavPortals` |
| `NavAround` | the four searches round a point, and what reads the nodes they leave | `NavStraight`, `NavNodes` |
| `NavLocal` | neighbourhood, move, ray, wall segments | `NavPortals`, `NavNodes` |
| `NavTree` | `createBVTree`, `queryPolygons`, `findNearestPoly` | `NavGraph`, `NavBoxes` |
| `NavQueries` | composes the last three: one query object asked everything | `NavAround`, `NavLocal`, `NavTree` |
| `NavRoute` | composes a path search with the string pulled through its answer | `NavPath`, `NavStraight` |

**NavPath.** `pool` and `heap` are `m_nodePool` and `m_openList`, `query` is `m_query`,
`call` holds the locals of `findPath` while it runs, `answer` what the last call
returned. One iteration of a loop is one action (`FindPathStep`, `UpdateSlicedFindPath`);
between two updates tiles may go (`RemoveTile`). The order of the code is kept: the pool's
`getNode` may fail before the cost is known, a sliced search skips its siblings, an
improved node is moved in the heap or pushed again, the best-so-far node is replaced only
by a nearer one. `Search == INSTANCE NavSearch` maps nodes to entries by polygon and
state, the heap to the open set, and `lastBestNode` to `near`; `Refines` is its
specification.

**NavSearch** knows neither nodes, hash nor heap. `Settle` expands a least open entry:
everything it leads to is kept, except that what is new may be dropped once the entries
fill the query; what improves is updated and opened; `near` is an entry nearest the end.
`Reach` takes the end, `End` stops.

**NavTiles.** `slots` and `tiles` are `m_tiles`, `lut` and `freeList` are `m_posLookup` and
`m_nextFree`: a slot has its salt and its data, a tile its polygons' marks, their lists of
links and the number of its free ones. A reference has room for `Salts` salts,
`TileNumbers` tiles and `PolyNumbers` polygons. `held` and `saved`
are not in the code: the references a client was given, and the state it stored last.
The client drops a reference when the salt of its slot wraps, or when its tile comes back
under an older one, for no counter can tell these apart. Actions: `AddTile` (fresh, or
with `lastRef`), `RemoveTile`, `SetPolyFlags`, `SetPolyArea`, `StoreTileState`,
`RestoreTileState`. `addTile` links within the tile, then to the layers beside it, then to
the eight neighbours, both ways; `Linked` does it in that order. `DataAssumption` says what
tile data is: an inner edge leads to a ground polygon, a connection has a polygon of its own
without edges, polygons have `MaxVerts` corners at most, there are links enough for what is
within the tile, and a place has no more layers than `getTilesAt` is asked for.

**NavAround.** `search` is the record of the search that runs or ran last, one turn of its
loop at a time (`PolysTurn`, `RandomTurn`, `WallTurn`); its nodes stay, and
`GetPathFromDijkstraSearch` and `IsInClosedList` read them afterwards. A path read back is
also the corridor through which strings are pulled, whole, cut short by a small buffer,
and with a polygon gone.

**NavQueries** adds `asked`, a query and its answer. The queries of `NavLocal` and
`NavTree` keep nothing, so each is one action (`AskMove`, `AskRay`, ...) computed by
operators that follow the loops; they use the tiny pool and leave the search alone, so
they are asked only while none is there, and forgotten before anything else happens.
Three of its properties hold two queries against each other: where a move ends against a
ray the same way, a ray against the wall segments of what it crosses, the tree against
every polygon's own bounds.

`MCNavMeshes` makes the meshes of `nav_around` and `nav_route_end` with `NavTiles`' own
operators and `NavTree`'s: these queries run on links, limits, tile order and trees that
come from the models of the code that makes them.

### Proof modules

`PartyServerProofs`, `CharacterVitalsProofs`, `FieldBuffsProofs`, `FieldCallsProofs` and
`NavTilesProofs` extend the module they prove about. `NavNodesProofs` has the lemmas about
the node pool and the heap, which are operators and not a state machine; `NavPathProofs` and
`NavAroundProofs` stand on it. What is proved of `NavSearch`, which stands for no code of its
own, is proved in `NavPathProofs`, of the instance that `NavPath` refines.
The `MC` modules add what TLC needs (symmetry, the effects' tables, meshes).


## 4. The runs

| Run | Specification | Shows | Distinct states |
|---|---|---|---|
| `party` | safety | `PartyManager`'s index is the members; the leadership is only lost with the party; an open vote is undecided and can be decided; a kick is backed by half of the voters and not completed by a refusal | 1.8 million |
| `party_vote_ends` | fair | every vote ends | 120 thousand |
| `vitals_death` | safety | one regeneration chain, a tombstone exactly for the dead, only a revival raises them — with copies written back | 560 thousand |
| `vitals_regen` | fair | health between 0 and the maximum under buffs; the wounded regenerate until full | 250 thousand |
| `buffs_chain` | safety | stats balance, losses floored at 0 among them, and nothing ends early, not by a late removal either, through stacking, firing and cancelling | 250 thousand |
| `buffs_timers` | fair | agents and registrations agree and every end has a message pending; every buff with an end goes | 350 thousand |
| `field_calls` | fair | the field's lifetime, requests and sessions agree; every logout ends | 850 thousand |
| `field_logout` | – | the first disagreement of section 6 | small |
| `nav_path` | fair | hash and heap stay sound; the searches implement `NavSearch`; paths are linked, and partial only when nodes ran out or there is no way; `findPath` ends | 51 thousand |
| `nav_tiles` | safety | slots and links are conserved; links depend only on which tiles are there; portals lead back; a kept reference never means another tile | 84 thousand |
| `nav_around` | fair | what the searches round a point find, in which order; the nearest wall; paths read back; taut strings; the short-range queries and the tree; the searches end | 14 thousand |
| `nav_route_end` | – | the second disagreement of section 6 | small |

### Bounds

All are named in the modules and stand in guards, never in TLC constraints.

- `PartyServer`: `MaxVotes` 2, so a vote meets the timer of the one before; one cast in
  the mailbox (`MaxMailbox`), which is enough to be late for one vote and early for the
  next; `MaxAnswers`, `MaxChecks` let a check be completed, jammed and overtaken by an
  old timer. `MaxMembers` is 3 (10 in the code) and there are four characters: the party
  can be full with one outsider, for stale joins and kicks, and a late logout still makes it
  four, a target with three voters, the least where `votes_needed` is neither one nor all.
  `VoteMinimum` is 4 in the code and 3 here, so that votes of two are there as well.
- `CharacterVitals`: `MaxHurts` damaging messages — two to die and die again within the
  penalty, one more to interleave; one revive cast of the tombstone in flight;
  health of 3 or 4 with hits of 1 to 3, so a hit can wound, kill and overkill; two buffs,
  whose removals in either order take the maximum to 0. `vitals_death` has the copies
  and no buffs, `vitals_regen` buffs and no copies.
- `FieldBuffs`: `MaxIds` 3 or 4 buffs, `MaxTime` the last moment at which one is applied,
  `MaxDelay` 1 for a message that arrives after the end was moved, one departure and one stat
  rebuild in `buffs_timers`, none in `buffs_chain`. The chill takes up to 2 of a maximum of
  1, so that it is cut off. The cap of the chill is 2, the least at which stacking differs from
  firing.
- `FieldCalls`: two players, three logins, two incarnations of the field, one cast. Two
  players give every ring of waits (a player's session, its character, the field, and
  another who enters); the third login meets what the first two left behind.
- `NavPath`: pools of 5 and 8 nodes, one too small for either mesh and one for the
  larger only, and paths of 3 and 8 polygons, fewer than the longest and enough. The
  ring has costs by which closed nodes are reached again at a lower total; the square
  has nine rooms, one of them shut. A mesh has two tiles, and either
  or both may go during a sliced search.
- `NavTiles`: four tiles for three slots, so that adding fails and slots are used again;
  salts of 2 bits, so that they wrap; polygons linked to 2 over an edge (`MaxCon`, 4 in the
  code), so that there is one too many; a tile with fewer links than it needs. The client
  keeps four references (`MaxHeld`) and marks the polygons of one tile, `Marked`, with one
  value, `Marks`, besides the value of its data: enough for a state to be restored late.
- `NavAround` and `NavQueries`: pools of 4 and 16, radii 2, 6 and 9 (within a room, to its
  neighbours, across the border), results of 2 and 8, two shapes, three rolls of the dice,
  four goals in, beside and outside the mesh; 30 aims to move and cast to, 60 places on
  and off the mesh at four heights to look from, and a tiny pool of 4 besides the code's 64.
  The cells of the tree are 3 wide where rooms are 4 to 8, so that quantising matters.
  The two meshes have a partial portal, a shut room, a connection across tiles, and a
  layer over another.

Deadlock is not checked where a bound, or the end of the process, lets a behaviour stop;
the two `CharacterVitals` runs, `nav_tiles` and `nav_around` do check it.

### Fairness

Only what the BEAM does by itself is fair: a live process handles the messages in its
mailbox and its timers fire. So `party_vote_ends` assumes the handlers of casts, the two
deadlines and `Shutdown`; `vitals_regen` the regeneration message and the passing of the
regeneration wait; `buffs_timers` the field's messages and time; `field_calls` the
field, the characters, the grace timer and call timeouts. A query of the library runs
its loop to its end in its caller's thread: `nav_path` assumes the steps of `findPath`,
`nav_around` those of the four loops, while nobody has to go on with a sliced search.
Weak fairness is enough, since a message that has arrived stays. No client action is
fair: nobody has to answer a vote, log in or cast. `BuffsExpire` speaks of the time
after `MaxTime`, when buffs are no longer applied; the code has no such moment, but each
buff's end depends on nothing that comes later. `LogoutEnds` is `[]<>`(no logout is
under way), which with finitely many logins says that each of them ends.


## 5. The proofs

TLC's instances are small; the theorems hold for every value of the constants that the
modules' assumptions admit (finite sets, natural bounds, booleans).

**PartyServer** — `TypeCorrect`, `IndexCorrect`, `BallotIsOpen`, `LeadershipIsKept`,
`KickIsBacked`. The inductive invariant is

    IInv == TypeOK /\ IndexMirrorsMembers /\ VoteSound /\ VoteUndecided /\ NeededIsHalf

`NeededIsHalf` (an open vote's `needed` is half of its voters, rounded up) is what ties
the stored number to the ballot: without it the kick action only shows that `needed`
approvals exist. `VoteSound` gives disjoint answers, so that a fresh answer raises exactly
one count by one; with `VoteUndecided` that makes the last answer an approval.

**CharacterVitals** — `TypeCorrect`, `HealthIsBounded`, `OneRegenChain`, `RevivesWhole`,
`TombstoneOfTheDead`.

    IInv == TypeOK /\ HealthBounded /\ RegenChain

Copies must be bounded too, since any of them may be written back; the chain needs
`update_state/2` to keep the flag of the process and not the copy's.

`TombstoneFollowsDeath` speaks of an empty mailbox only; `Shown` says the same of every
state: with casts under way the last of them announces what became of the character, with
none the field shows it. Every step of the process tells the field of a change or changes
nothing (`Tells`); every step of the field takes the first cast, which is the last one only
if it was alone. Hits on the stone may send what they like, since a stone that is hit stays.

**FieldBuffs** — `BuffsAreEnded` (`EndsCome`), `BuffsGoInTime` (`NoEarlyEnd`),
`AmountsReturn` (`Ledger`), for any players, effects, amounts and bounds. They assume what
the metadata must give (`EffectsAssumption`, `ChainAssumption`): times and caps are natural
numbers, amounts are whole ones, of either sign, and a
chain of effects has one link, as far as the model follows it. Hypotheses name what is known not to hold
otherwise (section 7), and are those of the runs:

- `OneField`, since agents of two fields share names;
- for `AmountsReturn` also `NoSkillBuffs`, and `Steady`: no stats have been rebuilt and no
  character has moved.

The helpers of `field/buff.ex` thread a state, and so do the lemmas: one for each helper says
what it keeps of a *sound* state,

    Sound(f, s, out) == s \in Parts /\ Agree(f, s) /\ Pending(f, s, out)

agents and registrations name each other (`Agree`), and every buff with an end has a message
under way, but for those in `out`: what `create_buff` has registered and not yet scheduled,
or what the message in hand was for. `stack_buff` holds a buff while it fires
another that may cancel this one: so a helper also says that no id it was given comes to
mean another buff (`Keep`), and a buff in a reply may be written back late for the same
reason (`Held`, in `IInv`). Here `ChainAssumption` is needed: what a buff makes another one fire
does not cancel it before `create_buff` has scheduled its end.

For `NoEarlyEnd` and `Ledger` the helpers are taken through once more, with the two states
side by side:

    Just(f, n, p, s, t) == Paid(s, t) /\ Gone(f, n, p, s, t) /\ Stay(n, s, t)

what players have beside what their agents recorded is the same before and after, or more
if a loss was cut off on the way (`Paid`: the floor at 0 only ever adds, and `cut` is never
lowered, so what holds of two steps holds of both, `RepaidAgain`),
an agent that went was at its end or was cancelled by an effect that came in this
step (`Gone`, `Why`), and one that stays has its amount and no earlier end (`Stay`). `Just`
carries over from one helper to the next, if the ids the first one allocated count as new
to the second. A player who enters gets its rows back one after the other, and one of them
may cancel another; who cancelled may by then be cancelled itself, so here only `Fade`
holds, that some effect cancels what went, and `GoesInTime` says no more either. Amounts are
summed over sets and ids removed by folds over sets; what a fold keeps is shown by induction
over the subsets it has gone through.

**FieldCalls** — `FieldHasDeadline`: `Deadline` for any number of players. It is inductive
with the types of the field's own state only (`FieldTyped`): who waits for whom plays no
part, since every path that empties `sessions` sends `:maybe_stop` and every path that
fills it cancels the timer.

`CallsAreAnswered` (`NoLostCall`) and `MembersAreSessions` (`OnField`) need who waits for
whom:

    IInv == CallsSound /\ NoOldDeparture /\ PidsPast /\ Members

`CallsSound` ties what a session and a character are at to the calls they make (`Stances`),
and each caller of the field to one request with its reply still wanted, in the mailbox
or in hand (`Answered`). It is inductive by itself and gives `NoLostCall`. `Members` is
`OnField` with the cast under way: whoever holds the pid of this incarnation is a session of
it. What could take a player off behind its back is the request of a departure whose caller
gave up: `NoOldDeparture` says that none is behind the request of an entry in the mailbox,
nor anywhere when the player is in, for a session sends its entry after its departure and
the mailbox is in order. `PidsPast` (no pid is of an incarnation to come) keeps a fresh field
from being taken for the one a character left.

**NavTiles** — `HeldMeanTheirTile` (`HeldRefs`), `SlotsSound` (`SlotsOK`), `LinksFresh`
(`LinksAsIfFresh`), `StartsSound` (`StartsWhereOneIs`), `LinksBack` (`LinksMutual`),
`ReferencesDecode`; for any number of slots, any tiles that `DataAssumption` allows, and any
division of a reference's bits with more than two salts. Two inductive invariants:

    IInv == ListsOK /\ RefsOK
    MeshOK == DOMAIN lut = 0..(LutSize - 1) /\ LayersApart(slots) /\ LinksOK

`ListsOK` has each list of slots without repetition and with exactly the slots that belong in
it, a form that can be inductive where the property counts (`Times`); `Counted` joins the
two. `RefsOK` says of what a
client keeps that its salt is past: below the slot's salt, or equal to it and of the tile
that is there now (`RefsPast`). A removal moves the salt on and so keeps it; where the salt
wraps, or an old one is restored, the references above it are those the client drops, and
that is all it has to drop. Nothing of this speaks of links: that
is the reason to keep `slots` and `tiles` apart.

`MeshOK` is about links, as facts `<<slot, polygon, link>>`. `All(ss)` is the set of those the
tiles in `ss` should have, by edges and places alone and without any order: within a tile
(`Within`), and between two that are next to each other, both ways (`Both`).

    Linking(V, ss, S, B)

are the tiles that have links of `S` only, each of `S` unless the tile is short of links, each
of `B` in any case, and with `free` the number of the others; `LinksOK` says that `tiles` is in
`Linking(V, slots, All(slots), AllBases(slots))` for the marks `V`. One lemma for each function
says which facts it adds (`connectIntLinks`, `connectExtLinks`, `baseOffMeshLinks`,
`connectExtOffMeshLinks`) or takes (`unconnectLinks`), whatever `S` was; they are put together
for `addTile` and `removeTile`. `B`, where connections start, is never missing, because a tile
is made with links enough for itself and these are made first; `connectExtOffMeshLinks` skips
connections that have no link, so without it nothing could be said of where they land.
`LayersApart` (no two tiles at one place and layer) makes the tiles round a place fit in
`MAX_NEIS`, so that removal finds every tile that has a link to take away. The
links round a slot are those with one end in it, so a tile taken out leaves `All` of the
rest, and one put in adds the links of its own.

`LinksBack` assumes `SameClimbs`: all tiles were built for one `walkableClimb`, as the
repository's fixtures are (`gen_fixtures.rs:64` gives 0.7 to every tile). `findConnectingPolys` asks the tile
it looks in for the climb (`DetourNavMesh.cpp:337`), so between tiles of different climbs a
link may lead one way only.

**NavSearch** — the lemmas `SearchInits`, `SearchBegins`, `SearchSettles` and `SearchStays` of
`NavPathProofs`: its invariant is inductive, for any mesh, filters, costs and capacity with
the assumption `MeshAssumption` (links lead to polygons, distances and area costs are natural
numbers). The invariant is

    IInv == EntriesTyped /\ CostsGrow /\ NoRing

Following parents must end, for every walk back in the library is a loop without a bound,
and yet entries get new parents while others point to them, also after they were expanded.
An improved entry keeps its position, so its cost falls with its total, and children are
only ever left dearer than their parents (`CostsGrow`). An entry's new parent, and all
ancestors of that, cost no more than the way it came, which is less than the entry cost
before: so neither the entry nor any other that improves in that step is among them, and no
ring closes (`NoRing`). Costs alone do not show it, since a way may cost nothing:
`MeshAssumption` allows areas of cost 0 and points in one place. That the code's search is
such a search is `SearchRefined`, below.

**NavNodes** — no theorem of its own, but the lemmas `NavPathProofs` and `NavAroundProofs`
need: what each operation returns and keeps, of any pool and any heap. A pool has at least
four nodes: its hash has `dtNextPow2(maxNodes/4)` buckets.

- `PoolOK`: every node is in the chain of its polygon's bucket and in no other, chains go
  down in the arena and so end (`Hashed`), and no two nodes have one polygon and state
  (`Apart`). `FindNode` is a recursive function along a chain; that it is *the* node, and
  that `findNodes` returns all nodes of a polygon (`FindNodesIs`), is by induction over the
  numbers of nodes. `getNode` adds to the head of a chain, and changing a
  node without its id and state keeps all of it.
- `OpenList`: the heap is a sequence without repetition of exactly the open nodes, and
  `Sorted`: no node before its parent's, hence the least total is the first (`RootLeast`).
  `push` and `modify` are one climb: at every turn the heap is sorted but for one place
  (`SortedButFor`), and a permutation of what it was with the new one in that place
  (`Permutes`). `pop` sinks a hole to a leaf and climbs from there.
- `TrailOK`: where parents form no ring (`Acyclic`) the walk back from a node to the start
  is finite, without repetition, and reversing it is what finalize does in place.

A recursive function of these is `CHOOSE`n, and the provers know nothing of one; `Recurs`
and `Descends` give it its equation, by induction over the measure its argument falls by.

**NavPath** — `NodesCorrect` (`NodesOK`), `SearchRefined` (`Refines`), `NodesRooted`
(`Rooted`), `PathsLinked` (`PathLinked`), `SearchComplete` (`Complete`); for any meshes with
finitely many polygons that hash to numbers (`PolysAssumption`) and `MeshAssumption`, any
filters, any pool of four nodes or more, any length of paths, any tiles gone at any time.

    Inv == StateOK /\ Search!IInv

`StateOK` is the pool, the heap, and of the search under way (`SearchOK`) what its nodes'
totals are, that each is a link away from its parent, that the best so far is the nearest,
and that unless a node was refused every way on from a closed node was taken
(`WaysTaken`). `Search!IInv` is the invariant of the abstract search, of the entries that the
nodes stand for. Neither is inductive alone: an expansion looks at the parent of a node to
know where not to go back to, and the walk back at the end of a search is a walk only
where there is no ring; and that there is none needs the step to be one of `NavSearch`.
So each step is first shown to be a step of `NavSearch` or a stutter (`Moves`), from
`NoRing` before it, and then `NavSearch`'s own lemma gives the ring's absence after it.
An expansion is a fold over the links of the best node; its invariant (`Progress`) says,
for the links taken so far, what `NavSearch`'s `Settle` says for all of them.

Three corrections of the model came out of the proof. `Complete` speaks of the filter the
answer was made with, where it took the query's. The links of a tile that is gone are told
by the link (`IsLeft`), so a tile's own links go with it. And the entries of `Refines` are
those of the search under way: the pool keeps its nodes after a call returned, and the
sliced search's `near` does not exist before it was begun.

**NavAround** — `AroundNodes` (`NodesOK`), `AroundOrdered` (`ResultsOrdered`),
`AroundIsComplete` (`AroundComplete`), `AroundWall` (`WallNearest`), `AroundPathsBack`
(`PathsBack`); for any meshes and filters with `MeshAssumption` (finitely many polygons, links
to polygons over edges they have, whole points, costs and distances natural numbers), any
radii, shapes and rolls, any pool of four nodes or more, any length of results.

    IInv == Sound(mesh, pool, heap, search, path)

`Sound` is the pool and its hash, the heap as the list of the open nodes, the search that
runs or ran last (`SearchInv`) and the path read back from it (`PathInv`). Of the search's
nodes (`NodesInv`) the first is the start's; every other has a closed node for its parent,
over a link, and lies in the area the search may walk to; and no closed node is dearer than
an open one. That order is what everything hangs on: the best open node costs
no less than all that are closed and what it leads to costs no less than itself, so a
closed node is never lowered, though the code's test would let it; what is
closed in order is listed in order, and parents form no ring. `Heeded` says that unless a
node was refused every link of a closed node that may be followed leads to a node. When no
node is open any more, the closed ones are shut under steps, and hence all of the area
(`SpreadShut`, `SpreadLeast`). `FoundInv` is about what was found: of the results, that they
are the closed polygons, cut short only when the buffer is `small`; of the random point, that
one is picked once any area was seen; of the wall, that the circle, which shrinks as
walls are hit, is no larger than the distance to any wall of a closed polygon and no smaller
than that to the nearest within the first circle. What was closed under a wider circle stays
where it may be; what the last circle reaches was reached under every earlier one
(`FollowsWider`).

For these proofs `Spread`, the polygons one can walk to, is a recursive function over the
number of steps, and the filter of links is a fold: the prover has no definition of
`SelectSeq`.

The eight modules have 27 thousand obligations.

Only model-checked: the liveness properties (`VoteEnds`, `RegenFills`, `BuffsExpire`,
`LogoutEnds`, `FindEnds`, `AroundEnds`), since TLAPS proves nothing about fairness and
ENABLED; the type invariants that are checked as such, `TypeOK` of `FieldCalls` with the
shape of its messages among them; and whatever rests on geometry: strings (`PullsTaut`),
the short-range queries and the tree of `NavQueries`. The
theorems of the library that take an operator (induction over numbers, sequences or finite
sets) cannot be used with the provers at hand; an induction can be put as one over a *set* of
numbers or subsets, and folds, heap and hash have been reasoned about in this way.


## 6. Findings

Each is a run that TLC ends with a violation of what the repository says.

- **A logout can take the field down** (`field_logout`, `managers/field/character.ex:215`).
  `send_updates` looks up a character that is calling the field from its cleanup; the
  field's call runs out first, nobody catches it, and everybody is off the field.
- **A partial route stops short of where it could go** (`nav_route_end`,
  `native/navigation/src/lib.rs:318`). `find_path_impl` drops the last point, for "the pull
  still appends the raw goal point" (line 284); but `findStraightPath` clamps the end to the
  last polygon first (`DetourNavMeshQuery.cpp:1821`). What is dropped is the closest
  reachable point, and with it perhaps the whole way.


## 7. Known disagreements

Where the code also departs from a document, comment or test. The models do what the
code does; these have no run of their own.

- A kick passes with half of the voters (`party_server.ex:165`), not the majority of
  `docs/features/party-dps-meter.md:9`; of two voters the initiator's vote is enough, and
  the next answer, a refusal too, completes the kick. `BallotOpen` and
  `KickBacked` therefore speak of three voters or more where this matters.
- A buff's removal can leave a living character with health 0
  (`character/stats.ex:88` writes past `check_death/1`; the comment at
  `character/revival.ex:22` says every health-mutating path is covered). The model's
  `BuffRemoved` does it.
- A copy written back may carry less health than the process had and no regeneration
  with it (`character.ex:372` keeps `regen_health?` of the process, not the health), so
  `RegenFills` is checked without handlers.
- A death removes only the buffs whose time is up: `remove_owner_buffs/2`
  (`field/buff.ex:612`) postpones the others, against the comment at `field.ex:1004`.
- Applying an unlimited buff again schedules its removal at once (`field/buff.ex:204`);
  `types/buff.ex:74` says it never times out. The runs keep `badge` out of the effects.
- A stat rebuild under a running buff (`character/equips.ex:353`) drops the buff's gift,
  and the removal still takes it (`docs/features/buff-effects.md:41`). `Ledger` and
  `NoEarlyEnd` are therefore checked without rebuilds.
- A loss that `modify_max/3` cuts off at 0 (`character/stats.ex:87`) is recorded whole and given
  back whole: a debuff of 2 on a maximum of 1 leaves a maximum of 2 when it has gone. `Ledger`
  says for such an owner only that it has no less than its buffs account for.
- A revival to another map ends the character (`character/revival.ex:203`): `change_field`
  calls the character, from inside the character. `RespawnElsewhere` does it.
- Casting a skill again under its own buff gives the stats twice (`character/skill.ex:30`)
  and takes them back once. `Ledger` is checked without buffs of skills.
- Buffs of two fields share names (`managers/buff.ex:27`): every field counts ids from the
  same base and agents are registered for the node, so one field's removal stops the
  other's buff, which then never leaves `state.buffs`. `EndsCome` is checked for one field.
- An answer to a vote that has just ended crashes the party (`party_server.ex:205` reads
  the voters of `nil`): `VoteKickAfterEnd`.
- The timer of a ready check has no id (`party_server.ex:188`): one of a check that was
  completed ends the next, and an answer given twice is counted twice. `EndReadyCheck` and
  `ReadyCheck` do it.

In the navigation library (lines of `DetourNavMeshQuery.cpp` unless another file is named):

- `findPath` is const and yet clears the node pool, so a call of it during a sliced search
  takes that search's nodes (:1210 warns of `initSlicedFindPath` only). `NavPath` excludes it.
- `findDistanceToWall` asks only the first link of a border edge whether it may be walked
  (:3546): an edge that is open over its second is a wall, or none. `WallNearest` excludes
  such meshes (`ShutFirst`). `moveAlongSurface` takes the same edge, open anywhere, for no
  wall at all, so that a move may end on a closed part of it; `MovesNearest` says so.
- `findLocalNeighbourhood` does not hold a newcomer against results that the polygon it
  comes from is linked to (:3205): of two layers linked to one polygon both are returned,
  while `DetourNavMeshQuery.h` promises "non-overlapping" polygons. `KeptApart` allows this
  case only. Its stack and its tiny pool run out without a status.
- `getPolyWallSegments` reports a wall too many where portals of one edge overlap; of
  several collinear edges `raycast` picks the first.
- `findStraightPath` says `BUFFER_TOO_SMALL` also when the last point just fills the buffer;
  a corridor that breaks off is drawn straight to its last point, without the funnel
  (:1857); a start exactly on the end of a connection loses the flag of the connection.
- Where the status of `getPortalPoints` is tested as a boolean (:426, :2816, :2997, :3191) the
  test never sees a failure, which is not zero either: `NavAround` takes meshes on which it
  does not fail.
- Links that did not fit are not made later, when there is room again
  (`DetourNavMesh.cpp:122`); `LinksAsIfFresh` speaks of tiles with room.
- The shim counts only the layers at location (0, 0) (`csrc/shim.cpp:56`).
- `docs/features/navmesh.md` makes a corridor that never reaches the goal's polygon an
  `:error`; the binding returns `{:partial, path}`.


## 8. What is not modelled

`PROJECT.json` lists every component with its status. In short: damage, movement, npc AI
and spawns (numeric simulation), trigger scripts and metadata (data outside the
repository), packet layouts, ciphers and TCP framing, the database itself, the web
endpoint. Of the modelled components the damage meter
of parties, spirit and stamina (the code of health without the death), buffs on npcs and
what a tick does to its owner are left out. Planned and not there yet are the parts named
in the next section.

Of the navigation library: searches with `DT_FINDPATH_ANY_ANGLE`, `findRandomPoint`, the
height of polygons, the crossings `findStraightPath` can add, the normal and the cost of a
ray, batches of 32 polygons, tiles without a tree; the building of tiles but for the tree,
which happens when assets are prepared; and the parsing of mesh sets. Numbers are whole:
tolerances of 0.001 and 1e-6, and what floats do to ties, are not there. In `NavTiles` a tile
that is linked looks for polygons without its tree, and the ends of a connection keep the
places they were given. `NavAround` takes meshes in which a link to a connection has one
back.


## 9. Plan

Done, in this order: the party (votes and membership are the densest timer and snapshot
logic), the character's vitals, the field's buffs, the calls between field and players, and
the navigation library: path search and its refinement, tiles and links, searches round a
point, strings, short-range queries and the tree.

Next modules, most important first:

1. **Trade** — inventory, wallet, shop, storage and mail as processes that call each
   other, with an abstract specification (goods are conserved, an attachment is paid
   once) that the detailed one refines. Hazard first: `managers/mail.ex:184`, currencies
   paid before the items that may be refused.
2. **FieldLifecycle** — several fields: solo instances, `change_field`, `summon_to_field`
   with stale copies, sessions left behind by characters that stopped; composed with
   FieldCalls' lifetime.
3. **PartyDirectory** — `PartyManager`, `PartySearchServer`, the handlers that join, and
   several parties; listings end with their parties, a character is in one party. The
   party's calls to characters with it.
4. **PartyVoteSpec** — an abstract ballot (opened once, closed once, a target removed only
   by its voters) which PartyServer refines.
5. **Guild** — the cache against its rows, ranks against `leader_id`, applications.
6. **SkillCast** — cooldowns, state skills and time-condition ticks; buffs of a character
   that has gone.
7. **FieldObjects**, **Quest**, **GroupChat** — loot claims, liftables and the stage's
   timer; rewards given once; chat membership.

Hazards of these parts that wait with them: a solo instance rejoined after it stopped is
started afresh under the old name (`field.ex:130`), a summon works on a stale copy of
the member (`handlers/game/party.ex:284`), an enter races the field's stop
(`handlers/game/response_field_enter.ex:39`), and a character that stops while it is
added stays a session of the field (`field/character.ex:26`), all FieldLifecycle; the
premium buffs are added by a call of the field to itself, which exits
(`field/character.ex:147`); casts to the party finder arrive after the party's end
(`party_search_server.ex:67`) and the damage meter enabled twice ticks twice
(`party_server.ex:257`), the room in a party is checked before the call that fills it
and two who invite each other make two parties (`handlers/game/party.ex:127`), all
PartyDirectory; a guild struct is written back whatever became of its row
(`guild_server.ex:577`) and rank 0 can be given away or taken from the leader, Guild; a
time condition set twice counts twice (`character.ex:312`) and the amounts of a buff are
asked of a character that may have gone (`field/buff.ex:390`), SkillCast; the limit on a
member's chats is checked on a copy (`handlers/game/group_chat.ex:38`) and a chat that
has ended makes the last step of a logout fail, GroupChat; and a performer who leaves
does not cancel the stage's expiry, FieldObjects.

Runs stay few: a new module comes with one run for its safety, one for its liveness where
it has any, and at most one for a disagreement; those of one component are joined first.

Theorems next: the short-range queries of `NavQueries`, which need lemmas about distances to
segments first, and `PullsTaut`.
