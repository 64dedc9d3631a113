------------------------------ MODULE FieldBuffs ------------------------------
(***************************************************************************)
(* The buffs of Ms2ex.Managers.Field.Buff: each field process registers    *)
(* its players' buffs by owner and effect, keeps each of them in a named   *)
(* Managers.Buff agent, and ends it by {:buff_tick} and {:remove_buff}     *)
(* messages it sends itself.  What a buff gives its owner is added to the  *)
(* stats when it is applied and taken back, as recorded, when it goes.     *)
(*                                                                         *)
(* A handler of a field is one action: the helpers below thread the parts  *)
(* of the state they change as a record `s`, the way the code threads      *)
(* `state`.  A skill's buff is applied in two steps, since the field       *)
(* registers it and the character process, which waits for the reply, then *)
(* gives itself the stats.  Time is sync_ticks().  Every buff is cast by   *)
(* its owner; `bonus` is the owner's maximum above its base; what a tick   *)
(* does to the owner is in CharacterVitals.  Fields are channels of one    *)
(* map, so their local ids start at the same number.                       *)
(***************************************************************************)
EXTENDS FiniteSetsExt

CONSTANTS
    Player, Field, Effect, None,
    SkillEffect, \* effects of skills, applied inside cast_skill
    Persistent,  \* not removed on logout (Context.Buffs.persist?)
    Unlimited,   \* keep_condition: unlimited_duration
    KeepsEnd,    \* reset_condition 1: re-applying keeps the window
    Ticking,     \* effects with recovery, dot or tick skills
    Duration,    \* property.duration_tick
    Delay,       \* property.delay_tick
    Interval,    \* property.interval_tick
    MaxCount,    \* property.max_count
    Cancels,     \* update.cancel: the effect each one cancels, or None
    Fires,       \* skills: the effect each one applies at its stack cap, or None
    Overlaps,    \* modify_overlap: the effect each one stacks, or None
    Offset,      \* modify_overlap: by how much
    Amounts,     \* what each effect may give or take (status values and rates)
    Base,        \* each player's maximum without buffs
    MaxIds,      \* bound: local ids of one field
    MaxTime,     \* bound: no buff is applied from then on, nor its end moved beyond
    MaxDelay,    \* bound: how late a field handles its timers
    MaxRefreshes,\* bound: stat rebuilds by level-up or equip
    MaxMoves     \* bound: departures from a field

Id == 1..MaxIds
Buff == [id : Id, player : Player, effect : Effect, start : Int, end : Int,
         next : Nat, ticks : BOOLEAN, stacks : Nat, amount : Int,
         removal : Nat \cup {None}]

\* The effects' metadata.
ASSUME EffectsAssumption ==
    /\ MaxIds \in Nat /\ None \notin Nat \cup Effect \cup Field \cup Buff
    /\ \A e \in Effect :
          /\ {Duration[e], Interval[e], Delay[e]} \subseteq Nat
          /\ MaxCount[e] \in Nat /\ Offset[e] \in Int
          /\ {Cancels[e], Fires[e], Overlaps[e]} \subseteq Effect \cup {None}
    /\ \A a \in Amounts, e \in Effect : a[e] \in Int
    /\ Base \in [Player -> Nat]

\* A chain of effects ends after one link: a buff "bumps another effect's
\* stacks", and what that fires does not cancel the buff again.
ASSUME ChainAssumption ==
    /\ \A e \in Effect : \A link \in {Fires[e]} \ {None} :
          Fires[link] = None /\ Overlaps[link] = None
    /\ \A e \in Effect : \A target \in {Overlaps[e]} \ {None} :
          /\ target # e
          /\ Fires[target] # None => Cancels[Fires[target]] # e

VARIABLES
    now,        \* sync_ticks()
    count,      \* local_id_counter of each field
    registered, \* state.buffs of each field
    agents,     \* the agents registered as :"buff:<id>"
    timers,     \* messages fields have under way to themselves
    bonus,      \* each player's maximum above its base, or below it
    cut,        \* (of the model) a maximum would have gone below 0 since it was built
    at,         \* field of each player, None between two fields
    reply,      \* the buff a player's cast_skill got back and has yet to give
    running,    \* the player's character process is alive
    saved,      \* the player's rows of character_buffs
    refreshes, moves

state == <<count, registered, agents, timers, bonus, cut>>
vars == <<now, state, at, reply, running, saved, refreshes, moves>>

Key == Player \X Effect
KeyOf(b) == <<b.player, b.effect>>

AtLeast(x, y) == IF x < y THEN y ELSE x
AtMost(x, y) == IF x > y THEN y ELSE x

\* Types.Buff.interval_tick
IntervalTick(e) == IF Interval[e] > 0 THEN Interval[e] ELSE Duration[e] + 1

TypeOK ==
    /\ now \in Nat
    /\ count \in [Field -> 0..MaxIds]
    /\ registered \in [Field -> [Key -> Id \cup {None}]]
    /\ agents \in [Id -> Buff \cup {None}]
    /\ \A i \in Id : agents[i] # None =>
          agents[i].id = i /\ agents[i].stacks <= MaxCount[agents[i].effect]
    /\ \A m \in timers :
          m.field \in Field /\ m.type \in {"tick", "remove"} /\ m.id \in Id
    /\ \A p \in Player : bonus[p] \in Int /\ Base[p] + bonus[p] >= 0
    /\ cut \in [Player -> BOOLEAN]
    /\ at \in [Player -> Field \cup {None}]

-----------------------------------------------------------------------------
(* Helpers on the threaded state *)

\* Types.Buff.new with a window: two of them differ for a restored buff.
NewBuff(id, p, e, start, end) ==
    [id |-> id, player |-> p, effect |-> e, start |-> start, end |-> end,
     next |-> Delay[e] + IntervalTick(e), ticks |-> e \in Ticking,
     stacks |-> AtMost(1, MaxCount[e]), amount |-> 0, removal |-> None]

FreshBuff(id, p, e) == NewBuff(id, p, e, now, now + Duration[e])

\* next_local_id/1
NextId(s, f) == s.count[f] + 1
Allocated(s, f) == [s EXCEPT !.count[f] = @ + 1]

\* schedule_removal/1: the message, and the agent with its reference.  Two
\* equal messages are one: the second finds no buff, or does the same again.
Scheduled(s, f, b) ==
    LET due == AtLeast(b.end, now + 1)
    IN  [s EXCEPT !.timers = @ \cup
                     {[field |-> f, type |-> "remove", id |-> b.id, at |-> due]},
                  !.agents[b.id] = [b EXCEPT !.removal = due]]

TickIn(s, f, b, ms) ==
    [s EXCEPT !.timers = @ \cup
         {[field |-> f, type |-> "tick", id |-> b.id, at |-> now + ms]}]

\* schedule/1
Planned(s, f, b) ==
    IF b.effect \in Ticking THEN TickIn(s, f, b, b.next)
    ELSE IF b.effect \in Unlimited THEN s
    ELSE Scheduled(s, f, b)

\* Stats.modify_max/3: no maximum goes below 0, and what is cut off is not
\* recorded anywhere.
Modified(s, p, amount) ==
    [s EXCEPT !.bonus[p] = AtLeast(@ + amount, 0 - Base[p]),
              !.cut[p] = @ \/ Base[p] + s.bonus[p] + amount < 0]

\* unregister_removed_buff/3
Removed(s, f, id) ==
    LET b == s.agents[id]
    IN  [Modified(s, b.player, 0 - b.amount) EXCEPT
            !.agents[id] = None,
            !.registered[f][KeyOf(b)] = IF @ = id THEN None ELSE @]

\* Mutant of Dropped: the end of a refreshed buff is not looked at.
Dropped_Early(s, f, id, force) ==
    IF s.agents[id] = None THEN s ELSE Removed(s, f, id)

\* remove_buff/3
Dropped(s, f, id, force) ==
    LET b == s.agents[id]
    IN  IF b = None THEN s
        ELSE IF ~force /\ now < b.end THEN Scheduled(s, f, b)
        ELSE Removed(s, f, id)

\* cancel_effects/2
Cancelled(s, f, b) ==
    LET id == s.registered[f][<<b.player, Cancels[b.effect]>>]
    IN  IF Cancels[b.effect] = None \/ id = None THEN s
        ELSE Dropped(s, f, id, TRUE)

\* apply_status/2: the amounts are given and kept in the agent.
Given(s, b, amount) ==
    IF amount = 0 THEN s
    ELSE [Modified(s, b.player, amount) EXCEPT
             !.agents[b.id] = [b EXCEPT !.amount = amount]]

\* create_buff/3 up to its stats.  An agent of that name that already runs is
\* kept: Agent.start_link's error is not looked at.
Started(s, f, b) ==
    LET t == Cancelled(s, f, b)
    IN  [t EXCEPT !.agents[b.id] = IF @ = None THEN b ELSE @,
                  !.registered[f][KeyOf(b)] = b.id]

\* The stacks and the window of a re-applied buff (refreshed_end_tick/2).
Extended(old, overlap) ==
    [old EXCEPT !.stacks = AtMost(AtLeast(@ + overlap, 0), MaxCount[old.effect]),
                !.end = IF old.effect \in KeepsEnd THEN @
                        ELSE AtLeast(now + Duration[old.effect], @)]

\* Process.cancel_timer: a message that is due is in the mailbox and stays there.
WithoutRemoval(s, b) ==
    [s EXCEPT !.timers =
         {m \in @ : ~(/\ m.type = "remove" /\ m.id = b.id /\ m.at = b.removal
                     /\ m.at > now)}]

\* Mutant of Refreshed: the old removal is cancelled and no new one sent.
Refreshed_Unscheduled(s, f, id, overlap) ==
    LET old == s.agents[id]
        b == Extended(old, overlap)
    IN  IF b = old THEN s
        ELSE [WithoutRemoval(s, old) EXCEPT !.agents[id] = b]

\* stack_buff/3 but for the skills it may fire.
Refreshed(s, f, id, overlap) ==
    LET old == s.agents[id]
        b == Extended(old, overlap)
    IN  IF b = old THEN s ELSE Scheduled(WithoutRemoval(s, old), f, b)

\* fire_skills/2: an effect buff on the owner, which fires nothing more.
Fired(s, f, b, amounts) ==
    IF Fires[b.effect] = None THEN s
    ELSE LET c == FreshBuff(NextId(s, f), b.player, Fires[b.effect])
             t == Allocated(s, f)
             id == t.registered[f][KeyOf(c)]
             amount == amounts[c.effect]
         IN  IF id # None THEN Refreshed(t, f, id, 0)
             ELSE Planned(Given(Started(t, f, c), c, amount), f,
                          [c EXCEPT !.amount = amount])

\* The last stack fires the skills, once.
Capped(before, after, id) ==
    /\ after.agents[id] # None
    /\ after.agents[id].stacks >= MaxCount[after.agents[id].effect]
    /\ before.agents[id].stacks < MaxCount[after.agents[id].effect]

\* modify_overlap/2 and stack_target/3
Overlapped(s, f, b, amounts) ==
    LET id == s.registered[f][<<b.player, Overlaps[b.effect]>>]
        target == s.agents[id]
        stacks == AtMost(AtLeast(target.stacks + Offset[b.effect], 0),
                         MaxCount[target.effect])
        t == [s EXCEPT !.agents[id].stacks = stacks]
    IN  IF Overlaps[b.effect] = None \/ id = None \/ target = None THEN s
        ELSE IF stacks <= 0 THEN Dropped(t, f, id, FALSE)
        ELSE IF Capped(s, t, id) THEN Fired(t, f, target, amounts)
        ELSE t

\* Mutant of Created: the removal is scheduled with the buff as it was before
\* it got its amounts.
Created_Stale(s, f, b, status, amounts) ==
    LET amount == IF status THEN amounts[b.effect] ELSE 0
        t == Given(Started(s, f, b), b, amount)
    IN  Planned(Overlapped(t, f, b, amounts), f, b)

\* create_buff/3
Created(s, f, b, status, amounts) ==
    LET amount == IF status THEN amounts[b.effect] ELSE 0
        t == Given(Started(s, f, b), b, amount)
        c == [b EXCEPT !.amount = amount]
    IN  Planned(Overlapped(t, f, c, amounts), f, c)

\* stack_buff/3
Stacked(s, f, id, overlap, amounts) ==
    LET t == Refreshed(s, f, id, overlap)
    IN  IF Capped(s, t, id) THEN Fired(t, f, t.agents[id], amounts) ELSE t

\* apply_buff/3
Applied(s, f, b, status, overlap, amounts) ==
    LET id == s.registered[f][KeyOf(b)]
    IN  IF id = None THEN Created(s, f, b, status, amounts)
        ELSE Stacked(s, f, id, overlap, amounts)

Now == [count |-> count, registered |-> registered, agents |-> agents,
        timers |-> timers, bonus |-> bonus, cut |-> cut]

Becomes(s) ==
    /\ count' = s.count
    /\ registered' = s.registered
    /\ agents' = s.agents
    /\ timers' = s.timers
    /\ bonus' = s.bonus
    /\ cut' = s.cut

Init ==
    /\ now = 0
    /\ count = [f \in Field |-> 0]
    /\ registered = [f \in Field |-> [k \in Key |-> None]]
    /\ agents = [i \in Id |-> None]
    /\ timers = {}
    /\ bonus = [p \in Player |-> 0]
    /\ cut = [p \in Player |-> FALSE]
    /\ at \in [Player -> Field]
    /\ reply = [p \in Player |-> None]
    /\ running = [p \in Player |-> TRUE]
    /\ saved = [p \in Player |-> {}]
    /\ refreshes = 0 /\ moves = 0

-----------------------------------------------------------------------------
(* Buffs applied *)

\* There is room for the buff and for one it fires.  Re-applying a registered
\* buff whose agent is gone would crash the field (see RegisteredRuns).
CanApply(p, e) ==
    /\ running[p] /\ at[p] # None /\ reply[p] = None
    /\ now < MaxTime
    /\ count[at[p]] + 2 <= MaxIds
    /\ LET id == registered[at[p]][<<p, e>>]
       IN  id # None => agents[id] # None

\* {:add_effect_buff} and {:add_effect_buff_for}.  The field asks the
\* character for the amounts, which answers when it is not itself waiting for
\* the field.
AddEffectBuff(p, e) ==
    /\ CanApply(p, e)
    /\ e \notin SkillEffect
    /\ \E overlap \in {0, 1}, amounts \in Amounts :
          Becomes(Applied(Allocated(Now, at[p]), at[p],
                          FreshBuff(NextId(Now, at[p]), p, e),
                          TRUE, overlap, amounts))
    /\ UNCHANGED <<now, at, reply, running, saved, refreshes, moves>>

\* {:add_buff} of a cast_skill: the field's part.  The reply is the buff as it
\* was before schedule_removal/1 ...
AddBuff(p, e) ==
    /\ CanApply(p, e)
    /\ e \in SkillEffect
    /\ \E overlap \in {0, 1}, amounts \in Amounts :
          LET b == FreshBuff(NextId(Now, at[p]), p, e)
              id == registered[at[p]][KeyOf(b)]
          IN  /\ Becomes(Applied(Allocated(Now, at[p]), at[p], b, FALSE,
                                 overlap, amounts))
              /\ reply' = [reply EXCEPT ![p] =
                              IF id = None THEN b ELSE Extended(agents[id], overlap)]
    /\ UNCHANGED <<now, at, running, saved, refreshes, moves>>

\* ... and apply_status/2 of the character, which writes the buff it was sent
\* back into the agent; without the agent Agent.update exits.
ApplyStatus(p) ==
    /\ running[p] /\ reply[p] # None
    /\ reply' = [reply EXCEPT ![p] = None]
    /\ \E amounts \in Amounts :
          LET amount == amounts[reply[p].effect]
          IN  IF amount # 0 /\ agents[reply[p].id] = None
              THEN /\ running' = [running EXCEPT ![p] = FALSE]
                   /\ UNCHANGED state
              ELSE /\ Becomes(Given(Now, reply[p], amount))
                   /\ UNCHANGED running
    /\ UNCHANGED <<now, at, saved, refreshes, moves>>

-----------------------------------------------------------------------------
(* Buffs ended *)

Due(m) == m \in timers /\ m.at <= now

Taken(m) == [Now EXCEPT !.timers = @ \ {m}]

\* handle_info {:remove_buff, id}
RemoveBuff(m) ==
    /\ Due(m) /\ m.type = "remove"
    /\ Becomes(Dropped(Taken(m), m.field, m.id, FALSE))
    /\ UNCHANGED <<now, at, reply, running, saved, refreshes, moves>>

\* Mutant of Ticked: after its last tick the buff is left alone.
Ticked_NoRemoval(s, f, b) ==
    LET elapsed == now - b.start
        interval == IntervalTick(b.effect)
        later == [b EXCEPT !.next = @ + interval]
    IN  IF ~b.ticks THEN Scheduled(s, f, b)
        ELSE IF elapsed < b.next THEN TickIn(s, f, b, AtLeast(b.next - elapsed, 1))
        ELSE IF b.next + interval > b.end - b.start
        THEN [s EXCEPT !.agents[b.id] = [b EXCEPT !.ticks = FALSE]]
        ELSE TickIn([s EXCEPT !.agents[b.id] = later], f, later, interval)

\* tick/2 and next_tick/3: another tick within the window, or the removal.
Ticked(s, f, b) ==
    LET elapsed == now - b.start
        interval == IntervalTick(b.effect)
        later == [b EXCEPT !.next = @ + interval]
    IN  IF ~b.ticks THEN Scheduled(s, f, b)
        ELSE IF elapsed < b.next THEN TickIn(s, f, b, AtLeast(b.next - elapsed, 1))
        ELSE IF b.next + interval > b.end - b.start
        THEN Scheduled(s, f, [b EXCEPT !.ticks = FALSE])
        ELSE TickIn([s EXCEPT !.agents[b.id] = later], f, later, interval)

\* handle_info {:buff_tick, id}
BuffTick(m) ==
    /\ Due(m) /\ m.type = "tick"
    /\ IF agents[m.id] = None THEN Becomes(Taken(m))
       ELSE Becomes(Ticked(Taken(m), m.field, agents[m.id]))
    /\ UNCHANGED <<now, at, reply, running, saved, refreshes, moves>>

OwnerIds(f, p) == {registered[f][<<p, e>>] : e \in Effect} \ {None}

DropAll(f, ids, force) ==
    FoldSet(LAMBDA id, s : Dropped(s, f, id, force), Now, ids)

\* {:remove_effect_buff}
RemoveEffectBuff(p, e) ==
    /\ running[p] /\ at[p] # None
    /\ registered[at[p]][<<p, e>>] # None
    /\ Becomes(Dropped(Now, at[p], registered[at[p]][<<p, e>>], TRUE))
    /\ UNCHANGED <<now, at, reply, running, saved, refreshes, moves>>

\* {:modify_buff_duration}: the timer stays where it was.
ModifyBuffDuration(p, e, ticks) ==
    /\ running[p] /\ at[p] # None /\ now < MaxTime
    /\ LET id == registered[at[p]][<<p, e>>]
       IN  /\ id # None
           /\ agents[id] # None
           /\ agents[id].end + ticks \in agents[id].start..MaxTime
           /\ Becomes([Now EXCEPT !.agents[id].end = @ + ticks])
    /\ UNCHANGED <<now, at, reply, running, saved, refreshes, moves>>

\* {:remove_owner_buffs} of a death: buffs still running are not forced out.
RemoveOwnerBuffs(p) ==
    /\ running[p] /\ at[p] # None
    /\ OwnerIds(at[p], p) # {}
    /\ Becomes(DropAll(at[p], OwnerIds(at[p], p), FALSE))
    /\ UNCHANGED <<now, at, reply, running, saved, refreshes, moves>>

-----------------------------------------------------------------------------
(* The owner *)

\* A level-up or an equip rebuilds the stats without the buffs.
RefreshStats(p) ==
    /\ running[p] /\ reply[p] = None
    /\ refreshes < MaxRefreshes
    /\ refreshes' = refreshes + 1
    /\ bonus' = [bonus EXCEPT ![p] = 0]
    /\ cut' = [cut EXCEPT ![p] = FALSE]
    /\ UNCHANGED <<now, count, registered, agents, timers, at, reply, running,
                   saved, moves>>

\* save_owner_buffs/2: persistent buffs with time left, each with the length of
\* its window and its end.
SavedRows(f, p) ==
    {[effect |-> agents[id].effect, end |-> agents[id].end,
      duration |-> agents[id].end - agents[id].start] :
        id \in {i \in OwnerIds(f, p) : /\ agents[i] # None
                                       /\ agents[i].effect \in Persistent
                                       /\ agents[i].end > now}}

\* {:remove_character}: the buffs themselves stay on the field.
Leave(p) ==
    /\ running[p] /\ reply[p] = None
    /\ at[p] # None
    /\ moves < MaxMoves
    /\ moves' = moves + 1
    /\ saved' = [saved EXCEPT ![p] = SavedRows(at[p], p)]
    /\ at' = [at EXCEPT ![p] = None]
    /\ UNCHANGED <<now, state, reply, running, refreshes>>

\* restore_buffs/2: the rest of each stored window.
Restored(s, f, p, amounts) ==
    FoldSet(LAMBDA row, t :
              Applied(Allocated(t, f), f,
                      NewBuff(NextId(t, f), p, row.effect,
                              row.end - row.duration, row.end),
                      TRUE, 0, amounts),
            s, {row \in saved[p] : row.end > now})

\* {:add_character}: rebuilt stats, then the stored buffs.
Enter(p, f) ==
    /\ running[p] /\ at[p] = None
    /\ count[f] + 2 * Cardinality(saved[p]) <= MaxIds
    /\ \E amounts \in Amounts :
          Becomes(Restored([Now EXCEPT !.bonus[p] = 0, !.cut[p] = FALSE],
                           f, p, amounts))
    /\ at' = [at EXCEPT ![p] = f]
    /\ UNCHANGED <<now, reply, running, saved, refreshes, moves>>

\* Time passes while buffs may be applied or messages are under way, which are
\* handled at most MaxDelay late.
Tick ==
    /\ now < MaxTime \/ timers # {}
    /\ \A m \in timers : now < m.at + MaxDelay
    /\ now' = now + 1
    /\ UNCHANGED <<state, at, reply, running, saved, refreshes, moves>>

Handle == \E m \in timers : RemoveBuff(m) \/ BuffTick(m)

Next ==
    \/ \E p \in Player, e \in Effect :
          \/ AddEffectBuff(p, e) \/ AddBuff(p, e)
          \/ RemoveEffectBuff(p, e)
          \/ \E ticks \in {-1, 1} : ModifyBuffDuration(p, e, ticks)
    \/ \E p \in Player :
          \/ ApplyStatus(p) \/ RemoveOwnerBuffs(p) \/ RefreshStats(p) \/ Leave(p)
          \/ \E f \in Field : Enter(p, f)
    \/ Handle
    \/ Tick

Spec == Init /\ [][Next]_vars

\* Fields work off their messages and time goes on.
FairSpec == Spec /\ WF_vars(Handle) /\ WF_vars(Tick)

-----------------------------------------------------------------------------
(* Properties *)

\* Types hold; a registered buff has its agent, which stack_buff/3 reads without looking
\* whether it is there, and every agent is registered, so that it can be found
\* and stopped: through cancels, fired effects, deaths and buffs written back
\* by a cast that was slower than they were.
RegisteredRuns ==
    /\ TypeOK
    /\ \A f \in Field, k \in Key :
          registered[f][k] # None =>
              /\ agents[registered[f][k]] # None
              /\ KeyOf(agents[registered[f][k]]) = k
    /\ \A i \in Id : agents[i] # None =>
          \E f \in Field : registered[f][KeyOf(agents[i])] = i

\* A registered buff with an end has a message under way that will end it or
\* put off its end, however often it was refreshed, shortened or ticked.
EndIsPending ==
    \A f \in Field, k \in Key :
        registered[f][k] # None /\ k[2] \notin Unlimited =>
            \E m \in timers : m.field = f /\ m.id = registered[f][k]

\* Agents, registrations and the messages under way agree.
EndsCome == RegisteredRuns /\ EndIsPending

\* The buff of a key goes at its end, by name, or for one of its owner's effects
\* that cancels it, which may itself be cancelled again as the owner enters.
GoesInTime(f, k) ==
    LET id == registered[f][k]
    IN  id # None /\ registered'[f][k] # id =>
            \/ agents[id].end <= now
            \/ RemoveEffectBuff(k[1], k[2])
            \/ \E e \in Effect :
                  /\ Cancels[e] = k[2]
                  /\ \/ registered'[f][<<k[1], e>>] # registered[f][<<k[1], e>>]
                     \/ at'[k[1]] # at[k[1]]

\* A buff goes before its end only by name or cancelled by another effect: a
\* message sent for an end that was put off since takes nothing away.
NoEarlyEnd == [][\A f \in Field, k \in Key : GoesInTime(f, k)]_vars

\* What the owner has above or below its base is what its buffs recorded; more,
\* never less, where a loss was cut off at 0: the gain that takes it back is not.
Ledger ==
    \A p \in Player :
        running[p] /\ reply[p] = None =>
            LET recorded == MapThenSumSet(
                    LAMBDA i : agents[i].amount,
                    {i \in Id : agents[i] # None /\ agents[i].player = p})
            IN  IF cut[p] THEN bonus[p] >= recorded ELSE bonus[p] = recorded

\* Once buffs are no longer applied, every one with an end goes for good.
BuffsExpire ==
    <>[](\A f \in Field, k \in Key :
            registered[f][k] # None => k[2] \in Unlimited)
===============================================================================
