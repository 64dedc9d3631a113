--------------------------- MODULE CharacterVitals ---------------------------
(***************************************************************************)
(* The health, death and revival of one Ms2ex.Managers.Character process   *)
(* (Character.Stats and Character.Revival), with what works on it from     *)
(* outside: buffs that raise and restore the health maximum, session       *)
(* handlers that write a copy of the whole character back, and the field's *)
(* tombstone, which other players hit until it revives its owner.          *)
(*                                                                         *)
(* A GenServer handles one message at a time, so a handler is one action.  *)
(* Casts to the field keep their order (`fieldMail`); the field's revive   *)
(* casts are only counted, since nothing else it sends depends on their    *)
(* place.  Clock readings become two flags: `wait`, the health deadline in *)
(* regen_waits has not passed, and `penalty`, sync_ticks() has not passed  *)
(* death_tick.  Spirit and stamina follow the same code without the death. *)
(* The character stays on one field.                                       *)
(***************************************************************************)
EXTENDS Integers, Sequences

CONSTANTS
    BaseHealth,       \* health of a character rebuilt from job, level and equips
    Damage,           \* amounts a hit, a drain or a fall takes
    Heal,             \* amounts a potion or a recovery gives
    Regen,            \* hp_regen_cur
    Buff,             \* buffs that raise the health maximum
    BuffHealth,       \* what each of them adds
    Handler,          \* session handlers between {:lookup} and {:update}
    HitPerDeath,      \* Constants: hit_per_dead_count
    MaxDeadCount,     \* Constants: max_dead_count
    NoRevivalHere,    \* map property no_revival_here
    DeathPenalty,     \* map property death_penalty
    ReturnsElsewhere, \* revival_return_id names another map
    InstantMax,       \* @meso_revival_daily_max
    None,             \* nil
    MaxHurts,         \* bound: damaging messages in one behaviour
    MaxRevives        \* bound: the tombstone's revive casts in flight

ASSUME VitalsAssumption ==
    /\ BaseHealth \in Nat /\ Regen \in Nat /\ BuffHealth \in Nat
    /\ Damage \subseteq Nat /\ Heal \subseteq Nat
    /\ HitPerDeath \in Nat /\ MaxDeadCount \in Nat
    /\ NoRevivalHere \in BOOLEAN /\ DeathPenalty \in BOOLEAN
    /\ ReturnsElsewhere \in BOOLEAN
    /\ InstantMax \in Nat /\ MaxHurts \in Nat /\ MaxRevives \in Nat
    /\ None \notin Nat

VARIABLES
    running,      \* the process is alive
    char,         \* its state
    regenTimers,  \* {:regen, :health} messages under way
    copy,         \* what each handler's lookup returned
    used,         \* instant revives since the daily reset (CharacterConfig)
    buffs,        \* buffs the field has applied and not yet taken back
    fieldMail,    \* the process's casts to the field, oldest first
    tombstone,    \* hits remaining, None when the field has no tombstone of it
    revives,      \* {:revive, :safe} casts of the field not yet handled
    hurts         \* damaging messages so far

field == <<tombstone, revives>>
vars == <<running, char, regenTimers, copy, used, buffs, fieldMail, field, hurts>>

Character == [cur : Nat, max : Nat, dead : BOOLEAN, deaths : Nat,
              penalty : BOOLEAN, regen : BOOLEAN, wait : BOOLEAN]

AddTombstone == [type : {"add"}, deaths : Nat]
ClearTombstone == [type : {"clear"}]

TypeOK ==
    /\ running \in BOOLEAN
    /\ char \in Character
    /\ regenTimers \in Nat
    /\ copy \in [Handler -> Character \cup {None}]
    /\ used \in Nat
    /\ buffs \subseteq Buff
    /\ fieldMail \in Seq(AddTombstone \cup ClearTombstone)
    /\ tombstone \in Nat \cup {None}
    /\ revives \in Nat
    /\ hurts \in Nat

-----------------------------------------------------------------------------
(* Character.Stats and Character.Revival on the character struct *)

AtLeast0(n) == IF n < 0 THEN 0 ELSE n
AtMost(n, top) == IF n > top THEN top ELSE n

\* previous_death_count/1, then die/1: deaths only add up inside the penalty.
Buried(c) ==
    [c EXCEPT !.dead = TRUE, !.penalty = TRUE,
              !.deaths = (IF c.penalty THEN c.deaths ELSE 0) + 1]

\* set/4: clamped, regeneration starts below the maximum, then check_death/1.
WithHealth(c, n) ==
    LET amount == AtMost(AtLeast0(n), c.max)
        s == [c EXCEPT !.cur = amount, !.regen = c.regen \/ amount < c.max]
    IN  IF s.cur = 0 /\ ~s.dead THEN Buried(s) ELSE s

\* decrease/4: a consumption pushes the regeneration deadline back.
Decreased(c, n) == WithHealth([c EXCEPT !.wait = TRUE], c.cur - n)

\* increase/3 writes the stat itself, without set/4.
Increased(c, n) == [c EXCEPT !.cur = AtMost(c.cur + n, c.max)]

\* modify_max/3 writes both numbers, without set/4.
MaxModified(c, n) ==
    [c EXCEPT !.max = AtLeast0(c.max + n), !.cur = AtLeast0(c.cur + n)]

\* extend_death_penalty/1
PenaltyExtended(c) ==
    IF DeathPenalty THEN [c EXCEPT !.penalty = TRUE]
                    ELSE [c EXCEPT !.penalty = FALSE, !.deaths = 0]

\* revive_dead/1 and revive_in_place/1 on the struct.
Alive(c) == PenaltyExtended([WithHealth(c, c.max) EXCEPT !.dead = FALSE])

\* Mutant of Merged: the copy decides whether the character is dead.
Merged_TakesDead(c, state) ==
    [c EXCEPT !.deaths = state.deaths, !.penalty = state.penalty,
              !.regen = state.regen, !.wait = state.wait]

\* update_state/2: the copy wins, but for the fields the process alone owns.
Merged(c, state) ==
    [c EXCEPT !.dead = state.dead, !.deaths = state.deaths,
              !.penalty = state.penalty, !.regen = state.regen,
              !.wait = state.wait]

\* Mutant of Becomes: every write below the maximum starts a timer.
Becomes_Rearms(c) ==
    /\ char' = c
    /\ regenTimers' = regenTimers + (IF c.cur < c.max THEN 1 ELSE 0)
    /\ fieldMail' = IF c.dead /\ ~char.dead
                    THEN Append(fieldMail, [type |-> "add", deaths |-> c.deaths])
                    ELSE fieldMail

\* The state after set/4, with the timer it starts and die/1's cast.
Becomes(c) ==
    /\ char' = c
    /\ regenTimers' = regenTimers + (IF c.regen /\ ~char.regen THEN 1 ELSE 0)
    /\ fieldMail' = IF c.dead /\ ~char.dead
                    THEN Append(fieldMail, [type |-> "add", deaths |-> c.deaths])
                    ELSE fieldMail

\* The state after a write that starts nothing.
Keeps(c) == char' = c /\ UNCHANGED <<regenTimers, fieldMail>>

Init ==
    /\ running = TRUE
    /\ char = [cur |-> BaseHealth, max |-> BaseHealth, dead |-> FALSE,
               deaths |-> 0, penalty |-> FALSE, regen |-> FALSE, wait |-> FALSE]
    /\ regenTimers = 0
    /\ copy = [h \in Handler |-> None]
    /\ used = 0
    /\ buffs = {}
    /\ fieldMail = <<>>
    /\ tombstone = None /\ revives = 0
    /\ hurts = 0

-----------------------------------------------------------------------------
(* Messages that hurt *)

Hurt(c) ==
    /\ running
    /\ hurts < MaxHurts
    /\ hurts' = hurts + 1
    /\ Becomes(c)
    /\ UNCHANGED <<running, copy, used, buffs, field>>

\* {:mob_hit, params}: the dead take no damage.
MobHit(n) == ~char.dead /\ Hurt(Decreased(char, n))

\* {:decrease_stats, stats} of a dot, {:consume_stat, :health, n} of a zone.
DecreaseStats(n) == Hurt(Decreased(char, n))

\* {:receive_fall_dmg, distance}: set/4 without the deadline.
ReceiveFallDmg(n) == Hurt(WithHealth(char, char.cur - n))

\* {:set_stat, :health, n} of the `hp` command.
SetStat(n) == Hurt(WithHealth(char, n))

(* Messages that heal *)

\* {:increase_stats, stats}
IncreaseStats(n) ==
    /\ running
    /\ Keeps(Increased(char, n))
    /\ UNCHANGED <<running, copy, used, buffs, field, hurts>>

\* {:regen, :health}: the dead stop, a deadline defers, otherwise one step
\* until the stat is full.
RegenHandled(c, timers) ==
    /\ running
    /\ regenTimers > 0
    /\ char' = c
    /\ regenTimers' = timers
    /\ UNCHANGED <<running, copy, used, buffs, fieldMail, field, hurts>>

RegenOfDead ==
    char.dead /\ RegenHandled([char EXCEPT !.regen = FALSE], regenTimers - 1)

\* Mutant of RegenDeferred: the deferred tick is not sent again.
RegenDeferred_Lost ==
    /\ ~char.dead /\ char.wait
    /\ RegenHandled([char EXCEPT !.regen = TRUE], regenTimers - 1)

RegenDeferred ==
    /\ ~char.dead /\ char.wait
    /\ RegenHandled([char EXCEPT !.regen = TRUE], regenTimers)

\* Mutant of RegenTick: the step is not capped.
RegenTick_Overfills ==
    /\ ~char.dead /\ ~char.wait /\ char.cur < char.max
    /\ RegenHandled([char EXCEPT !.regen = TRUE, !.cur = char.cur + Regen],
                    regenTimers)

RegenTick ==
    /\ ~char.dead /\ ~char.wait /\ char.cur < char.max
    /\ RegenHandled([char EXCEPT !.regen = TRUE,
                                 !.cur = AtMost(char.cur + Regen, char.max)],
                    regenTimers)

RegenDone ==
    /\ ~char.dead /\ ~char.wait /\ char.cur >= char.max
    /\ RegenHandled([char EXCEPT !.regen = FALSE], regenTimers - 1)

RegenMessage == RegenOfDead \/ RegenDeferred \/ RegenTick \/ RegenDone

-----------------------------------------------------------------------------
(* Death and revival *)

\* Mutant of Stands: the tombstone is left behind.
Stands_KeepsTombstone(c) ==
    /\ char' = c
    /\ regenTimers' = regenTimers + (IF c.regen /\ ~char.regen THEN 1 ELSE 0)
    /\ fieldMail' = fieldMail

\* The revived state, with broadcast_revive/1's cast.
Stands(c) ==
    /\ char' = c
    /\ regenTimers' = regenTimers + (IF c.regen /\ ~char.regen THEN 1 ELSE 0)
    /\ fieldMail' = Append(fieldMail, [type |-> "clear"])

\* revive_dead/1 and move_to_respawn/1 at the spawn point of the same map.
RespawnHere ==
    /\ ~ReturnsElsewhere
    /\ Stands(Alive(char))
    /\ UNCHANGED <<running, tombstone>>

\* move_to_respawn/1 to another map: change_field takes the character off the
\* field, which first handles the casts sent to it, and then has the process
\* call itself for the {:update}; GenServer.call exits.
RespawnElsewhere ==
    /\ ReturnsElsewhere
    /\ running' = FALSE
    /\ tombstone' = None /\ fieldMail' = <<>>
    /\ UNCHANGED <<char, regenTimers>>

\* {:revive, type}: nothing for the living, nor on a no_revival_here map.
Revive ==
    \/ /\ char.dead /\ ~NoRevivalHere
       /\ RespawnHere \/ RespawnElsewhere
    \/ /\ ~char.dead \/ NoRevivalHere
       /\ UNCHANGED <<running, char, regenTimers, fieldMail, tombstone>>

\* The player's own {:revive, :safe}.
SafeRevive ==
    /\ running
    /\ Revive
    /\ UNCHANGED <<copy, used, buffs, revives, hurts>>

\* {:revive, :safe} cast by the tombstone.
TombstoneRevive ==
    /\ running
    /\ revives > 0
    /\ revives' = revives - 1
    /\ Revive
    /\ UNCHANGED <<copy, used, buffs, hurts>>

\* {:revive, :instant, false} with the mesos debited; a refused payment and
\* the unimplemented voucher change nothing.
InstantRevive ==
    /\ running
    /\ char.dead
    /\ used < InstantMax
    /\ used' = used + 1
    /\ Stands(Alive(char))
    /\ UNCHANGED <<running, copy, buffs, field, hurts>>

\* Workers.DailyReset clears the counter.
DailyReset ==
    /\ used' = 0
    /\ UNCHANGED <<running, char, regenTimers, copy, buffs, fieldMail, field, hurts>>

-----------------------------------------------------------------------------
(* Writes from outside *)

\* {:modify_buff_status, modifiers}
BuffApplied(b) ==
    /\ running
    /\ b \notin buffs
    /\ buffs' = buffs \cup {b}
    /\ Keeps(MaxModified(char, BuffHealth))
    /\ UNCHANGED <<running, copy, used, field, hurts>>

\* {:remove_buff_status, modifiers}
BuffRemoved(b) ==
    /\ running
    /\ b \in buffs
    /\ buffs' = buffs \ {b}
    /\ Keeps(MaxModified(char, -BuffHealth))
    /\ UNCHANGED <<running, copy, used, field, hurts>>

\* A level reached (refresh_level/2) or an equip changed (refresh/1): the stats
\* are rebuilt by Context.CharacterStats.apply.
RefreshStats ==
    /\ running
    /\ Keeps([char EXCEPT !.max = BaseHealth, !.cur = BaseHealth])
    /\ UNCHANGED <<running, copy, used, buffs, field, hurts>>

\* A handler looks the character up ...
Lookup(h) ==
    /\ running
    /\ copy' = [copy EXCEPT ![h] = char]
    /\ UNCHANGED <<running, char, regenTimers, used, buffs, fieldMail, field, hurts>>

\* ... and writes its copy back with {:update, character}.
Update(h) ==
    /\ running
    /\ copy[h] # None
    /\ Keeps(Merged(copy[h], char))
    /\ copy' = [copy EXCEPT ![h] = None]
    /\ UNCHANGED <<running, used, buffs, field, hurts>>

-----------------------------------------------------------------------------
(* The field's tombstone *)

\* Types.Tombstone.new
TotalHits(deaths) ==
    IF HitPerDeath > 0 /\ MaxDeadCount > 0
    THEN HitPerDeath * AtMost(deaths, MaxDeadCount)
    ELSE HitPerDeath

\* handle_cast {:add_tombstone} and {:clear_tombstone}
FieldHandles ==
    /\ fieldMail # <<>>
    /\ fieldMail' = Tail(fieldMail)
    /\ tombstone' = IF Head(fieldMail).type = "add"
                    THEN TotalHits(Head(fieldMail).deaths)
                    ELSE None
    /\ UNCHANGED <<running, char, regenTimers, copy, used, buffs, revives, hurts>>

\* handle_call {:hit_tombstone}: the last hit revives the owner, and so does
\* every further hit until the tombstone is cleared.
HitTombstone ==
    /\ tombstone # None
    /\ revives < MaxRevives
    /\ tombstone' = AtLeast0(tombstone - 1)
    /\ revives' = revives + (IF tombstone' = 0 THEN 1 ELSE 0)
    /\ UNCHANGED <<running, char, regenTimers, copy, used, buffs, fieldMail, hurts>>

-----------------------------------------------------------------------------
(* Time passes *)

WaitOver ==
    /\ char.wait
    /\ char' = [char EXCEPT !.wait = FALSE]
    /\ UNCHANGED <<running, regenTimers, copy, used, buffs, fieldMail, field, hurts>>

PenaltyOver ==
    /\ char.penalty
    /\ char' = [char EXCEPT !.penalty = FALSE]
    /\ UNCHANGED <<running, regenTimers, copy, used, buffs, fieldMail, field, hurts>>

Next ==
    \/ \E n \in Damage :
          MobHit(n) \/ DecreaseStats(n) \/ ReceiveFallDmg(n) \/ SetStat(n)
    \/ \E n \in Heal : IncreaseStats(n)
    \/ RegenMessage
    \/ SafeRevive \/ TombstoneRevive \/ InstantRevive \/ DailyReset
    \/ \E b \in Buff : BuffApplied(b) \/ BuffRemoved(b)
    \/ RefreshStats
    \/ \E h \in Handler : Lookup(h) \/ Update(h)
    \/ FieldHandles \/ HitTombstone
    \/ WaitOver \/ PenaltyOver

Spec == Init /\ [][Next]_vars

\* The process works off its {:regen, :health} messages and time passes.
FairSpec == Spec /\ WF_vars(RegenMessage) /\ WF_vars(WaitOver)

-----------------------------------------------------------------------------
(* Properties *)

\* Health never exceeds its maximum, in the process and in every copy that may
\* still be written back: set/4, increase/3 and regen_tick/2 clamp, modify_max/3
\* relies on moving both numbers together.
HealthBounded ==
    /\ char.cur <= char.max
    /\ \A h \in Handler : copy[h] # None => copy[h].cur <= copy[h].max

\* One regeneration chain: a {:regen, :health} message is under way exactly
\* when regen_health? is set.  A second chain would double the regeneration for
\* good; the flag survives damage, death, revival and copies written back.
RegenChain == regenTimers = IF char.regen THEN 1 ELSE 0

\* Once the field has handled the casts, it shows a tombstone exactly for the
\* dead: a copy written back cannot raise the dead, nor a revival leave the
\* stone standing.
TombstoneFollowsDeath ==
    running /\ fieldMail = <<>> => (tombstone # None <=> char.dead)

\* Nobody comes back to life but with full health, through a revival.
ReviveIsWhole ==
    [][char.dead /\ ~char'.dead => char'.cur = char'.max /\ fieldMail' # <<>>]_vars

\* The living regenerate until the stat is full or they die.  It needs the
\* copies gone: with Handler empty every write is the process's own.
RegenFills ==
    char.cur < char.max /\ ~char.dead ~> char.cur = char.max \/ char.dead \/ ~running
=============================================================================
