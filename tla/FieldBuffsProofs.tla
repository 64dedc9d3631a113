--------------------------- MODULE FieldBuffsProofs ---------------------------
(***************************************************************************)
(* What holds of the buffs of one field, for any players, any effects that *)
(* FieldBuffs assumes, and any bounds: agents, registrations and messages  *)
(* agree.  The helpers of FieldBuffs thread a state `s`; a lemma for each  *)
(* says what it keeps of a sound one.                                      *)
(***************************************************************************)
EXTENDS FieldBuffs, FiniteSetTheorems, WellFoundedInduction, TLAPS

-------------------------------------------------------------------------------
(* Induction without operator parameters: what holds is a set. *)

(* A set of numbers that holds 0 and each successor holds them all.        *)
LEMMA NatInd ==
    ASSUME NEW T, 0 \in T, \A n \in Nat : n \in T => n + 1 \in T
    PROVE  Nat \subseteq T
<1> DEFINE out == Nat \ T
<1>1. SUFFICES ASSUME out # {} PROVE FALSE OBVIOUS
<1>2. PICK n \in out : \A m \in out : <<m, n>> \notin OpToRel(<, Nat)
  <2>1. out \subseteq Nat OBVIOUS
  <2> HIDE DEF out
  <2> QED BY <1>1, <2>1, NatLessThanWellFounded, WFMin
<1>3. n \in Nat /\ n # 0 OBVIOUS
<1>4. n - 1 \in Nat /\ (n - 1) + 1 = n BY <1>3
<1>5. n - 1 \in out BY <1>4
<1>6. <<n - 1, n>> \in OpToRel(<, Nat)
  <2>1. <<n - 1, n>> \in Nat \X Nat /\ n - 1 < n BY <1>3, <1>4
  <2> QED BY <2>1 DEF OpToRel
<1> QED BY <1>2, <1>5, <1>6

(* A set of subsets that holds {} and each that one of its elements may be *)
(* taken from holds them all.                                              *)
LEMMA SubsetInd ==
    ASSUME NEW S, IsFiniteSet(S), NEW T, {} \in T,
           \A s \in SUBSET S : s # {} =>
               \E x \in s : s \ {x} \in T => s \in T
    PROVE  S \in T
<1> DEFINE ns == {n \in Nat : \A s \in SUBSET S : Cardinality(s) = n => s \in T}
<1>1. \A s \in SUBSET S : IsFiniteSet(s) /\ Cardinality(s) \in Nat
  BY FS_Subset, FS_CardinalityType
<1>2. 0 \in ns
  <2>1. \A s \in SUBSET S : Cardinality(s) = 0 => s = {} BY <1>1, FS_EmptySet
  <2> QED BY <2>1
<1>3. ASSUME NEW n \in Nat, n \in ns PROVE n + 1 \in ns
  <2> SUFFICES ASSUME NEW s \in SUBSET S, Cardinality(s) = n + 1 PROVE s \in T
    OBVIOUS
  <2>0. Cardinality(s) = n + 1 OBVIOUS
  <2>1. s # {} BY <1>1, FS_EmptySet
  <2>2. PICK x \in s : s \ {x} \in T => s \in T BY <2>1
  <2>3. Cardinality(s \ {x}) = n
    <3>1. IsFiniteSet(s) BY <1>1
    <3>2. Cardinality(s \ {x}) = Cardinality(s) - 1 BY <3>1, FS_RemoveElement
    <3> QED BY <2>0, <3>2
  <2>4. s \ {x} \in SUBSET S OBVIOUS
  <2> QED BY <1>3, <2>2, <2>3, <2>4
<1> HIDE DEF ns
<1>4. Nat \subseteq ns BY <1>2, <1>3, NatInd
<1>5. Cardinality(S) \in ns BY <1>1, <1>4
<1> QED BY <1>5 DEF ns

-------------------------------------------------------------------------------
(* The state that the helpers thread *)

Msg == [field : Field, type : {"tick", "remove"}, id : Id, at : Int]

\* What players may have above or below their base: no maximum is below 0.
Gains == {g \in [Player -> Int] : \A p \in Player : Base[p] + g[p] >= 0}

Parts == [count : [Field -> 0..MaxIds],
          registered : [Field -> [Key -> Id \cup {None}]],
          agents : [Id -> Buff \cup {None}],
          timers : SUBSET Msg,
          bonus : Gains, cut : [Player -> BOOLEAN]]

IsBuff(b) == b \in Buff /\ b.stacks <= MaxCount[b.effect]

Agree(f, s) ==
    /\ \A i \in Id : s.agents[i] # None =>
          /\ IsBuff(s.agents[i]) /\ s.agents[i].id = i /\ i <= s.count[f]
          /\ s.registered[f][KeyOf(s.agents[i])] = i
    /\ \A k \in Key : s.registered[f][k] # None =>
          /\ s.agents[s.registered[f][k]] # None
          /\ KeyOf(s.agents[s.registered[f][k]]) = k

Awaited(f, timers_, i) == \E m \in timers_ : m.field = f /\ m.id = i

\* Every buff with an end has a message under way, but for those in `out`.
Pending(f, s, out) ==
    \A i \in Id : s.agents[i] # None /\ s.agents[i].effect \notin Unlimited =>
        i \in out \/ Awaited(f, s.timers, i)

Sound(f, s, out) == s \in Parts /\ Agree(f, s) /\ Pending(f, s, out)

\* Of the first n ids no agent comes, and none becomes another buff.
Keep(n, s, t) ==
    \A i \in Id : i <= n /\ t.agents[i] # None =>
        s.agents[i] # None /\ KeyOf(t.agents[i]) = KeyOf(s.agents[i])

\* No agent goes but those of effect e.
Spare(e, s, t) ==
    \A i \in Id : s.agents[i] # None /\ s.agents[i].effect # e =>
        t.agents[i] # None

\* Buff b may be written over the agent of its name.
Over(b, s) == IsBuff(b) /\ s.agents[b.id] # None /\ KeyOf(b) = KeyOf(s.agents[b.id])

\* No message is lost but to those in `less`, who include those in `out`
\* that none came for.
Mail(f, s, t, out, less) ==
    /\ \A i \in Id : Awaited(f, s.timers, i) => i \in less \/ Awaited(f, t.timers, i)
    /\ \A i \in out : i \in less \/ Awaited(f, t.timers, i)

\* The same agents run, of the same buffs, registered alike.
Same(s, t) ==
    /\ \A i \in Id : t.agents[i] # None <=> s.agents[i] # None
    /\ \A i \in Id : KeyOf(t.agents[i]) = KeyOf(s.agents[i])
    /\ t.count = s.count /\ t.registered = s.registered

LEMMA BuffTypes ==
    ASSUME NEW b \in Buff
    PROVE  /\ b.id \in Id /\ b.player \in Player /\ b.effect \in Effect
           /\ b.start \in Int /\ b.end \in Int /\ b.next \in Nat
           /\ b.ticks \in BOOLEAN /\ b.stacks \in Nat /\ b.amount \in Int
           /\ b.removal \in Nat \cup {None}
           /\ KeyOf(b) \in Key /\ b # None
BY EffectsAssumption DEF Buff, KeyOf, Key

(* What Same gives of what the agents are.                                 *)
LEMMA SameKeeps ==
    ASSUME NEW s, NEW t, Same(s, t), NEW n, NEW e
    PROVE  Keep(n, s, t) /\ Spare(e, s, t)
BY DEF Same, Keep, Spare

LEMMA SameAgain ==
    ASSUME NEW s, NEW t, NEW u, Same(s, t), Same(t, u)
    PROVE  Same(s, u)
BY DEF Same

-------------------------------------------------------------------------------
(* Messages *)

(* Agents are written anew, each as a buff of the same owner and effect.   *)
LEMMA Rewritten ==
    ASSUME NEW f \in Field, NEW s, NEW out, Sound(f, s, out),
           NEW b, Over(b, s), NEW t \in Parts, NEW less,
           t.count = s.count, t.registered = s.registered,
           t.agents = [s.agents EXCEPT ![b.id] = b],
           Mail(f, s, t, out, less)
    PROVE  Sound(f, t, less) /\ Same(s, t)
<1>0. /\ IsBuff(b) /\ s.agents[b.id] # None /\ KeyOf(b) = KeyOf(s.agents[b.id])
      /\ \A i \in Id : Awaited(f, s.timers, i) => i \in less \/ Awaited(f, t.timers, i)
      /\ \A i \in out : i \in less \/ Awaited(f, t.timers, i)
  BY DEF Over, Mail
<1>1. /\ b \in Buff /\ b.id \in Id /\ b # None
      /\ s \in Parts /\ Agree(f, s) /\ Pending(f, s, out)
  BY <1>0, BuffTypes DEF Sound, IsBuff
<1>2. s.agents \in [Id -> Buff \cup {None}] BY <1>1 DEF Parts
<1>3. /\ t.agents[b.id] = b
      /\ \A i \in Id : i # b.id => t.agents[i] = s.agents[i]
  BY <1>1, <1>2
<1>4. \A i \in Id : t.agents[i] # None <=> s.agents[i] # None
  BY <1>0, <1>1, <1>3
<1>5. \A i \in Id : KeyOf(t.agents[i]) = KeyOf(s.agents[i])
  BY <1>0, <1>3
<1>6. Agree(f, t)
  <2>1. ASSUME NEW i \in Id, t.agents[i] # None
        PROVE  /\ IsBuff(t.agents[i]) /\ t.agents[i].id = i /\ i <= t.count[f]
               /\ t.registered[f][KeyOf(t.agents[i])] = i
    <3>1. s.agents[i] # None BY <1>4, <2>1
    <3>2. i <= t.count[f] /\ t.registered[f][KeyOf(t.agents[i])] = i
      BY <1>1, <1>5, <3>1 DEF Agree
    <3>3. IsBuff(t.agents[i]) /\ t.agents[i].id = i
      BY <1>0, <1>1, <1>3, <3>1 DEF Agree
    <3> QED BY <3>2, <3>3
  <2>2. ASSUME NEW k \in Key, t.registered[f][k] # None
        PROVE  /\ t.agents[t.registered[f][k]] # None
               /\ KeyOf(t.agents[t.registered[f][k]]) = k
    <3>1. s.registered[f][k] \in Id BY <1>1, <2>2 DEF Parts
    <3>2. /\ s.agents[s.registered[f][k]] # None
          /\ KeyOf(s.agents[s.registered[f][k]]) = k
      BY <1>1, <2>2 DEF Agree
    <3> QED BY <1>4, <1>5, <3>1, <3>2
  <2> QED BY <2>1, <2>2 DEF Agree
<1>7. Pending(f, t, less)
  <2> SUFFICES ASSUME NEW i \in Id, t.agents[i] # None,
                      t.agents[i].effect \notin Unlimited
               PROVE  i \in less \/ Awaited(f, t.timers, i)
    BY DEF Pending
  <2>1. s.agents[i] # None BY <1>4
  <2>2. s.agents[i].effect = t.agents[i].effect BY <1>5 DEF KeyOf
  <2>3. i \in out \/ Awaited(f, s.timers, i) BY <1>1, <2>1, <2>2 DEF Pending
  <2> QED BY <1>0, <2>3
<1>8. Same(s, t) BY <1>4, <1>5 DEF Same
<1> QED BY <1>6, <1>7, <1>8 DEF Sound

(* schedule_removal/1 and Process.send_after: a message is under way.      *)
LEMMA ScheduledIs ==
    ASSUME NEW f \in Field, NEW s, NEW out, Sound(f, s, out), now \in Nat,
           NEW b, Over(b, s),
           NEW t, t = Scheduled(s, f, b), NEW less, out \subseteq less \cup {b.id}
    PROVE  Sound(f, t, less) /\ Same(s, t)
<1> DEFINE due == AtLeast(b.end, now + 1)
           msg == [field |-> f, type |-> "remove", id |-> b.id, at |-> due]
           c == [b EXCEPT !.removal = due]
<1>1. b \in Buff /\ b.id \in Id /\ s \in Parts BY BuffTypes DEF IsBuff, Sound, Over
<1>2. due \in Nat BY <1>1, BuffTypes DEF AtLeast
<1>3. c \in Buff /\ c.id = b.id /\ KeyOf(c) = KeyOf(b) /\ IsBuff(c)
  BY <1>1, <1>2 DEF Over, IsBuff, Buff, KeyOf
<1>4. msg \in Msg BY <1>1, <1>2 DEF Msg
<1>5. t = [s EXCEPT !.timers = s.timers \cup {msg},
                    !.agents = [s.agents EXCEPT ![b.id] = c]]
  BY <1>1 DEF Scheduled, Parts
<1> HIDE DEF msg, c
<1>6. t \in Parts
  <2>1. s.timers \cup {msg} \in SUBSET Msg BY <1>1, <1>4 DEF Parts
  <2>2. [s.agents EXCEPT ![b.id] = c] \in [Id -> Buff \cup {None}]
    BY <1>1, <1>3 DEF Parts
  <2> QED BY <1>1, <1>5, <2>1, <2>2 DEF Parts
<1>7. /\ t.count = s.count /\ t.registered = s.registered
      /\ t.agents = [s.agents EXCEPT ![b.id] = c] /\ t.timers = s.timers \cup {msg}
  BY <1>1, <1>5 DEF Parts
<1>8. msg.field = f /\ msg.id = b.id BY DEF msg
<1>9. Awaited(f, t.timers, b.id) BY <1>7, <1>8 DEF Awaited
<1>10. \A i \in Id : Awaited(f, s.timers, i) => Awaited(f, t.timers, i)
  BY <1>7 DEF Awaited
<1>11. Mail(f, s, t, out, less) BY <1>9, <1>10 DEF Mail
<1>12. Over(c, s) BY <1>3 DEF Over
<1>13. t.agents = [s.agents EXCEPT ![c.id] = c] BY <1>3, <1>7
<1> QED BY <1>6, <1>7, <1>11, <1>12, <1>13, Rewritten

(* Only messages change. *)
LEMMA Mailed ==
    ASSUME NEW f \in Field, NEW s, NEW out, Sound(f, s, out),
           NEW t \in Parts, NEW less,
           t.count = s.count, t.registered = s.registered, t.agents = s.agents,
           Mail(f, s, t, out, less)
    PROVE  Sound(f, t, less) /\ Same(s, t)
<1>1. s \in Parts /\ Agree(f, s) /\ Pending(f, s, out) BY DEF Sound
<1>2. Agree(f, t) BY <1>1 DEF Agree
<1>3. Pending(f, t, less) BY <1>1 DEF Pending, Mail
<1> QED BY <1>2, <1>3 DEF Sound, Same

LEMMA TickInIs ==
    ASSUME NEW f \in Field, NEW s, NEW out, Sound(f, s, out), now \in Nat,
           NEW b \in Buff, NEW ms \in Int,
           NEW t, t = TickIn(s, f, b, ms), NEW less, out \subseteq less \cup {b.id}
    PROVE  Sound(f, t, less) /\ Same(s, t)
<1> DEFINE msg == [field |-> f, type |-> "tick", id |-> b.id, at |-> now + ms]
<1>1. s \in Parts /\ b.id \in Id BY BuffTypes DEF Sound
<1>2. msg \in Msg BY <1>1 DEF Msg
<1>3. t = [s EXCEPT !.timers = s.timers \cup {msg}] BY <1>1 DEF TickIn, Parts
<1>4. msg.field = f /\ msg.id = b.id OBVIOUS
<1> HIDE DEF msg
<1>5. s.timers \cup {msg} \in SUBSET Msg BY <1>1, <1>2 DEF Parts
<1>6. /\ t \in Parts /\ t.count = s.count /\ t.registered = s.registered
      /\ t.agents = s.agents /\ t.timers = s.timers \cup {msg}
  BY <1>1, <1>3, <1>5 DEF Parts
<1>7. Awaited(f, t.timers, b.id) BY <1>4, <1>6 DEF Awaited
<1>8. \A i \in Id : Awaited(f, s.timers, i) => Awaited(f, t.timers, i)
  BY <1>6 DEF Awaited
<1>9. Mail(f, s, t, out, less) BY <1>7, <1>8 DEF Mail
<1> QED BY <1>6, <1>9, Mailed

(* schedule/1: a tick, or the removal of what has an end.                  *)
LEMMA PlannedIs ==
    ASSUME NEW f \in Field, NEW s, NEW out, Sound(f, s, out), now \in Nat,
           NEW b, Over(b, s),
           NEW t, t = Planned(s, f, b), NEW less, out \subseteq less \cup {b.id}
    PROVE  Sound(f, t, less) /\ Same(s, t)
<1>1. b \in Buff /\ b.next \in Int BY BuffTypes DEF IsBuff, Over
<1>2. CASE b.effect \in Ticking
  <2>1. t = TickIn(s, f, b, b.next) BY <1>2 DEF Planned
  <2> QED BY <1>1, <2>1, TickInIs
<1>3. CASE b.effect \notin Ticking /\ b.effect \in Unlimited
  <2>1. t = s BY <1>3 DEF Planned
  <2>2. s \in Parts /\ Agree(f, s) /\ Pending(f, s, out) BY DEF Sound
  <2>3. s.agents[b.id].effect \in Unlimited BY <1>3 DEF Over, KeyOf
  <2>4. Pending(f, s, less) BY <2>2, <2>3 DEF Pending
  <2> QED BY <2>1, <2>2, <2>4 DEF Sound, Same
<1>4. CASE b.effect \notin Ticking /\ b.effect \notin Unlimited
  <2>1. t = Scheduled(s, f, b) BY <1>4 DEF Planned
  <2> QED BY <2>1, ScheduledIs
<1> QED BY <1>2, <1>3, <1>4

(* Keeping and sparing along two steps.                                    *)
LEMMA KeepAgain ==
    ASSUME NEW n, NEW m, NEW s, NEW t, NEW u, Keep(n, s, t), Keep(m, t, u), n \in Int, m \in Int
    PROVE  n <= m => Keep(n, s, u)
<1> SUFFICES ASSUME n <= m, NEW i \in Id, i <= n, u.agents[i] # None
             PROVE  s.agents[i] # None /\ KeyOf(u.agents[i]) = KeyOf(s.agents[i])
  BY DEF Keep
<1>1. i <= m BY DEF Id
<1>2. t.agents[i] # None /\ KeyOf(u.agents[i]) = KeyOf(t.agents[i]) BY <1>1 DEF Keep
<1> QED BY <1>2 DEF Keep

-------------------------------------------------------------------------------
(* Buffs that go *)

\* Nothing but what players have changes from s to t.
Alone(s, t) ==
    /\ t.count = s.count /\ t.registered = s.registered
    /\ t.agents = s.agents /\ t.timers = s.timers

(* modify_max/3 gives one player an amount, and more where a loss is cut   *)
(* off at 0.                                                               *)
LEMMA ModifiedIs ==
    ASSUME NEW s \in Parts, NEW p \in Player, NEW amount \in Int,
           NEW t, t = Modified(s, p, amount)
    PROVE  /\ t \in Parts /\ Alone(s, t)
           /\ \A q \in Player : q # p => t.bonus[q] = s.bonus[q] /\ t.cut[q] = s.cut[q]
           /\ t.bonus[p] >= s.bonus[p] + amount
           /\ s.cut[p] => t.cut[p]
           /\ t.cut[p] \/ t.bonus[p] = s.bonus[p] + amount
<1> DEFINE gain == AtLeast(s.bonus[p] + amount, 0 - Base[p])
           lost == s.cut[p] \/ Base[p] + s.bonus[p] + amount < 0
           gains == [s.bonus EXCEPT ![p] = gain]
           cuts == [s.cut EXCEPT ![p] = lost]
<1>1. s.bonus \in Gains /\ s.cut \in [Player -> BOOLEAN] BY DEF Parts
<1>2. s.bonus \in [Player -> Int] /\ \A q \in Player : Base[q] + s.bonus[q] >= 0
  BY <1>1 DEF Gains
<1>3. Base[p] \in Nat /\ s.bonus[p] \in Int BY <1>2, EffectsAssumption
<1>4. /\ gain \in Int /\ gain >= s.bonus[p] + amount /\ Base[p] + gain >= 0
      /\ Base[p] + s.bonus[p] + amount < 0 \/ gain = s.bonus[p] + amount
  BY <1>3 DEF AtLeast
<1>5. lost \in BOOLEAN /\ (s.cut[p] => lost) BY <1>1
<1>6. t = [s EXCEPT !.bonus = gains, !.cut = cuts] BY DEF Modified, Parts
<1> HIDE DEF gain
<1>7. /\ gains \in [Player -> Int] /\ gains[p] = gain
      /\ \A q \in Player : q # p => gains[q] = s.bonus[q]
  BY <1>2, <1>4
<1> HIDE DEF gains
<1>8. gains \in Gains BY <1>2, <1>4, <1>7 DEF Gains
<1>9. lost \/ gain = s.bonus[p] + amount BY <1>4
<1> HIDE DEF lost
<1>10. /\ cuts \in [Player -> BOOLEAN] /\ cuts[p] = lost
       /\ \A q \in Player : q # p => cuts[q] = s.cut[q]
  BY <1>1, <1>5
<1> HIDE DEF cuts
<1>11. t \in Parts /\ Alone(s, t) /\ t.bonus = gains /\ t.cut = cuts
  BY <1>6, <1>8, <1>10 DEF Parts, Alone
<1> QED BY <1>4, <1>5, <1>7, <1>9, <1>10, <1>11

(* A removed buff is no longer registered; no other goes.                  *)
LEMMA RemovedIs ==
    ASSUME NEW f \in Field, NEW s, NEW out, Sound(f, s, out),
           NEW id \in Id, s.agents[id] # None,
           NEW t, t = Removed(s, f, id), NEW less, out \subseteq less \cup {id}
    PROVE  /\ Sound(f, t, less) /\ t.count = s.count
           /\ t.agents = [s.agents EXCEPT ![id] = None]
<1> DEFINE b == s.agents[id]
<1>1. s \in Parts /\ Agree(f, s) /\ Pending(f, s, out) BY DEF Sound
<1>2. b \in Buff /\ IsBuff(b) /\ b.id = id /\ s.registered[f][KeyOf(b)] = id
  BY <1>1 DEF Agree, IsBuff
<1>3. b.player \in Player /\ b.amount \in Int /\ KeyOf(b) \in Key BY <1>2, BuffTypes
<1> DEFINE u == Modified(s, b.player, 0 - b.amount)
<1>0. u \in Parts /\ Alone(s, u)
  <2>1. 0 - b.amount \in Int BY <1>3
  <2> HIDE DEF b
  <2> QED BY <1>1, <1>3, <2>1, ModifiedIs
<1>4. t = [u EXCEPT !.agents = [s.agents EXCEPT ![id] = None],
                    !.registered = [s.registered EXCEPT ![f] =
                                      [@ EXCEPT ![KeyOf(b)] = None]]]
  <2>1. u.agents = s.agents /\ u.registered = s.registered BY <1>0 DEF Alone
  <2>2. t = [u EXCEPT !.agents[id] = None,
                      !.registered[f][KeyOf(b)] = IF @ = id THEN None ELSE @]
    BY DEF Removed
  <2> HIDE DEF u, b
  <2> QED BY <1>0, <1>2, <1>3, <2>1, <2>2 DEF Parts
<1> DEFINE k == KeyOf(b)
           regs == [s.registered[f] EXCEPT ![k] = None]
<1> HIDE DEF u
<1>5. /\ t.count = s.count /\ t.timers = s.timers
      /\ t.agents = [s.agents EXCEPT ![id] = None]
      /\ t.registered = [s.registered EXCEPT ![f] = regs]
  BY <1>0, <1>1, <1>4 DEF Parts, Alone
<1>6. t \in Parts
  <2>2. t.agents \in [Id -> Buff \cup {None}] BY <1>1, <1>5 DEF Parts
  <2>3. regs \in [Key -> Id \cup {None}] BY <1>1 DEF Parts
  <2>4. t.registered \in [Field -> [Key -> Id \cup {None}]]
    BY <1>1, <1>5, <2>3 DEF Parts
  <2> QED BY <1>0, <1>4, <1>5, <2>2, <2>4 DEF Parts
<1>7. /\ t.registered[f] = regs
      /\ s.registered[f] \in [Key -> Id \cup {None}]
      /\ s.agents \in [Id -> Buff \cup {None}]
  BY <1>1, <1>5 DEF Parts
<1>8. \A j \in Key : j # k => t.registered[f][j] = s.registered[f][j]
  BY <1>7
<1>9. \A i \in Id : i # id => t.agents[i] = s.agents[i] BY <1>5, <1>7
<1>10. t.agents[id] = None BY <1>5, <1>7
<1>11. t.registered[f][k] = None BY <1>3, <1>7
<1> HIDE DEF regs, k
<1>12. Agree(f, t)
  <2>1. ASSUME NEW i \in Id, t.agents[i] # None
        PROVE  /\ IsBuff(t.agents[i]) /\ t.agents[i].id = i /\ i <= t.count[f]
               /\ t.registered[f][KeyOf(t.agents[i])] = i
    <3>1. i # id /\ t.agents[i] = s.agents[i] BY <1>9, <1>10, <2>1
    <3>2. /\ IsBuff(s.agents[i]) /\ s.agents[i].id = i /\ i <= s.count[f]
          /\ s.registered[f][KeyOf(s.agents[i])] = i
      BY <1>1, <2>1, <3>1 DEF Agree
    <3>3. KeyOf(s.agents[i]) # k BY <1>2, <3>1, <3>2 DEF k
    <3>4. KeyOf(s.agents[i]) \in Key BY <3>2, BuffTypes DEF IsBuff
    <3> QED BY <1>5, <1>8, <3>1, <3>2, <3>3, <3>4
  <2>2. ASSUME NEW j \in Key, t.registered[f][j] # None
        PROVE  /\ t.agents[t.registered[f][j]] # None
               /\ KeyOf(t.agents[t.registered[f][j]]) = j
    <3>1. j # k /\ t.registered[f][j] = s.registered[f][j] BY <1>8, <1>11, <2>2
    <3>2. /\ s.registered[f][j] \in Id
          /\ s.agents[s.registered[f][j]] # None
          /\ KeyOf(s.agents[s.registered[f][j]]) = j
      BY <1>1, <1>7, <2>2, <3>1 DEF Agree
    <3>3. s.registered[f][j] # id BY <3>1, <3>2 DEF k
    <3> QED BY <1>9, <3>1, <3>2, <3>3
  <2> QED BY <2>1, <2>2 DEF Agree
<1>13. Pending(f, t, less)
  <2> SUFFICES ASSUME NEW i \in Id, t.agents[i] # None,
                      t.agents[i].effect \notin Unlimited
               PROVE  i \in less \/ Awaited(f, t.timers, i)
    BY DEF Pending
  <2>1. i # id /\ t.agents[i] = s.agents[i] BY <1>9, <1>10
  <2>2. i \in out \/ Awaited(f, s.timers, i) BY <1>1, <2>1 DEF Pending
  <2> QED BY <1>5, <2>1, <2>2
<1> QED BY <1>5, <1>6, <1>12, <1>13 DEF Sound

(* remove_buff/3: the buff goes, or gets a message for the end it has now. *)
LEMMA DroppedIs ==
    ASSUME NEW f \in Field, NEW s, NEW out, Sound(f, s, out), now \in Nat,
           NEW id \in Id, NEW force,
           NEW t, t = Dropped(s, f, id, force),
           NEW less, out \subseteq less \cup {id}
    PROVE  /\ Sound(f, t, less) /\ t.count = s.count
           /\ \A n : Keep(n, s, t)
           /\ \A i \in Id : i # id /\ s.agents[i] # None => t.agents[i] # None
<1> DEFINE b == s.agents[id]
<1>1. s \in Parts /\ Agree(f, s) /\ Pending(f, s, out) BY DEF Sound
<1>2. CASE b = None
  <2>1. t = s BY <1>2 DEF Dropped
  <2>2. Pending(f, s, less) BY <1>1, <1>2 DEF Pending
  <2> QED BY <1>1, <2>1, <2>2 DEF Sound, Keep
<1>3. CASE b # None /\ ~force /\ now < b.end
  <2>1. t = Scheduled(s, f, b) BY <1>3 DEF Dropped
  <2>2. IsBuff(b) /\ b.id = id BY <1>1, <1>3 DEF Agree
  <2>3. Over(b, s) BY <1>3, <2>2 DEF Over
  <2>4. Sound(f, t, less) /\ Same(s, t) BY <2>1, <2>2, <2>3, ScheduledIs
  <2> QED BY <2>4, SameKeeps DEF Same
<1>4. CASE b # None /\ (force \/ ~(now < b.end))
  <2>1. t = Removed(s, f, id) BY <1>4 DEF Dropped
  <2>2. /\ Sound(f, t, less) /\ t.count = s.count
        /\ t.agents = [s.agents EXCEPT ![id] = None]
    BY <1>4, <2>1, RemovedIs
  <2>3. \A i \in Id : i # id => t.agents[i] = s.agents[i] BY <1>1, <2>2 DEF Parts
  <2>4. t.agents[id] = None BY <1>1, <2>2 DEF Parts
  <2>5. \A n : Keep(n, s, t) BY <2>3, <2>4 DEF Keep
  <2> QED BY <2>2, <2>3, <2>5
<1> QED BY <1>2, <1>3, <1>4

(* cancel_effects/2: no buff goes but of the effect that is cancelled.     *)
LEMMA CancelledIs ==
    ASSUME NEW f \in Field, NEW s, NEW out, Sound(f, s, out), now \in Nat,
           NEW b \in Buff, NEW t, t = Cancelled(s, f, b)
    PROVE  /\ Sound(f, t, out) /\ t.count = s.count
           /\ \A n : Keep(n, s, t)
           /\ Spare(Cancels[b.effect], s, t)
<1> DEFINE key == <<b.player, Cancels[b.effect]>>
           id == s.registered[f][key]
<1>1. s \in Parts /\ Agree(f, s) BY DEF Sound
<1>2. CASE Cancels[b.effect] = None \/ id = None
  <2>1. t = s BY <1>2 DEF Cancelled
  <2> QED BY <2>1 DEF Keep, Spare
<1>3. CASE Cancels[b.effect] # None /\ id # None
  <2>1. key \in Key BY <1>3, BuffTypes, EffectsAssumption DEF Key
  <2>2. id \in Id BY <1>1, <1>3, <2>1 DEF Parts
  <2> DEFINE force == TRUE
  <2>3. t = Dropped(s, f, id, force) BY <1>3 DEF Cancelled
  <2> HIDE DEF force
  <2>4. /\ Sound(f, t, out) /\ t.count = s.count /\ \A n : Keep(n, s, t)
        /\ \A i \in Id : i # id /\ s.agents[i] # None => t.agents[i] # None
    <3> HIDE DEF id
    <3>1. out \subseteq out \cup {id} OBVIOUS
    <3> QED BY <2>2, <2>3, <3>1, DroppedIs
  <2>5. s.agents[id].effect = Cancels[b.effect]
    BY <1>1, <1>3, <2>1 DEF Agree, KeyOf
  <2>6. Spare(Cancels[b.effect], s, t) BY <2>4, <2>5 DEF Spare
  <2> QED BY <2>4, <2>6
<1> QED BY <1>2, <1>3

-------------------------------------------------------------------------------
(* Buffs that come, and their stacks *)

(* next_local_id/1: the id is fresh.                                       *)
LEMMA AllocatedIs ==
    ASSUME NEW f \in Field, NEW s, NEW out, Sound(f, s, out),
           s.count[f] + 1 <= MaxIds, NEW t, t = Allocated(s, f)
    PROVE  /\ Sound(f, t, out) /\ t.count[f] = s.count[f] + 1
           /\ t.agents = s.agents /\ t.registered = s.registered
           /\ t.count[f] \in Id /\ t.agents[t.count[f]] = None
           /\ s.count[f] \in Nat
<1>1. s \in Parts /\ Agree(f, s) /\ Pending(f, s, out) BY DEF Sound
<1>2. s.count[f] \in 0..MaxIds /\ MaxIds \in Nat BY <1>1, EffectsAssumption DEF Parts
<1>3. t = [s EXCEPT !.count = [s.count EXCEPT ![f] = s.count[f] + 1]]
  BY <1>1 DEF Allocated, Parts
<1>4. s.count[f] + 1 \in 0..MaxIds BY <1>2
<1>5. /\ t.registered = s.registered /\ t.agents = s.agents /\ t.timers = s.timers
      /\ t.count = [s.count EXCEPT ![f] = s.count[f] + 1]
      /\ t.count[f] = s.count[f] + 1
  BY <1>1, <1>3 DEF Parts
<1>6. t \in Parts
  <2>1. t.count \in [Field -> 0..MaxIds] BY <1>1, <1>4, <1>5 DEF Parts
  <2> QED BY <1>1, <1>3, <1>5, <2>1 DEF Parts
<1>7. \A i \in Id : i <= s.count[f] => i <= t.count[f]
  BY <1>2, <1>5 DEF Id
<1>8. Agree(f, t) BY <1>1, <1>5, <1>7 DEF Agree
<1>9. Pending(f, t, out) BY <1>1, <1>5 DEF Pending
<1>10. t.count[f] \in Id BY <1>2, <1>5 DEF Id
<1>11. t.agents[t.count[f]] = None
  <2>1. ~(t.count[f] <= s.count[f]) BY <1>2, <1>5
  <2> QED BY <1>1, <1>5, <1>10, <2>1 DEF Agree
<1> QED BY <1>2, <1>5, <1>6, <1>8, <1>9, <1>10, <1>11 DEF Sound

(* apply_status/2: the amounts are kept in the agent, which stays.         *)
LEMMA GivenIs ==
    ASSUME NEW f \in Field, NEW s, NEW out, Sound(f, s, out),
           NEW b, Over(b, s), NEW amount \in Int,
           NEW t, t = Given(s, b, amount)
    PROVE  Sound(f, t, out) /\ Same(s, t)
<1> DEFINE c == [b EXCEPT !.amount = amount]
<1>1. b \in Buff /\ b.id \in Id /\ b.player \in Player /\ s \in Parts
  BY BuffTypes DEF IsBuff, Over, Sound
<1>2. CASE amount = 0 BY <1>2 DEF Given, Same
<1>3. CASE amount # 0
  <2>1. c \in Buff /\ c.id = b.id /\ KeyOf(c) = KeyOf(b) /\ IsBuff(c)
    BY <1>1 DEF Over, IsBuff, Buff, KeyOf
  <2> DEFINE u == Modified(s, b.player, amount)
  <2>0. u \in Parts /\ Alone(s, u) BY <1>1, ModifiedIs
  <2>2. t = [u EXCEPT !.agents = [s.agents EXCEPT ![b.id] = c]]
    <3>1. t = [u EXCEPT !.agents[b.id] = c] BY <1>3 DEF Given
    <3> HIDE DEF u, c
    <3> QED BY <2>0, <3>1 DEF Parts, Alone
  <2> HIDE DEF c, u
  <2>3. /\ t.count = s.count /\ t.timers = s.timers /\ t.registered = s.registered
        /\ t.agents = [s.agents EXCEPT ![c.id] = c]
    BY <2>0, <2>1, <2>2 DEF Parts, Alone
  <2>4. t \in Parts
    <3>2. t.agents \in [Id -> Buff \cup {None}] BY <1>1, <2>1, <2>3 DEF Parts
    <3> QED BY <2>0, <2>2, <2>3, <3>2 DEF Parts
  <2>5. Over(c, s) BY <2>1 DEF Over
  <2>6. Mail(f, s, t, out, out) BY <2>3 DEF Mail
  <2> QED BY <2>3, <2>4, <2>5, <2>6, Rewritten
<1> QED BY <1>2, <1>3

(* The agent of a new buff, whose message is yet to come.                  *)
LEMMA StartedIs ==
    ASSUME NEW f \in Field, NEW s, NEW out, Sound(f, s, out), now \in Nat,
           NEW b, IsBuff(b), b.id = s.count[f], s.agents[b.id] = None,
           s.registered[f][KeyOf(b)] = None,
           NEW t, t = Started(s, f, b)
    PROVE  /\ Sound(f, t, out \cup {b.id}) /\ t.count = s.count
           /\ Keep(b.id - 1, s, t) /\ Spare(Cancels[b.effect], s, t)
           /\ t.agents[b.id] = b
<1> DEFINE u == Cancelled(s, f, b)
           k == KeyOf(b)
           regs == [u.registered[f] EXCEPT ![k] = b.id]
<1>1. b \in Buff /\ b.id \in Id /\ b # None /\ k \in Key BY BuffTypes DEF IsBuff
<1>2. /\ Sound(f, u, out) /\ u.count = s.count
      /\ \A n : Keep(n, s, u)
      /\ Spare(Cancels[b.effect], s, u)
  BY <1>1, CancelledIs
<1>3. u \in Parts /\ Agree(f, u) /\ Pending(f, u, out) BY <1>2 DEF Sound
<1>4. /\ u.agents \in [Id -> Buff \cup {None}]
      /\ u.registered[f] \in [Key -> Id \cup {None}]
  BY <1>3 DEF Parts
<1>5. u.agents[b.id] = None
  <2>1. b.id <= b.id BY <1>1 DEF Id
  <2> QED BY <1>1, <1>2, <2>1 DEF Keep
<1>6. u.registered[f][k] = None
  <2> SUFFICES ASSUME u.registered[f][k] # None PROVE FALSE OBVIOUS
  <2> DEFINE j == u.registered[f][k]
  <2>1. j \in Id /\ u.agents[j] # None /\ KeyOf(u.agents[j]) = k
    BY <1>1, <1>3, <1>4 DEF Agree
  <2>2. j <= j BY <2>1 DEF Id
  <2>3. s.agents[j] # None /\ KeyOf(s.agents[j]) = k
    BY <1>2, <2>1, <2>2 DEF Keep
  <2>4. s.registered[f][k] = j BY <2>1, <2>3 DEF Sound, Agree
  <2>5. j # None BY <2>1, EffectsAssumption DEF Id
  <2> QED BY <2>4, <2>5
<1> HIDE DEF u
<1>7. t = [u EXCEPT !.agents = [u.agents EXCEPT ![b.id] = b],
                    !.registered = [u.registered EXCEPT ![f] = regs]]
  BY <1>1, <1>3, <1>4, <1>5 DEF Started, Parts, u
<1> HIDE DEF k
<1>8. /\ t.count = u.count /\ t.timers = u.timers /\ t.bonus = u.bonus
      /\ t.agents = [u.agents EXCEPT ![b.id] = b]
      /\ t.registered = [u.registered EXCEPT ![f] = regs]
  BY <1>3, <1>7 DEF Parts
<1>9. regs \in [Key -> Id \cup {None}] BY <1>1, <1>4
<1>10. t \in Parts
  <2>1. t.agents \in [Id -> Buff \cup {None}] BY <1>1, <1>4, <1>8
  <2>2. t.registered \in [Field -> [Key -> Id \cup {None}]]
    BY <1>3, <1>8, <1>9 DEF Parts
  <2> QED BY <1>3, <1>7, <1>8, <2>1, <2>2 DEF Parts
<1>11. /\ t.agents[b.id] = b /\ \A i \in Id : i # b.id => t.agents[i] = u.agents[i]
  BY <1>1, <1>4, <1>8
<1>12. /\ t.registered[f][k] = b.id
       /\ \A j \in Key : j # k => t.registered[f][j] = u.registered[f][j]
  <2>1. t.registered[f] = regs BY <1>3, <1>8 DEF Parts
  <2> QED BY <1>1, <1>4, <2>1
<1> HIDE DEF regs
<1>13. Agree(f, t)
  <2>1. ASSUME NEW i \in Id, t.agents[i] # None
        PROVE  /\ IsBuff(t.agents[i]) /\ t.agents[i].id = i /\ i <= t.count[f]
               /\ t.registered[f][KeyOf(t.agents[i])] = i
    <3>1. CASE i = b.id
      <4>1. i <= t.count[f] BY <1>2, <1>8, <3>1 DEF Id
      <4> QED BY <1>11, <1>12, <3>1, <4>1 DEF k
    <3>2. CASE i # b.id
      <4>1. t.agents[i] = u.agents[i] BY <1>11, <3>2
      <4>2. /\ IsBuff(u.agents[i]) /\ u.agents[i].id = i /\ i <= u.count[f]
            /\ u.registered[f][KeyOf(u.agents[i])] = i
        BY <1>3, <2>1, <4>1 DEF Agree
      <4>3. i # None BY EffectsAssumption DEF Id
      <4>4. KeyOf(u.agents[i]) # k BY <1>6, <4>2, <4>3
      <4>5. KeyOf(u.agents[i]) \in Key BY <4>2, BuffTypes DEF IsBuff
      <4> QED BY <1>8, <1>12, <4>1, <4>2, <4>4, <4>5
    <3> QED BY <3>1, <3>2
  <2>2. ASSUME NEW j \in Key, t.registered[f][j] # None
        PROVE  /\ t.agents[t.registered[f][j]] # None
               /\ KeyOf(t.agents[t.registered[f][j]]) = j
    <3>1. CASE j = k BY <1>1, <1>11, <1>12, <3>1 DEF k
    <3>2. CASE j # k
      <4>1. t.registered[f][j] = u.registered[f][j] BY <1>12, <3>2
      <4>2. /\ u.registered[f][j] \in Id
            /\ u.agents[u.registered[f][j]] # None
            /\ KeyOf(u.agents[u.registered[f][j]]) = j
        BY <1>3, <1>4, <2>2, <4>1 DEF Agree
      <4>3. u.registered[f][j] # b.id BY <1>5, <4>2
      <4> QED BY <1>11, <4>1, <4>2, <4>3
    <3> QED BY <3>1, <3>2
  <2> QED BY <2>1, <2>2 DEF Agree
<1>14. Pending(f, t, out \cup {b.id})
  <2> SUFFICES ASSUME NEW i \in Id, t.agents[i] # None,
                      t.agents[i].effect \notin Unlimited, i # b.id
               PROVE  i \in out \/ Awaited(f, t.timers, i)
    BY DEF Pending
  <2>1. t.agents[i] = u.agents[i] BY <1>11
  <2> QED BY <1>3, <1>8, <2>1 DEF Pending
<1>15. Keep(b.id - 1, s, t)
  <2>1. \A i \in Id : i <= b.id - 1 => i # b.id BY <1>1 DEF Id
  <2>2. \A i \in Id : i <= b.id - 1 => t.agents[i] = u.agents[i] BY <1>11, <2>1
  <2>3. Keep(b.id - 1, s, u) BY <1>2
  <2> QED BY <2>2, <2>3 DEF Keep
<1>16. Spare(Cancels[b.effect], s, t)
  BY <1>1, <1>2, <1>11 DEF Spare
<1> QED BY <1>2, <1>8, <1>10, <1>11, <1>13, <1>14, <1>15, <1>16 DEF Sound

(* A buff as it comes.                                                     *)
LEMMA NewBuffIs ==
    ASSUME NEW id \in Id, NEW p \in Player, NEW e \in Effect,
           NEW start \in Int, NEW end \in Int
    PROVE  /\ IsBuff(NewBuff(id, p, e, start, end))
           /\ NewBuff(id, p, e, start, end).id = id
           /\ NewBuff(id, p, e, start, end).effect = e
           /\ KeyOf(NewBuff(id, p, e, start, end)) = <<p, e>>
<1>1. Delay[e] + IntervalTick(e) \in Nat BY EffectsAssumption DEF IntervalTick
<1>2. AtMost(1, MaxCount[e]) \in Nat /\ AtMost(1, MaxCount[e]) <= MaxCount[e]
  BY EffectsAssumption DEF AtMost
<1> HIDE DEF AtMost
<1>3. (e \in Ticking) \in BOOLEAN OBVIOUS
<1> QED BY <1>1, <1>2, <1>3 DEF NewBuff, Buff, IsBuff, KeyOf

(* A buff re-applied keeps its owner, its effect and the cap on its stacks. *)
LEMMA ExtendedIs ==
    ASSUME NEW old, IsBuff(old), NEW overlap \in Int, now \in Nat
    PROVE  /\ IsBuff(Extended(old, overlap))
           /\ Extended(old, overlap).id = old.id
           /\ KeyOf(Extended(old, overlap)) = KeyOf(old)
<1> DEFINE n == AtMost(AtLeast(old.stacks + overlap, 0), MaxCount[old.effect])
           end == IF old.effect \in KeepsEnd THEN old.end
                  ELSE AtLeast(now + Duration[old.effect], old.end)
<1>1. old \in Buff /\ old.effect \in Effect /\ old.stacks \in Nat /\ old.end \in Int
  BY BuffTypes DEF IsBuff
<1>2. MaxCount[old.effect] \in Nat /\ Duration[old.effect] \in Nat
  BY <1>1, EffectsAssumption
<1>3. n \in Nat /\ n <= MaxCount[old.effect] BY <1>1, <1>2 DEF AtMost, AtLeast
<1>4. end \in Int BY <1>1, <1>2 DEF AtLeast
<1>5. Extended(old, overlap) = [old EXCEPT !.stacks = n, !.end = end]
  BY <1>1 DEF Extended, Buff
<1> HIDE DEF n, end
<1> QED BY <1>1, <1>3, <1>4, <1>5 DEF IsBuff, Buff, KeyOf

(* stack_buff/3: the old message of the buff is taken back for a new one.  *)
LEMMA RefreshedIs ==
    ASSUME NEW f \in Field, NEW s, NEW out, Sound(f, s, out), now \in Nat,
           NEW id \in Id, s.agents[id] # None, NEW overlap \in Int,
           NEW t, t = Refreshed(s, f, id, overlap)
    PROVE  Sound(f, t, out) /\ Same(s, t)
<1> DEFINE old == s.agents[id]
           b == Extended(old, overlap)
           u == WithoutRemoval(s, old)
           msgs == {m \in s.timers :
                       ~(/\ m.type = "remove" /\ m.id = old.id
                         /\ m.at = old.removal /\ m.at > now)}
<1>1. s \in Parts /\ IsBuff(old) /\ old.id = id BY DEF Sound, Agree
<1>2. IsBuff(b) /\ b.id = id /\ KeyOf(b) = KeyOf(old) BY <1>1, ExtendedIs
<1>3. CASE b = old BY <1>3 DEF Refreshed, Same
<1>4. CASE b # old
  <2>1. t = Scheduled(u, f, b) BY <1>4 DEF Refreshed
  <2>2. u = [s EXCEPT !.timers = msgs] BY <1>1 DEF WithoutRemoval, Parts
  <2> HIDE DEF b, u
  <2>3. /\ u.count = s.count /\ u.registered = s.registered /\ u.agents = s.agents
        /\ u.bonus = s.bonus /\ u.timers = msgs
    BY <1>1, <2>2 DEF Parts
  <2>4. u \in Parts BY <1>1, <2>2, <2>3 DEF Parts
  <2>5. \A m \in s.timers : m.id # id => m \in u.timers BY <1>1, <2>3
  <2> DEFINE less == out \cup {id}
  <2>6. Mail(f, s, u, out, less) BY <2>5 DEF Mail, Awaited
  <2>7. out \subseteq less /\ less \subseteq out \cup {b.id} BY <1>2
  <2> HIDE DEF less
  <2>8. Sound(f, u, less) /\ Same(s, u) BY <2>3, <2>4, <2>6, Mailed
  <2>9. Over(b, u) BY <1>1, <1>2, <2>3 DEF Over
  <2>10. Sound(f, t, out) /\ Same(u, t) BY <2>1, <2>7, <2>8, <2>9, ScheduledIs
  <2> QED BY <2>8, <2>10, SameAgain
<1> QED BY <1>3, <1>4

(* fire_skills/2: one more id at most; nothing goes but what the fired     *)
(* effect cancels.                                                         *)
LEMMA FiredIs ==
    ASSUME NEW f \in Field, NEW s, NEW out, Sound(f, s, out), now \in Nat,
           s.count[f] + 1 <= MaxIds, NEW b, b.player \in Player, b.effect \in Effect,
           NEW amounts \in Amounts,
           NEW t, t = Fired(s, f, b, amounts)
    PROVE  /\ Sound(f, t, out)
           /\ t.count[f] \in Nat /\ s.count[f] \in Nat /\ t.count[f] <= s.count[f] + 1
           /\ s.count[f] <= t.count[f]
           /\ Keep(s.count[f], s, t)
           /\ Fires[b.effect] # None => Spare(Cancels[Fires[b.effect]], s, t)
           /\ Fires[b.effect] = None => t = s
<1>0. s.count[f] \in Nat /\ s \in Parts BY DEF Sound, Parts
<1>1. CASE Fires[b.effect] = None
  <2>1. t = s BY <1>1 DEF Fired
  <2> QED BY <1>0, <1>1, <2>1 DEF Keep
<1>2. CASE Fires[b.effect] # None
  <2> DEFINE e == Fires[b.effect]
             c == FreshBuff(NextId(s, f), b.player, e)
             u == Allocated(s, f)
             id == u.registered[f][KeyOf(c)]
             amount == amounts[c.effect]
             v == Started(u, f, c)
             w == Given(v, c, amount)
             d == [c EXCEPT !.amount = amount]
  <2>1. e \in Effect BY <1>2, EffectsAssumption
  <2>2. /\ Sound(f, u, out) /\ u.count[f] = s.count[f] + 1
        /\ u.agents = s.agents /\ u.registered = s.registered
        /\ u.count[f] \in Id /\ u.agents[u.count[f]] = None
    BY AllocatedIs
  <2>3. NextId(s, f) = u.count[f] BY <2>2 DEF NextId
  <2>4. now \in Int /\ now + Duration[e] \in Int BY <2>1, EffectsAssumption
  <2>5. IsBuff(c) /\ c.id = u.count[f] /\ c.effect = e /\ KeyOf(c) = <<b.player, e>>
    BY <2>1, <2>2, <2>3, <2>4, NewBuffIs DEF FreshBuff
  <2>6. amount \in Int BY <2>1, <2>5, EffectsAssumption
  <2>7. c \in Buff /\ KeyOf(c) \in Key BY <2>5, BuffTypes DEF IsBuff
  <2>8. t = IF id # None THEN Refreshed(u, f, id, 0) ELSE Planned(w, f, d)
    BY <1>2 DEF Fired
  <2>9. \A n, x : Keep(n, u, x) => Keep(n, s, x) BY <2>2 DEF Keep
  <2>10. \A x : Spare(Cancels[e], u, x) => Spare(Cancels[e], s, x) BY <2>2 DEF Spare
  <2>11. d \in Buff /\ IsBuff(d) /\ d.id = c.id /\ KeyOf(d) = KeyOf(c)
    BY <2>6, <2>7, <2>5 DEF IsBuff, Buff, KeyOf
  <2> HIDE DEF c, u, amount
  <2>12. CASE id # None
    <3>1. id \in Id /\ u.agents[id] # None
      BY <2>2, <2>7, <2>12 DEF Sound, Parts, Agree
    <3> HIDE DEF id
    <3>2. t = Refreshed(u, f, id, 0) /\ 0 \in Int BY <2>8, <2>12
    <3>3. Sound(f, t, out) /\ Same(u, t) BY <2>2, <3>1, <3>2, RefreshedIs
    <3>4. Keep(s.count[f], s, t) /\ Spare(Cancels[e], s, t)
      BY <2>9, <2>10, <3>3, SameKeeps
    <3>5. t.count[f] = s.count[f] + 1 BY <2>2, <3>3 DEF Same
    <3> QED BY <1>0, <1>2, <3>3, <3>4, <3>5
  <2>13. CASE id = None
    <3>1. t = Planned(w, f, d) BY <2>8, <2>13
    <3> DEFINE more == out \cup {c.id}
    <3>2. /\ Sound(f, v, more) /\ v.count = u.count
          /\ Keep(c.id - 1, u, v) /\ Spare(Cancels[c.effect], u, v)
          /\ v.agents[c.id] = c
      <4> HIDE DEF v
      <4>1. v = Started(u, f, c) BY DEF v
      <4> QED BY <2>2, <2>5, <2>13, <4>1, StartedIs
    <3>3. more \subseteq out \cup {d.id} BY <2>11
    <3> HIDE DEF more
    <3>4. Over(c, v) BY <2>5, <2>7, <3>2, BuffTypes DEF Over
    <3> HIDE DEF v
    <3>5. Sound(f, w, more) /\ Same(v, w) BY <2>6, <3>2, <3>4, GivenIs
    <3>6. Over(d, w) BY <2>11, <3>4, <3>5, BuffTypes DEF Over, Same
    <3> HIDE DEF w, d
    <3>7. Sound(f, t, out) /\ Same(w, t) BY <3>1, <3>3, <3>5, <3>6, PlannedIs
    <3>8. Same(v, t) BY <3>5, <3>7, SameAgain
    <3>9. c.id - 1 = s.count[f] BY <1>0, <2>2, <2>5
    <3>10. Keep(s.count[f], u, t)
      BY <3>2, <3>8, <3>9 DEF Keep, Same
    <3>11. Spare(Cancels[e], u, t) BY <2>5, <3>2, <3>8 DEF Spare, Same
    <3>12. t.count[f] = s.count[f] + 1 BY <2>2, <3>2, <3>8 DEF Same
    <3> QED BY <1>0, <1>2, <2>9, <2>10, <3>7, <3>10, <3>11, <3>12
  <2> QED BY <2>12, <2>13
<1> QED BY <1>1, <1>2

(* modify_overlap/2: the target's stacks, which may end it or fire its     *)
(* skills; buff b, another of the same owner, stays.                       *)
LEMMA OverlappedIs ==
    ASSUME NEW f \in Field, NEW s, NEW out, Sound(f, s, out), now \in Nat,
           s.count[f] + 1 <= MaxIds, NEW b, Over(b, s),
           NEW amounts \in Amounts,
           NEW t, t = Overlapped(s, f, b, amounts)
    PROVE  /\ Sound(f, t, out)
           /\ t.count[f] \in Nat /\ s.count[f] \in Nat
           /\ t.count[f] <= s.count[f] + 1 /\ s.count[f] <= t.count[f]
           /\ Keep(s.count[f], s, t) /\ Over(b, t)
<1> DEFINE id == s.registered[f][<<b.player, Overlaps[b.effect]>>]
           target == s.agents[id]
           stacks == AtMost(AtLeast(target.stacks + Offset[b.effect], 0),
                            MaxCount[target.effect])
           u == [s EXCEPT !.agents[id].stacks = stacks]
<1>0. s.count[f] \in Nat /\ s \in Parts /\ Agree(f, s) BY DEF Sound, Parts
<1>1. /\ b \in Buff /\ b.id \in Id /\ b.effect \in Effect /\ b.player \in Player
      /\ IsBuff(b) /\ s.agents[b.id] # None /\ KeyOf(b) = KeyOf(s.agents[b.id])
      /\ b.id <= s.count[f]
  BY <1>0, BuffTypes DEF Over, IsBuff, Agree
<1>2. SUFFICES /\ Sound(f, t, out) /\ t.count[f] \in Nat
               /\ t.count[f] <= s.count[f] + 1 /\ s.count[f] <= t.count[f]
               /\ Keep(s.count[f], s, t) /\ t.agents[b.id] # None
  BY <1>0, <1>1 DEF Over, Keep
<1>3. CASE Overlaps[b.effect] = None \/ id = None \/ target = None
  <2>1. t = s BY <1>3 DEF Overlapped
  <2> QED BY <1>0, <1>1, <2>1 DEF Keep
<1>4. CASE ~(Overlaps[b.effect] = None \/ id = None \/ target = None)
  <2> DEFINE e == Overlaps[b.effect]
             c == [target EXCEPT !.stacks = stacks]
  <2>1. e \in Effect /\ e # None /\ e # b.effect
    BY <1>1, <1>4, EffectsAssumption, ChainAssumption
  <2>2. <<b.player, e>> \in Key BY <1>1, <2>1 DEF Key
  <2>3. id \in Id /\ KeyOf(target) = <<b.player, e>> /\ target.id = id /\ IsBuff(target)
    BY <1>0, <1>4, <2>2 DEF Parts, Agree
  <2>4. /\ target \in Buff /\ target.effect = e /\ target.player = b.player
        /\ target.stacks \in Nat
    BY <2>3, BuffTypes DEF IsBuff, KeyOf
  <2>5. id # b.id BY <1>1, <2>1, <2>3, <2>4 DEF KeyOf
  <2>6. MaxCount[target.effect] \in Nat /\ Offset[b.effect] \in Int
    BY <1>1, <2>1, <2>4, EffectsAssumption
  <2>7. stacks \in Nat /\ stacks <= MaxCount[target.effect]
    <3>1. \A k, cap \in Nat, o \in Int :
             /\ AtMost(AtLeast(k + o, 0), cap) \in Nat
             /\ AtMost(AtLeast(k + o, 0), cap) <= cap
      BY DEF AtMost, AtLeast
    <3> HIDE DEF target
    <3> QED BY <2>4, <2>6, <3>1
  <2> HIDE DEF stacks
  <2>8. c \in Buff /\ c.id = id /\ KeyOf(c) = KeyOf(target) /\ IsBuff(c)
    BY <2>3, <2>4, <2>7 DEF IsBuff, Buff, KeyOf
  <2>9. u = [s EXCEPT !.agents = [s.agents EXCEPT ![id] = c]]
    BY <1>0, <2>3, <2>4 DEF Parts
  <2>10. t = IF stacks <= 0 THEN Dropped(u, f, id, FALSE)
             ELSE IF Capped(s, u, id) THEN Fired(u, f, target, amounts)
             ELSE u
    BY <1>4 DEF Overlapped, stacks
  <2>11. Over(c, s) BY <1>4, <2>3, <2>8 DEF Over
  <2> HIDE DEF c, u, id
  <2>12. /\ u.count = s.count /\ u.registered = s.registered /\ u.timers = s.timers
         /\ u.agents = [s.agents EXCEPT ![c.id] = c] /\ u.bonus = s.bonus
    BY <1>0, <2>8, <2>9 DEF Parts
  <2>13. u \in Parts
    <3>1. u.agents \in [Id -> Buff \cup {None}] BY <1>0, <2>8, <2>12 DEF Parts
    <3> QED BY <1>0, <2>9, <2>12, <3>1 DEF Parts
  <2>14. Mail(f, s, u, out, out) BY <2>12 DEF Mail
  <2>15. Sound(f, u, out) /\ Same(s, u) BY <2>11, <2>12, <2>13, <2>14, Rewritten
  <2>16. u.agents[b.id] # None BY <1>1, <2>15 DEF Same
  <2>17. CASE stacks <= 0
    <3> DEFINE force == FALSE
    <3>1. t = Dropped(u, f, id, force) BY <2>10, <2>17
    <3> HIDE DEF force
    <3>2. out \subseteq out \cup {id} OBVIOUS
    <3>3. /\ Sound(f, t, out) /\ t.count = u.count /\ \A n : Keep(n, u, t)
          /\ \A i \in Id : i # id /\ u.agents[i] # None => t.agents[i] # None
      BY <2>3, <2>15, <3>1, <3>2, DroppedIs
    <3>4. Keep(s.count[f], s, t) BY <2>15, <3>3 DEF Keep, Same
    <3>5. t.agents[b.id] # None BY <1>1, <2>5, <2>16, <3>3
    <3> QED BY <1>0, <2>12, <3>3, <3>4, <3>5
  <2>18. CASE ~(stacks <= 0) /\ Capped(s, u, id)
    <3>1. t = Fired(u, f, target, amounts) BY <2>10, <2>18
    <3>2. u.count[f] + 1 <= MaxIds BY <2>12
    <3>3. target.player \in Player /\ target.effect \in Effect
      BY <1>1, <2>1, <2>4
    <3> HIDE DEF target
    <3>4. /\ Sound(f, t, out) /\ t.count[f] \in Nat
          /\ t.count[f] <= u.count[f] + 1 /\ u.count[f] <= t.count[f]
          /\ Keep(u.count[f], u, t)
          /\ Fires[e] # None => Spare(Cancels[Fires[e]], u, t)
          /\ Fires[e] = None => t = u
      BY <2>4, <2>15, <3>1, <3>2, <3>3, FiredIs
    <3>5. Keep(s.count[f], s, t) BY <2>12, <2>15, <3>4 DEF Keep, Same
    <3>6. t.agents[b.id] # None
      <4>1. u.agents[b.id].effect = b.effect BY <1>1, <2>15 DEF Same, KeyOf
      <4>2. Fires[e] # None => Cancels[Fires[e]] # b.effect
        BY <1>1, <2>1, ChainAssumption
      <4> QED BY <1>1, <2>16, <3>4, <4>1, <4>2 DEF Spare
    <3> QED BY <1>0, <2>12, <3>4, <3>5, <3>6
  <2>19. CASE ~(stacks <= 0) /\ ~Capped(s, u, id)
    <3>1. t = u BY <2>10, <2>19
    <3>2. Keep(s.count[f], s, u) BY <2>15, SameKeeps
    <3>3. s.count[f] <= s.count[f] + 1 /\ s.count[f] <= s.count[f] BY <1>0
    <3> QED BY <1>0, <2>12, <2>15, <2>16, <3>1, <3>2, <3>3
  <2> QED BY <2>17, <2>18, <2>19
<1> QED BY <1>3, <1>4

(* What applying a buff does to a sound state: agents, registrations and   *)
(* messages still agree, at most one more id is used, and no older agent   *)
(* becomes another buff.                                                   *)
Applies(f, s, out, t) ==
    /\ Sound(f, t, out)
    /\ t.count[f] \in Nat /\ s.count[f] \in Nat
    /\ t.count[f] <= s.count[f] + 1 /\ s.count[f] <= t.count[f]
    /\ Keep(s.count[f] - 1, s, t)

(* create_buff/3.                                                          *)
LEMMA CreatedIs ==
    ASSUME NEW f \in Field, NEW s, NEW out, Sound(f, s, out), now \in Nat,
           s.count[f] + 1 <= MaxIds,
           NEW b, IsBuff(b), b.id = s.count[f], s.agents[b.id] = None,
           s.registered[f][KeyOf(b)] = None,
           NEW status, NEW amounts \in Amounts,
           NEW t, t = Created(s, f, b, status, amounts)
    PROVE  Applies(f, s, out, t) /\ KeyOf(t.agents[b.id]) = KeyOf(b)
<1> DEFINE amount == IF status THEN amounts[b.effect] ELSE 0
           u == Started(s, f, b)
           v == Given(u, b, amount)
           c == [b EXCEPT !.amount = amount]
           w == Overlapped(v, f, c, amounts)
           more == out \cup {b.id}
<1>1. b \in Buff /\ b.effect \in Effect BY BuffTypes DEF IsBuff
<1>2. amount \in Int BY <1>1, EffectsAssumption
<1>3. t = Planned(w, f, c) BY DEF Created
<1>4. c \in Buff /\ IsBuff(c) /\ c.id = b.id /\ KeyOf(c) = KeyOf(b)
  BY <1>1, <1>2 DEF IsBuff, Buff, KeyOf
<1>5. /\ Sound(f, u, more) /\ u.count = s.count
      /\ Keep(b.id - 1, s, u) /\ u.agents[b.id] = b
  <2> HIDE DEF u
  <2>1. u = Started(s, f, b) BY DEF u
  <2> QED BY <2>1, StartedIs
<1>6. more \subseteq out \cup {c.id} BY <1>4
<1> HIDE DEF more, u, c, amount
<1>7. Over(b, u) BY <1>1, <1>5, BuffTypes DEF Over
<1>8. Sound(f, v, more) /\ Same(u, v) BY <1>2, <1>5, <1>7, GivenIs
<1>9. Over(c, v) BY <1>1, <1>4, <1>7, <1>8, BuffTypes DEF Over, Same
<1> HIDE DEF v
<1>10. v.count[f] + 1 <= MaxIds BY <1>5, <1>8 DEF Same
<1>11. /\ Sound(f, w, more) /\ w.count[f] \in Nat /\ v.count[f] \in Nat
       /\ w.count[f] <= v.count[f] + 1 /\ v.count[f] <= w.count[f]
       /\ Keep(v.count[f], v, w) /\ Over(c, w)
  BY <1>8, <1>9, <1>10, OverlappedIs
<1> HIDE DEF w
<1>12. Sound(f, t, out) /\ Same(w, t) BY <1>3, <1>6, <1>11, PlannedIs
<1>13. v.count[f] = s.count[f] /\ t.count[f] = w.count[f] BY <1>5, <1>8, <1>12 DEF Same
<1>14. Keep(b.id - 1, s, v) BY <1>5, <1>8 DEF Keep, Same
<1>15. Keep(v.count[f], v, t) BY <1>11, <1>12 DEF Keep, Same
<1>16. Keep(s.count[f] - 1, s, t)
  <2>1. b.id - 1 <= v.count[f] /\ b.id - 1 \in Int /\ v.count[f] \in Int
    BY <1>11, <1>13
  <2>2. Keep(b.id - 1, s, t) BY <1>14, <1>15, <2>1, KeepAgain
  <2> QED BY <2>2
<1>17. KeyOf(t.agents[b.id]) = KeyOf(b) BY <1>1, <1>4, <1>11, <1>12, BuffTypes DEF Over, Same
<1> QED BY <1>11, <1>12, <1>13, <1>16, <1>17 DEF Applies

(* stack_buff/3, with the skills the last stack fires.                     *)
LEMMA StackedIs ==
    ASSUME NEW f \in Field, NEW s, NEW out, Sound(f, s, out), now \in Nat,
           s.count[f] + 1 <= MaxIds,
           NEW id \in Id, s.agents[id] # None, NEW overlap \in Int,
           NEW amounts \in Amounts,
           NEW t, t = Stacked(s, f, id, overlap, amounts)
    PROVE  Applies(f, s, out, t)
<1> DEFINE u == Refreshed(s, f, id, overlap)
           b == u.agents[id]
<1>1. Sound(f, u, out) /\ Same(s, u) BY RefreshedIs
<1> HIDE DEF u
<1>2. u.agents[id] # None BY <1>1 DEF Same
<1>3. b.player \in Player /\ b.effect \in Effect
  BY <1>1, <1>2, BuffTypes DEF Sound, Agree, IsBuff
<1>4. u.count = s.count /\ s.count[f] \in Nat BY <1>1 DEF Same, Sound, Parts
<1>5. t = IF Capped(s, u, id) THEN Fired(u, f, b, amounts) ELSE u
  BY DEF Stacked, u
<1> HIDE DEF b
<1>6. CASE Capped(s, u, id)
  <2>1. t = Fired(u, f, b, amounts) /\ u.count[f] + 1 <= MaxIds BY <1>4, <1>5, <1>6
  <2>2. /\ Sound(f, t, out) /\ t.count[f] \in Nat
        /\ t.count[f] <= u.count[f] + 1 /\ u.count[f] <= t.count[f]
        /\ Keep(u.count[f], u, t)
    BY <1>1, <1>3, <2>1, FiredIs
  <2>3. Keep(s.count[f] - 1, s, u) BY <1>1, SameKeeps
  <2>4. Keep(s.count[f] - 1, s, t)
    <3>1. /\ s.count[f] - 1 <= u.count[f] /\ s.count[f] - 1 \in Int
          /\ u.count[f] \in Int
      BY <1>4
    <3> QED BY <2>2, <2>3, <3>1, KeepAgain
  <2> QED BY <1>4, <2>2, <2>4 DEF Applies
<1>7. CASE ~Capped(s, u, id)
  <2>1. t = u BY <1>5, <1>7
  <2> QED BY <1>1, <1>4, <2>1, SameKeeps DEF Applies
<1> QED BY <1>6, <1>7

(* apply_buff/3.                                                           *)
LEMMA AppliedIs ==
    ASSUME NEW f \in Field, NEW s, NEW out, Sound(f, s, out), now \in Nat,
           s.count[f] + 1 <= MaxIds,
           NEW b, IsBuff(b), b.id = s.count[f], s.agents[b.id] = None,
           NEW status, NEW overlap \in Int, NEW amounts \in Amounts,
           NEW t, t = Applied(s, f, b, status, overlap, amounts)
    PROVE  /\ Applies(f, s, out, t)
           /\ s.registered[f][KeyOf(b)] = None => KeyOf(t.agents[b.id]) = KeyOf(b)
<1> DEFINE id == s.registered[f][KeyOf(b)]
<1>1. CASE id = None
  <2>1. t = Created(s, f, b, status, amounts) BY <1>1 DEF Applied
  <2> QED BY <1>1, <2>1, CreatedIs
<1>2. CASE id # None
  <2>1. t = Stacked(s, f, id, overlap, amounts) BY <1>2 DEF Applied
  <2>2. KeyOf(b) \in Key BY BuffTypes DEF IsBuff
  <2>3. id \in Id /\ s.agents[id] # None BY <1>2, <2>2 DEF Sound, Parts, Agree
  <2> HIDE DEF id
  <2>4. Applies(f, s, out, t) BY <2>1, <2>3, StackedIs
  <2> QED BY <1>2, <2>4 DEF id
<1> QED BY <1>1, <1>2

(* A buff of the next id is applied, as {:add_buff} and a restored row are. *)
LEMMA AddedIs ==
    ASSUME NEW f \in Field, NEW s, NEW out, Sound(f, s, out), now \in Nat,
           s.count[f] + 2 <= MaxIds,
           NEW p \in Player, NEW e \in Effect, NEW start \in Int, NEW end \in Int,
           NEW status, NEW overlap \in Int, NEW amounts \in Amounts,
           NEW b, b = NewBuff(NextId(s, f), p, e, start, end),
           NEW t, t = Applied(Allocated(s, f), f, b, status, overlap, amounts)
    PROVE  /\ Sound(f, t, out)
           /\ s.count[f] \in Nat /\ t.count[f] \in Nat
           /\ b.id = s.count[f] + 1 /\ b.id <= t.count[f]
           /\ t.count[f] <= s.count[f] + 2
           /\ Keep(s.count[f], s, t) /\ IsBuff(b) /\ KeyOf(b) = <<p, e>>
           /\ s.registered[f][<<p, e>>] = None => KeyOf(t.agents[b.id]) = KeyOf(b)
<1> DEFINE u == Allocated(s, f)
<1>1. MaxIds \in Nat BY EffectsAssumption
<1>2. s.count[f] \in Nat BY DEF Sound, Parts
<1>3. /\ Sound(f, u, out) /\ u.count[f] = s.count[f] + 1
      /\ u.agents = s.agents /\ u.registered = s.registered
      /\ u.count[f] \in Id /\ u.agents[u.count[f]] = None
  BY <1>1, <1>2, AllocatedIs
<1>4. NextId(s, f) = u.count[f] BY <1>3 DEF NextId
<1> HIDE DEF u
<1>5. IsBuff(b) /\ b.id = u.count[f] /\ KeyOf(b) = <<p, e>>
  BY <1>3, <1>4, NewBuffIs
<1>6. u.count[f] + 1 <= MaxIds /\ u.agents[b.id] = None BY <1>1, <1>2, <1>3, <1>5
<1>7. t = Applied(u, f, b, status, overlap, amounts) BY DEF u
<1>8. /\ Applies(f, u, out, t)
      /\ u.registered[f][KeyOf(b)] = None => KeyOf(t.agents[b.id]) = KeyOf(b)
  BY <1>3, <1>5, <1>6, <1>7, AppliedIs
<1>9. u.count[f] - 1 = s.count[f] BY <1>2, <1>3
<1>10. /\ Sound(f, t, out) /\ t.count[f] \in Nat
       /\ t.count[f] <= u.count[f] + 1 /\ u.count[f] <= t.count[f]
       /\ Keep(s.count[f], u, t)
  BY <1>8, <1>9 DEF Applies
<1>11. Keep(s.count[f], s, t) BY <1>3, <1>10 DEF Keep
<1> QED BY <1>2, <1>3, <1>5, <1>8, <1>10, <1>11

-------------------------------------------------------------------------------
(* Many at once *)

\* g is what dropping each of some subset of ids comes to.
Drops(f, ids, force, g) ==
    /\ g[{}] = Now
    /\ \A s \in SUBSET ids : s # {} =>
          \E x \in s : g[s] = Dropped(g[s \ {x}], f, x, force)

(* A fold, by the subsets of its set.                                      *)
LEMMA DropAllIs ==
    ASSUME NEW f, NEW ids, IsFiniteSet(ids), NEW force
    PROVE  \E g : DropAll(f, ids, force) = g[ids] /\ Drops(f, ids, force, g)
<1> DEFINE c(s) == CHOOSE x \in s : TRUE
           op(x, s) == Dropped(s, f, x, force)
           few(n) == {s \in SUBSET ids : Cardinality(s) <= n}
           Eq(g, D) == g = [s \in D |-> IF s = {} THEN Now
                                        ELSE op(c(s), g[s \ {c(s)}])]
           T == {n \in Nat : \E g : Eq(g, few(n))}
           iter == CHOOSE g : Eq(g, SUBSET ids)
<1>1. \A s \in SUBSET ids : s # {} => c(s) \in s OBVIOUS
<1>2. \A s \in SUBSET ids : IsFiniteSet(s) /\ Cardinality(s) \in Nat
                             /\ Cardinality(s) <= Cardinality(ids)
  BY FS_Subset, FS_CardinalityType
<1>3. DropAll(f, ids, force) = iter[ids]
  BY DEF DropAll, FoldSet, MapThenFoldSet
<1> HIDE DEF c, op
<1>4. 0 \in T
  <2> DEFINE g == [s \in few(0) |-> Now]
  <2>1. \A s \in few(0) : s = {} BY <1>2, FS_EmptySet
  <2>2. Eq(g, few(0)) BY <2>1
  <2> QED BY <2>2
<1>5. ASSUME NEW n \in Nat, n \in T PROVE n + 1 \in T
  <2>1. PICK g : Eq(g, few(n)) BY <1>5
  <2> DEFINE h == [s \in few(n + 1) |-> IF s = {} THEN Now
                                        ELSE op(c(s), g[s \ {c(s)}])]
  <2>2. ASSUME NEW s \in few(n) PROVE s \in few(n + 1) /\ h[s] = g[s]
    <3>1. s \in few(n + 1) BY <1>2
    <3>2. g[s] = IF s = {} THEN Now ELSE op(c(s), g[s \ {c(s)}]) BY <2>1
    <3> QED BY <3>1, <3>2
  <2>3. ASSUME NEW s \in few(n + 1), s # {} PROVE s \ {c(s)} \in few(n)
    <3>1. c(s) \in s BY <1>1, <2>3
    <3>2. Cardinality(s \ {c(s)}) = Cardinality(s) - 1
      BY <1>2, <3>1, FS_RemoveElement
    <3> QED BY <1>2, <3>2
  <2>4. Eq(h, few(n + 1)) BY <2>2, <2>3
  <2>5. \E k : Eq(k, few(n + 1)) BY <2>4
  <2> HIDE DEF Eq, few
  <2> QED BY <2>5
<1>6. \E g : Eq(g, SUBSET ids)
  <2>1. Nat \subseteq T BY <1>4, <1>5, NatInd
  <2>2. Cardinality(ids) \in T BY <1>2, <2>1
  <2>3. few(Cardinality(ids)) = SUBSET ids BY <1>2
  <2> QED BY <2>2, <2>3
<1>7. Eq(iter, SUBSET ids) BY <1>6
<1> HIDE DEF iter
<1>8. iter[{}] = Now BY <1>7
<1>9. ASSUME NEW s \in SUBSET ids, s # {}
      PROVE  \E x \in s : iter[s] = op(x, iter[s \ {x}])
  <2>1. c(s) \in s /\ iter[s] = op(c(s), iter[s \ {c(s)}]) BY <1>1, <1>7, <1>9
  <2> QED BY <2>1
<1>10. Drops(f, ids, force, iter) BY <1>8, <1>9 DEF op, Drops
<1> QED BY <1>3, <1>10

(* remove_owner_buffs/2: buffs go one after the other.                     *)
LEMMA AllDropped ==
    ASSUME NEW f \in Field, Sound(f, Now, {}), now \in Nat,
           NEW ids \in SUBSET Id, NEW force,
           NEW t, t = DropAll(f, ids, force)
    PROVE  Sound(f, t, {}) /\ t.count = count /\ \A n : Keep(n, Now, t)
<1>1. IsFiniteSet(ids)
  <2>1. IsFiniteSet(Id) BY EffectsAssumption, FS_Interval DEF Id
  <2> QED BY <2>1, FS_Subset
<1> DEFINE Kept(u) == Sound(f, u, {}) /\ u.count = count /\ \A n : Keep(n, Now, u)
<1>2. PICK g : t = g[ids] /\ Drops(f, ids, force, g) BY <1>1, DropAllIs
<1> DEFINE T == {s \in SUBSET ids : Kept(g[s])}
<1>3. {} \in T
  <2>1. g[{}] = Now BY <1>2 DEF Drops
  <2>2. Now.count = count BY DEF Now
  <2>3. \A n : Keep(n, Now, Now) BY DEF Keep
  <2> QED BY <2>1, <2>2, <2>3
<1>4. \A s \in SUBSET ids : s # {} => \E x \in s : s \ {x} \in T => s \in T
  <2> SUFFICES ASSUME NEW s \in SUBSET ids, NEW x \in s, Kept(g[s \ {x}]),
                      g[s] = Dropped(g[s \ {x}], f, x, force)
               PROVE  Kept(g[s])
    BY <1>2 DEF Drops
  <2> DEFINE u == g[s \ {x}]
             v == g[s]
  <2>1. v = Dropped(u, f, x, force) OBVIOUS
  <2>2. x \in Id OBVIOUS
  <2>3. {} \subseteq {} \cup {x} OBVIOUS
  <2> HIDE DEF u, v
  <2>4. Sound(f, u, {}) /\ u.count = count /\ \A n : Keep(n, Now, u) BY DEF u
  <2>5. Sound(f, v, {}) /\ v.count = u.count /\ \A n : Keep(n, u, v)
    BY <2>1, <2>2, <2>3, <2>4, DroppedIs
  <2>6. \A n : Keep(n, Now, v) BY <2>4, <2>5 DEF Keep
  <2> QED BY <2>4, <2>5, <2>6 DEF v
<1> HIDE DEF T, Kept
<1>5. ids \in T BY <1>1, <1>3, <1>4, SubsetInd
<1> QED BY <1>2, <1>5 DEF T, Kept

Row == [effect : Effect, end : Int, duration : Int]
Rows(p) == {row \in saved[p] : row.end > now}

\* One row of restore_buffs/2.
Again(s, f, p, amounts, row) ==
    Applied(Allocated(s, f), f,
            NewBuff(NextId(s, f), p, row.effect, row.end - row.duration, row.end),
            TRUE, 0, amounts)

Restores(s, f, p, amounts, g) ==
    /\ g[{}] = s
    /\ \A r \in SUBSET Rows(p) : r # {} =>
          \E row \in r : g[r] = Again(g[r \ {row}], f, p, amounts, row)

LEMMA RestoredIs ==
    ASSUME NEW s, NEW f, NEW p, NEW amounts, IsFiniteSet(Rows(p))
    PROVE  \E g : /\ Restored(s, f, p, amounts) = g[Rows(p)]
                  /\ Restores(s, f, p, amounts, g)
<1> DEFINE c(r) == CHOOSE x \in r : TRUE
           rows == Rows(p)
           op(x, t) == Again(t, f, p, amounts, x)
           few(n) == {r \in SUBSET rows : Cardinality(r) <= n}
           Eq(g, D) == g = [r \in D |-> IF r = {} THEN s
                                        ELSE op(c(r), g[r \ {c(r)}])]
           T == {n \in Nat : \E g : Eq(g, few(n))}
           iter == CHOOSE g : Eq(g, SUBSET rows)
<1>1. \A r \in SUBSET rows : r # {} => c(r) \in r OBVIOUS
<1>2. \A r \in SUBSET rows : IsFiniteSet(r) /\ Cardinality(r) \in Nat
                              /\ Cardinality(r) <= Cardinality(rows)
  BY FS_Subset, FS_CardinalityType
<1>3. Restored(s, f, p, amounts) = iter[rows]
  BY DEF Restored, FoldSet, MapThenFoldSet, Rows, Again
<1>0. IsFiniteSet(rows) OBVIOUS
<1> HIDE DEF c, op, rows
<1>4. 0 \in T
  <2> DEFINE g == [r \in few(0) |-> s]
  <2>1. \A r \in few(0) : r = {} BY <1>2, FS_EmptySet
  <2>2. Eq(g, few(0)) BY <2>1
  <2> QED BY <2>2
<1>5. ASSUME NEW n \in Nat, n \in T PROVE n + 1 \in T
  <2>1. PICK g : Eq(g, few(n)) BY <1>5
  <2> DEFINE h == [r \in few(n + 1) |-> IF r = {} THEN s
                                        ELSE op(c(r), g[r \ {c(r)}])]
  <2>2. ASSUME NEW r \in few(n) PROVE r \in few(n + 1) /\ h[r] = g[r]
    <3>1. r \in few(n + 1) BY <1>2
    <3>2. g[r] = IF r = {} THEN s ELSE op(c(r), g[r \ {c(r)}]) BY <2>1
    <3> QED BY <3>1, <3>2
  <2>3. ASSUME NEW r \in few(n + 1), r # {} PROVE r \ {c(r)} \in few(n)
    <3>1. c(r) \in r BY <1>1, <2>3
    <3>2. Cardinality(r \ {c(r)}) = Cardinality(r) - 1
      BY <1>2, <3>1, FS_RemoveElement
    <3> QED BY <1>2, <3>2
  <2>4. Eq(h, few(n + 1)) BY <2>2, <2>3
  <2>5. \E k : Eq(k, few(n + 1)) BY <2>4
  <2> HIDE DEF Eq, few
  <2> QED BY <2>5
<1>6. \E g : Eq(g, SUBSET rows)
  <2>1. Nat \subseteq T BY <1>4, <1>5, NatInd
  <2>2. Cardinality(rows) \in T BY <1>0, <1>2, <2>1
  <2>3. few(Cardinality(rows)) = SUBSET rows BY <1>2
  <2> QED BY <2>2, <2>3
<1>7. Eq(iter, SUBSET rows) BY <1>6
<1> HIDE DEF iter
<1>8. iter[{}] = s BY <1>7
<1>9. ASSUME NEW r \in SUBSET rows, r # {}
      PROVE  \E x \in r : iter[r] = op(x, iter[r \ {x}])
  <2>1. c(r) \in r /\ iter[r] = op(c(r), iter[r \ {c(r)}]) BY <1>1, <1>7, <1>9
  <2> QED BY <2>1
<1>10. Restores(s, f, p, amounts, iter) BY <1>8, <1>9 DEF op, Restores, rows
<1> QED BY <1>3, <1>10 DEF rows

(* restore_buffs/2: two ids at most for a row.                             *)
LEMMA AllRestored ==
    ASSUME NEW f \in Field, NEW s, Sound(f, s, {}), now \in Nat,
           NEW p \in Player, saved[p] \in SUBSET Row, IsFiniteSet(saved[p]),
           s.count[f] + 2 * Cardinality(saved[p]) <= MaxIds,
           NEW amounts \in Amounts,
           NEW t, t = Restored(s, f, p, amounts)
    PROVE  /\ Sound(f, t, {}) /\ Keep(s.count[f], s, t)
           /\ t.count[f] \in Nat /\ s.count[f] \in Nat /\ s.count[f] <= t.count[f]
<1> DEFINE rows == Rows(p)
<1>1. /\ rows \in SUBSET saved[p] /\ IsFiniteSet(rows)
      /\ Cardinality(rows) <= Cardinality(saved[p])
  BY FS_Subset DEF Rows
<1>2. \A r \in SUBSET rows : IsFiniteSet(r) /\ Cardinality(r) \in Nat
                              /\ Cardinality(r) <= Cardinality(rows)
  BY <1>1, FS_Subset, FS_CardinalityType
<1>3. Cardinality(saved[p]) \in Nat /\ Cardinality(rows) \in Nat
  BY <1>1, FS_CardinalityType
<1>4. s.count[f] \in Nat /\ MaxIds \in Nat BY EffectsAssumption DEF Sound, Parts
<1>5. PICK g : t = g[rows] /\ Restores(s, f, p, amounts, g) BY <1>1, RestoredIs
<1> DEFINE Kept(u, k) ==
             /\ Sound(f, u, {}) /\ Keep(s.count[f], s, u)
             /\ u.count[f] \in Nat /\ s.count[f] <= u.count[f]
             /\ u.count[f] <= s.count[f] + 2 * k
           T == {r \in SUBSET rows : Kept(g[r], Cardinality(r))}
<1>6. {} \in T
  <2>1. g[{}] = s BY <1>5 DEF Restores
  <2>2. Keep(s.count[f], s, s) BY DEF Keep
  <2>3. Cardinality({}) = 0 BY FS_EmptySet
  <2>4. Kept(s, 0) BY <1>4, <2>2
  <2> HIDE DEF Kept
  <2> QED BY <2>1, <2>3, <2>4
<1>7. \A r \in SUBSET rows : r # {} => \E x \in r : r \ {x} \in T => r \in T
  <2> SUFFICES ASSUME NEW r \in SUBSET rows, NEW row \in r,
                      Kept(g[r \ {row}], Cardinality(r \ {row})),
                      g[r] = Again(g[r \ {row}], f, p, amounts, row)
               PROVE  Kept(g[r], Cardinality(r))
    BY <1>5 DEF Restores
  <2> DEFINE u == g[r \ {row}]
             v == g[r]
             k == Cardinality(r)
             e == row.effect
             end == row.end
             start == row.end - row.duration
             b == NewBuff(NextId(u, f), p, e, start, end)
             status == TRUE
             overlap == 0
  <2>1. v = Applied(Allocated(u, f), f, b, status, overlap, amounts) BY DEF Again
  <2>2. e \in Effect /\ end \in Int /\ start \in Int
    BY <1>1 DEF Row
  <2>3. Cardinality(r \ {row}) = k - 1 /\ k \in Nat /\ k <= Cardinality(rows)
    <3>1. IsFiniteSet(r) BY <1>2
    <3> QED BY <1>2, <3>1, FS_RemoveElement
  <2>4. b = NewBuff(NextId(u, f), p, e, start, end) OBVIOUS
  <2> HIDE DEF u, v, b, status, overlap, k, start, e, end
  <2>5. Kept(u, k - 1) BY <2>3 DEF u
  <2>6. u.count[f] + 2 <= MaxIds
    BY <1>1, <1>3, <1>4, <2>3, <2>5
  <2>7. /\ Sound(f, v, {}) /\ v.count[f] \in Nat
        /\ b.id = u.count[f] + 1 /\ b.id <= v.count[f]
        /\ v.count[f] <= u.count[f] + 2
        /\ Keep(u.count[f], u, v)
    <3>1. overlap \in Int BY DEF overlap
    <3>2. Sound(f, u, {}) BY <2>5
    <3> HIDE DEF Kept, T, rows
    <3> DEFINE none == {}
    <3>3. Sound(f, u, none) BY <3>2
    <3>4. SUFFICES
           /\ Sound(f, v, none) /\ u.count[f] \in Nat /\ v.count[f] \in Nat
           /\ b.id = u.count[f] + 1 /\ b.id <= v.count[f]
           /\ v.count[f] <= u.count[f] + 2
           /\ Keep(u.count[f], u, v) /\ IsBuff(b) /\ KeyOf(b) = <<p, e>>
           /\ u.registered[f][<<p, e>>] = None => KeyOf(v.agents[b.id]) = KeyOf(b)
      OBVIOUS
    <3> HIDE DEF none
    <3> QED BY <2>1, <2>2, <2>4, <2>6, <3>1, <3>3, AddedIs
  <2>8. s.count[f] <= v.count[f] /\ v.count[f] <= s.count[f] + 2 * k
    BY <1>4, <2>3, <2>5, <2>7
  <2>9. Keep(s.count[f], s, v)
    <3>1. Keep(s.count[f], s, u) /\ s.count[f] <= u.count[f] /\ u.count[f] \in Nat
      BY <2>5
    <3> QED BY <1>4, <2>7, <3>1, KeepAgain
  <2>10. Kept(v, k) BY <2>7, <2>8, <2>9
  <2> HIDE DEF Kept
  <2> QED BY <2>10 DEF v, k
<1> HIDE DEF T
<1>8. rows \in T BY <1>1, <1>6, <1>7, SubsetInd
<1> QED BY <1>4, <1>5, <1>8 DEF T

-------------------------------------------------------------------------------
(* The invariant *)

\* One field: agents of two fields share names (see README).
OneField == \E f : Field = {f}

\* A buff a character has yet to give: its name is that of no other buff.
Held(f, s, b) ==
    b # None =>
        /\ IsBuff(b) /\ b.id <= s.count[f]
        /\ s.agents[b.id] # None => KeyOf(b) = KeyOf(s.agents[b.id])

IInv ==
    /\ now \in Nat
    /\ \A f \in Field : Sound(f, Now, {})
    /\ at \in [Player -> Field \cup {None}]
    /\ reply \in [Player -> Buff \cup {None}]
    /\ \A p \in Player, f \in Field : Held(f, Now, reply[p])
    /\ saved \in [Player -> SUBSET Row]
    /\ \A p \in Player : IsFiniteSet(saved[p])

(* What IInv says of agents, registrations and messages.                   *)
LEMMA IInvEndsCome == OneField /\ IInv => EndsCome
<1> SUFFICES ASSUME NEW f, Field = {f}, IInv PROVE EndsCome BY DEF OneField
<1>1. /\ f \in Field /\ now \in Nat /\ at \in [Player -> Field \cup {None}]
      /\ Now \in Parts /\ Agree(f, Now) /\ Pending(f, Now, {})
  BY DEF IInv, Sound
<1>2. /\ count \in [Field -> 0..MaxIds]
      /\ registered \in [Field -> [Key -> Id \cup {None}]]
      /\ agents \in [Id -> Buff \cup {None}]
      /\ timers \in SUBSET Msg
      /\ bonus \in Gains /\ cut \in [Player -> BOOLEAN]
  BY <1>1 DEF Parts, Now
<1>3. \A i \in Id : agents[i] # None =>
          /\ IsBuff(agents[i]) /\ agents[i].id = i
          /\ registered[f][KeyOf(agents[i])] = i
  BY <1>1 DEF Agree, Now
<1>4. \A k \in Key : registered[f][k] # None =>
          agents[registered[f][k]] # None /\ KeyOf(agents[registered[f][k]]) = k
  BY <1>1 DEF Agree, Now
<1>5. TypeOK
  <2>1. \A m \in timers : m.field \in Field /\ m.type \in {"tick", "remove"} /\ m.id \in Id
    BY <1>2 DEF Msg
  <2>2. \A p \in Player : bonus[p] \in Int /\ Base[p] + bonus[p] >= 0 BY <1>2 DEF Gains
  <2> QED BY <1>1, <1>2, <1>3, <2>1, <2>2 DEF TypeOK, IsBuff
<1>6. RegisteredRuns BY <1>1, <1>3, <1>4, <1>5 DEF RegisteredRuns
<1>7. EndIsPending
  <2> SUFFICES ASSUME NEW k \in Key, registered[f][k] # None, k[2] \notin Unlimited
               PROVE  \E m \in timers : m.field = f /\ m.id = registered[f][k]
    BY DEF EndIsPending
  <2>1. registered[f][k] \in Id BY <1>1, <1>2
  <2>2. agents[registered[f][k]].effect = k[2] BY <1>4 DEF KeyOf
  <2> QED BY <1>1, <1>4, <2>1, <2>2 DEF Pending, Awaited, Now
<1> QED BY <1>6, <1>7 DEF EndsCome

LEMMA InitIInv == Init => IInv
<1> SUFFICES ASSUME Init PROVE IInv OBVIOUS
<1>1. Now \in Parts
  <2>1. 0 \in 0..MaxIds BY EffectsAssumption
  <2>2. bonus \in Gains
    <3>1. \A p \in Player : Base[p] + 0 >= 0 BY EffectsAssumption
    <3> QED BY <3>1 DEF Gains, Init
  <2> QED BY <2>1, <2>2 DEF Init, Parts, Now
<1>2. ASSUME NEW f \in Field PROVE Sound(f, Now, {})
  <2>1. Agree(f, Now) BY DEF Agree, Now, Init
  <2>2. Pending(f, Now, {}) BY DEF Pending, Now, Init
  <2> QED BY <1>1, <2>1, <2>2 DEF Sound
<1>3. \A p \in Player : IsFiniteSet(saved[p]) BY FS_EmptySet DEF Init
<1> QED BY <1>2, <1>3 DEF IInv, Init, Held

(* A handler that ends in a sound state t keeps the invariant.             *)
LEMMA Carried ==
    ASSUME IInv, NEW f, Field = {f}, NEW t, Becomes(t), Sound(f, t, {}),
           count[f] <= t.count[f], Keep(count[f], Now, t),
           now' \in Nat, at' \in [Player -> Field \cup {None}],
           reply' \in [Player -> Buff \cup {None}],
           \A p \in Player : reply'[p] = reply[p] \/ Held(f, t, reply'[p]),
           saved' \in [Player -> SUBSET Row],
           \A p \in Player : IsFiniteSet(saved'[p])
    PROVE  IInv'
<1>1. t \in Parts /\ Now \in Parts /\ f \in Field BY DEF Sound, IInv
<1>2. Now' = t BY <1>1 DEF Becomes, Now, Parts
<1>3. \A g \in Field : Sound(g, Now', {}) BY <1>2
<1>4. ASSUME NEW p \in Player PROVE Held(f, Now', reply'[p])
  <2>1. CASE reply'[p] = reply[p]
    <3> SUFFICES ASSUME reply[p] # None PROVE Held(f, t, reply[p])
      BY <1>2, <2>1 DEF Held
    <3> DEFINE b == reply[p]
    <3>1. /\ IsBuff(b) /\ b.id <= count[f]
          /\ agents[b.id] # None => KeyOf(b) = KeyOf(agents[b.id])
      BY <1>1 DEF IInv, Held, Now
    <3>2. b.id \in Id /\ b.id \in Int BY <3>1, BuffTypes DEF IsBuff, Id
    <3>3. count[f] \in Int /\ t.count[f] \in Int BY <1>1 DEF Parts, Now
    <3> HIDE DEF b
    <3>4. b.id <= t.count[f] BY <3>1, <3>2, <3>3
    <3>5. t.agents[b.id] # None => KeyOf(b) = KeyOf(t.agents[b.id])
      BY <3>1, <3>2 DEF Keep, Now
    <3> QED BY <3>1, <3>4, <3>5 DEF Held, b
  <2>2. CASE Held(f, t, reply'[p]) BY <1>2, <2>2
  <2> QED BY <2>1, <2>2
<1> QED BY <1>3, <1>4 DEF IInv

(* The same of a handler that leaves the characters alone.                 *)
LEMMA Handled ==
    ASSUME IInv, NEW f, Field = {f}, NEW t, Becomes(t), Sound(f, t, {}),
           count[f] <= t.count[f], Keep(count[f], Now, t),
           UNCHANGED <<now, at, reply, saved>>
    PROVE  IInv'
BY Carried DEF IInv

(* Fields have room for what CanApply lets in.                             *)
LEMMA NowIs ==
    ASSUME IInv, NEW f, Field = {f}
    PROVE  /\ f \in Field /\ Sound(f, Now, {}) /\ now \in Nat
           /\ Now \in Parts /\ Agree(f, Now)
           /\ count[f] \in Nat /\ Now.count = count /\ Now.agents = agents
           /\ Now.registered = registered /\ Now.timers = timers /\ Now.bonus = bonus
           /\ Now.cut = cut
           /\ registered[f] \in [Key -> Id \cup {None}]
           /\ agents \in [Id -> Buff \cup {None}]
           /\ \A p \in Player : at[p] # None => at[p] = f
           /\ \A n : Keep(n, Now, Now) /\ count[f] <= count[f]
BY DEF IInv, Sound, Parts, Now, Keep

LEMMA AddEffectBuffIInv ==
    ASSUME IInv, NEW f, Field = {f}, NEW p \in Player, NEW e \in Effect, AddEffectBuff(p, e)
    PROVE  IInv'
<1>1. /\ f \in Field /\ Sound(f, Now, {}) /\ now \in Nat /\ count[f] \in Nat
      /\ Now.count = count /\ at[p] = f
  BY NowIs DEF AddEffectBuff, CanApply
<1>2. count[f] + 2 <= MaxIds BY <1>1 DEF AddEffectBuff, CanApply
<1>3. PICK overlap \in {0, 1}, amounts \in Amounts :
         Becomes(Applied(Allocated(Now, f), f, FreshBuff(NextId(Now, f), p, e),
                         TRUE, overlap, amounts))
  BY <1>1 DEF AddEffectBuff
<1> DEFINE status == TRUE
           none == {}
           end == now + Duration[e]
           b == FreshBuff(NextId(Now, f), p, e)
           s == Now
           t == Applied(Allocated(s, f), f, b, status, overlap, amounts)
<1>4. overlap \in Int /\ end \in Int /\ now \in Int BY <1>1, EffectsAssumption
<1>5. b = NewBuff(NextId(s, f), p, e, now, end) BY DEF FreshBuff
<1>6. Becomes(t) /\ s.count[f] + 2 <= MaxIds BY <1>1, <1>2, <1>3
<1>7. SUFFICES Sound(f, t, none) /\ s.count[f] <= t.count[f] /\ Keep(s.count[f], s, t)
  <2> HIDE DEF t, b
  <2> QED BY <1>1, <1>6, Handled DEF AddEffectBuff
<1>8. Sound(f, s, none) BY <1>1
<1>9. t = Applied(Allocated(s, f), f, b, status, overlap, amounts) OBVIOUS
<1> HIDE DEF status, none, end, b, s, t
<1>10. /\ Sound(f, t, none)
       /\ s.count[f] \in Nat /\ t.count[f] \in Nat
       /\ b.id = s.count[f] + 1 /\ b.id <= t.count[f]
       /\ t.count[f] <= s.count[f] + 2
       /\ Keep(s.count[f], s, t) /\ IsBuff(b) /\ KeyOf(b) = <<p, e>>
       /\ s.registered[f][<<p, e>>] = None => KeyOf(t.agents[b.id]) = KeyOf(b)
  BY <1>1, <1>4, <1>5, <1>6, <1>8, <1>9, AddedIs
<1> QED BY <1>10

LEMMA AddBuffIInv ==
    ASSUME IInv, NEW f, Field = {f}, NEW p \in Player, NEW e \in Effect, AddBuff(p, e)
    PROVE  IInv'
<1>1. /\ f \in Field /\ Sound(f, Now, {}) /\ now \in Nat /\ count[f] \in Nat
      /\ Now.count = count /\ Now.registered = registered /\ Now.agents = agents
      /\ at[p] = f
  BY NowIs DEF AddBuff, CanApply
<1>2. count[f] + 2 <= MaxIds BY <1>1 DEF AddBuff, CanApply
<1> DEFINE b == FreshBuff(NextId(Now, f), p, e)
           id == registered[f][KeyOf(b)]
<1>3. PICK overlap \in {0, 1}, amounts \in Amounts :
         /\ Becomes(Applied(Allocated(Now, f), f, b, FALSE, overlap, amounts))
         /\ reply' = [reply EXCEPT ![p] =
                         IF id = None THEN b ELSE Extended(agents[id], overlap)]
  BY <1>1 DEF AddBuff
<1> DEFINE status == FALSE
           none == {}
           end == now + Duration[e]
           s == Now
           t == Applied(Allocated(s, f), f, b, status, overlap, amounts)
           r == IF id = None THEN b ELSE Extended(agents[id], overlap)
<1>4. overlap \in Int /\ end \in Int /\ now \in Int BY <1>1, EffectsAssumption
<1>5. b = NewBuff(NextId(s, f), p, e, now, end) BY DEF FreshBuff
<1>6. Becomes(t) /\ s.count[f] + 2 <= MaxIds BY <1>1, <1>2, <1>3
<1>8. Sound(f, s, none) BY <1>1
<1>9. t = Applied(Allocated(s, f), f, b, status, overlap, amounts) OBVIOUS
<1>10. /\ Sound(f, t, none)
       /\ s.count[f] \in Nat /\ t.count[f] \in Nat
       /\ b.id = s.count[f] + 1 /\ b.id <= t.count[f]
       /\ t.count[f] <= s.count[f] + 2
       /\ Keep(s.count[f], s, t) /\ IsBuff(b) /\ KeyOf(b) = <<p, e>>
       /\ s.registered[f][<<p, e>>] = None => KeyOf(t.agents[b.id]) = KeyOf(b)
  <2> HIDE DEF status, none, end, b, s, t
  <2> QED BY <1>1, <1>4, <1>5, <1>6, <1>8, <1>9, AddedIs
<1> HIDE DEF t, b
<1>11. Held(f, t, r) /\ r \in Buff
  <2>1. CASE id = None
    <3>1. r = b /\ s.registered[f][<<p, e>>] = None BY <1>1, <1>10, <2>1
    <3> QED BY <1>10, <3>1 DEF Held, IsBuff
  <2>2. CASE id # None
    <3> DEFINE old == agents[id]
    <3>1. KeyOf(b) \in Key BY <1>10, BuffTypes DEF IsBuff
    <3>2. id \in Id /\ old # None BY <1>1, <2>2, <3>1 DEF Sound, Parts, Agree
    <3>3. IsBuff(old) /\ old.id = id /\ id <= count[f]
      BY <1>1, <3>2 DEF Sound, Agree
    <3>4. /\ IsBuff(Extended(old, overlap)) /\ Extended(old, overlap).id = id
          /\ KeyOf(Extended(old, overlap)) = KeyOf(old)
      BY <1>1, <1>4, <3>3, ExtendedIs
    <3>5. r = Extended(old, overlap) BY <2>2
    <3> HIDE DEF r, id
    <3>6. id <= t.count[f] BY <1>1, <1>10, <3>2, <3>3 DEF Id
    <3>7. t.agents[id] # None => KeyOf(t.agents[id]) = KeyOf(old)
      BY <1>1, <1>10, <3>2, <3>3 DEF Keep
    <3> HIDE DEF old
    <3> QED BY <3>4, <3>5, <3>6, <3>7 DEF Held, IsBuff
  <2> QED BY <2>1, <2>2
<1> HIDE DEF r
<1>12. reply' = [reply EXCEPT ![p] = r] BY <1>3 DEF r
<1>13. reply' \in [Player -> Buff \cup {None}] BY <1>11, <1>12 DEF IInv
<1>14. \A q \in Player : reply'[q] = reply[q] \/ Held(f, t, reply'[q])
  BY <1>11, <1>12 DEF IInv
<1>15. UNCHANGED <<now, at, saved>> BY DEF AddBuff
<1>16. count[f] <= t.count[f] BY <1>1, <1>10
<1> QED BY <1>1, <1>6, <1>10, <1>13, <1>14, <1>15, <1>16, Carried DEF IInv

LEMMA ApplyStatusIInv ==
    ASSUME IInv, NEW f, Field = {f}, NEW p \in Player, ApplyStatus(p)
    PROVE  IInv'
<1> DEFINE b == reply[p]
<1>1. /\ f \in Field /\ Sound(f, Now, {}) /\ now \in Nat /\ count[f] \in Nat
      /\ Now.count = count /\ Now.agents = agents
      /\ Keep(count[f], Now, Now) /\ count[f] <= count[f]
  BY NowIs
<1>2. Held(f, Now, b) /\ b # None BY <1>1 DEF ApplyStatus, IInv
<1>3. reply' = [reply EXCEPT ![p] = None] BY DEF ApplyStatus
<1>4. /\ reply' \in [Player -> Buff \cup {None}]
      /\ \A q \in Player : reply'[q] = reply[q] \/ reply'[q] = None
  BY <1>3 DEF IInv
<1>5. /\ UNCHANGED <<now, at, saved>>
      /\ at \in [Player -> Field \cup {None}] /\ saved \in [Player -> SUBSET Row]
      /\ \A q \in Player : IsFiniteSet(saved[q])
  BY DEF ApplyStatus, IInv
<1>6. \E t : /\ Becomes(t) /\ Sound(f, t, {}) /\ count[f] <= t.count[f]
             /\ Keep(count[f], Now, t)
  <2>1. PICK amounts \in Amounts :
           LET amount == amounts[b.effect]
           IN  IF amount # 0 /\ agents[b.id] = None
               THEN UNCHANGED state
               ELSE Becomes(Given(Now, b, amount))
    BY DEF ApplyStatus
  <2> DEFINE amount == amounts[b.effect]
  <2>2. IsBuff(b) /\ b.effect \in Effect /\ amount \in Int
    BY <1>2, BuffTypes, EffectsAssumption DEF Held, IsBuff
  <2>3. CASE amount # 0 /\ agents[b.id] = None
    <3>1. Becomes(Now) BY <2>1, <2>3 DEF Becomes, Now, state
    <3> QED BY <1>1, <3>1
  <2>4. CASE amount = 0
    <3>1. Becomes(Now) BY <2>1, <2>4 DEF Given
    <3> QED BY <1>1, <3>1
  <2>5. CASE amount # 0 /\ agents[b.id] # None
    <3> DEFINE t == Given(Now, b, amount)
    <3>1. Becomes(t) BY <2>1, <2>5
    <3>2. Over(b, Now) BY <1>1, <1>2, <2>2, <2>5 DEF Over, Held
    <3> HIDE DEF b, amount
    <3>3. Sound(f, t, {}) /\ Same(Now, t) BY <1>1, <2>2, <3>2, GivenIs
    <3>4. Keep(count[f], Now, t) BY <3>3, SameKeeps
    <3>5. count[f] <= t.count[f] BY <1>1, <3>3 DEF Same
    <3> QED BY <3>1, <3>3, <3>4, <3>5
  <2> QED BY <2>3, <2>4, <2>5
<1>7. \A t : Held(f, t, None) BY DEF Held
<1> QED BY <1>1, <1>4, <1>5, <1>6, <1>7, Carried

(* The message that is handled is gone.                                    *)
LEMMA TakenIs ==
    ASSUME IInv, NEW f, Field = {f}, NEW m, m \in timers
    PROVE  /\ m.field = f /\ m.id \in Id /\ f \in Field
           /\ Sound(f, Taken(m), {m.id}) /\ Same(Now, Taken(m))
           /\ Taken(m).agents = agents /\ Taken(m).count = count
           /\ Taken(m).bonus = bonus /\ Taken(m).cut = cut
<1>1. /\ f \in Field /\ Sound(f, Now, {}) /\ Now \in Parts
      /\ Now.timers = timers /\ Now.agents = agents /\ Now.count = count
      /\ Now.bonus = bonus /\ Now.cut = cut
  BY NowIs
<1>2. m \in Msg BY <1>1 DEF Parts
<1> DEFINE t == Taken(m)
           less == {m.id}
<1>3. t = [Now EXCEPT !.timers = timers \ {m}] BY <1>1 DEF Taken, Parts
<1>4. /\ t \in Parts /\ t.timers = timers \ {m} /\ t.count = Now.count
      /\ t.registered = Now.registered /\ t.agents = Now.agents
      /\ t.bonus = Now.bonus /\ t.cut = Now.cut
  BY <1>1, <1>3 DEF Parts
<1>5. Mail(f, Now, t, {}, less)
  <2> SUFFICES ASSUME NEW i \in Id, Awaited(f, timers, i), i # m.id
               PROVE  Awaited(f, t.timers, i)
    BY <1>1 DEF Mail
  <2>1. PICK n \in timers : n.field = f /\ n.id = i BY DEF Awaited
  <2>2. n # m BY <2>1
  <2> QED BY <1>4, <2>1, <2>2 DEF Awaited
<1> HIDE DEF t, less
<1>6. Sound(f, t, less) /\ Same(Now, t) BY <1>1, <1>4, <1>5, Mailed
<1> QED BY <1>1, <1>2, <1>4, <1>6 DEF t, less, Msg

LEMMA RemoveBuffIInv ==
    ASSUME IInv, NEW f, Field = {f}, NEW m \in timers, RemoveBuff(m)
    PROVE  IInv'
<1> DEFINE s == Taken(m)
           force == FALSE
           none == {}
           out == {m.id}
           t == Dropped(s, f, m.id, force)
<1>1. /\ m.field = f /\ m.id \in Id /\ f \in Field /\ now \in Nat
      /\ Sound(f, s, out) /\ Same(Now, s) /\ s.count = count /\ count[f] <= count[f]
  BY TakenIs, NowIs
<1>2. Becomes(t) BY <1>1 DEF RemoveBuff
<1>3. SUFFICES Sound(f, t, none) /\ t.count = count /\ Keep(count[f], Now, t)
  <2> HIDE DEF t
  <2> QED BY <1>1, <1>2, Handled DEF RemoveBuff
<1>4. t = Dropped(s, f, m.id, force) /\ out \subseteq none \cup {m.id} OBVIOUS
<1> HIDE DEF s, force, none, out, t
<1>5. Sound(f, t, none) /\ t.count = s.count /\ \A n : Keep(n, s, t)
  BY <1>1, <1>4, DroppedIs
<1>6. Keep(count[f], Now, t) BY <1>1, <1>5 DEF Keep, Same
<1> QED BY <1>1, <1>5, <1>6

(* tick/2, next_tick/3: another message, unless the buff has no end.       *)
LEMMA TickedIs ==
    ASSUME NEW f \in Field, NEW s, NEW out, Sound(f, s, out), now \in Nat,
           NEW id \in Id, s.agents[id] # None,
           NEW t, t = Ticked(s, f, s.agents[id]), NEW less, out \subseteq less \cup {id}
    PROVE  Sound(f, t, less) /\ Same(s, t)
<1> DEFINE b == s.agents[id]
           elapsed == now - b.start
           interval == IntervalTick(b.effect)
           later == [b EXCEPT !.next = @ + interval]
           still == [b EXCEPT !.ticks = FALSE]
           u == [s EXCEPT !.agents = [s.agents EXCEPT ![id] = later]]
<1>1. s \in Parts /\ IsBuff(b) /\ b.id = id BY DEF Sound, Agree
<1>2. /\ b \in Buff /\ b.effect \in Effect /\ b.start \in Int /\ b.end \in Int
      /\ b.next \in Nat
  BY <1>1, BuffTypes DEF IsBuff
<1>3. interval \in Nat BY <1>2, EffectsAssumption DEF IntervalTick
<1>4. Over(b, s) BY <1>1 DEF Over
<1>5. later \in Buff /\ later.id = id /\ KeyOf(later) = KeyOf(b) /\ IsBuff(later)
  BY <1>1, <1>2, <1>3 DEF IsBuff, Buff, KeyOf
<1>6. still \in Buff /\ still.id = id /\ KeyOf(still) = KeyOf(b) /\ IsBuff(still)
  BY <1>1, <1>2 DEF IsBuff, Buff, KeyOf
<1>7. Over(later, s) /\ Over(still, s) BY <1>1, <1>5, <1>6 DEF Over
<1>8. [s EXCEPT !.agents[b.id] = later] = u BY <1>1 DEF Parts
<1>9. t = IF ~b.ticks THEN Scheduled(s, f, b)
          ELSE IF elapsed < b.next THEN TickIn(s, f, b, AtLeast(b.next - elapsed, 1))
          ELSE IF b.next + interval > b.end - b.start THEN Scheduled(s, f, still)
          ELSE TickIn(u, f, later, interval)
  BY <1>8 DEF Ticked
<1>10. AtLeast(b.next - elapsed, 1) \in Int BY <1>2 DEF AtLeast
<1> HIDE DEF later, still, interval
<1>11. CASE ~b.ticks
  <2>1. t = Scheduled(s, f, b) BY <1>9, <1>11
  <2> HIDE DEF b
  <2> QED BY <1>1, <1>4, <2>1, ScheduledIs
<1>12. CASE b.ticks /\ elapsed < b.next
  <2> DEFINE ms == AtLeast(b.next - elapsed, 1)
  <2>1. t = TickIn(s, f, b, ms) BY <1>9, <1>12
  <2>2. ms \in Int BY <1>10
  <2> HIDE DEF b, ms
  <2> QED BY <1>1, <1>2, <2>1, <2>2, TickInIs
<1>13. CASE b.ticks /\ ~(elapsed < b.next) /\ b.next + interval > b.end - b.start
  <2>1. t = Scheduled(s, f, still) BY <1>9, <1>13
  <2> QED BY <1>6, <1>7, <2>1, ScheduledIs
<1>14. CASE /\ b.ticks /\ ~(elapsed < b.next)
            /\ ~(b.next + interval > b.end - b.start)
  <2>1. t = TickIn(u, f, later, interval) BY <1>9, <1>14
  <2>2. /\ u.count = s.count /\ u.registered = s.registered /\ u.timers = s.timers
        /\ u.agents = [s.agents EXCEPT ![later.id] = later] /\ u.bonus = s.bonus
    BY <1>1, <1>5 DEF Parts
  <2>3. u \in Parts
    <3>1. u.agents \in [Id -> Buff \cup {None}] BY <1>1, <1>5, <2>2 DEF Parts
    <3> QED BY <1>1, <2>2, <3>1 DEF Parts
  <2> HIDE DEF u
  <2>4. Mail(f, s, u, out, out) BY <2>2 DEF Mail
  <2>5. Sound(f, u, out) /\ Same(s, u) BY <1>7, <2>2, <2>3, <2>4, Rewritten
  <2>6. out \subseteq less \cup {later.id} /\ interval \in Int BY <1>3, <1>5
  <2>7. Sound(f, t, less) /\ Same(u, t) BY <1>5, <2>1, <2>5, <2>6, TickInIs
  <2> QED BY <2>5, <2>7, SameAgain
<1> QED BY <1>11, <1>12, <1>13, <1>14

LEMMA BuffTickIInv ==
    ASSUME IInv, NEW f, Field = {f}, NEW m \in timers, BuffTick(m)
    PROVE  IInv'
<1> DEFINE s == Taken(m)
           none == {}
           out == {m.id}
           t == IF agents[m.id] = None THEN s ELSE Ticked(s, f, s.agents[m.id])
<1>1. /\ m.field = f /\ m.id \in Id /\ f \in Field /\ now \in Nat
      /\ Sound(f, s, out) /\ Same(Now, s) /\ s.count = count /\ count[f] <= count[f]
      /\ s.agents = agents
  BY TakenIs, NowIs
<1>2. Becomes(t) BY <1>1 DEF BuffTick
<1>3. SUFFICES Sound(f, t, none) /\ t.count = count /\ Keep(count[f], Now, t)
  <2> HIDE DEF t
  <2> QED BY <1>1, <1>2, Handled DEF BuffTick
<1>4. out \subseteq none \cup {m.id} OBVIOUS
<1> HIDE DEF s
<1>5. CASE agents[m.id] = None
  <2>1. t = s BY <1>5
  <2>2. Sound(f, s, none) BY <1>1, <1>5 DEF Sound, Pending
  <2>3. Keep(count[f], Now, s) BY <1>1, SameKeeps
  <2> QED BY <1>1, <2>1, <2>2, <2>3
<1>6. CASE agents[m.id] # None
  <2>1. t = Ticked(s, f, s.agents[m.id]) /\ s.agents[m.id] # None BY <1>1, <1>6
  <2> HIDE DEF none, out, t
  <2>2. Sound(f, t, none) /\ Same(s, t) BY <1>1, <1>4, <2>1, TickedIs
  <2>3. Same(Now, t) BY <1>1, <2>2, SameAgain
  <2>4. Keep(count[f], Now, t) BY <2>3, SameKeeps
  <2> QED BY <1>1, <2>2, <2>4 DEF Same
<1> QED BY <1>5, <1>6

LEMMA RemoveEffectBuffIInv ==
    ASSUME IInv, NEW f, Field = {f}, NEW p \in Player, NEW e \in Effect,
           RemoveEffectBuff(p, e)
    PROVE  IInv'
<1> DEFINE id == registered[f][<<p, e>>]
           force == TRUE
           none == {}
           s == Now
           t == Dropped(s, f, id, force)
<1>1. /\ f \in Field /\ now \in Nat /\ Sound(f, s, none) /\ s.count = count
      /\ count[f] <= count[f] /\ at[p] = f
      /\ registered[f] \in [Key -> Id \cup {None}]
  BY NowIs DEF RemoveEffectBuff
<1>2. id \in Id BY <1>1 DEF RemoveEffectBuff, Key
<1>3. Becomes(t) BY <1>1 DEF RemoveEffectBuff
<1>4. SUFFICES Sound(f, t, none) /\ t.count = count /\ Keep(count[f], s, t)
  <2> HIDE DEF t
  <2> QED BY <1>1, <1>3, Handled DEF RemoveEffectBuff
<1>5. t = Dropped(s, f, id, force) /\ none \subseteq none \cup {id} OBVIOUS
<1> HIDE DEF id, force, none, s, t
<1>6. Sound(f, t, none) /\ t.count = s.count /\ \A n : Keep(n, s, t)
  BY <1>1, <1>2, <1>5, DroppedIs
<1> QED BY <1>1, <1>6

LEMMA ModifyBuffDurationIInv ==
    ASSUME IInv, NEW f, Field = {f}, NEW p \in Player, NEW e \in Effect,
           NEW ticks \in Int, ModifyBuffDuration(p, e, ticks)
    PROVE  IInv'
<1> DEFINE id == registered[f][<<p, e>>]
           old == agents[id]
           b == [old EXCEPT !.end = @ + ticks]
           t == [Now EXCEPT !.agents = [agents EXCEPT ![id] = b]]
<1>1. /\ f \in Field /\ now \in Nat /\ Sound(f, Now, {}) /\ Now.count = count
      /\ count[f] <= count[f] /\ at[p] = f /\ Now \in Parts /\ Agree(f, Now)
      /\ registered[f] \in [Key -> Id \cup {None}] /\ Now.agents = agents
      /\ agents \in [Id -> Buff \cup {None}]
  BY NowIs DEF ModifyBuffDuration
<1>2. id \in Id /\ old # None BY <1>1 DEF ModifyBuffDuration, Key
<1>3. IsBuff(old) /\ old.id = id /\ old \in Buff
  BY <1>1, <1>2 DEF Agree, IsBuff
<1>4. b \in Buff /\ b.id = id /\ KeyOf(b) = KeyOf(old) /\ IsBuff(b)
  <2>1. old.end + ticks \in Int BY <1>3, BuffTypes
  <2> QED BY <1>3, <2>1 DEF IsBuff, Buff, KeyOf
<1>5. Becomes(t)
  <2>1. [Now EXCEPT !.agents[id].end = @ + ticks] = t
    BY <1>1, <1>2, <1>3 DEF Parts, Buff
  <2> QED BY <1>1, <2>1 DEF ModifyBuffDuration
<1>6. Over(b, Now) BY <1>1, <1>2, <1>4 DEF Over
<1> HIDE DEF b
<1>7. /\ t.count = count /\ t.registered = Now.registered /\ t.timers = Now.timers
      /\ t.agents = [Now.agents EXCEPT ![b.id] = b] /\ t.bonus = Now.bonus
  BY <1>1, <1>4 DEF Now
<1>8. t \in Parts
  <2>1. t.agents \in [Id -> Buff \cup {None}] BY <1>1, <1>4, <1>7
  <2> QED BY <1>1, <1>7, <2>1 DEF Parts
<1>9. Mail(f, Now, t, {}, {}) BY <1>7 DEF Mail
<1> HIDE DEF t
<1>10. Sound(f, t, {}) /\ Same(Now, t)
  <2> DEFINE none == {}
  <2>1. Sound(f, Now, none) /\ Mail(f, Now, t, none, none) BY <1>1, <1>9
  <2>2. SUFFICES Sound(f, t, none) /\ Same(Now, t) OBVIOUS
  <2> HIDE DEF none
  <2> QED BY <1>1, <1>6, <1>7, <1>8, <2>1, Rewritten
<1>11. Keep(count[f], Now, t) BY <1>10, SameKeeps
<1> QED BY <1>1, <1>5, <1>7, <1>10, <1>11, Handled DEF ModifyBuffDuration

LEMMA OwnerIdsAre ==
    ASSUME IInv, NEW f, Field = {f}, NEW p \in Player
    PROVE  OwnerIds(f, p) \in SUBSET Id
<1>1. registered[f] \in [Key -> Id \cup {None}] BY NowIs
<1>2. \A e \in Effect : <<p, e>> \in Key BY DEF Key
<1> QED BY <1>1, <1>2 DEF OwnerIds

LEMMA RemoveOwnerBuffsIInv ==
    ASSUME IInv, NEW f, Field = {f}, NEW p \in Player, RemoveOwnerBuffs(p)
    PROVE  IInv'
<1> DEFINE ids == OwnerIds(f, p)
           force == FALSE
           t == DropAll(f, ids, force)
<1>1. /\ f \in Field /\ now \in Nat /\ Sound(f, Now, {}) /\ count[f] <= count[f]
      /\ at[p] = f /\ ids \in SUBSET Id
  BY NowIs, OwnerIdsAre DEF RemoveOwnerBuffs
<1>2. Becomes(t) BY <1>1 DEF RemoveOwnerBuffs
<1> HIDE DEF force, ids
<1>3. Sound(f, t, {}) /\ t.count = count /\ \A n : Keep(n, Now, t)
  BY <1>1, AllDropped
<1> HIDE DEF t
<1> QED BY <1>1, <1>2, <1>3, Handled DEF RemoveOwnerBuffs

(* Only what the owner has above its base changes.                         *)
LEMMA Rebuilt ==
    ASSUME IInv, NEW f, Field = {f}, NEW p \in Player,
           NEW t, t = [Now EXCEPT !.bonus[p] = 0, !.cut[p] = FALSE]
    PROVE  /\ Sound(f, t, {}) /\ t.count = count /\ Same(Now, t)
           /\ t.bonus = [bonus EXCEPT ![p] = 0] /\ t.cut = [cut EXCEPT ![p] = FALSE]
           /\ t.registered = registered /\ t.agents = agents /\ t.timers = timers
<1>1. /\ f \in Field /\ Sound(f, Now, {}) /\ Now \in Parts
      /\ Now.bonus = bonus /\ Now.cut = cut /\ Now.count = count /\ Now.agents = agents
      /\ Now.registered = registered /\ Now.timers = timers
  BY NowIs
<1>2. t = [Now EXCEPT !.bonus = [bonus EXCEPT ![p] = 0], !.cut = [cut EXCEPT ![p] = FALSE]]
  BY <1>1 DEF Parts
<1>3. /\ t.bonus = [bonus EXCEPT ![p] = 0] /\ t.cut = [cut EXCEPT ![p] = FALSE]
      /\ t.count = Now.count
      /\ t.registered = Now.registered /\ t.agents = Now.agents
      /\ t.timers = Now.timers
  BY <1>1, <1>2 DEF Parts
<1>4. t \in Parts
  <2>1. bonus \in Gains /\ cut \in [Player -> BOOLEAN] BY <1>1 DEF Parts
  <2>2. Base[p] + 0 >= 0 BY EffectsAssumption
  <2>3. [bonus EXCEPT ![p] = 0] \in Gains BY <2>1, <2>2 DEF Gains
  <2>4. [cut EXCEPT ![p] = FALSE] \in [Player -> BOOLEAN] BY <2>1
  <2> QED BY <1>1, <1>2, <2>3, <2>4 DEF Parts
<1> DEFINE none == {}
<1>5. Mail(f, Now, t, none, none) BY <1>3 DEF Mail
<1>6. Sound(f, Now, none) BY <1>1
<1>7. SUFFICES Sound(f, t, none) /\ Same(Now, t) BY <1>1, <1>3
<1> HIDE DEF none
<1> QED BY <1>1, <1>3, <1>4, <1>5, <1>6, Mailed

LEMMA RefreshStatsIInv ==
    ASSUME IInv, NEW f, Field = {f}, NEW p \in Player, RefreshStats(p)
    PROVE  IInv'
<1> DEFINE t == [Now EXCEPT !.bonus[p] = 0, !.cut[p] = FALSE]
<1>1. /\ Sound(f, t, {}) /\ t.count = count /\ Same(Now, t)
      /\ t.bonus = [bonus EXCEPT ![p] = 0] /\ t.cut = [cut EXCEPT ![p] = FALSE]
      /\ t.registered = registered /\ t.agents = agents /\ t.timers = timers
  BY Rebuilt
<1> HIDE DEF t
<1>2. Becomes(t) BY <1>1 DEF RefreshStats, Becomes
<1>3. Keep(count[f], Now, t) /\ count[f] <= count[f] BY <1>1, SameKeeps, NowIs
<1> QED BY <1>1, <1>2, <1>3, Handled DEF RefreshStats

LEMMA LeaveIInv ==
    ASSUME IInv, NEW f, Field = {f}, NEW p \in Player, Leave(p)
    PROVE  IInv'
<1> DEFINE ids == {i \in OwnerIds(f, p) : /\ agents[i] # None
                                          /\ agents[i].effect \in Persistent
                                          /\ agents[i].end > now}
           row(id) == [effect |-> agents[id].effect, end |-> agents[id].end,
                       duration |-> agents[id].end - agents[id].start]
           rows == SavedRows(f, p)
<1>1. /\ f \in Field /\ now \in Nat /\ Sound(f, Now, {}) /\ Now.count = count
      /\ count[f] <= count[f] /\ at[p] = f /\ Keep(count[f], Now, Now)
      /\ agents \in [Id -> Buff \cup {None}] /\ OwnerIds(f, p) \in SUBSET Id
  BY NowIs, OwnerIdsAre DEF Leave
<1>2. rows = {row(id) : id \in ids} BY DEF SavedRows
<1>3. \A id \in ids : row(id) \in Row
  <2> SUFFICES ASSUME NEW id \in ids PROVE row(id) \in Row OBVIOUS
  <2>1. agents[id] \in Buff BY <1>1
  <2> QED BY <2>1, BuffTypes DEF Row
<1>4. rows \in SUBSET Row BY <1>2, <1>3
<1>5. IsFiniteSet(rows)
  <2>1. IsFiniteSet(Id) BY EffectsAssumption, FS_Interval DEF Id
  <2>2. ids \subseteq Id BY <1>1
  <2> HIDE DEF ids, row
  <2>3. IsFiniteSet(ids) BY <2>1, <2>2, FS_Subset
  <2> DEFINE g == [id \in ids |-> row(id)]
  <2>4. g \in Surjection(ids, rows) BY <1>2 DEF Surjection
  <2> HIDE DEF g
  <2> QED BY <2>3, <2>4, FS_Surjection
<1> HIDE DEF rows, ids, row
<1>6. saved' = [saved EXCEPT ![p] = rows] BY <1>1 DEF Leave, rows
<1>7. /\ saved' \in [Player -> SUBSET Row]
      /\ \A q \in Player : IsFiniteSet(saved'[q])
  BY <1>4, <1>5, <1>6 DEF IInv
<1>8. Becomes(Now) BY DEF Leave, Becomes, Now, state
<1>9. at' \in [Player -> Field \cup {None}] BY DEF Leave, IInv
<1>10. /\ now' = now /\ reply' = reply /\ reply \in [Player -> Buff \cup {None}]
  BY DEF Leave, IInv
<1> QED BY <1>1, <1>7, <1>8, <1>9, <1>10, Carried

LEMMA EnterIInv ==
    ASSUME IInv, NEW f, Field = {f}, NEW p \in Player, Enter(p, f)
    PROVE  IInv'
<1> DEFINE s == [Now EXCEPT !.bonus[p] = 0, !.cut[p] = FALSE]
<1>1. Sound(f, s, {}) /\ s.count = count /\ Same(Now, s) BY Rebuilt
<1>2. PICK amounts \in Amounts : Becomes(Restored(s, f, p, amounts)) BY DEF Enter
<1> DEFINE t == Restored(s, f, p, amounts)
<1>3. Becomes(t) BY <1>2
<1> HIDE DEF s
<1>4. /\ f \in Field /\ now \in Nat /\ saved[p] \in SUBSET Row
      /\ IsFiniteSet(saved[p]) /\ s.count[f] + 2 * Cardinality(saved[p]) <= MaxIds
  BY <1>1 DEF IInv, Enter
<1>5. /\ Sound(f, t, {}) /\ Keep(s.count[f], s, t)
      /\ t.count[f] \in Nat /\ s.count[f] \in Nat /\ s.count[f] <= t.count[f]
  BY <1>1, <1>4, AllRestored
<1> HIDE DEF t
<1>6. Keep(count[f], Now, t) BY <1>1, <1>5 DEF Keep, Same
<1>7. /\ now' = now /\ reply' = reply /\ saved' = saved
      /\ reply \in [Player -> Buff \cup {None}] /\ saved \in [Player -> SUBSET Row]
      /\ \A q \in Player : IsFiniteSet(saved[q])
      /\ at' \in [Player -> Field \cup {None}]
  BY <1>4 DEF Enter, IInv
<1> QED BY <1>1, <1>3, <1>4, <1>5, <1>6, <1>7, Carried

LEMMA TickIInv ==
    ASSUME IInv, NEW f, Field = {f}, Tick \/ UNCHANGED vars
    PROVE  IInv'
<1>1. /\ Sound(f, Now, {}) /\ Now.count = count /\ now \in Nat
      /\ count[f] <= count[f] /\ Keep(count[f], Now, Now)
  BY NowIs
<1>2. Becomes(Now) BY DEF Tick, vars, Becomes, Now, state
<1>3. /\ now' \in Nat /\ UNCHANGED <<at, reply, saved>>
  BY <1>1 DEF Tick, vars
<1> QED BY <1>1, <1>2, <1>3, Carried DEF IInv

LEMMA NextIInv == OneField /\ IInv /\ [Next]_vars => IInv'
<1> SUFFICES ASSUME NEW f, Field = {f}, IInv, [Next]_vars PROVE IInv'
  BY DEF OneField
<1>1. CASE \E p \in Player, e \in Effect :
             \/ AddEffectBuff(p, e) \/ AddBuff(p, e) \/ RemoveEffectBuff(p, e)
             \/ \E ticks \in {-1, 1} : ModifyBuffDuration(p, e, ticks)
  BY <1>1, AddEffectBuffIInv, AddBuffIInv, RemoveEffectBuffIInv, ModifyBuffDurationIInv
<1>2. CASE \E p \in Player :
             \/ ApplyStatus(p) \/ RemoveOwnerBuffs(p) \/ RefreshStats(p) \/ Leave(p)
             \/ \E g \in Field : Enter(p, g)
  BY <1>2, ApplyStatusIInv, RemoveOwnerBuffsIInv, RefreshStatsIInv, LeaveIInv, EnterIInv
<1>3. CASE Handle BY <1>3, RemoveBuffIInv, BuffTickIInv DEF Handle
<1>4. CASE Tick \/ UNCHANGED vars BY <1>4, TickIInv
<1> QED BY <1>1, <1>2, <1>3, <1>4 DEF Next

(* Agents, registrations and the messages under way agree (RegisteredRuns  *)
(* and EndIsPending), however buffs are applied, stacked, fired,           *)
(* cancelled, shortened, refreshed, ticked, saved, restored and written    *)
(* back by casts.                                                          *)
THEOREM BuffsAreEnded == OneField => (Spec => []EndsCome)
<1> SUFFICES ASSUME OneField PROVE Spec => []EndsCome OBVIOUS
<1>1. Init => IInv BY InitIInv
<1>2. IInv /\ [Next]_vars => IInv' BY NextIInv
<1>3. IInv => EndsCome BY IInvEndsCome
<1> QED BY <1>1, <1>2, <1>3, PTL DEF Spec

-------------------------------------------------------------------------------
(* What the agents recorded, in all *)

Amount(A, S) == MapThenSumSet(LAMBDA i : A[i].amount, S)

\* The amounts of any set of ids as one function of the set.
Amounts_(A) ==
    CHOOSE g : g = [s \in SUBSET Id |->
                       IF s = {} THEN 0
                       ELSE A[CHOOSE x \in s : TRUE].amount
                            + g[s \ {CHOOSE x \in s : TRUE}]]

LEMMA IdFinite ==
    /\ IsFiniteSet(Id)
    /\ \A s \in SUBSET Id : IsFiniteSet(s) /\ Cardinality(s) \in Nat
<1>1. IsFiniteSet(Id) BY EffectsAssumption, FS_Interval DEF Id
<1> QED BY <1>1, FS_Subset, FS_CardinalityType

LEMMA AmountsIs ==
    ASSUME NEW A
    PROVE  Amounts_(A) = [s \in SUBSET Id |->
                             IF s = {} THEN 0
                             ELSE A[CHOOSE x \in s : TRUE].amount
                                  + Amounts_(A)[s \ {CHOOSE x \in s : TRUE}]]
<1> DEFINE c(s) == CHOOSE x \in s : TRUE
           few(n) == {s \in SUBSET Id : Cardinality(s) <= n}
           Eq(g, D) == g = [s \in D |-> IF s = {} THEN 0
                                        ELSE A[c(s)].amount + g[s \ {c(s)}]]
           T == {n \in Nat : \E g : Eq(g, few(n))}
<1>1. \A s \in SUBSET Id : s # {} => c(s) \in s OBVIOUS
<1>2. \A s \in SUBSET Id : /\ IsFiniteSet(s) /\ Cardinality(s) \in Nat
                           /\ Cardinality(s) <= Cardinality(Id)
  BY IdFinite, FS_Subset
<1>3. Amounts_(A) = CHOOSE g : Eq(g, SUBSET Id) BY DEF Amounts_
<1> HIDE DEF c
<1>4. 0 \in T
  <2> DEFINE g == [s \in few(0) |-> 0]
  <2>1. \A s \in few(0) : s = {} BY <1>2, FS_EmptySet
  <2>2. Eq(g, few(0)) BY <2>1
  <2> QED BY <2>2
<1>5. ASSUME NEW n \in Nat, n \in T PROVE n + 1 \in T
  <2>1. PICK g : Eq(g, few(n)) BY <1>5
  <2> DEFINE h == [s \in few(n + 1) |-> IF s = {} THEN 0
                                        ELSE A[c(s)].amount + g[s \ {c(s)}]]
  <2>2. ASSUME NEW s \in few(n) PROVE s \in few(n + 1) /\ h[s] = g[s]
    <3>1. s \in few(n + 1) BY <1>2
    <3>2. g[s] = IF s = {} THEN 0 ELSE A[c(s)].amount + g[s \ {c(s)}] BY <2>1
    <3> QED BY <3>1, <3>2
  <2>3. ASSUME NEW s \in few(n + 1), s # {} PROVE s \ {c(s)} \in few(n)
    <3>1. c(s) \in s BY <1>1, <2>3
    <3>2. Cardinality(s \ {c(s)}) = Cardinality(s) - 1
      BY <1>2, <3>1, FS_RemoveElement
    <3> QED BY <1>2, <3>2
  <2>4. Eq(h, few(n + 1)) BY <2>2, <2>3
  <2>5. \E k : Eq(k, few(n + 1)) BY <2>4
  <2> HIDE DEF Eq, few
  <2> QED BY <2>5
<1>6. \E g : Eq(g, SUBSET Id)
  <2>1. Nat \subseteq T BY <1>4, <1>5, NatInd
  <2>2. Cardinality(Id) \in T BY <1>2, <2>1, IdFinite
  <2>3. few(Cardinality(Id)) = SUBSET Id BY <1>2
  <2> QED BY <2>2, <2>3
<1>7. Eq(Amounts_(A), SUBSET Id) BY <1>3, <1>6
<1> QED BY <1>7 DEF c

LEMMA AmountIs ==
    ASSUME NEW A, NEW S \in SUBSET Id
    PROVE  Amount(A, S) = Amounts_(A)[S]
<1> DEFINE c(s) == CHOOSE x \in s : TRUE
           h == Amounts_(A)
           Eq(g) == g = [s \in SUBSET S |-> IF s = {} THEN 0
                                            ELSE A[c(s)].amount + g[s \ {c(s)}]]
           iter == CHOOSE g : Eq(g)
           T == {s \in SUBSET S : iter[s] = h[s]}
<1>1. \A s \in SUBSET S : s # {} => c(s) \in s OBVIOUS
<1>2. Amount(A, S) = iter[S]
  BY DEF Amount, MapThenSumSet, MapThenFoldSet
<1>3. ASSUME NEW s \in SUBSET S
      PROVE  h[s] = IF s = {} THEN 0 ELSE A[c(s)].amount + h[s \ {c(s)}]
  BY AmountsIs
<1> HIDE DEF c, h
<1>4. Eq([s \in SUBSET S |-> h[s]]) BY <1>3
<1>5. Eq(iter) BY <1>4
<1> HIDE DEF iter
<1>6. {} \in T BY <1>3, <1>5
<1>7. \A s \in SUBSET S : s # {} => \E x \in s : s \ {x} \in T => s \in T
  <2> SUFFICES ASSUME NEW s \in SUBSET S, s # {}, s \ {c(s)} \in T PROVE s \in T
    BY <1>1
  <2>1. iter[s] = A[c(s)].amount + iter[s \ {c(s)}] BY <1>5
  <2> QED BY <1>3, <2>1
<1>8. IsFiniteSet(S) BY IdFinite
<1> HIDE DEF T
<1>9. S \in T BY <1>6, <1>7, <1>8, SubsetInd
<1> QED BY <1>2, <1>9 DEF T, h

LEMMA AmountStep ==
    ASSUME NEW A \in [Id -> Buff \cup {None}], NEW S \in SUBSET Id,
           \A i \in S : A[i] # None
    PROVE  /\ Amount(A, S) \in Int
           /\ \A x \in S : Amount(A, S) = A[x].amount + Amount(A, S \ {x})
           /\ S = {} => Amount(A, S) = 0
<1> DEFINE c(s) == CHOOSE x \in s : TRUE
           g == Amounts_(A)
           T == {n \in Nat : \A s \in SUBSET S : Cardinality(s) <= n =>
                    g[s] \in Int /\ \A x \in s : g[s] = A[x].amount + g[s \ {x}]}
<1>1. \A s \in SUBSET S : s # {} => c(s) \in s OBVIOUS
<1>2. \A i \in S : A[i].amount \in Int BY BuffTypes
<1>3. ASSUME NEW s \in SUBSET S
      PROVE  g[s] = IF s = {} THEN 0 ELSE A[c(s)].amount + g[s \ {c(s)}]
  BY AmountsIs
<1> HIDE DEF c, g
<1>4. \A s \in SUBSET S : IsFiniteSet(s) /\ Cardinality(s) \in Nat BY IdFinite
<1>5. 0 \in T
  <2>1. \A s \in SUBSET S : Cardinality(s) <= 0 => s = {} BY <1>4, FS_EmptySet
  <2>2. g[{}] = 0 BY <1>3
  <2>3. \A s \in SUBSET S : Cardinality(s) <= 0 =>
           g[s] \in Int /\ \A x \in s : g[s] = A[x].amount + g[s \ {x}]
    <3> SUFFICES ASSUME NEW s \in SUBSET S, Cardinality(s) <= 0
                 PROVE  g[s] \in Int /\ \A x \in s : g[s] = A[x].amount + g[s \ {x}]
      OBVIOUS
    <3>1. s = {} BY <2>1
    <3>2. g[s] = 0 BY <2>2, <3>1
    <3> QED BY <3>1, <3>2
  <2> QED BY <2>3
<1>6. ASSUME NEW n \in Nat, n \in T PROVE n + 1 \in T
  <2>0. ASSUME NEW s \in SUBSET S, NEW x \in s, Cardinality(s) = n + 1
        PROVE  /\ s \ {x} \in SUBSET S /\ Cardinality(s \ {x}) = n
               /\ g[s \ {x}] \in Int
               /\ \A y \in s \ {x} : g[s \ {x}] = A[y].amount + g[(s \ {x}) \ {y}]
    <3>1. IsFiniteSet(s) /\ s \ {x} \in SUBSET S BY <1>4
    <3>2. Cardinality(s \ {x}) = Cardinality(s) - 1 BY <3>1, FS_RemoveElement
    <3>3. Cardinality(s \ {x}) = n BY <2>0, <3>2
    <3>4. n <= n OBVIOUS
    <3> QED BY <1>6, <3>1, <3>3, <3>4
  <2>1. ASSUME NEW s \in SUBSET S, Cardinality(s) = n + 1
        PROVE  g[s] \in Int /\ \A x \in s : g[s] = A[x].amount + g[s \ {x}]
    <3>1. s # {} BY <1>4, <2>1, FS_EmptySet
    <3>2. c(s) \in s /\ g[s] = A[c(s)].amount + g[s \ {c(s)}] BY <1>1, <1>3, <3>1
    <3>3. g[s \ {c(s)}] \in Int BY <2>0, <2>1, <3>2
    <3>4. A[c(s)].amount \in Int BY <1>2, <3>2
    <3>5. ASSUME NEW x \in s, x # c(s) PROVE g[s] = A[x].amount + g[s \ {x}]
      <4>1. g[s \ {c(s)}] = A[x].amount + g[(s \ {c(s)}) \ {x}]
        BY <2>0, <2>1, <3>2, <3>5
      <4>2. g[s \ {x}] = A[c(s)].amount + g[(s \ {x}) \ {c(s)}]
        BY <2>0, <2>1, <3>2, <3>5
      <4>3. (s \ {c(s)}) \ {x} = (s \ {x}) \ {c(s)} OBVIOUS
      <4>4. g[s \ {x}] \in Int BY <2>0, <2>1
      <4>5. A[x].amount \in Int BY <1>2
      <4> DEFINE u == g[(s \ {x}) \ {c(s)}]
                 v == g[s \ {x}]
                 w == g[s \ {c(s)}]
      <4>6. u \in Int
        <5> DEFINE r == s \ {x}
        <5>1. c(s) \in r /\ r \in SUBSET S /\ Cardinality(r) = n
          BY <2>0, <2>1, <3>2, <3>5
        <5> HIDE DEF r
        <5>2. Cardinality(r \ {c(s)}) <= n /\ r \ {c(s)} \in SUBSET S
          <6>1. IsFiniteSet(r) BY <1>4, <5>1
          <6> DEFINE y == c(s)
          <6>2. y \in r BY <5>1
          <6> HIDE DEF y
          <6>3. Cardinality(r \ {y}) = Cardinality(r) - 1 BY <6>1, <6>2, FS_RemoveElement
          <6>4. Cardinality(r \ {y}) <= n BY <5>1, <6>3
          <6> QED BY <5>1, <6>4 DEF y
        <5>3. g[r \ {c(s)}] \in Int BY <1>6, <5>2
        <5> QED BY <5>3 DEF r
      <4>7. /\ w = A[x].amount + u /\ v = A[c(s)].amount + u
            /\ g[s] = A[c(s)].amount + w
        BY <3>2, <4>1, <4>2, <4>3
      <4> HIDE DEF u, v, w
      <4>8. g[s] = A[x].amount + v BY <3>4, <4>5, <4>6, <4>7
      <4> QED BY <4>8 DEF v
    <3>6. g[s] \in Int BY <3>2, <3>3, <3>4
    <3> QED BY <3>2, <3>5, <3>6
  <2> DEFINE Adds(s) == g[s] \in Int /\ \A x \in s : g[s] = A[x].amount + g[s \ {x}]
  <2>2. ASSUME NEW s \in SUBSET S, Cardinality(s) <= n + 1 PROVE Adds(s)
    <3>1. Cardinality(s) <= n \/ Cardinality(s) = n + 1 BY <1>4, <2>2
    <3>2. CASE Cardinality(s) <= n BY <1>6, <3>2
    <3>3. CASE Cardinality(s) = n + 1 BY <2>1, <3>3
    <3> QED BY <3>1, <3>2, <3>3
  <2>3. n + 1 \in Nat OBVIOUS
  <2> QED BY <2>2, <2>3
<1> HIDE DEF T
<1>7. Nat \subseteq T BY <1>5, <1>6, NatInd
<1>8. Cardinality(S) \in T BY <1>4, <1>7
<1>9. g[S] \in Int /\ \A x \in S : g[S] = A[x].amount + g[S \ {x}]
  BY <1>4, <1>8 DEF T
<1>10. Amount(A, S) = g[S] /\ \A x \in S : Amount(A, S \ {x}) = g[S \ {x}]
  BY AmountIs DEF g
<1>11. S = {} => g[S] = 0 BY <1>3
<1> QED BY <1>9, <1>10, <1>11

(* The sum is that of the amounts, whatever else an agent becomes.         *)
LEMMA AmountExt ==
    ASSUME NEW A \in [Id -> Buff \cup {None}], NEW B \in [Id -> Buff \cup {None}],
           NEW S \in SUBSET Id,
           \A i \in S : A[i] # None /\ B[i] # None /\ A[i].amount = B[i].amount
    PROVE  Amount(A, S) = Amount(B, S)
<1> DEFINE T == {s \in SUBSET S : Amount(A, s) = Amount(B, s)}
<1>1. {} \in T
  <2>1. Amount(A, {}) = 0 /\ Amount(B, {}) = 0 BY AmountStep
  <2> QED BY <2>1
<1>2. \A s \in SUBSET S : s # {} => \E x \in s : s \ {x} \in T => s \in T
  <2> SUFFICES ASSUME NEW s \in SUBSET S, NEW x \in s,
                      Amount(A, s \ {x}) = Amount(B, s \ {x})
               PROVE  Amount(A, s) = Amount(B, s)
    OBVIOUS
  <2>1. Amount(A, s) = A[x].amount + Amount(A, s \ {x}) BY AmountStep
  <2>2. Amount(B, s) = B[x].amount + Amount(B, s \ {x}) BY AmountStep
  <2> QED BY <2>1, <2>2
<1> HIDE DEF T
<1>3. IsFiniteSet(S) BY IdFinite
<1>4. S \in T BY <1>1, <1>2, <1>3, SubsetInd
<1> QED BY <1>4 DEF T

\* The agents of player p, and what they recorded in all.
Of(A, p) == {i \in Id : A[i] # None /\ A[i].player = p}
Total(A, p) == Amount(A, Of(A, p))

\* The same agents but for x.
But(x, A, B) == /\ B \in [Id -> Buff \cup {None}]
                /\ \A i \in Id : i # x => B[i] = A[i]

LEMMA TotalSame ==
    ASSUME NEW A \in [Id -> Buff \cup {None}], NEW B \in [Id -> Buff \cup {None}],
           NEW p,
           \A i \in Id : A[i] # None <=> B[i] # None,
           \A i \in Id : A[i] # None => /\ A[i].player = B[i].player
                                        /\ A[i].amount = B[i].amount
    PROVE  Total(A, p) = Total(B, p) /\ Total(A, p) \in Int
<1>1. Of(A, p) = Of(B, p) /\ Of(A, p) \in SUBSET Id BY DEF Of
<1>2. \A i \in Of(A, p) : A[i] # None /\ B[i] # None /\ A[i].amount = B[i].amount
  BY DEF Of
<1>3. Amount(A, Of(A, p)) = Amount(B, Of(A, p)) BY <1>1, <1>2, AmountExt
<1>4. Amount(A, Of(A, p)) \in Int BY <1>1, <1>2, AmountStep
<1> QED BY <1>1, <1>3, <1>4 DEF Total

LEMMA TotalType ==
    ASSUME NEW A \in [Id -> Buff \cup {None}], NEW p
    PROVE  Total(A, p) \in Int
BY TotalSame

(* An agent that goes takes its own amount from the total of its owner.    *)
LEMMA TotalLess ==
    ASSUME NEW A \in [Id -> Buff \cup {None}], NEW x \in Id, A[x] # None,
           NEW B, But(x, A, B), B[x] = None, NEW p
    PROVE  /\ p = A[x].player => Total(B, p) = Total(A, p) - A[x].amount
           /\ p # A[x].player => Total(B, p) = Total(A, p)
<1> DEFINE S == Of(A, p)
           R == Of(B, p)
<1>1. /\ B \in [Id -> Buff \cup {None}] /\ B[x] = None
      /\ \A i \in Id : i # x => B[i] = A[i]
  BY DEF But
<1>2. S \in SUBSET Id /\ R \in SUBSET Id /\ \A i \in S : A[i] # None BY DEF Of
<1>3. A[x].amount \in Int BY BuffTypes
<1>4. \A i \in R : B[i] # None /\ A[i] # None /\ A[i].amount = B[i].amount
  BY <1>1 DEF Of
<1>5. Amount(A, R) = Amount(B, R) BY <1>1, <1>2, <1>4, AmountExt
<1>6. Total(A, p) \in Int BY TotalType
<1>7. CASE p = A[x].player
  <2>1. x \in S /\ S \ {x} = R BY <1>1, <1>7 DEF Of
  <2> HIDE DEF S, R
  <2>2. Amount(A, S) = A[x].amount + Amount(A, R) BY <1>2, <2>1, AmountStep
  <2>3. Amount(A, R) \in Int BY <1>2, <1>4, AmountStep
  <2> QED BY <1>3, <1>5, <1>7, <2>2, <2>3 DEF Total, S, R
<1>8. CASE p # A[x].player
  <2>1. S = R BY <1>1, <1>8 DEF Of
  <2> HIDE DEF S, R
  <2> QED BY <1>5, <1>6, <1>8, <2>1 DEF Total, S, R
<1> QED BY <1>7, <1>8

(* An agent whose amount changes.                                          *)
LEMMA TotalMore ==
    ASSUME NEW A \in [Id -> Buff \cup {None}], NEW x \in Id, A[x] # None,
           NEW B, But(x, A, B), B[x] # None, B[x].player = A[x].player, NEW p
    PROVE  /\ p = A[x].player => Total(B, p) = Total(A, p) + B[x].amount - A[x].amount
           /\ p # A[x].player => Total(B, p) = Total(A, p)
<1>1. PICK C : But(x, A, C) /\ C[x] = None
  <2> DEFINE D == [A EXCEPT ![x] = None]
  <2>1. But(x, A, D) /\ D[x] = None BY DEF But
  <2> HIDE DEF D
  <2> QED BY <2>1
<1>2. But(x, B, C) /\ B \in [Id -> Buff \cup {None}] BY <1>1 DEF But
<1>3. /\ p = A[x].player => Total(C, p) = Total(A, p) - A[x].amount
      /\ p # A[x].player => Total(C, p) = Total(A, p)
  BY <1>1, TotalLess
<1>4. /\ p = B[x].player => Total(C, p) = Total(B, p) - B[x].amount
      /\ p # B[x].player => Total(C, p) = Total(B, p)
  BY <1>1, <1>2, TotalLess
<1>5. Total(A, p) \in Int /\ Total(B, p) \in Int BY <1>2, TotalType
<1>6. A[x].amount \in Int /\ B[x].amount \in Int BY <1>2, BuffTypes
<1>7. CASE p = A[x].player
  <2>1. Total(C, p) = Total(A, p) - A[x].amount BY <1>3, <1>7
  <2>2. Total(C, p) = Total(B, p) - B[x].amount BY <1>4, <1>7
  <2>3. \A a, b, u, v \in Int : \A c : c = a - u /\ c = b - v => b = a + v - u
    OBVIOUS
  <2>4. Total(B, p) = Total(A, p) + B[x].amount - A[x].amount
    BY <1>5, <1>6, <2>1, <2>2, <2>3
  <2> QED BY <1>7, <2>4
<1>8. CASE p # A[x].player
  <2>1. Total(C, p) = Total(A, p) /\ Total(C, p) = Total(B, p) BY <1>3, <1>4, <1>8
  <2> QED BY <1>8, <2>1
<1> QED BY <1>7, <1>8

(* An agent that comes with nothing recorded.                              *)
LEMMA TotalNew ==
    ASSUME NEW A \in [Id -> Buff \cup {None}], NEW x \in Id, A[x] = None,
           NEW B, But(x, A, B), B[x] # None, B[x].amount = 0, NEW p
    PROVE  Total(B, p) = Total(A, p)
<1>1. But(x, B, A) /\ B \in [Id -> Buff \cup {None}] BY DEF But
<1>2. \/ Total(A, p) = Total(B, p) - B[x].amount
      \/ Total(A, p) = Total(B, p)
  BY <1>1, TotalLess
<1>3. Total(A, p) \in Int /\ Total(B, p) \in Int BY <1>1, TotalType
<1> QED BY <1>2, <1>3

-------------------------------------------------------------------------------
(* What steps give and take, and which buffs they end *)

\* Buff b has the amount of the agent of its name and, among the first n ids,
\* no earlier end.
Exact(b, s, n) ==
    /\ b.amount = s.agents[b.id].amount
    /\ b.id <= n => b.end >= s.agents[b.id].end

\* What players have stays the same.
Owned(s, t) == t.bonus = s.bonus /\ t.cut = s.cut

\* No amount changes and, among the first n ids, no end comes earlier.
Even(n, s, t) ==
    /\ Owned(s, t)
    /\ \A i \in Id : s.agents[i] # None =>
          /\ t.agents[i].amount = s.agents[i].amount
          /\ i <= n => t.agents[i].end >= s.agents[i].end

\* What player p has beside what its agents recorded.
Rest(s, p) == s.bonus[p] - Total(s.agents, p)

\* It stays, or grows where a loss was cut off at 0.
Repaid(s, t, p) ==
    /\ Rest(t, p) >= Rest(s, p)
    /\ s.cut[p] => t.cut[p]
    /\ t.cut[p] \/ Rest(t, p) = Rest(s, p)

Paid(s, t) == \A p \in Player : Repaid(s, t, p)

\* An effect that cancels that of key k got a buff of an id beyond n.
Why(f, n, t, k) ==
    \E e \in Effect : /\ Cancels[e] = k[2]
                      /\ t.registered[f][<<k[1], e>>] \in Id
                      /\ ~(t.registered[f][<<k[1], e>>] <= n)

\* Of the first n agents one goes when its end came, or one of player p with
\* a reason.
Gone(f, n, p, s, t) ==
    \A i \in Id : i <= n /\ s.agents[i] # None /\ t.agents[i] = None =>
        \/ s.agents[i].end <= now
        \/ s.agents[i].player = p /\ Why(f, n, t, KeyOf(s.agents[i]))

\* Those that stay have their amounts and no earlier end.
Stay(n, s, t) ==
    \A i \in Id : i <= n /\ s.agents[i] # None /\ t.agents[i] # None =>
        /\ t.agents[i].amount = s.agents[i].amount
        /\ t.agents[i].end >= s.agents[i].end

Just(f, n, p, s, t) == Paid(s, t) /\ Gone(f, n, p, s, t) /\ Stay(n, s, t)

LEMMA RestType ==
    ASSUME NEW s \in Parts, NEW p \in Player
    PROVE  Rest(s, p) \in Int /\ s.bonus[p] \in Int /\ Total(s.agents, p) \in Int
<1>1. s.bonus[p] \in Int BY DEF Parts, Gains
<1>2. s.agents \in [Id -> Buff \cup {None}] BY DEF Parts
<1>3. Total(s.agents, p) \in Int BY <1>2, TotalType
<1> QED BY <1>1, <1>3 DEF Rest

LEMMA RepaidSame ==
    ASSUME NEW s \in Parts, NEW p \in Player, NEW t, Owned(s, t),
           Total(s.agents, p) = Total(t.agents, p)
    PROVE  Repaid(s, t, p)
<1>1. Rest(t, p) = Rest(s, p) /\ t.cut = s.cut BY DEF Rest, Owned
<1>2. Rest(s, p) \in Int BY RestType
<1>3. Rest(t, p) >= Rest(s, p) BY <1>1, <1>2
<1> QED BY <1>1, <1>3 DEF Repaid

LEMMA RepaidAgain ==
    ASSUME NEW s \in Parts, NEW u \in Parts, NEW t \in Parts, NEW p \in Player,
           Repaid(s, u, p), Repaid(u, t, p)
    PROVE  Repaid(s, t, p)
<1>1. Rest(s, p) \in Int /\ Rest(u, p) \in Int /\ Rest(t, p) \in Int BY RestType
<1>2. Rest(u, p) >= Rest(s, p) /\ Rest(t, p) >= Rest(u, p) BY DEF Repaid
<1>3. Rest(t, p) >= Rest(s, p) BY <1>1, <1>2
<1>4. /\ s.cut[p] => u.cut[p]
      /\ u.cut[p] => t.cut[p]
      /\ u.cut[p] \/ Rest(u, p) = Rest(s, p)
      /\ t.cut[p] \/ Rest(t, p) = Rest(u, p)
  BY DEF Repaid
<1> QED BY <1>3, <1>4 DEF Repaid

(* What is modified is recorded.                                           *)
LEMMA RepaidModified ==
    ASSUME NEW s \in Parts, NEW q \in Player, NEW amount \in Int,
           NEW u, u = Modified(s, q, amount),
           NEW t, Owned(u, t), NEW p \in Player,
           p = q => Total(t.agents, p) = Total(s.agents, p) + amount,
           p # q => Total(t.agents, p) = Total(s.agents, p)
    PROVE  Repaid(s, t, p)
<1>1. /\ u \in Parts
      /\ p # q => u.bonus[p] = s.bonus[p] /\ u.cut[p] = s.cut[p]
      /\ u.bonus[q] >= s.bonus[q] + amount
      /\ s.cut[q] => u.cut[q]
      /\ u.cut[q] \/ u.bonus[q] = s.bonus[q] + amount
  BY ModifiedIs
<1>2. t.bonus = u.bonus /\ t.cut = u.cut BY DEF Owned
<1> DEFINE A == Total(s.agents, p)
<1>3. s.bonus[p] \in Int /\ A \in Int /\ u.bonus[p] \in Int BY <1>1, RestType
<1>4. Rest(s, p) = s.bonus[p] - A /\ Rest(t, p) = u.bonus[p] - Total(t.agents, p)
  BY <1>2 DEF Rest
<1>5. CASE p = q
  <2>1. Rest(t, p) = u.bonus[p] - (A + amount) BY <1>4, <1>5
  <2> HIDE DEF A
  <2>2. Rest(t, p) >= Rest(s, p) BY <1>1, <1>3, <1>4, <1>5, <2>1
  <2>3. u.bonus[p] = s.bonus[p] + amount => Rest(t, p) = Rest(s, p)
    BY <1>3, <1>4, <2>1
  <2> QED BY <1>1, <1>2, <1>5, <2>2, <2>3 DEF Repaid
<1>6. CASE p # q
  <2>1. Rest(t, p) = Rest(s, p) BY <1>1, <1>4, <1>6
  <2>2. Rest(s, p) \in Int BY RestType
  <2>3. Rest(t, p) >= Rest(s, p) BY <2>1, <2>2
  <2> QED BY <1>1, <1>2, <1>6, <2>1, <2>3 DEF Repaid
<1> QED BY <1>5, <1>6

LEMMA RewrittenEven ==
    ASSUME NEW s \in Parts, NEW b, Over(b, s), NEW n, Exact(b, s, n), NEW t,
           Owned(s, t), t.agents = [s.agents EXCEPT ![b.id] = b]
    PROVE  Even(n, s, t)
<1>1. b.id \in Id /\ s.agents \in [Id -> Buff \cup {None}]
  BY BuffTypes DEF Over, IsBuff, Parts
<1>2. t.agents[b.id] = b /\ \A i \in Id : i # b.id => t.agents[i] = s.agents[i]
  BY <1>1
<1>3. ASSUME NEW i \in Id, s.agents[i] # None
      PROVE  /\ t.agents[i].amount = s.agents[i].amount
             /\ i <= n => t.agents[i].end >= s.agents[i].end
  <2>1. CASE i = b.id BY <1>2, <2>1 DEF Exact
  <2>2. CASE i # b.id
    <3>1. t.agents[i] = s.agents[i] /\ s.agents[i] \in Buff BY <1>1, <1>2, <1>3, <2>2
    <3>2. s.agents[i].end \in Int BY <3>1, BuffTypes
    <3>3. s.agents[i].end >= s.agents[i].end BY <3>2
    <3> QED BY <3>1, <3>3
  <2> QED BY <2>1, <2>2
<1> QED BY <1>3 DEF Even

LEMMA ScheduledEven ==
    ASSUME NEW s \in Parts, now \in Nat, NEW f, NEW b, Over(b, s), NEW n, Exact(b, s, n),
           NEW t, t = Scheduled(s, f, b)
    PROVE  Even(n, s, t)
<1> DEFINE due == AtLeast(b.end, now + 1)
           c == [b EXCEPT !.removal = due]
<1>1. b \in Buff /\ b.id \in Id BY BuffTypes DEF IsBuff, Over
<1>2. due \in Nat BY <1>1, BuffTypes DEF AtLeast
<1>3. c \in Buff /\ c.id = b.id /\ KeyOf(c) = KeyOf(b) /\ IsBuff(c)
      /\ c.amount = b.amount /\ c.end = b.end
  BY <1>1, <1>2 DEF Over, IsBuff, Buff, KeyOf
<1>4. Owned(s, t) /\ t.agents = [s.agents EXCEPT ![b.id] = c]
  BY <1>1 DEF Scheduled, Parts, Owned
<1> HIDE DEF c
<1>5. Over(c, s) /\ Exact(c, s, n) BY <1>3 DEF Over, Exact
<1>6. t.agents = [s.agents EXCEPT ![c.id] = c] BY <1>3, <1>4
<1> QED BY <1>4, <1>5, <1>6, RewrittenEven

LEMMA Alike ==
    ASSUME NEW s \in Parts, NEW n, NEW t, Owned(s, t), t.agents = s.agents
    PROVE  Even(n, s, t)
<1> SUFFICES ASSUME NEW i \in Id, s.agents[i] # None
             PROVE  s.agents[i].end >= s.agents[i].end
  BY DEF Even
<1>1. s.agents[i] \in Buff BY DEF Parts
<1>2. s.agents[i].end \in Int BY <1>1, BuffTypes
<1> QED BY <1>2

LEMMA TickInEven ==
    ASSUME NEW s \in Parts, NEW f, NEW b, NEW ms, NEW n, NEW t, t = TickIn(s, f, b, ms)
    PROVE  Even(n, s, t)
<1>1. Owned(s, t) /\ t.agents = s.agents BY DEF TickIn, Parts, Owned
<1> QED BY <1>1, Alike

LEMMA PlannedEven ==
    ASSUME NEW s \in Parts, now \in Nat, NEW f, NEW b, Over(b, s), NEW n, Exact(b, s, n),
           NEW t, t = Planned(s, f, b)
    PROVE  Even(n, s, t)
<1>1. CASE b.effect \in Ticking
  <2>1. t = TickIn(s, f, b, b.next) BY <1>1 DEF Planned
  <2> QED BY <2>1, TickInEven
<1>2. CASE b.effect \notin Ticking /\ b.effect \in Unlimited
  <2>1. t = s BY <1>2 DEF Planned
  <2> QED BY <2>1, Alike DEF Owned
<1>3. CASE b.effect \notin Ticking /\ b.effect \notin Unlimited
  <2>1. t = Scheduled(s, f, b) BY <1>3 DEF Planned
  <2> QED BY <2>1, ScheduledEven
<1> QED BY <1>1, <1>2, <1>3

(* refreshed_end_tick/2 never shortens a window.                           *)
LEMMA RefreshedEven ==
    ASSUME NEW f \in Field, NEW s, NEW out, Sound(f, s, out), now \in Nat,
           NEW id \in Id, s.agents[id] # None, NEW overlap \in Int, NEW n,
           NEW t, t = Refreshed(s, f, id, overlap)
    PROVE  Even(n, s, t)
<1> DEFINE old == s.agents[id]
           b == Extended(old, overlap)
           u == WithoutRemoval(s, old)
<1>1. s \in Parts /\ IsBuff(old) /\ old.id = id /\ old \in Buff
  BY DEF Sound, Agree, IsBuff
<1>2. IsBuff(b) /\ b.id = id /\ KeyOf(b) = KeyOf(old) BY <1>1, ExtendedIs
<1>3. old.end \in Int /\ Duration[old.effect] \in Nat
  BY <1>1, BuffTypes, EffectsAssumption
<1>4. b.amount = old.amount /\ b.end >= old.end
  BY <1>1, <1>3 DEF Extended, AtLeast, Buff
<1>5. CASE b = old
  <2>1. t = s BY <1>5 DEF Refreshed
  <2> QED BY <1>1, <2>1, Alike DEF Owned
<1>6. CASE b # old
  <2>1. t = Scheduled(u, f, b) BY <1>6 DEF Refreshed
  <2>2. u \in Parts /\ u.agents = s.agents /\ Owned(s, u)
    BY <1>1 DEF WithoutRemoval, Parts, Owned
  <2> HIDE DEF b, u
  <2>3. Over(b, u) /\ Exact(b, u, n) BY <1>1, <1>2, <1>4, <2>2 DEF Over, Exact
  <2>4. Even(n, u, t) BY <2>1, <2>2, <2>3, ScheduledEven
  <2> QED BY <2>2, <2>4 DEF Even, Owned
<1> QED BY <1>5, <1>6

LEMMA JustSame ==
    ASSUME NEW f, NEW n, NEW p, NEW s \in Parts, NEW t \in Parts,
           Same(s, t), Even(n, s, t)
    PROVE  Just(f, n, p, s, t)
<1>1. Paid(s, t)
  <2> SUFFICES ASSUME NEW q \in Player
               PROVE  Repaid(s, t, q)
    BY DEF Paid
  <2> DEFINE A == s.agents
             B == t.agents
  <2>1. A \in [Id -> Buff \cup {None}] /\ B \in [Id -> Buff \cup {None}] BY DEF Parts
  <2>2. \A i \in Id : A[i] # None <=> B[i] # None BY DEF Same
  <2>3. \A i \in Id : A[i] # None => A[i].player = B[i].player BY DEF Same, KeyOf
  <2>4. \A i \in Id : A[i] # None => A[i].amount = B[i].amount BY DEF Even
  <2> HIDE DEF A, B
  <2>5. Total(A, q) = Total(B, q) BY <2>1, <2>2, <2>3, <2>4, TotalSame
  <2> QED BY <2>5, RepaidSame DEF A, B, Even
<1>2. Gone(f, n, p, s, t) BY DEF Gone, Same
<1>3. Stay(n, s, t) BY DEF Stay, Even
<1> QED BY <1>1, <1>2, <1>3 DEF Just

LEMMA JustAgain ==
    ASSUME NEW f, NEW n, NEW p, NEW s \in Parts, NEW u \in Parts, NEW t \in Parts, now \in Nat,
           Just(f, n, p, s, u), Just(f, n, p, u, t), Keep(n, s, u), Keep(n, u, t),
           \A k \in Key : Why(f, n, u, k) => Why(f, n, t, k)
    PROVE  Just(f, n, p, s, t)
<1>1. Paid(s, t) BY RepaidAgain DEF Just, Paid
<1>2. \A i \in Id : /\ s.agents[i] # None => s.agents[i].end \in Int
                    /\ u.agents[i] # None => u.agents[i].end \in Int
                    /\ t.agents[i] # None => t.agents[i].end \in Int
  BY BuffTypes DEF Parts
<1>3. Gone(f, n, p, s, t)
  <2> SUFFICES ASSUME NEW i \in Id, i <= n, s.agents[i] # None, t.agents[i] = None
               PROVE  \/ s.agents[i].end <= now
                      \/ s.agents[i].player = p /\ Why(f, n, t, KeyOf(s.agents[i]))
    BY DEF Gone
  <2>1. CASE u.agents[i] = None
    <3>1. KeyOf(s.agents[i]) \in Key BY BuffTypes DEF Parts
    <3> QED BY <2>1, <3>1 DEF Just, Gone
  <2>2. CASE u.agents[i] # None
    <3>1. KeyOf(u.agents[i]) = KeyOf(s.agents[i]) BY <2>2 DEF Keep
    <3>2. u.agents[i].end >= s.agents[i].end BY <2>2 DEF Just, Stay
    <3>3. \/ u.agents[i].end <= now
          \/ u.agents[i].player = p /\ Why(f, n, t, KeyOf(u.agents[i]))
      BY <2>2 DEF Just, Gone
    <3>4. u.agents[i].end <= now => s.agents[i].end <= now BY <1>2, <2>2, <3>2
    <3>5. u.agents[i].player = s.agents[i].player BY <3>1 DEF KeyOf
    <3> QED BY <3>1, <3>3, <3>4, <3>5
  <2> QED BY <2>1, <2>2
<1>4. Stay(n, s, t)
  <2> SUFFICES ASSUME NEW i \in Id, i <= n, s.agents[i] # None, t.agents[i] # None
               PROVE  /\ t.agents[i].amount = s.agents[i].amount
                      /\ t.agents[i].end >= s.agents[i].end
    BY DEF Stay
  <2>1. u.agents[i] # None BY DEF Keep
  <2>2. /\ u.agents[i].amount = s.agents[i].amount
        /\ u.agents[i].end >= s.agents[i].end
    BY <2>1 DEF Just, Stay
  <2>3. /\ t.agents[i].amount = u.agents[i].amount
        /\ t.agents[i].end >= u.agents[i].end
    BY <2>1 DEF Just, Stay
  <2> QED BY <1>2, <2>1, <2>2, <2>3
<1> QED BY <1>1, <1>3, <1>4 DEF Just

LEMMA JustLess ==
    ASSUME NEW f, NEW n \in Int, NEW m \in Int, n <= m, NEW p, NEW s, NEW t,
           Just(f, m, p, s, t)
    PROVE  Just(f, n, p, s, t)
<1>1. \A i \in Id : i <= n => i <= m BY DEF Id
<1>2. \A k : Why(f, m, t, k) => Why(f, n, t, k) BY <1>1 DEF Why
<1> QED BY <1>1, <1>2 DEF Just, Gone, Stay

(* Ids beyond the last one are not registered.                             *)
LEMMA NoneNew ==
    ASSUME NEW f, NEW s, NEW out, Sound(f, s, out), NEW k \in Key
    PROVE  ~Why(f, s.count[f], s, k)
<1> SUFFICES ASSUME NEW x \in Effect,
                    s.registered[f][<<k[1], x>>] \in Id,
                    ~(s.registered[f][<<k[1], x>>] <= s.count[f])
             PROVE  FALSE
  BY DEF Why
<1> DEFINE j == <<k[1], x>>
           i == s.registered[f][j]
<1>1. j \in Key BY DEF Key
<1>2. i # None BY EffectsAssumption DEF Id
<1>3. s.agents[i] # None BY <1>1, <1>2 DEF Sound, Agree
<1>4. i \in Id /\ ~(i <= s.count[f]) OBVIOUS
<1> HIDE DEF i, j
<1> QED BY <1>3, <1>4 DEF Sound, Agree

(* Nothing of the agents or of what players have changes.                  *)
LEMMA JustFrom ==
    ASSUME NEW f, NEW n, NEW p, NEW s, NEW u, NEW t, Just(f, n, p, u, t),
           u.agents = s.agents, Owned(s, u)
    PROVE  Just(f, n, p, s, t)
BY DEF Just, Paid, Repaid, Rest, Owned, Gone, Stay

(* A removed buff takes back what it recorded.                             *)
LEMMA RemovedPaid ==
    ASSUME NEW f \in Field, NEW s, NEW out, Sound(f, s, out),
           NEW id \in Id, s.agents[id] # None,
           NEW t, t = Removed(s, f, id)
    PROVE  Paid(s, t) /\ \A n : Stay(n, s, t)
<1> DEFINE b == s.agents[id]
           A == s.agents
           B == t.agents
<1>1. s \in Parts /\ b \in Buff BY DEF Sound, Agree, IsBuff
<1>2. b.player \in Player /\ b.amount \in Int BY <1>1, BuffTypes
<1> DEFINE amount == 0 - b.amount
           u == Modified(s, b.player, amount)
<1>0. amount \in Int BY <1>2
<1>3. Owned(u, t) /\ B = [A EXCEPT ![id] = None]
  <2>1. u \in Parts /\ Alone(s, u)
    <3> HIDE DEF amount, b
    <3> QED BY <1>0, <1>1, <1>2, ModifiedIs
  <2>2. t = [u EXCEPT !.agents[id] = None,
                      !.registered[f][KeyOf(b)] = IF @ = id THEN None ELSE @]
    BY DEF Removed
  <2> HIDE DEF u, b
  <2> QED BY <2>1, <2>2 DEF Parts, Alone, Owned
<1>4. A \in [Id -> Buff \cup {None}] BY <1>1 DEF Parts
<1>5. But(id, A, B) /\ B[id] = None BY <1>3, <1>4 DEF But
<1>6. \A n : Stay(n, s, t)
  <2> SUFFICES ASSUME NEW i \in Id, s.agents[i] # None, t.agents[i] # None
               PROVE  /\ t.agents[i].amount = s.agents[i].amount
                      /\ t.agents[i].end >= s.agents[i].end
    BY DEF Stay
  <2>1. t.agents[i] = s.agents[i] /\ s.agents[i] \in Buff BY <1>4, <1>5 DEF But
  <2>2. s.agents[i].end \in Int BY <2>1, BuffTypes
  <2> QED BY <2>1, <2>2
<1>7. ASSUME NEW p \in Player PROVE Repaid(s, t, p)
  <2>1. A[id] # None /\ A[id].player = b.player /\ A[id].amount = b.amount OBVIOUS
  <2>2. u = Modified(s, b.player, amount) OBVIOUS
  <2> HIDE DEF A, B, b, u
  <2>3. Total(A, p) \in Int BY <1>4, TotalType
  <2>4. /\ p = b.player => Total(B, p) = Total(A, p) - b.amount
        /\ p # b.player => Total(B, p) = Total(A, p)
    BY <1>4, <1>5, <2>1, TotalLess
  <2>5. p = b.player => Total(B, p) = Total(A, p) + amount BY <1>2, <2>3, <2>4
  <2>6. /\ p = b.player => Total(t.agents, p) = Total(s.agents, p) + amount
        /\ p # b.player => Total(t.agents, p) = Total(s.agents, p)
    BY <2>4, <2>5 DEF A, B
  <2> HIDE DEF amount
  <2> QED BY <1>0, <1>1, <1>2, <1>3, <2>2, <2>6, RepaidModified
<1> QED BY <1>6, <1>7 DEF Paid

(* remove_buff/3 takes back what goes, and unless forced takes only what   *)
(* came to its end.                                                        *)
LEMMA DroppedPaid ==
    ASSUME NEW f \in Field, NEW s, NEW out, Sound(f, s, out), now \in Nat,
           NEW id \in Id, NEW force, NEW t, t = Dropped(s, f, id, force)
    PROVE  /\ Paid(s, t) /\ \A n : Stay(n, s, t)
           /\ t.agents[id] = None /\ s.agents[id] # None =>
                 force \/ s.agents[id].end <= now
<1> DEFINE b == s.agents[id]
<1>1. s \in Parts /\ Agree(f, s) BY DEF Sound
<1>2. CASE b = None
  <2>1. t = s BY <1>2 DEF Dropped
  <2>2. \A n : Even(n, s, t) /\ Same(s, t) BY <1>1, <2>1, Alike DEF Same, Owned
  <2>3. \A n, p : Just(f, n, p, s, t) BY <1>1, <2>1, <2>2, JustSame
  <2> QED BY <1>2, <2>3 DEF Just
<1>3. CASE b # None /\ ~force /\ now < b.end
  <2>1. t = Scheduled(s, f, b) BY <1>3 DEF Dropped
  <2>2. IsBuff(b) /\ b.id = id /\ b \in Buff BY <1>1, <1>3 DEF Agree, IsBuff
  <2>3. b.end \in Int BY <2>2, BuffTypes
  <2>4. Over(b, s) /\ \A n : Exact(b, s, n) BY <1>3, <2>2, <2>3 DEF Over, Exact
  <2> DEFINE less == out \cup {id}
  <2>5. Sound(f, t, less) /\ Same(s, t)
    <3>1. out \subseteq less \cup {b.id} OBVIOUS
    <3> HIDE DEF less, b
    <3> QED BY <2>1, <2>4, <3>1, ScheduledIs
  <2>6. \A n : Even(n, s, t)
    <3> HIDE DEF b
    <3> QED BY <1>1, <2>1, <2>4, ScheduledEven
  <2>7. \A n, p : Just(f, n, p, s, t) BY <1>1, <2>5, <2>6, JustSame DEF Sound
  <2> QED BY <1>3, <2>5, <2>7 DEF Just, Same
<1>4. CASE b # None /\ (force \/ ~(now < b.end))
  <2>1. t = Removed(s, f, id) BY <1>4 DEF Dropped
  <2>2. Paid(s, t) /\ \A n : Stay(n, s, t) BY <1>4, <2>1, RemovedPaid
  <2>3. b.end \in Int BY <1>1, <1>4, BuffTypes DEF Parts
  <2> QED BY <1>4, <2>2, <2>3
<1> QED BY <1>2, <1>3, <1>4

LEMMA DroppedJust ==
    ASSUME NEW f \in Field, NEW s, NEW out, Sound(f, s, out), now \in Nat,
           NEW id \in Id, NEW force, ~force, NEW t, t = Dropped(s, f, id, force),
           NEW n, NEW p
    PROVE  Just(f, n, p, s, t)
<1> DEFINE less == out \cup {id}
<1>1. out \subseteq less \cup {id} OBVIOUS
<1> HIDE DEF less
<1>2. /\ Sound(f, t, less) /\ t.count = s.count /\ \A m : Keep(m, s, t)
      /\ \A i \in Id : i # id /\ s.agents[i] # None => t.agents[i] # None
  BY <1>1, DroppedIs
<1>3. /\ Paid(s, t) /\ \A m : Stay(m, s, t)
      /\ t.agents[id] = None /\ s.agents[id] # None =>
            force \/ s.agents[id].end <= now
  BY DroppedPaid
<1>4. Gone(f, n, p, s, t) BY <1>2, <1>3 DEF Gone
<1> QED BY <1>3, <1>4 DEF Just

(* cancel_effects/2 takes back what the cancelled buff recorded.           *)
LEMMA CancelledPaid ==
    ASSUME NEW f \in Field, NEW s, NEW out, Sound(f, s, out), now \in Nat,
           NEW b \in Buff, NEW t, t = Cancelled(s, f, b)
    PROVE  /\ Paid(s, t) /\ \A n : Stay(n, s, t)
           /\ \A i \in Id : s.agents[i] # None /\ t.agents[i] = None =>
                 KeyOf(s.agents[i]) = <<b.player, Cancels[b.effect]>>
<1> DEFINE key == <<b.player, Cancels[b.effect]>>
           id == s.registered[f][key]
<1>1. s \in Parts /\ Agree(f, s) BY DEF Sound
<1>2. CASE Cancels[b.effect] = None \/ id = None
  <2>1. t = s BY <1>2 DEF Cancelled
  <2>2. \A n : Even(n, s, t) /\ Same(s, t) BY <1>1, <2>1, Alike DEF Same, Owned
  <2>3. \A n, p : Just(f, n, p, s, t) BY <1>1, <2>1, <2>2, JustSame
  <2> QED BY <2>1, <2>3 DEF Just
<1>3. CASE Cancels[b.effect] # None /\ id # None
  <2>1. key \in Key BY <1>3, BuffTypes, EffectsAssumption DEF Key
  <2>2. id \in Id BY <1>1, <1>3, <2>1 DEF Parts
  <2>3. KeyOf(s.agents[id]) = key BY <1>1, <1>3, <2>1 DEF Agree
  <2> DEFINE force == TRUE
             less == out \cup {id}
  <2>4. t = Dropped(s, f, id, force) BY <1>3 DEF Cancelled
  <2>5. out \subseteq less \cup {id} OBVIOUS
  <2> HIDE DEF force, less, id, key
  <2>6. /\ Sound(f, t, less) /\ t.count = s.count /\ \A n : Keep(n, s, t)
        /\ \A i \in Id : i # id /\ s.agents[i] # None => t.agents[i] # None
    BY <2>2, <2>4, <2>5, DroppedIs
  <2>7. Paid(s, t) /\ \A n : Stay(n, s, t) BY <2>2, <2>4, DroppedPaid
  <2>8. \A i \in Id : s.agents[i] # None /\ t.agents[i] = None =>
           KeyOf(s.agents[i]) = key
    BY <2>3, <2>6
  <2> QED BY <2>7, <2>8 DEF key
<1> QED BY <1>2, <1>3

(* A new agent brings nothing recorded; a buff goes for it only if its     *)
(* effect cancels that buff's.                                             *)
LEMMA StartedJust ==
    ASSUME NEW f \in Field, NEW s, NEW out, Sound(f, s, out), now \in Nat,
           NEW b, IsBuff(b), b.id = s.count[f], s.agents[b.id] = None,
           s.registered[f][KeyOf(b)] = None, b.amount = 0,
           NEW t, t = Started(s, f, b)
    PROVE  Just(f, b.id - 1, b.player, s, t)
<1> DEFINE u == Cancelled(s, f, b)
           n == b.id - 1
           more == out \cup {b.id}
<1>1. b \in Buff /\ b.id \in Id /\ b # None /\ KeyOf(b) \in Key BY BuffTypes DEF IsBuff
<1>2. /\ Sound(f, u, out) /\ u.count = s.count /\ \A m : Keep(m, s, u)
      /\ Spare(Cancels[b.effect], s, u)
  <2> HIDE DEF u
  <2>1. u = Cancelled(s, f, b) BY DEF u
  <2> QED BY <1>1, <2>1, CancelledIs
<1>3. /\ Paid(s, u) /\ \A m : Stay(m, s, u)
      /\ \A i \in Id : s.agents[i] # None /\ u.agents[i] = None =>
            KeyOf(s.agents[i]) = <<b.player, Cancels[b.effect]>>
  <2> HIDE DEF u
  <2>1. u = Cancelled(s, f, b) BY DEF u
  <2> QED BY <1>1, <2>1, CancelledPaid
<1>4. u \in Parts BY <1>2 DEF Sound
<1>5. b.id \in Nat /\ b.id <= b.id BY <1>1 DEF Id
<1>6. u.agents[b.id] = None BY <1>1, <1>2, <1>5 DEF Keep
<1>7. /\ Owned(u, t)
      /\ t.agents = [u.agents EXCEPT ![b.id] = b]
  BY <1>4, <1>6 DEF Started, Parts, Owned
<1> HIDE DEF u
<1>8. /\ Sound(f, t, more) /\ t.count = s.count
      /\ Keep(b.id - 1, s, t) /\ Spare(Cancels[b.effect], s, t)
      /\ t.agents[b.id] = b
  BY StartedIs
<1>9. t.registered[f][KeyOf(b)] = b.id BY <1>1, <1>8 DEF Sound, Agree
<1>10. But(b.id, u.agents, t.agents) /\ u.agents \in [Id -> Buff \cup {None}]
  BY <1>4, <1>7, <1>8 DEF But, Sound, Parts
<1>11. Paid(s, t)
  <2> SUFFICES ASSUME NEW p \in Player
               PROVE  Repaid(s, t, p)
    BY DEF Paid
  <2>1. Repaid(s, u, p) BY <1>3 DEF Paid
  <2> DEFINE A == u.agents
             B == t.agents
  <2>2. /\ A \in [Id -> Buff \cup {None}] /\ But(b.id, A, B) /\ A[b.id] = None
        /\ B[b.id] # None /\ B[b.id].amount = 0
    BY <1>1, <1>6, <1>8, <1>10
  <2> HIDE DEF A, B
  <2>3. Total(B, p) = Total(A, p) BY <1>1, <2>2, TotalNew
  <2>4. Repaid(u, t, p) BY <1>4, <1>7, <2>3, RepaidSame DEF A, B
  <2>5. s \in Parts /\ t \in Parts BY <1>8 DEF Sound
  <2> QED BY <1>4, <2>1, <2>4, <2>5, RepaidAgain
<1>12. ASSUME NEW i \in Id, i <= n
       PROVE  t.agents[i] = u.agents[i]
  <2>1. i # b.id BY <1>5, <1>12 DEF Id
  <2> QED BY <1>10, <2>1 DEF But
<1>13. Gone(f, n, b.player, s, t)
  <2> SUFFICES ASSUME NEW i \in Id, i <= n, s.agents[i] # None, t.agents[i] = None
               PROVE  s.agents[i].player = b.player /\ Why(f, n, t, KeyOf(s.agents[i]))
    BY DEF Gone
  <2>1. u.agents[i] = None BY <1>12
  <2>2. KeyOf(s.agents[i]) = <<b.player, Cancels[b.effect]>> BY <1>3, <2>1
  <2>3. s.agents[i].player = b.player BY <2>2 DEF KeyOf
  <2>4. b.effect \in Effect /\ KeyOf(b) = <<b.player, b.effect>>
    BY <1>1, BuffTypes DEF KeyOf
  <2>5. ~(b.id <= n) BY <1>5
  <2> DEFINE k == KeyOf(s.agents[i])
  <2>6. k[1] = b.player /\ k[2] = Cancels[b.effect] BY <2>2
  <2> HIDE DEF k, n
  <2>7. t.registered[f][<<k[1], b.effect>>] = b.id BY <1>9, <2>4, <2>6
  <2>8. Why(f, n, t, k) BY <1>1, <2>4, <2>5, <2>6, <2>7 DEF Why
  <2> QED BY <2>3, <2>8 DEF k
<1>14. Stay(n, s, t) BY <1>3, <1>12 DEF Stay
<1> QED BY <1>11, <1>13, <1>14 DEF Just

(* apply_status/2 gives what it records.                                   *)
LEMMA GivenJust ==
    ASSUME NEW f \in Field, NEW s, NEW out, Sound(f, s, out),
           NEW b, Over(b, s), s.agents[b.id].amount = 0, NEW amount \in Int,
           NEW t, t = Given(s, b, amount), NEW p
    PROVE  /\ Just(f, b.id - 1, p, s, t)
           /\ Exact([b EXCEPT !.amount = amount], t, b.id - 1)
<1> DEFINE c == [b EXCEPT !.amount = amount]
           n == b.id - 1
<1>1. b \in Buff /\ b.id \in Id /\ b.player \in Player /\ s \in Parts
  BY BuffTypes DEF IsBuff, Over, Sound
<1>2. c \in Buff /\ c.id = b.id /\ c.amount = amount /\ c.player = b.player
  BY <1>1 DEF Buff
<1>3. ~(b.id <= n) /\ \A i \in Id : i <= n => i # b.id BY <1>1 DEF Id
<1>4. CASE amount = 0
  <2>1. t = s BY <1>4 DEF Given
  <2>2. Even(n, s, t) /\ Same(s, t) BY <1>1, <2>1, Alike DEF Same, Owned
  <2>3. Just(f, n, p, s, t) BY <1>1, <2>1, <2>2, JustSame
  <2> QED BY <1>2, <1>3, <1>4, <2>1, <2>3 DEF Exact
<1>5. CASE amount # 0
  <2> HIDE DEF c
  <2> DEFINE u == Modified(s, b.player, amount)
  <2>1. Owned(u, t) /\ t.agents = [s.agents EXCEPT ![b.id] = c]
    <3>1. u \in Parts /\ Alone(s, u) BY <1>1, ModifiedIs
    <3>2. t = [u EXCEPT !.agents[b.id] = c] BY <1>5 DEF Given, c
    <3> HIDE DEF u
    <3> QED BY <3>1, <3>2 DEF Parts, Alone, Owned
  <2> DEFINE A == s.agents
             B == t.agents
  <2>2. A \in [Id -> Buff \cup {None}] BY <1>1 DEF Parts
  <2>3. But(b.id, A, B) /\ B[b.id] = c BY <1>1, <1>2, <2>1, <2>2 DEF But
  <2>4. Exact(c, t, n) BY <1>2, <1>3, <2>3 DEF Exact
  <2>5. \A i \in Id : i <= n => t.agents[i] = s.agents[i] BY <1>3, <2>3 DEF But
  <2>6. Gone(f, n, p, s, t) BY <2>5 DEF Gone
  <2>7. Stay(n, s, t)
    <3> SUFFICES ASSUME NEW i \in Id, s.agents[i] # None
                 PROVE  s.agents[i].end >= s.agents[i].end
      BY <2>5 DEF Stay
    <3>1. s.agents[i].end \in Int BY <2>2, BuffTypes
    <3> QED BY <3>1
  <2>8. Paid(s, t)
    <3> SUFFICES ASSUME NEW q \in Player
                 PROVE  Repaid(s, t, q)
      BY DEF Paid
    <3>1. /\ A[b.id] # None /\ B[b.id] # None /\ A[b.id].player = b.player
          /\ B[b.id].player = A[b.id].player
          /\ A[b.id].amount = 0 /\ B[b.id].amount = amount
      BY <1>2, <2>3, BuffTypes DEF Over, KeyOf
    <3> HIDE DEF A, B
    <3>2. Total(A, q) \in Int BY <2>2, TotalType
    <3>3. /\ q = A[b.id].player => Total(B, q) = Total(A, q) + B[b.id].amount - A[b.id].amount
          /\ q # A[b.id].player => Total(B, q) = Total(A, q)
      BY <1>1, <2>2, <2>3, <3>1, TotalMore
    <3>4. /\ q = b.player => Total(B, q) = Total(A, q) + amount
          /\ q # b.player => Total(B, q) = Total(A, q)
      BY <3>1, <3>2, <3>3
    <3>5. /\ q = b.player => Total(t.agents, q) = Total(s.agents, q) + amount
          /\ q # b.player => Total(t.agents, q) = Total(s.agents, q)
      BY <3>4 DEF A, B
    <3>6. u = Modified(s, b.player, amount) OBVIOUS
    <3> HIDE DEF u
    <3> QED BY <1>1, <2>1, <3>5, <3>6, RepaidModified
  <2> QED BY <2>4, <2>6, <2>7, <2>8 DEF Just, c
<1> QED BY <1>4, <1>5

\* Buff b with its stats.
Worth(b, amount) == [b EXCEPT !.amount = amount]

(* What must hold of a field, and of a new buff b, for b to be started.    *)
Fresh(f, s, out, b) ==
    /\ Sound(f, s, out) /\ IsBuff(b) /\ b.id = s.count[f]
    /\ s.agents[b.id] = None /\ s.registered[f][KeyOf(b)] = None /\ b.amount = 0

(* What then holds of the field t with b started, worth as much as c.      *)
Born(f, s, out, b, t, c) ==
    /\ Sound(f, t, out \cup {b.id}) /\ t.count = s.count
    /\ Keep(b.id - 1, s, t) /\ Just(f, b.id - 1, b.player, s, t)
    /\ Over(c, t) /\ Exact(c, t, b.id - 1) /\ t.registered[f][KeyOf(b)] = b.id
    /\ c.id = b.id /\ KeyOf(c) = KeyOf(b)

(* A new buff with its stats.                                              *)
LEMMA BornJust ==
    ASSUME NEW f \in Field, NEW s, NEW out, NEW b, Fresh(f, s, out, b), now \in Nat,
           NEW amount \in Int
    PROVE  Born(f, s, out, b, Given(Started(s, f, b), b, amount), Worth(b, amount))
<1> DEFINE t == Given(Started(s, f, b), b, amount)
           c == Worth(b, amount)
           u == Started(s, f, b)
           n == b.id - 1
           more == out \cup {b.id}
<1>0. /\ Sound(f, s, out) /\ IsBuff(b) /\ b.id = s.count[f]
      /\ s.agents[b.id] = None /\ s.registered[f][KeyOf(b)] = None /\ b.amount = 0
  BY DEF Fresh
<1>1. b \in Buff /\ b.id \in Id /\ b # None /\ KeyOf(b) \in Key BY <1>0, BuffTypes DEF IsBuff
<1>2. c \in Buff /\ IsBuff(c) /\ c.id = b.id /\ KeyOf(c) = KeyOf(b)
  BY <1>0, <1>1 DEF IsBuff, Buff, KeyOf, Worth
<1>3. u = Started(s, f, b) /\ t = Given(u, b, amount) /\ c = Worth(b, amount) OBVIOUS
<1> HIDE DEF u, t, c
<1>4. /\ Sound(f, u, out \cup {b.id}) /\ u.count = s.count
      /\ Keep(b.id - 1, s, u) /\ Spare(Cancels[b.effect], s, u)
      /\ u.agents[b.id] = b
  BY <1>0, <1>3, StartedIs
<1>5. Just(f, b.id - 1, b.player, s, u) BY <1>0, <1>3, StartedJust
<1>6. Over(b, u) /\ u.agents[b.id].amount = 0 BY <1>0, <1>1, <1>4 DEF Over
<1> HIDE DEF more
<1>7. Sound(f, u, more) BY <1>4 DEF more
<1>8. Sound(f, t, more) /\ Same(u, t) BY <1>3, <1>6, <1>7, GivenIs
<1> DEFINE p == b.player
<1> HIDE DEF p
<1>9. Just(f, b.id - 1, p, u, t) /\ Exact([b EXCEPT !.amount = amount], t, b.id - 1)
  BY <1>3, <1>6, <1>7, GivenJust
<1>10. Over(c, t) BY <1>1, <1>2, <1>4, <1>8 DEF Over, Same
<1>11. t.registered[f][KeyOf(b)] = b.id BY <1>1, <1>4, <1>7, <1>8 DEF Same, Sound, Agree
<1> HIDE DEF n
<1>12. Keep(n, s, u) /\ Keep(n, u, t) BY <1>4, <1>8, SameKeeps DEF n
<1>13. Keep(n, s, t) BY <1>12 DEF Keep
<1>14. s \in Parts /\ u \in Parts /\ t \in Parts BY <1>0, <1>7, <1>8 DEF Sound
<1>15. \A k \in Key : Why(f, n, u, k) => Why(f, n, t, k) BY <1>8 DEF Why, Same
<1>16. Just(f, n, p, s, u) /\ Just(f, n, p, u, t) BY <1>5, <1>9 DEF n, p
<1>17. Just(f, n, p, s, t) BY <1>12, <1>14, <1>15, <1>16, JustAgain
<1>18. t.count = s.count BY <1>4, <1>8 DEF Same
<1>19. /\ Sound(f, t, more) /\ Over(c, t) /\ Exact(c, t, n)
       /\ t.registered[f][KeyOf(b)] = b.id /\ c.id = b.id /\ KeyOf(c) = KeyOf(b)
  BY <1>2, <1>3, <1>8, <1>9, <1>10, <1>11 DEF n, Worth
<1>20. Born(f, s, out, b, t, c) BY <1>13, <1>17, <1>18, <1>19 DEF n, p, more, Born
<1> QED BY <1>20 DEF t, c

(* fire_skills/2: what goes was cancelled by the effect that is fired.     *)
LEMMA FiredJust ==
    ASSUME NEW f \in Field, NEW s, NEW out, Sound(f, s, out), now \in Nat,
           s.count[f] + 1 <= MaxIds, NEW b, b.player \in Player, b.effect \in Effect,
           NEW amounts \in Amounts,
           NEW t, t = Fired(s, f, b, amounts)
    PROVE  Just(f, s.count[f], b.player, s, t)
<1>0. s.count[f] \in Nat /\ s \in Parts BY DEF Sound, Parts
<1>1. CASE Fires[b.effect] = None
  <2>1. t = s BY <1>1 DEF Fired
  <2> DEFINE n == s.count[f]
             p == b.player
  <2>2. Even(n, s, t) /\ Same(s, t) BY <1>0, <2>1, Alike DEF Same, Owned
  <2> HIDE DEF n, p
  <2>3. Just(f, n, p, s, t) BY <1>0, <2>1, <2>2, JustSame
  <2> QED BY <2>3 DEF n, p
<1>2. CASE Fires[b.effect] # None
  <2> DEFINE e == Fires[b.effect]
             c == FreshBuff(NextId(s, f), b.player, e)
             u == Allocated(s, f)
             id == u.registered[f][KeyOf(c)]
             amount == amounts[c.effect]
             w == Given(Started(u, f, c), c, amount)
             d == [c EXCEPT !.amount = amount]
             n == s.count[f]
             p == b.player
  <2>1. e \in Effect BY <1>2, EffectsAssumption
  <2>2. /\ Sound(f, u, out) /\ u.count[f] = s.count[f] + 1
        /\ u.agents = s.agents /\ u.registered = s.registered
        /\ u.count[f] \in Id /\ u.agents[u.count[f]] = None
    BY AllocatedIs
  <2>3. Owned(s, u) BY <1>0 DEF Allocated, Parts, Owned
  <2>4. NextId(s, f) = u.count[f] BY <2>2 DEF NextId
  <2>5. now \in Int /\ now + Duration[e] \in Int BY <2>1, EffectsAssumption
  <2>6. /\ IsBuff(c) /\ c.id = u.count[f] /\ c.effect = e /\ KeyOf(c) = <<b.player, e>>
        /\ c.amount = 0
    <3>1. c.amount = 0 BY DEF FreshBuff, NewBuff
    <3>2. IsBuff(c) /\ c.id = u.count[f] /\ c.effect = e /\ KeyOf(c) = <<b.player, e>>
      BY <2>1, <2>2, <2>4, <2>5, NewBuffIs DEF FreshBuff
    <3> QED BY <3>1, <3>2
  <2>7. amount \in Int BY <2>1, <2>6, EffectsAssumption
  <2>8. c \in Buff /\ KeyOf(c) \in Key /\ c.player = p
    BY <2>6, BuffTypes DEF IsBuff, KeyOf
  <2>9. t = IF id # None THEN Refreshed(u, f, id, 0) ELSE Planned(w, f, d)
    BY <1>2 DEF Fired
  <2>10. d = Worth(c, amount) BY DEF Worth
  <2>11. u \in Parts BY <2>2 DEF Sound
  <2>12. c.id - 1 = n BY <1>0, <2>2, <2>6
  <2> HIDE DEF c, u, amount, n, p
  <2>13. Just(f, n, p, u, t) => Just(f, n, p, s, t) BY <2>2, <2>3, JustFrom
  <2>14. CASE id # None
    <3>1. id \in Id /\ u.agents[id] # None
      BY <2>2, <2>8, <2>14 DEF Sound, Parts, Agree
    <3> HIDE DEF id
    <3>2. t = Refreshed(u, f, id, 0) /\ 0 \in Int BY <2>9, <2>14
    <3>3. Sound(f, t, out) /\ Same(u, t) BY <2>2, <3>1, <3>2, RefreshedIs
    <3>4. Even(n, u, t) BY <2>2, <3>1, <3>2, RefreshedEven
    <3>5. Just(f, n, p, u, t) BY <2>11, <3>3, <3>4, JustSame DEF Sound
    <3> QED BY <2>13, <3>5 DEF n, p
  <2>15. CASE id = None
    <3>1. t = Planned(w, f, d) BY <2>9, <2>15
    <3> DEFINE more == out \cup {c.id}
    <3>2. w = Given(Started(u, f, c), c, amount) OBVIOUS
    <3> HIDE DEF w, d
    <3>3. /\ Sound(f, w, out \cup {c.id}) /\ w.count = u.count
          /\ Keep(c.id - 1, u, w) /\ Just(f, c.id - 1, c.player, u, w)
          /\ Over(d, w) /\ Exact(d, w, c.id - 1) /\ w.registered[f][KeyOf(c)] = c.id
          /\ d.id = c.id /\ KeyOf(d) = KeyOf(c)
      <4>1. Fresh(f, u, out, c) /\ amount \in Int
        BY <2>2, <2>6, <2>7, <2>15 DEF Fresh
      <4>2. w = Given(Started(u, f, c), c, amount) /\ d = Worth(c, amount)
        BY <2>10, <3>2
      <4>3. Born(f, u, out, c, Given(Started(u, f, c), c, amount), Worth(c, amount))
        BY <4>1, BornJust
      <4>4. Born(f, u, out, c, w, d) BY <4>2, <4>3
      <4> QED BY <4>4 DEF Born
    <3>4. Sound(f, w, more) /\ more \subseteq out \cup {d.id} BY <3>3
    <3>5. Just(f, n, p, u, w) /\ Keep(n, u, w) /\ Exact(d, w, n) BY <2>8, <2>12, <3>3
    <3> HIDE DEF more
    <3>6. Sound(f, t, out) /\ Same(w, t) BY <3>1, <3>3, <3>4, PlannedIs
    <3>7. w \in Parts /\ t \in Parts BY <3>4, <3>6 DEF Sound
    <3>8. Even(n, w, t) BY <3>1, <3>3, <3>5, <3>7, PlannedEven
    <3>9. Just(f, n, p, w, t) BY <3>6, <3>7, <3>8, JustSame
    <3>10. Keep(n, w, t) BY <3>6, SameKeeps
    <3>11. \A k \in Key : Why(f, n, w, k) => Why(f, n, t, k) BY <3>6 DEF Why, Same
    <3>12. Just(f, n, p, u, t)
      BY <2>11, <3>5, <3>7, <3>9, <3>10, <3>11, JustAgain
    <3> QED BY <2>13, <3>12 DEF n, p
  <2> QED BY <2>14, <2>15
<1> QED BY <1>1, <1>2

(* modify_overlap/2.                                                       *)
LEMMA OverlappedJust ==
    ASSUME NEW f \in Field, NEW s, NEW out, Sound(f, s, out), now \in Nat,
           s.count[f] + 1 <= MaxIds, NEW b, Over(b, s),
           NEW amounts \in Amounts,
           NEW t, t = Overlapped(s, f, b, amounts)
    PROVE  Just(f, s.count[f], b.player, s, t)
<1> DEFINE id == s.registered[f][<<b.player, Overlaps[b.effect]>>]
           target == s.agents[id]
           stacks == AtMost(AtLeast(target.stacks + Offset[b.effect], 0),
                            MaxCount[target.effect])
           u == [s EXCEPT !.agents[id].stacks = stacks]
           n == s.count[f]
           p == b.player
<1>0. s.count[f] \in Nat /\ s \in Parts /\ Agree(f, s) BY DEF Sound, Parts
<1>1. b \in Buff /\ b.effect \in Effect /\ b.player \in Player
  BY BuffTypes DEF Over, IsBuff
<1>3. CASE Overlaps[b.effect] = None \/ id = None \/ target = None
  <2>1. t = s BY <1>3 DEF Overlapped
  <2>2. Even(n, s, t) /\ Same(s, t) BY <1>0, <2>1, Alike DEF Same, Owned
  <2> HIDE DEF n, p
  <2>3. Just(f, n, p, s, t) BY <1>0, <2>1, <2>2, JustSame
  <2> QED BY <2>3 DEF n, p
<1>4. CASE ~(Overlaps[b.effect] = None \/ id = None \/ target = None)
  <2> DEFINE e == Overlaps[b.effect]
             c == [target EXCEPT !.stacks = stacks]
  <2>1. e \in Effect /\ e # None BY <1>1, <1>4, EffectsAssumption
  <2>2. <<b.player, e>> \in Key BY <1>1, <2>1 DEF Key
  <2>3. id \in Id /\ KeyOf(target) = <<b.player, e>> /\ target.id = id /\ IsBuff(target)
    BY <1>0, <1>4, <2>2 DEF Parts, Agree
  <2>4. /\ target \in Buff /\ target.effect = e /\ target.player = b.player
        /\ target.stacks \in Nat
    BY <2>3, BuffTypes DEF IsBuff, KeyOf
  <2>5. target.end \in Int BY <2>4, BuffTypes
  <2>6. MaxCount[target.effect] \in Nat /\ Offset[b.effect] \in Int
    BY <1>1, <2>1, <2>4, EffectsAssumption
  <2>7. stacks \in Nat /\ stacks <= MaxCount[target.effect]
    <3>1. \A k, cap \in Nat, o \in Int :
             /\ AtMost(AtLeast(k + o, 0), cap) \in Nat
             /\ AtMost(AtLeast(k + o, 0), cap) <= cap
      BY DEF AtMost, AtLeast
    <3> HIDE DEF target
    <3> QED BY <2>4, <2>6, <3>1
  <2> HIDE DEF stacks
  <2>8. /\ c \in Buff /\ c.id = id /\ KeyOf(c) = KeyOf(target) /\ IsBuff(c)
        /\ c.amount = target.amount /\ c.end = target.end
    BY <2>3, <2>4, <2>7 DEF IsBuff, Buff, KeyOf
  <2>9. u = [s EXCEPT !.agents = [s.agents EXCEPT ![id] = c]]
    BY <1>0, <2>3, <2>4 DEF Parts
  <2>10. t = IF stacks <= 0 THEN Dropped(u, f, id, FALSE)
             ELSE IF Capped(s, u, id) THEN Fired(u, f, target, amounts)
             ELSE u
    BY <1>4 DEF Overlapped, stacks
  <2>11. Over(c, s) /\ Exact(c, s, n)
    <3>1. Over(c, s) BY <1>4, <2>3, <2>8 DEF Over
    <3>2. s.agents[c.id] = target
      <4> HIDE DEF c
      <4> QED BY <2>8
    <3> HIDE DEF c, target
    <3>3. c.end >= target.end BY <2>5, <2>8
    <3>4. Exact(c, s, n) BY <2>8, <3>2, <3>3 DEF Exact
    <3> QED BY <3>1, <3>4
  <2> HIDE DEF c, u, id
  <2>12. /\ u.count = s.count /\ u.registered = s.registered /\ u.timers = s.timers
         /\ u.agents = [s.agents EXCEPT ![c.id] = c] /\ Owned(s, u)
    BY <1>0, <2>8, <2>9 DEF Parts, Owned
  <2>13. u \in Parts
    <3>1. u.agents \in [Id -> Buff \cup {None}] BY <1>0, <2>8, <2>12 DEF Parts
    <3> QED BY <1>0, <2>9, <2>12, <3>1 DEF Parts
  <2>14. Mail(f, s, u, out, out) BY <2>12 DEF Mail
  <2>15. Sound(f, u, out) /\ Same(s, u) BY <2>11, <2>12, <2>13, <2>14, Rewritten
  <2>16. target.player = p /\ u.count[f] = n BY <2>4, <2>12
  <2> HIDE DEF n, p
  <2>17. Even(n, s, u) BY <1>0, <2>11, <2>12, RewrittenEven
  <2>18. Just(f, n, p, s, u) /\ Keep(n, s, u)
    BY <1>0, <2>13, <2>15, <2>17, JustSame, SameKeeps
  <2>19. ASSUME Just(f, n, p, u, t), Keep(n, u, t), t \in Parts
         PROVE  Just(f, n, p, s, t)
    <3>1. \A k \in Key : ~Why(f, n, u, k) BY <2>15, <2>16, NoneNew
    <3> QED BY <1>0, <2>13, <2>18, <2>19, <3>1, JustAgain
  <2>20. CASE stacks <= 0
    <3> DEFINE force == FALSE
    <3>1. t = Dropped(u, f, id, force) BY <2>10, <2>20
    <3>2. ~force OBVIOUS
    <3> HIDE DEF force
    <3>3. out \subseteq out \cup {id} OBVIOUS
    <3>4. /\ Sound(f, t, out) /\ t.count = u.count /\ \A m : Keep(m, u, t)
          /\ \A i \in Id : i # id /\ u.agents[i] # None => t.agents[i] # None
      BY <2>3, <2>15, <3>1, <3>3, DroppedIs
    <3>5. Just(f, n, p, u, t) BY <2>3, <2>15, <3>1, <3>2, DroppedJust
    <3>6. Just(f, n, p, s, t) BY <2>19, <3>4, <3>5 DEF Sound
    <3> QED BY <3>6 DEF n, p
  <2>21. CASE ~(stacks <= 0) /\ Capped(s, u, id)
    <3>1. t = Fired(u, f, target, amounts) BY <2>10, <2>21
    <3>2. u.count[f] + 1 <= MaxIds BY <2>12
    <3>3. target.player \in Player /\ target.effect \in Effect
      BY <1>1, <2>1, <2>4
    <3> HIDE DEF target
    <3>4. /\ Sound(f, t, out) /\ t.count[f] \in Nat /\ u.count[f] \in Nat
          /\ t.count[f] <= u.count[f] + 1 /\ u.count[f] <= t.count[f]
          /\ Keep(u.count[f], u, t)
          /\ Fires[target.effect] # None => Spare(Cancels[Fires[target.effect]], u, t)
          /\ Fires[target.effect] = None => t = u
      BY <2>15, <3>1, <3>2, <3>3, FiredIs
    <3>5. Just(f, u.count[f], target.player, u, t)
      BY <2>15, <3>1, <3>2, <3>3, FiredJust
    <3>6. Just(f, n, p, s, t) BY <2>16, <2>19, <3>4, <3>5 DEF Sound
    <3> QED BY <3>6 DEF n, p
  <2>22. CASE ~(stacks <= 0) /\ ~Capped(s, u, id)
    <3>1. t = u BY <2>10, <2>22
    <3> QED BY <2>18, <3>1 DEF n, p
  <2> QED BY <2>20, <2>21, <2>22
<1> QED BY <1>3, <1>4

(* create_buff/3.                                                          *)
LEMMA CreatedJust ==
    ASSUME NEW f \in Field, NEW s, NEW out, Sound(f, s, out), now \in Nat,
           s.count[f] + 1 <= MaxIds,
           NEW b, IsBuff(b), b.id = s.count[f], s.agents[b.id] = None,
           s.registered[f][KeyOf(b)] = None, b.amount = 0,
           NEW status, NEW amounts \in Amounts,
           NEW t, t = Created(s, f, b, status, amounts)
    PROVE  Just(f, s.count[f] - 1, b.player, s, t)
<1> DEFINE amount == IF status THEN amounts[b.effect] ELSE 0
           v == Given(Started(s, f, b), b, amount)
           c == [b EXCEPT !.amount = amount]
           w == Overlapped(v, f, c, amounts)
           more == out \cup {b.id}
           n == s.count[f] - 1
           p == b.player
<1>1. b \in Buff /\ b.effect \in Effect /\ b.id \in Id BY BuffTypes DEF IsBuff
<1>2. amount \in Int BY <1>1, EffectsAssumption
<1>3. t = Planned(w, f, c) BY DEF Created
<1>4. v = Given(Started(s, f, b), b, amount) /\ c = Worth(b, amount) BY DEF Worth
<1> HIDE DEF v, c, amount
<1>5. /\ Sound(f, v, out \cup {b.id}) /\ v.count = s.count
      /\ Keep(b.id - 1, s, v) /\ Just(f, b.id - 1, b.player, s, v)
      /\ Over(c, v) /\ Exact(c, v, b.id - 1) /\ v.registered[f][KeyOf(b)] = b.id
      /\ c.id = b.id /\ KeyOf(c) = KeyOf(b)
  <2>1. Fresh(f, s, out, b) BY DEF Fresh
  <2>2. Born(f, s, out, b, Given(Started(s, f, b), b, amount), Worth(b, amount))
    BY <1>2, <2>1, BornJust
  <2>3. Born(f, s, out, b, v, c) BY <1>4, <2>2
  <2> QED BY <2>3 DEF Born
<1>6. c.player = p /\ b.id - 1 = n /\ v.count[f] = b.id BY <1>5 DEF KeyOf
<1>7. Sound(f, v, more) /\ more \subseteq out \cup {c.id} BY <1>5
<1>8. v.count[f] + 1 <= MaxIds BY <1>5
<1> HIDE DEF more, w, n, p
<1>9. w = Overlapped(v, f, c, amounts) BY DEF w
<1>10. /\ Sound(f, w, more) /\ w.count[f] \in Nat /\ v.count[f] \in Nat
       /\ w.count[f] <= v.count[f] + 1 /\ v.count[f] <= w.count[f]
       /\ Keep(v.count[f], v, w) /\ Over(c, w)
  BY <1>5, <1>7, <1>8, <1>9, OverlappedIs
<1>11. Just(f, v.count[f], c.player, v, w)
  BY <1>5, <1>7, <1>8, <1>9, OverlappedJust
<1>12. Sound(f, t, out) /\ Same(w, t) BY <1>3, <1>7, <1>10, PlannedIs
<1>13. v \in Parts /\ w \in Parts /\ t \in Parts BY <1>7, <1>10, <1>12 DEF Sound
<1>14. n \in Int /\ n <= v.count[f] /\ v.count[f] \in Int BY <1>6, <1>10
<1>15. Just(f, n, p, v, w) BY <1>6, <1>11, <1>14, JustLess
<1>16. Keep(n, v, w) BY <1>10, <1>14 DEF Keep, Id
<1>17. Exact(c, w, n)
  <2>1. v.agents[b.id] # None /\ w.agents[b.id] # None /\ b.id <= v.count[f]
    BY <1>5, <1>6, <1>10 DEF Over
  <2>2. w.agents[b.id].amount = v.agents[b.id].amount
    BY <1>1, <1>11, <2>1 DEF Just, Stay
  <2>3. ~(b.id <= n) BY <1>6, <1>10
  <2> QED BY <1>5, <2>2, <2>3 DEF Exact
<1>18. Even(n, w, t) BY <1>3, <1>10, <1>13, <1>17, PlannedEven
<1>19. Just(f, n, p, w, t) BY <1>12, <1>13, <1>18, JustSame
<1>20. Keep(n, w, t) BY <1>12, SameKeeps
<1>21. \A k \in Key : Why(f, n, w, k) => Why(f, n, t, k) BY <1>12 DEF Why, Same
<1>22. Just(f, n, p, v, t) BY <1>13, <1>15, <1>16, <1>19, <1>20, <1>21, JustAgain
<1>23. Keep(n, v, t) BY <1>16, <1>20 DEF Keep
<1>24. ASSUME NEW k \in Key, Why(f, n, v, k) PROVE Why(f, n, t, k)
  <2>1. PICK e \in Effect : /\ Cancels[e] = k[2]
                            /\ v.registered[f][<<k[1], e>>] \in Id
                            /\ ~(v.registered[f][<<k[1], e>>] <= n)
    BY <1>24 DEF Why
  <2> DEFINE j == <<k[1], e>>
             i == v.registered[f][j]
  <2>2. j \in Key BY DEF Key
  <2>3. i # None BY <2>1, EffectsAssumption DEF Id
  <2>4. i \in Id /\ ~(i <= n) BY <2>1
  <2>5. v.agents[i] # None /\ KeyOf(v.agents[i]) = j
    BY <1>7, <2>2, <2>3 DEF Sound, Agree
  <2> HIDE DEF i, j
  <2>6. i <= v.count[f] BY <1>7, <2>4, <2>5 DEF Sound, Agree
  <2>7. i = b.id BY <1>6, <1>10, <2>4, <2>6 DEF Id
  <2>8. KeyOf(c) = j BY <1>5, <2>5, <2>7 DEF Over
  <2>9. t.agents[b.id] # None /\ KeyOf(t.agents[b.id]) = j
    BY <1>1, <1>5, <1>10, <1>12, <2>8 DEF Over, Same
  <2>10. t.registered[f][j] = i BY <1>1, <1>12, <2>7, <2>9 DEF Sound, Agree
  <2> QED BY <2>1, <2>4, <2>10 DEF Why, j
<1>25. Just(f, n, p, s, v) /\ Keep(n, s, v) BY <1>5, <1>6 DEF p
<1>26. \A k \in Key : Why(f, n, v, k) => Why(f, n, t, k) BY <1>24
<1>27. s \in Parts BY DEF Sound
<1>28. Just(f, n, p, s, t)
  BY <1>13, <1>22, <1>23, <1>25, <1>26, <1>27, JustAgain
<1> QED BY <1>28 DEF n, p

(* stack_buff/3.                                                           *)
LEMMA StackedJust ==
    ASSUME NEW f \in Field, NEW s, NEW out, Sound(f, s, out), now \in Nat,
           s.count[f] + 1 <= MaxIds,
           NEW id \in Id, s.agents[id] # None, NEW overlap \in Int,
           NEW amounts \in Amounts,
           NEW t, t = Stacked(s, f, id, overlap, amounts)
    PROVE  Just(f, s.count[f], s.agents[id].player, s, t)
<1> DEFINE u == Refreshed(s, f, id, overlap)
           b == u.agents[id]
           n == s.count[f]
           p == s.agents[id].player
<1>1. Sound(f, u, out) /\ Same(s, u) BY RefreshedIs
<1>2. Even(n, s, u)
  <2> HIDE DEF u, n
  <2>1. u = Refreshed(s, f, id, overlap) BY DEF u
  <2> QED BY <2>1, RefreshedEven
<1> HIDE DEF u
<1>3. u.agents[id] # None /\ KeyOf(b) = KeyOf(s.agents[id]) BY <1>1 DEF Same
<1>4. b.player \in Player /\ b.effect \in Effect
  BY <1>1, <1>3, BuffTypes DEF Sound, Agree, IsBuff
<1>5. b.player = p BY <1>3 DEF KeyOf
<1>6. u.count[f] = n BY <1>1 DEF Same
<1>7. t = IF Capped(s, u, id) THEN Fired(u, f, b, amounts) ELSE u
  BY DEF Stacked, u
<1>8. s \in Parts /\ u \in Parts BY <1>1 DEF Sound
<1>9. n + 1 <= MaxIds OBVIOUS
<1> HIDE DEF b, n, p
<1>10. Just(f, n, p, s, u) /\ Keep(n, s, u) BY <1>1, <1>2, <1>8, JustSame, SameKeeps
<1>11. CASE Capped(s, u, id)
  <2>1. t = Fired(u, f, b, amounts) /\ u.count[f] + 1 <= MaxIds BY <1>6, <1>7, <1>9, <1>11
  <2>2. /\ Sound(f, t, out)
        /\ t.count[f] \in Nat /\ u.count[f] \in Nat /\ t.count[f] <= u.count[f] + 1
        /\ u.count[f] <= t.count[f]
        /\ Keep(u.count[f], u, t)
        /\ Fires[b.effect] # None => Spare(Cancels[Fires[b.effect]], u, t)
        /\ Fires[b.effect] = None => t = u
    BY <1>1, <1>4, <2>1, FiredIs
  <2>3. Just(f, u.count[f], b.player, u, t) BY <1>1, <1>4, <2>1, FiredJust
  <2>4. Just(f, n, p, u, t) /\ Keep(n, u, t) /\ t \in Parts
    BY <1>5, <1>6, <2>2, <2>3 DEF Sound
  <2>5. \A k \in Key : ~Why(f, n, u, k) BY <1>1, <1>6, NoneNew
  <2>6. Just(f, n, p, s, t) BY <1>8, <1>10, <2>4, <2>5, JustAgain
  <2> QED BY <2>6 DEF n, p
<1>12. CASE ~Capped(s, u, id)
  <2>1. t = u BY <1>7, <1>12
  <2> QED BY <1>10, <2>1 DEF n, p
<1> QED BY <1>11, <1>12

(* apply_buff/3.                                                           *)
LEMMA AppliedJust ==
    ASSUME NEW f \in Field, NEW s, NEW out, Sound(f, s, out), now \in Nat,
           s.count[f] + 1 <= MaxIds,
           NEW b, IsBuff(b), b.id = s.count[f], s.agents[b.id] = None, b.amount = 0,
           NEW status, NEW overlap \in Int, NEW amounts \in Amounts,
           NEW t, t = Applied(s, f, b, status, overlap, amounts)
    PROVE  Just(f, s.count[f] - 1, b.player, s, t)
<1> DEFINE id == s.registered[f][KeyOf(b)]
<1>1. CASE id = None
  <2>1. t = Created(s, f, b, status, amounts) BY <1>1 DEF Applied
  <2> QED BY <1>1, <2>1, CreatedJust
<1>2. CASE id # None
  <2>1. t = Stacked(s, f, id, overlap, amounts) BY <1>2 DEF Applied
  <2>2. KeyOf(b) \in Key BY BuffTypes DEF IsBuff
  <2>3. id \in Id /\ s.agents[id] # None /\ KeyOf(s.agents[id]) = KeyOf(b)
    BY <1>2, <2>2 DEF Sound, Parts, Agree
  <2>4. s.agents[id].player = b.player BY <2>3 DEF KeyOf
  <2> HIDE DEF id
  <2>5. Just(f, s.count[f], s.agents[id].player, s, t) BY <2>1, <2>3, StackedJust
  <2>6. s.count[f] \in Nat BY DEF Sound, Parts
  <2> DEFINE n == s.count[f]
             m == s.count[f] - 1
             p == b.player
  <2>7. m \in Int /\ n \in Int /\ m <= n BY <2>6
  <2>8. Just(f, n, p, s, t) BY <2>4, <2>5
  <2> HIDE DEF n, m, p
  <2>9. Just(f, m, p, s, t) BY <2>7, <2>8, JustLess
  <2> QED BY <2>9 DEF m, p
<1> QED BY <1>1, <1>2

(* A buff of the next id.                                                  *)
LEMMA AddedJust ==
    ASSUME NEW f \in Field, NEW s, NEW out, Sound(f, s, out), now \in Nat,
           s.count[f] + 2 <= MaxIds,
           NEW p \in Player, NEW e \in Effect, NEW start \in Int, NEW end \in Int,
           NEW status, NEW overlap \in Int, NEW amounts \in Amounts,
           NEW b, b = NewBuff(NextId(s, f), p, e, start, end),
           NEW t, t = Applied(Allocated(s, f), f, b, status, overlap, amounts)
    PROVE  Just(f, s.count[f], p, s, t)
<1> DEFINE u == Allocated(s, f)
<1>1. MaxIds \in Nat BY EffectsAssumption
<1>2. s.count[f] \in Nat /\ s \in Parts BY DEF Sound, Parts
<1>3. /\ Sound(f, u, out) /\ u.count[f] = s.count[f] + 1
      /\ u.agents = s.agents /\ u.registered = s.registered
      /\ u.count[f] \in Id /\ u.agents[u.count[f]] = None
  BY <1>1, <1>2, AllocatedIs
<1>4. NextId(s, f) = u.count[f] /\ Owned(s, u)
  BY <1>2, <1>3 DEF NextId, Allocated, Parts, Owned
<1>5. b.amount = 0 BY DEF NewBuff
<1> HIDE DEF u
<1>6. IsBuff(b) /\ b.id = u.count[f] /\ KeyOf(b) = <<p, e>>
  BY <1>3, <1>4, NewBuffIs
<1>7. u.count[f] + 1 <= MaxIds /\ u.agents[b.id] = None BY <1>1, <1>2, <1>3, <1>6
<1>8. t = Applied(u, f, b, status, overlap, amounts) BY DEF u
<1>9. Just(f, u.count[f] - 1, b.player, u, t)
  BY <1>3, <1>5, <1>6, <1>7, <1>8, AppliedJust
<1>10. u.count[f] - 1 = s.count[f] /\ b.player = p BY <1>2, <1>3, <1>6 DEF KeyOf
<1> DEFINE n == s.count[f]
<1>11. Just(f, n, p, u, t) BY <1>9, <1>10
<1> HIDE DEF n
<1>12. Just(f, n, p, s, t) BY <1>3, <1>4, <1>11, JustFrom
<1> QED BY <1>12 DEF n

(* tick/2 takes and gives nothing.                                         *)
LEMMA TickedEven ==
    ASSUME NEW f \in Field, NEW s, NEW out, Sound(f, s, out), now \in Nat,
           NEW id \in Id, s.agents[id] # None, NEW n,
           NEW t, t = Ticked(s, f, s.agents[id])
    PROVE  Even(n, s, t)
<1> DEFINE b == s.agents[id]
           elapsed == now - b.start
           interval == IntervalTick(b.effect)
           later == [b EXCEPT !.next = @ + interval]
           still == [b EXCEPT !.ticks = FALSE]
           u == [s EXCEPT !.agents = [s.agents EXCEPT ![id] = later]]
           ms == AtLeast(b.next - elapsed, 1)
<1>1. s \in Parts /\ IsBuff(b) /\ b.id = id BY DEF Sound, Agree
<1>2. b \in Buff /\ b.effect \in Effect /\ b.next \in Nat /\ b.end \in Int
  BY <1>1, BuffTypes DEF IsBuff
<1>3. interval \in Nat BY <1>2, EffectsAssumption DEF IntervalTick
<1>4. /\ later \in Buff /\ later.id = id /\ KeyOf(later) = KeyOf(b) /\ IsBuff(later)
      /\ later.amount = b.amount /\ later.end = b.end
  BY <1>1, <1>2, <1>3 DEF IsBuff, Buff, KeyOf
<1>5. /\ still \in Buff /\ still.id = id /\ KeyOf(still) = KeyOf(b) /\ IsBuff(still)
      /\ still.amount = b.amount /\ still.end = b.end
  BY <1>1, <1>2 DEF IsBuff, Buff, KeyOf
<1>6. Over(b, s) /\ Over(later, s) /\ Over(still, s) BY <1>1, <1>4, <1>5 DEF Over
<1>7. [s EXCEPT !.agents[b.id] = later] = u BY <1>1 DEF Parts
<1>8. t = IF ~b.ticks THEN Scheduled(s, f, b)
          ELSE IF elapsed < b.next THEN TickIn(s, f, b, ms)
          ELSE IF b.next + interval > b.end - b.start THEN Scheduled(s, f, still)
          ELSE TickIn(u, f, later, interval)
  BY <1>7 DEF Ticked
<1>9. b.end >= b.end BY <1>2
<1> HIDE DEF later, still, ms
<1>10. Exact(b, s, n) /\ Exact(later, s, n) /\ Exact(still, s, n)
  BY <1>1, <1>4, <1>5, <1>9 DEF Exact
<1>11. Owned(s, u) /\ u.agents = [s.agents EXCEPT ![later.id] = later]
  BY <1>1, <1>4 DEF Parts, Owned
<1>12. u.agents \in [Id -> Buff \cup {None}] BY <1>1, <1>4, <1>11 DEF Parts
<1>13. u \in Parts BY <1>1, <1>12 DEF Parts
<1> HIDE DEF u, b, interval
<1>14. CASE t = Scheduled(s, f, b) BY <1>1, <1>6, <1>10, <1>14, ScheduledEven
<1>15. CASE t = TickIn(s, f, b, ms) BY <1>1, <1>15, TickInEven
<1>16. CASE t = Scheduled(s, f, still) BY <1>1, <1>6, <1>10, <1>16, ScheduledEven
<1>17. CASE t = TickIn(u, f, later, interval)
  <2>1. Owned(u, t) /\ t.agents = u.agents BY <1>13, <1>17 DEF TickIn, Parts, Owned
  <2>2. Owned(s, t) /\ t.agents = [s.agents EXCEPT ![later.id] = later]
    BY <1>11, <2>1 DEF Owned
  <2> QED BY <1>1, <1>6, <1>10, <2>2, RewrittenEven
<1> QED BY <1>8, <1>14, <1>15, <1>16, <1>17

(* remove_owner_buffs/2 of a death.                                        *)
LEMMA AllDroppedJust ==
    ASSUME NEW f \in Field, Sound(f, Now, {}), now \in Nat,
           NEW ids \in SUBSET Id, NEW force, ~force,
           NEW t, t = DropAll(f, ids, force), NEW p
    PROVE  Just(f, count[f], p, Now, t)
<1>1. IsFiniteSet(ids)
  <2>1. IsFiniteSet(Id) BY EffectsAssumption, FS_Interval DEF Id
  <2> QED BY <2>1, FS_Subset
<1> DEFINE n == count[f]
           Kept(u) == /\ Sound(f, u, {}) /\ u.count = count
                      /\ Keep(n, Now, u) /\ Just(f, n, p, Now, u)
<1>2. PICK g : t = g[ids] /\ Drops(f, ids, force, g) BY <1>1, DropAllIs
<1> DEFINE T == {s \in SUBSET ids : Kept(g[s])}
<1>3. Now \in Parts BY DEF Sound
<1>4. {} \in T
  <2> HIDE DEF n
  <2>1. g[{}] = Now BY <1>2 DEF Drops
  <2>2. Now.count = count /\ Same(Now, Now) BY DEF Now, Same
  <2>3. Keep(n, Now, Now) /\ Even(n, Now, Now) BY <1>3, Alike DEF Keep, Owned
  <2>4. Just(f, n, p, Now, Now) BY <1>3, <2>2, <2>3, JustSame
  <2> QED BY <2>1, <2>2, <2>3, <2>4
<1>5. \A s \in SUBSET ids : s # {} => \E x \in s : s \ {x} \in T => s \in T
  <2> SUFFICES ASSUME NEW s \in SUBSET ids, NEW x \in s, Kept(g[s \ {x}]),
                      g[s] = Dropped(g[s \ {x}], f, x, force)
               PROVE  Kept(g[s])
    BY <1>2 DEF Drops
  <2> DEFINE u == g[s \ {x}]
             v == g[s]
             none == {}
  <2>1. v = Dropped(u, f, x, force) OBVIOUS
  <2>2. x \in Id OBVIOUS
  <2>3. none \subseteq none \cup {x} OBVIOUS
  <2>4. u.count[f] = n OBVIOUS
  <2> HIDE DEF u, v, n
  <2>5. /\ Sound(f, u, none) /\ u.count = count
        /\ Keep(n, Now, u) /\ Just(f, n, p, Now, u)
    BY DEF u
  <2> HIDE DEF none
  <2>6. /\ Sound(f, v, none) /\ v.count = u.count /\ \A m : Keep(m, u, v)
        /\ \A i \in Id : i # x /\ u.agents[i] # None => v.agents[i] # None
    BY <2>1, <2>2, <2>3, <2>5, DroppedIs
  <2>7. Just(f, n, p, u, v) BY <2>1, <2>2, <2>5, DroppedJust
  <2>8. u \in Parts /\ v \in Parts /\ Keep(n, u, v) BY <2>5, <2>6 DEF Sound
  <2>9. \A k \in Key : ~Why(f, n, u, k) BY <2>4, <2>5, NoneNew
  <2>10. Just(f, n, p, Now, v) BY <1>3, <2>5, <2>7, <2>8, <2>9, JustAgain
  <2>11. Keep(n, Now, v) BY <2>5, <2>6 DEF Keep
  <2> QED BY <2>5, <2>6, <2>10, <2>11 DEF v, none
<1> HIDE DEF T, Kept
<1>6. ids \in T BY <1>1, <1>4, <1>5, SubsetInd
<1> QED BY <1>2, <1>6 DEF T, Kept

\* Of the first n agents one goes when its end came, or one of player p that
\* some effect cancels.
Fade(n, p, s, t) ==
    /\ Stay(n, s, t)
    /\ \A i \in Id : i <= n /\ s.agents[i] # None /\ t.agents[i] = None =>
          \/ s.agents[i].end <= now
          \/ /\ s.agents[i].player = p
             /\ \E e \in Effect : Cancels[e] = s.agents[i].effect

LEMMA FadeAgain ==
    ASSUME NEW n \in Int, NEW m \in Int, n <= m, NEW f, NEW p, now \in Nat,
           NEW s \in Parts, NEW u \in Parts, NEW t \in Parts,
           Fade(n, p, s, u), Just(f, m, p, u, t), Keep(n, s, u), Keep(m, u, t)
    PROVE  Fade(n, p, s, t)
<1>1. \A i \in Id : i <= n => i <= m BY DEF Id
<1>2. \A i \in Id : /\ s.agents[i] # None => s.agents[i].end \in Int
                    /\ u.agents[i] # None => u.agents[i].end \in Int
                    /\ t.agents[i] # None => t.agents[i].end \in Int
  BY BuffTypes DEF Parts
<1>3. Stay(n, s, t)
  <2> SUFFICES ASSUME NEW i \in Id, i <= n, s.agents[i] # None, t.agents[i] # None
               PROVE  /\ t.agents[i].amount = s.agents[i].amount
                      /\ t.agents[i].end >= s.agents[i].end
    BY DEF Stay
  <2>1. u.agents[i] # None BY <1>1 DEF Keep
  <2>2. /\ u.agents[i].amount = s.agents[i].amount
        /\ u.agents[i].end >= s.agents[i].end
    BY <2>1 DEF Fade, Stay
  <2>3. /\ t.agents[i].amount = u.agents[i].amount
        /\ t.agents[i].end >= u.agents[i].end
    BY <1>1, <2>1 DEF Just, Stay
  <2> QED BY <1>2, <2>1, <2>2, <2>3
<1>4. ASSUME NEW i \in Id, i <= n, s.agents[i] # None, t.agents[i] = None
      PROVE  \/ s.agents[i].end <= now
             \/ /\ s.agents[i].player = p
                /\ \E e \in Effect : Cancels[e] = s.agents[i].effect
  <2>1. CASE u.agents[i] = None BY <1>4, <2>1 DEF Fade
  <2>2. CASE u.agents[i] # None
    <3>1. KeyOf(u.agents[i]) = KeyOf(s.agents[i]) BY <1>4, <2>2 DEF Keep
    <3>2. /\ u.agents[i].effect = s.agents[i].effect
          /\ u.agents[i].player = s.agents[i].player
      BY <3>1 DEF KeyOf
    <3>3. u.agents[i].end >= s.agents[i].end BY <1>4, <2>2 DEF Fade, Stay
    <3>4. \/ u.agents[i].end <= now
          \/ u.agents[i].player = p /\ Why(f, m, t, KeyOf(u.agents[i]))
      BY <1>1, <1>4, <2>2 DEF Just, Gone
    <3>5. CASE u.agents[i].end <= now BY <1>2, <1>4, <2>2, <3>3, <3>5
    <3>6. CASE u.agents[i].player = p /\ Why(f, m, t, KeyOf(u.agents[i]))
      <4>1. KeyOf(u.agents[i])[2] = u.agents[i].effect BY DEF KeyOf
      <4> QED BY <3>2, <3>6, <4>1 DEF Why
    <3> QED BY <3>4, <3>5, <3>6
  <2> QED BY <2>1, <2>2
<1> QED BY <1>3, <1>4 DEF Fade

(* restore_buffs/2.                                                        *)
LEMMA AllFaded ==
    ASSUME NEW f \in Field, NEW s, Sound(f, s, {}), now \in Nat,
           NEW p \in Player, saved[p] \in SUBSET Row, IsFiniteSet(saved[p]),
           s.count[f] + 2 * Cardinality(saved[p]) <= MaxIds,
           NEW amounts \in Amounts,
           NEW t, t = Restored(s, f, p, amounts)
    PROVE  Fade(s.count[f], p, s, t)
<1> DEFINE rows == Rows(p)
           n == s.count[f]
<1>1. /\ rows \in SUBSET saved[p] /\ IsFiniteSet(rows)
      /\ Cardinality(rows) <= Cardinality(saved[p])
  BY FS_Subset DEF Rows
<1>2. \A r \in SUBSET rows : IsFiniteSet(r) /\ Cardinality(r) \in Nat
                              /\ Cardinality(r) <= Cardinality(rows)
  BY <1>1, FS_Subset, FS_CardinalityType
<1>3. Cardinality(saved[p]) \in Nat /\ Cardinality(rows) \in Nat
  BY <1>1, FS_CardinalityType
<1>4. n \in Nat /\ MaxIds \in Nat /\ s \in Parts BY EffectsAssumption DEF Sound, Parts
<1>5. PICK g : t = g[rows] /\ Restores(s, f, p, amounts, g) BY <1>1, RestoredIs
<1>6. n + 2 * Cardinality(saved[p]) <= MaxIds OBVIOUS
<1> HIDE DEF n
<1> DEFINE Kept(u, k) ==
             /\ Sound(f, u, {}) /\ Keep(n, s, u) /\ Fade(n, p, s, u)
             /\ u.count[f] \in Nat /\ n <= u.count[f]
             /\ u.count[f] <= n + 2 * k
           T == {r \in SUBSET rows : Kept(g[r], Cardinality(r))}
<1>7. {} \in T
  <2>1. g[{}] = s BY <1>5 DEF Restores
  <2>2. Keep(n, s, s) BY DEF Keep
  <2>3. Cardinality({}) = 0 BY FS_EmptySet
  <2>4. Even(n, s, s) /\ Same(s, s) BY <1>4, Alike DEF Same, Owned
  <2>5. Just(f, n, p, s, s) BY <1>4, <2>4, JustSame
  <2>6. Fade(n, p, s, s) BY <2>5 DEF Fade, Just
  <2>7. Kept(s, 0) BY <1>4, <2>2, <2>6 DEF n
  <2> HIDE DEF Kept
  <2> QED BY <2>1, <2>3, <2>7
<1>8. \A r \in SUBSET rows : r # {} => \E x \in r : r \ {x} \in T => r \in T
  <2> SUFFICES ASSUME NEW r \in SUBSET rows, NEW row \in r,
                      Kept(g[r \ {row}], Cardinality(r \ {row})),
                      g[r] = Again(g[r \ {row}], f, p, amounts, row)
               PROVE  Kept(g[r], Cardinality(r))
    BY <1>5 DEF Restores
  <2> DEFINE u == g[r \ {row}]
             v == g[r]
             k == Cardinality(r)
             e == row.effect
             end == row.end
             start == row.end - row.duration
             b == NewBuff(NextId(u, f), p, e, start, end)
             status == TRUE
             overlap == 0
             none == {}
  <2>1. v = Applied(Allocated(u, f), f, b, status, overlap, amounts) BY DEF Again
  <2>2. e \in Effect /\ end \in Int /\ start \in Int
    BY <1>1 DEF Row
  <2>3. Cardinality(r \ {row}) = k - 1 /\ k \in Nat /\ k <= Cardinality(rows)
    <3>1. IsFiniteSet(r) BY <1>2
    <3> QED BY <1>2, <3>1, FS_RemoveElement
  <2>4. b = NewBuff(NextId(u, f), p, e, start, end) OBVIOUS
  <2>5. overlap \in Int OBVIOUS
  <2> HIDE DEF u, v, b, status, overlap, k, start, e, end
  <2>6. Kept(u, k - 1) BY <2>3 DEF u
  <2>7. u.count[f] + 2 <= MaxIds
    BY <1>1, <1>3, <1>4, <1>6, <2>3, <2>6
  <2>8. /\ Sound(f, u, none) /\ Keep(n, s, u) /\ Fade(n, p, s, u)
        /\ u.count[f] \in Nat /\ n <= u.count[f] /\ u.count[f] <= n + 2 * (k - 1)
    BY <2>6
  <2>9. SUFFICES /\ Sound(f, v, none) /\ Keep(n, s, v) /\ Fade(n, p, s, v)
                 /\ v.count[f] \in Nat /\ n <= v.count[f]
                 /\ v.count[f] <= n + 2 * k
    BY DEF v, k
  <2> HIDE DEF Kept, T, rows, none
  <2>10. /\ Sound(f, v, none) /\ u.count[f] \in Nat /\ v.count[f] \in Nat
         /\ b.id = u.count[f] + 1 /\ b.id <= v.count[f]
         /\ v.count[f] <= u.count[f] + 2
         /\ Keep(u.count[f], u, v) /\ IsBuff(b) /\ KeyOf(b) = <<p, e>>
         /\ u.registered[f][<<p, e>>] = None => KeyOf(v.agents[b.id]) = KeyOf(b)
    BY <2>1, <2>2, <2>4, <2>5, <2>7, <2>8, AddedIs
  <2>11. Just(f, u.count[f], p, u, v)
    BY <2>1, <2>2, <2>4, <2>5, <2>7, <2>8, AddedJust
  <2>12. n <= v.count[f] /\ v.count[f] <= n + 2 * k
    BY <1>4, <2>3, <2>8, <2>10
  <2>13. Keep(n, s, v) BY <1>4, <2>8, <2>10, KeepAgain
  <2>14. u \in Parts /\ v \in Parts BY <2>8, <2>10 DEF Sound
  <2> DEFINE m == u.count[f]
  <2>15. m \in Int /\ n \in Int /\ n <= m BY <1>4, <2>8
  <2>16. Just(f, m, p, u, v) /\ Keep(m, u, v) BY <2>10, <2>11
  <2> HIDE DEF m
  <2>17. Fade(n, p, s, v) BY <1>4, <2>8, <2>14, <2>15, <2>16, FadeAgain
  <2> QED BY <2>10, <2>12, <2>13, <2>17
<1> HIDE DEF T
<1>9. rows \in T BY <1>1, <1>7, <1>8, SubsetInd
<1> QED BY <1>5, <1>9 DEF T, n

-------------------------------------------------------------------------------
(* Buffs go in time *)

(* A buff that is no longer registered under its key has no agent.         *)
LEMMA GoneAgents ==
    ASSUME NEW f, NEW t, Sound(f, t, {}), Agree(f, Now), Now \in Parts,
           Becomes(t), Keep(count[f], Now, t), f \in Field,
           NEW k \in Key, registered[f][k] # None, registered'[f][k] # registered[f][k]
    PROVE  /\ registered[f][k] \in Id /\ registered[f][k] <= count[f]
           /\ Now.agents[registered[f][k]] # None
           /\ KeyOf(Now.agents[registered[f][k]]) = k
           /\ t.agents[registered[f][k]] = None
<1> DEFINE i == registered[f][k]
<1>1. Now.registered = registered /\ Now.count = count BY DEF Now
<1>2. i \in Id BY <1>1 DEF Parts
<1>3. Now.agents[i] # None /\ KeyOf(Now.agents[i]) = k BY <1>1 DEF Agree
<1> HIDE DEF i
<1>4. i <= count[f] BY <1>1, <1>2, <1>3 DEF Agree
<1>5. t.registered[f][k] # i BY DEF Becomes, i
<1>6. t.agents[i] = None
  <2> SUFFICES ASSUME t.agents[i] # None PROVE FALSE OBVIOUS
  <2>1. KeyOf(t.agents[i]) = k BY <1>2, <1>3, <1>4 DEF Keep
  <2> QED BY <1>2, <1>5, <2>1 DEF Sound, Agree
<1> QED BY <1>2, <1>3, <1>4, <1>6 DEF i

(* A handler that ends buffs only at their ends or for others that came.   *)
LEMMA GoesFrom ==
    ASSUME IInv, NEW f, Field = {f}, NEW t, Becomes(t), Sound(f, t, {}),
           Keep(count[f], Now, t), NEW p, Just(f, count[f], p, Now, t), NEW k \in Key
    PROVE  GoesInTime(f, k)
<1> DEFINE i == registered[f][k]
<1>1. /\ f \in Field /\ Now \in Parts /\ Agree(f, Now) /\ Sound(f, Now, {})
      /\ Now.registered = registered /\ Now.count = count /\ Now.agents = agents
  BY NowIs
<1> SUFFICES ASSUME i # None, registered'[f][k] # i
             PROVE  \/ agents[i].end <= now
                    \/ \E e \in Effect :
                          /\ Cancels[e] = k[2]
                          /\ registered'[f][<<k[1], e>>] # registered[f][<<k[1], e>>]
  BY DEF GoesInTime
<1>2. /\ i \in Id /\ i <= count[f] /\ Now.agents[i] # None /\ KeyOf(Now.agents[i]) = k
      /\ t.agents[i] = None
  BY <1>1, GoneAgents
<1> HIDE DEF i
<1>3. agents[i].end <= now \/ Why(f, count[f], t, k)
  BY <1>1, <1>2 DEF Just, Gone
<1>4. ASSUME Why(f, count[f], t, k)
      PROVE  \E e \in Effect :
                /\ Cancels[e] = k[2]
                /\ registered'[f][<<k[1], e>>] # registered[f][<<k[1], e>>]
  <2>1. PICK e \in Effect : /\ Cancels[e] = k[2]
                            /\ t.registered[f][<<k[1], e>>] \in Id
                            /\ ~(t.registered[f][<<k[1], e>>] <= count[f])
    BY <1>4 DEF Why
  <2> DEFINE j == <<k[1], e>>
  <2>2. registered'[f][j] = t.registered[f][j] BY DEF Becomes
  <2>3. ASSUME registered[f][j] = t.registered[f][j] PROVE FALSE
    <3>1. Why(f, Now.count[f], Now, k) BY <1>1, <2>1, <2>3 DEF Why
    <3> DEFINE none == {}
    <3>2. Sound(f, Now, none) BY <1>1
    <3> HIDE DEF none
    <3> QED BY <3>1, <3>2, NoneNew
  <2> HIDE DEF j
  <2>4. registered'[f][j] # registered[f][j] BY <2>2, <2>3
  <2> QED BY <2>1, <2>4 DEF j
<1> QED BY <1>3, <1>4

LEMMA AddedGoes ==
    ASSUME IInv, NEW f, Field = {f}, NEW p \in Player, NEW e \in Effect,
           AddEffectBuff(p, e) \/ AddBuff(p, e)
    PROVE  \E t : /\ Becomes(t) /\ Sound(f, t, {})
                  /\ Keep(count[f], Now, t) /\ Just(f, count[f], p, Now, t)
<1>1. /\ f \in Field /\ Sound(f, Now, {}) /\ now \in Nat /\ count[f] \in Nat
      /\ Now.count = count /\ at[p] = f
  BY NowIs DEF AddEffectBuff, AddBuff, CanApply
<1>2. count[f] + 2 <= MaxIds BY <1>1 DEF AddEffectBuff, AddBuff, CanApply
<1>3. PICK status \in BOOLEAN, overlap \in {0, 1}, amounts \in Amounts :
         Becomes(Applied(Allocated(Now, f), f, FreshBuff(NextId(Now, f), p, e),
                         status, overlap, amounts))
  <2>1. CASE AddEffectBuff(p, e) BY <1>1, <2>1 DEF AddEffectBuff
  <2>2. CASE AddBuff(p, e) BY <1>1, <2>2 DEF AddBuff
  <2> QED BY <2>1, <2>2
<1> DEFINE none == {}
           end == now + Duration[e]
           b == FreshBuff(NextId(Now, f), p, e)
           s == Now
           t == Applied(Allocated(s, f), f, b, status, overlap, amounts)
<1>4. overlap \in Int /\ end \in Int /\ now \in Int BY <1>1, EffectsAssumption
<1>5. b = NewBuff(NextId(s, f), p, e, now, end) BY DEF FreshBuff
<1>6. Becomes(t) /\ s.count[f] + 2 <= MaxIds BY <1>1, <1>2, <1>3
<1>7. Sound(f, s, none) /\ s.count = count BY <1>1
<1>8. t = Applied(Allocated(s, f), f, b, status, overlap, amounts) OBVIOUS
<1> HIDE DEF none, end, b, s, t
<1>9. /\ Sound(f, t, none)
      /\ s.count[f] \in Nat /\ t.count[f] \in Nat
      /\ b.id = s.count[f] + 1 /\ b.id <= t.count[f]
      /\ t.count[f] <= s.count[f] + 2
      /\ Keep(s.count[f], s, t) /\ IsBuff(b) /\ KeyOf(b) = <<p, e>>
      /\ s.registered[f][<<p, e>>] = None => KeyOf(t.agents[b.id]) = KeyOf(b)
  BY <1>1, <1>4, <1>5, <1>6, <1>7, <1>8, AddedIs
<1>10. Just(f, s.count[f], p, s, t)
  BY <1>1, <1>4, <1>5, <1>6, <1>7, <1>8, AddedJust
<1> QED BY <1>6, <1>7, <1>9, <1>10 DEF s, none

LEMMA RemoveBuffGoes ==
    ASSUME IInv, NEW f, Field = {f}, NEW m \in timers, RemoveBuff(m), NEW p
    PROVE  \E t : /\ Becomes(t) /\ Sound(f, t, {})
                  /\ Keep(count[f], Now, t) /\ Just(f, count[f], p, Now, t)
<1> DEFINE s == Taken(m)
           force == FALSE
           none == {}
           out == {m.id}
           n == count[f]
           t == Dropped(s, f, m.id, force)
<1>1. /\ m.field = f /\ m.id \in Id /\ f \in Field /\ now \in Nat
      /\ Sound(f, s, out) /\ Same(Now, s) /\ s.count = count
      /\ s.agents = Now.agents /\ Owned(Now, s)
  BY TakenIs, NowIs DEF Owned
<1>2. Becomes(t) BY <1>1 DEF RemoveBuff
<1>3. ~force /\ out \subseteq none \cup {m.id} OBVIOUS
<1>4. t = Dropped(s, f, m.id, force) OBVIOUS
<1> HIDE DEF s, force, none, out, t, n
<1>5. /\ Sound(f, t, none) /\ t.count = s.count /\ \A k : Keep(k, s, t)
      /\ \A i \in Id : i # m.id /\ s.agents[i] # None => t.agents[i] # None
  BY <1>1, <1>3, <1>4, DroppedIs
<1>6. Just(f, n, p, s, t) BY <1>1, <1>3, <1>4, DroppedJust
<1>7. Just(f, n, p, Now, t) BY <1>1, <1>6, JustFrom
<1>8. Keep(n, Now, t) BY <1>1, <1>5 DEF Keep, Same
<1> QED BY <1>2, <1>5, <1>7, <1>8 DEF n, none

LEMMA BuffTickGoes ==
    ASSUME IInv, NEW f, Field = {f}, NEW m \in timers, BuffTick(m), NEW p
    PROVE  \E t : /\ Becomes(t) /\ Sound(f, t, {})
                  /\ Keep(count[f], Now, t) /\ Just(f, count[f], p, Now, t)
<1> DEFINE s == Taken(m)
           none == {}
           out == {m.id}
           n == count[f]
           id == m.id
           t == IF agents[id] = None THEN s ELSE Ticked(s, f, s.agents[id])
<1>1. /\ m.field = f /\ id \in Id /\ f \in Field /\ now \in Nat
      /\ Sound(f, s, out) /\ Same(Now, s) /\ s.agents = agents
      /\ s.agents = Now.agents /\ Owned(Now, s)
  BY TakenIs, NowIs DEF Owned
<1>2. Becomes(t) BY <1>1 DEF BuffTick
<1>3. s \in Parts /\ Now \in Parts BY <1>1, NowIs DEF Sound
<1>4. out \subseteq none \cup {id} OBVIOUS
<1> HIDE DEF s, n
<1>5. Sound(f, t, none) /\ Same(s, t) /\ Even(n, s, t)
  <2>1. CASE agents[id] = None
    <3>1. t = s BY <2>1
    <3>2. Sound(f, s, none) BY <1>1, <2>1 DEF Sound, Pending
    <3> QED BY <1>3, <3>1, <3>2, Alike DEF Same, Owned
  <2>2. CASE agents[id] # None
    <3>1. t = Ticked(s, f, s.agents[id]) /\ s.agents[id] # None BY <1>1, <2>2
    <3> HIDE DEF none, out, t, id
    <3>2. Sound(f, t, none) /\ Same(s, t) BY <1>1, <1>4, <3>1, TickedIs
    <3>3. Even(n, s, t) BY <1>1, <3>1, TickedEven
    <3> QED BY <3>2, <3>3
  <2> QED BY <2>1, <2>2
<1> HIDE DEF t, none
<1>6. t \in Parts BY <1>5 DEF Sound
<1>7. Just(f, n, p, s, t) BY <1>3, <1>5, <1>6, JustSame
<1>8. Just(f, n, p, Now, t) BY <1>1, <1>7, JustFrom
<1>9. Same(Now, t) BY <1>1, <1>5, SameAgain
<1>10. Keep(n, Now, t) BY <1>9, SameKeeps
<1> QED BY <1>2, <1>5, <1>8, <1>10 DEF n, none

LEMMA RemoveOwnerBuffsGoes ==
    ASSUME IInv, NEW f, Field = {f}, NEW p \in Player, RemoveOwnerBuffs(p)
    PROVE  \E t : /\ Becomes(t) /\ Sound(f, t, {})
                  /\ Keep(count[f], Now, t) /\ Just(f, count[f], p, Now, t)
<1> DEFINE ids == OwnerIds(f, p)
           force == FALSE
           t == DropAll(f, ids, force)
<1>1. /\ f \in Field /\ now \in Nat /\ Sound(f, Now, {})
      /\ at[p] = f /\ ids \in SUBSET Id
  BY NowIs, OwnerIdsAre DEF RemoveOwnerBuffs
<1>2. Becomes(t) BY <1>1 DEF RemoveOwnerBuffs
<1>3. ~force OBVIOUS
<1> HIDE DEF force, ids
<1>4. Sound(f, t, {}) /\ t.count = count /\ \A n : Keep(n, Now, t)
  BY <1>1, AllDropped
<1>5. Just(f, count[f], p, Now, t) BY <1>1, <1>3, AllDroppedJust
<1> HIDE DEF t
<1> QED BY <1>2, <1>4, <1>5

LEMMA RemoveEffectBuffGoes ==
    ASSUME IInv, NEW f, Field = {f}, NEW p \in Player, NEW e \in Effect,
           RemoveEffectBuff(p, e), NEW k \in Key
    PROVE  GoesInTime(f, k)
<1> DEFINE id == registered[f][<<p, e>>]
           force == TRUE
           none == {}
           s == Now
           t == Dropped(s, f, id, force)
           i == registered[f][k]
<1>1. /\ f \in Field /\ now \in Nat /\ Sound(f, s, none) /\ s.agents = agents
      /\ s \in Parts /\ Agree(f, s) /\ s.registered = registered
      /\ at[p] = f /\ registered[f] \in [Key -> Id \cup {None}]
  BY NowIs DEF RemoveEffectBuff
<1>2. id \in Id /\ <<p, e>> \in Key /\ id # None BY <1>1 DEF RemoveEffectBuff, Key
<1>3. Becomes(t) BY <1>1 DEF RemoveEffectBuff
<1>4. t = Dropped(s, f, id, force) /\ none \subseteq none \cup {id} OBVIOUS
<1> SUFFICES ASSUME i # None, registered'[f][k] # i PROVE RemoveEffectBuff(k[1], k[2])
  BY DEF GoesInTime
<1>5. KeyOf(s.agents[id]) = <<p, e>> BY <1>1, <1>2 DEF Agree
<1>6. Now \in Parts /\ Agree(f, Now) BY <1>1
<1> HIDE DEF id, force, none, s, t
<1>7. /\ Sound(f, t, none) /\ t.count = s.count /\ \A n : Keep(n, s, t)
      /\ \A j \in Id : j # id /\ s.agents[j] # None => t.agents[j] # None
  BY <1>1, <1>2, <1>4, DroppedIs
<1>8. Sound(f, t, {}) /\ Keep(count[f], Now, t) BY <1>7 DEF none, s
<1>9. /\ i \in Id /\ i <= count[f] /\ Now.agents[i] # None /\ KeyOf(Now.agents[i]) = k
      /\ t.agents[i] = None
  BY <1>1, <1>3, <1>6, <1>8, GoneAgents
<1>10. i = id BY <1>7, <1>9 DEF s
<1>11. k = <<p, e>> BY <1>5, <1>9, <1>10 DEF s
<1>12. k[1] = p /\ k[2] = e BY <1>11
<1> QED BY <1>12

LEMMA EnterGoes ==
    ASSUME IInv, NEW f, Field = {f}, NEW p \in Player, Enter(p, f), NEW k \in Key
    PROVE  GoesInTime(f, k)
<1> DEFINE s == [Now EXCEPT !.bonus[p] = 0, !.cut[p] = FALSE]
           i == registered[f][k]
<1>1. Sound(f, s, {}) /\ s.count = count /\ Same(Now, s) /\ s.agents = agents
  BY Rebuilt
<1>2. PICK amounts \in Amounts : Becomes(Restored(s, f, p, amounts)) BY DEF Enter
<1> DEFINE t == Restored(s, f, p, amounts)
<1>3. Becomes(t) BY <1>2
<1>4. at[p] = None /\ at'[p] = f /\ f # None
  <2>1. at \in [Player -> Field \cup {None}] BY DEF IInv
  <2> QED BY <2>1, EffectsAssumption DEF Enter
<1> HIDE DEF s
<1>5. /\ f \in Field /\ now \in Nat /\ saved[p] \in SUBSET Row
      /\ IsFiniteSet(saved[p]) /\ s.count[f] + 2 * Cardinality(saved[p]) <= MaxIds
  BY <1>1 DEF IInv, Enter
<1>6. /\ Sound(f, t, {}) /\ Keep(s.count[f], s, t)
      /\ t.count[f] \in Nat /\ s.count[f] \in Nat /\ s.count[f] <= t.count[f]
  BY <1>1, <1>5, AllRestored
<1>7. Fade(s.count[f], p, s, t) BY <1>1, <1>5, AllFaded
<1> HIDE DEF t
<1>8. Keep(count[f], Now, t) BY <1>1, <1>6 DEF Keep, Same
<1>9. Now \in Parts /\ Agree(f, Now) /\ Now.agents = agents BY NowIs
<1> SUFFICES ASSUME i # None, registered'[f][k] # i
             PROVE  \/ agents[i].end <= now
                    \/ \E e \in Effect : Cancels[e] = k[2] /\ at'[k[1]] # at[k[1]]
  BY DEF GoesInTime
<1>10. /\ i \in Id /\ i <= count[f] /\ Now.agents[i] # None /\ KeyOf(Now.agents[i]) = k
       /\ t.agents[i] = None
  BY <1>3, <1>5, <1>6, <1>8, <1>9, GoneAgents
<1> HIDE DEF i
<1>11. \/ agents[i].end <= now
       \/ /\ agents[i].player = p
          /\ \E e \in Effect : Cancels[e] = agents[i].effect
  BY <1>1, <1>7, <1>9, <1>10 DEF Fade
<1>12. k[1] = agents[i].player /\ k[2] = agents[i].effect BY <1>9, <1>10 DEF KeyOf
<1> QED BY <1>4, <1>11, <1>12

LEMMA NextGoes == OneField /\ IInv /\ [Next]_vars => [\A f \in Field, k \in Key : GoesInTime(f, k)]_vars
<1> SUFFICES ASSUME NEW f, Field = {f}, IInv, Next, NEW k \in Key
             PROVE  GoesInTime(f, k)
  BY DEF OneField
<1>0. f \in Field /\ registered \in [Field -> [Key -> Id \cup {None}]]
  BY DEF IInv, Sound, Parts, Now
<1>1. CASE \E p \in Player, e \in Effect : AddEffectBuff(p, e) \/ AddBuff(p, e)
  BY <1>1, AddedGoes, GoesFrom
<1>2. CASE \E p \in Player, e \in Effect : RemoveEffectBuff(p, e)
  BY <1>2, RemoveEffectBuffGoes
<1>3. CASE \E p \in Player : RemoveOwnerBuffs(p) BY <1>3, RemoveOwnerBuffsGoes, GoesFrom
<1>4. CASE \E p \in Player, g \in Field : Enter(p, g) BY <1>4, EnterGoes
<1>5. CASE Handle
  <2>1. PICK m \in timers : RemoveBuff(m) \/ BuffTick(m) BY <1>5 DEF Handle
  <2>2. CASE RemoveBuff(m) BY <2>2, RemoveBuffGoes, GoesFrom
  <2>3. CASE BuffTick(m) BY <2>3, BuffTickGoes, GoesFrom
  <2> QED BY <2>1, <2>2, <2>3
<1>6. registered' = registered => GoesInTime(f, k) BY DEF GoesInTime
<1>7. ASSUME NEW p \in Player, NEW e \in Effect, NEW ticks \in {-1, 1},
             ModifyBuffDuration(p, e, ticks)
      PROVE  registered' = registered
  BY <1>7 DEF ModifyBuffDuration, Becomes, Now
<1>8. ASSUME NEW p \in Player, ApplyStatus(p) PROVE registered' = registered
  <2>1. CASE UNCHANGED state BY <2>1 DEF state
  <2>2. CASE ~(UNCHANGED state)
    <3>1. PICK amount : Becomes(Given(Now, reply[p], amount))
      BY <1>8, <2>2 DEF ApplyStatus
    <3> QED BY <3>1 DEF Given, Modified, Becomes, Now
  <2> QED BY <2>1, <2>2
<1>9. ASSUME NEW p \in Player, RefreshStats(p) \/ Leave(p) PROVE registered' = registered
  BY <1>9 DEF RefreshStats, Leave, state
<1>10. Tick => registered' = registered BY DEF Tick, state
<1> QED BY <1>1, <1>2, <1>3, <1>4, <1>5, <1>6, <1>7, <1>8, <1>9, <1>10 DEF Next

(* A buff goes at its end or for a reason: no message of an earlier end,   *)
(* no stack, tick, restored row or death takes it before (remove_buff/3).  *)
THEOREM BuffsGoInTime == OneField => (Spec => NoEarlyEnd)
<1> SUFFICES ASSUME OneField PROVE Spec => NoEarlyEnd OBVIOUS
<1>1. Init => IInv BY InitIInv
<1>2. IInv /\ [Next]_vars => IInv' BY NextIInv
<1>3. IInv /\ [Next]_vars => [\A f \in Field, k \in Key : GoesInTime(f, k)]_vars
  BY NextGoes
<1> QED BY <1>1, <1>2, <1>3, PTL DEF Spec, NoEarlyEnd

-------------------------------------------------------------------------------
(* What buffs gave is taken back *)

\* Until stats are rebuilt or a character moves.
Steady == refreshes = 0 /\ moves = 0

\* A player has what its agents recorded, or more where a loss was cut off.
Balanced(p) ==
    /\ bonus[p] >= Total(agents, p)
    /\ cut[p] \/ bonus[p] = Total(agents, p)

LInv ==
    /\ IInv
    /\ refreshes \in Nat /\ moves \in Nat
    /\ reply = [p \in Player |-> None]
    /\ Steady => \A p \in Player : at[p] # None /\ Balanced(p)

\* The cast of a skill's buff takes two steps, a removal between which loses
\* count (see README); the other buffs are applied in one.
NoSkillBuffs == SkillEffect = {}

LEMMA LInvLedger == LInv => (Steady => Ledger)
<1> SUFFICES ASSUME LInv, Steady PROVE Ledger OBVIOUS
<1>1. \A p \in Player : Balanced(p) BY DEF LInv
<1> QED BY <1>1 DEF Ledger, Balanced, Total, Amount, Of

LEMMA InitLInv == Init => LInv
<1> SUFFICES ASSUME Init PROVE LInv OBVIOUS
<1>1. IInv BY InitIInv
<1>2. agents \in [Id -> Buff \cup {None}] /\ \A i \in Id : agents[i] = None BY DEF Init
<1>3. ASSUME NEW p \in Player PROVE at[p] # None /\ Balanced(p)
  <2>1. Of(agents, p) = {} BY <1>2 DEF Of
  <2> DEFINE S == Of(agents, p)
  <2>2. S \in SUBSET Id /\ S = {} /\ \A i \in S : agents[i] # None BY <2>1
  <2> HIDE DEF S
  <2>3. Amount(agents, S) = 0 BY <1>2, <2>2, AmountStep
  <2>4. Total(agents, p) = 0 BY <2>3 DEF Total, S
  <2> QED BY <2>4, EffectsAssumption DEF Balanced, Init
<1> QED BY <1>1, <1>3 DEF LInv, Init

(* A handler that pays what is due keeps the ledger.                       *)
LEMMA PaidLedger ==
    ASSUME LInv, IInv', Now \in Parts,
           NEW t \in Parts, Becomes(t), Paid(Now, t),
           UNCHANGED <<at, reply, refreshes, moves>>
    PROVE  LInv'
<1>1. /\ bonus' = t.bonus /\ agents' = t.agents /\ cut' = t.cut
      /\ Now.bonus = bonus /\ Now.agents = agents /\ Now.cut = cut
  BY DEF Becomes, Now
<1>2. Steady' = Steady BY DEF Steady
<1>3. ASSUME NEW p \in Player, Steady PROVE at'[p] # None /\ Balanced(p)'
  <2>1. at[p] # None /\ Balanced(p) BY <1>3 DEF LInv
  <2>2. Repaid(Now, t, p) BY DEF Paid
  <2> DEFINE A == Total(agents, p)
             B == Total(t.agents, p)
  <2>4. A \in Int /\ B \in Int /\ bonus[p] \in Int /\ t.bonus[p] \in Int
    BY <1>1, RestType
  <2>5. Rest(Now, p) = bonus[p] - A /\ Rest(t, p) = t.bonus[p] - B BY <1>1 DEF Rest
  <2>6. bonus[p] >= A /\ (cut[p] \/ bonus[p] = A) BY <2>1 DEF Balanced
  <2>7. /\ Rest(t, p) >= Rest(Now, p) /\ (cut[p] => t.cut[p])
        /\ t.cut[p] \/ Rest(t, p) = Rest(Now, p)
    BY <1>1, <2>2 DEF Repaid
  <2> HIDE DEF A, B
  <2>8. t.bonus[p] >= B BY <2>4, <2>5, <2>6, <2>7
  <2>9. bonus[p] = A /\ Rest(t, p) = Rest(Now, p) => t.bonus[p] = B BY <2>4, <2>5
  <2>10. t.cut[p] \/ t.bonus[p] = B BY <2>6, <2>7, <2>9
  <2> QED BY <1>1, <2>1, <2>8, <2>10 DEF B, Balanced
<1> QED BY <1>2, <1>3 DEF LInv

LEMMA JustLedger ==
    ASSUME LInv, IInv', Now \in Parts, NEW f,
           \E t : /\ Becomes(t) /\ Sound(f, t, {})
                  /\ Keep(count[f], Now, t) /\ \E p : Just(f, count[f], p, Now, t),
           UNCHANGED <<at, reply, refreshes, moves>>
    PROVE  LInv'
BY PaidLedger DEF Just, Sound

LEMMA RemoveEffectBuffPaid ==
    ASSUME IInv, NEW f, Field = {f}, NEW p \in Player, NEW e \in Effect,
           RemoveEffectBuff(p, e)
    PROVE  \E t \in Parts : Becomes(t) /\ Paid(Now, t)
<1> DEFINE id == registered[f][<<p, e>>]
           force == TRUE
           none == {}
           s == Now
           t == Dropped(s, f, id, force)
<1>1. /\ f \in Field /\ now \in Nat /\ Sound(f, s, none)
      /\ at[p] = f /\ registered[f] \in [Key -> Id \cup {None}]
  BY NowIs DEF RemoveEffectBuff
<1>2. id \in Id BY <1>1 DEF RemoveEffectBuff, Key
<1>3. Becomes(t) BY <1>1 DEF RemoveEffectBuff
<1>4. t = Dropped(s, f, id, force) /\ none \subseteq none \cup {id} OBVIOUS
<1> HIDE DEF id, force, none, s, t
<1>5. /\ Sound(f, t, none) /\ t.count = s.count /\ \A n : Keep(n, s, t)
      /\ \A j \in Id : j # id /\ s.agents[j] # None => t.agents[j] # None
  BY <1>1, <1>2, <1>4, DroppedIs
<1>6. /\ Paid(s, t) /\ \A n : Stay(n, s, t)
      /\ t.agents[id] = None /\ s.agents[id] # None =>
            force \/ s.agents[id].end <= now
  BY <1>1, <1>2, <1>4, DroppedPaid
<1> QED BY <1>3, <1>5, <1>6 DEF s, Sound

LEMMA ModifyBuffDurationPaid ==
    ASSUME IInv, NEW f, Field = {f}, NEW p \in Player, NEW e \in Effect,
           NEW ticks \in Int, ModifyBuffDuration(p, e, ticks)
    PROVE  \E t \in Parts : Becomes(t) /\ Paid(Now, t)
<1> DEFINE id == registered[f][<<p, e>>]
           b == agents[id]
           c == [b EXCEPT !.end = @ + ticks]
           t == [Now EXCEPT !.agents = [agents EXCEPT ![id] = c]]
<1>1. /\ f \in Field /\ Now \in Parts /\ Now.agents = agents
      /\ registered[f] \in [Key -> Id \cup {None}] /\ at[p] = f
      /\ agents \in [Id -> Buff \cup {None}]
  BY NowIs DEF ModifyBuffDuration
<1>2. id \in Id /\ b \in Buff BY <1>1 DEF ModifyBuffDuration, Key
<1>3. c \in Buff /\ c.player = b.player /\ c.amount = b.amount /\ c # None /\ b # None
  BY <1>2, EffectsAssumption DEF Buff
<1>4. Becomes([Now EXCEPT !.agents[id].end = @ + ticks]) BY <1>1 DEF ModifyBuffDuration
<1>5. [Now EXCEPT !.agents[id].end = @ + ticks] = t BY <1>1, <1>2 DEF Parts
<1>6. t \in Parts /\ Owned(Now, t) /\ t.agents = [agents EXCEPT ![id] = c]
  <2>1. [agents EXCEPT ![id] = c] \in [Id -> Buff \cup {None}] BY <1>1, <1>3
  <2> HIDE DEF c, id
  <2> QED BY <1>1, <2>1 DEF Parts, Owned
<1>7. Becomes(t) BY <1>4, <1>5
<1> HIDE DEF t, c
<1>8. ASSUME NEW q \in Player PROVE Total(agents, q) = Total(t.agents, q)
  <2> DEFINE A == agents
             B == t.agents
  <2>1. A \in [Id -> Buff \cup {None}] /\ B \in [Id -> Buff \cup {None}]
    BY <1>1, <1>6 DEF Parts
  <2>2. B[id] = c /\ A[id] = b /\ \A i \in Id : i # id => B[i] = A[i]
    BY <1>1, <1>2, <1>6
  <2>3. \A i \in Id : A[i] # None <=> B[i] # None BY <1>3, <2>2
  <2>4. \A i \in Id : A[i] # None => A[i].player = B[i].player /\ A[i].amount = B[i].amount
    BY <1>3, <2>2
  <2> HIDE DEF A, B
  <2>5. Total(A, q) = Total(B, q) BY <2>1, <2>3, <2>4, TotalSame
  <2> QED BY <2>5 DEF A, B
<1>9. Paid(Now, t) BY <1>1, <1>6, <1>8, RepaidSame DEF Paid
<1> QED BY <1>6, <1>7, <1>9

LEMMA NextLInv == OneField /\ NoSkillBuffs /\ LInv /\ [Next]_vars => LInv'
<1> SUFFICES ASSUME NEW f, Field = {f}, NoSkillBuffs, LInv, [Next]_vars PROVE LInv'
  BY DEF OneField
<1>0. IInv /\ IInv' /\ Now \in Parts
  <2>1. IInv /\ OneField BY DEF LInv, OneField
  <2>2. Now \in Parts BY <2>1, NowIs
  <2> QED BY <2>1, <2>2, NextIInv
<1>1. ASSUME NEW p \in Player, NEW e \in Effect, AddEffectBuff(p, e) PROVE LInv'
  <2>1. UNCHANGED <<at, reply, refreshes, moves>> BY <1>1 DEF AddEffectBuff
  <2> QED BY <1>0, <1>1, <2>1, AddedGoes, JustLedger
<1>2. ASSUME NEW p \in Player, NEW e \in Effect, AddBuff(p, e) PROVE FALSE
  BY <1>2 DEF AddBuff, NoSkillBuffs
<1>3. ASSUME NEW p \in Player, NEW e \in Effect, RemoveEffectBuff(p, e) PROVE LInv'
  <2>1. UNCHANGED <<at, reply, refreshes, moves>> BY <1>3 DEF RemoveEffectBuff
  <2> QED BY <1>0, <1>3, <2>1, RemoveEffectBuffPaid, PaidLedger
<1>4. ASSUME NEW p \in Player, NEW e \in Effect, NEW ticks \in {-1, 1},
             ModifyBuffDuration(p, e, ticks)
      PROVE  LInv'
  <2>1. UNCHANGED <<at, reply, refreshes, moves>> BY <1>4 DEF ModifyBuffDuration
  <2>2. ticks \in Int OBVIOUS
  <2>3. PICK t \in Parts : Becomes(t) /\ Paid(Now, t)
    BY <1>0, <1>4, <2>2, ModifyBuffDurationPaid
  <2> QED BY <1>0, <2>1, <2>3, PaidLedger
<1>5. ASSUME NEW p \in Player, ApplyStatus(p) PROVE FALSE
  BY <1>5 DEF ApplyStatus, LInv
<1>6. ASSUME NEW p \in Player, RemoveOwnerBuffs(p) PROVE LInv'
  <2>1. UNCHANGED <<at, reply, refreshes, moves>> BY <1>6 DEF RemoveOwnerBuffs
  <2> QED BY <1>0, <1>6, <2>1, RemoveOwnerBuffsGoes, JustLedger
<1>7. ASSUME NEW p \in Player, RefreshStats(p) PROVE LInv'
  <2>1. refreshes' = refreshes + 1 /\ UNCHANGED <<reply, moves>>
    BY <1>7 DEF RefreshStats
  <2>2. refreshes' \in Nat /\ refreshes' # 0 BY <2>1 DEF LInv
  <2> QED BY <1>0, <2>1, <2>2 DEF LInv, Steady
<1>8. ASSUME NEW p \in Player, Leave(p) PROVE LInv'
  <2>1. moves' = moves + 1 /\ UNCHANGED <<reply, refreshes>> BY <1>8 DEF Leave
  <2>2. moves' \in Nat /\ moves' # 0 BY <2>1 DEF LInv
  <2> QED BY <1>0, <2>1, <2>2 DEF LInv, Steady
<1>9. ASSUME NEW p \in Player, Enter(p, f) PROVE LInv'
  <2>1. ~Steady /\ UNCHANGED <<reply, refreshes, moves>> BY <1>9 DEF Enter, LInv
  <2> QED BY <1>0, <2>1 DEF LInv, Steady
<1>10. CASE Handle
  <2>1. PICK m \in timers : RemoveBuff(m) \/ BuffTick(m) BY <1>10 DEF Handle
  <2>2. UNCHANGED <<at, reply, refreshes, moves>> BY <2>1 DEF RemoveBuff, BuffTick
  <2>3. CASE RemoveBuff(m) BY <1>0, <2>2, <2>3, RemoveBuffGoes, JustLedger
  <2>4. CASE BuffTick(m) BY <1>0, <2>2, <2>4, BuffTickGoes, JustLedger
  <2> QED BY <2>1, <2>3, <2>4
<1>11. CASE Tick \/ UNCHANGED vars
  <2>1. UNCHANGED <<agents, bonus, cut, at, reply, refreshes, moves>>
    BY <1>11 DEF Tick, vars, state
  <2> QED BY <1>0, <2>1 DEF LInv, Steady, Balanced
<1> QED BY <1>1, <1>2, <1>3, <1>4, <1>5, <1>6, <1>7, <1>8, <1>9, <1>10, <1>11 DEF Next

(* What a character has above or below its base is the sum of what its     *)
(* buffs recorded, gains and losses, through every cancel, stack, fired    *)
(* effect and removal, until its stats are rebuilt or it moves; where the  *)
(* floor at 0 cut a loss off it is more, never less (apply_status/2,       *)
(* revert_status/2, Stats.modify_max/3).                                   *)
THEOREM AmountsReturn ==
    OneField /\ NoSkillBuffs => (Spec => [](Steady => Ledger))
<1> SUFFICES ASSUME OneField, NoSkillBuffs PROVE Spec => [](Steady => Ledger) OBVIOUS
<1>1. Init => LInv BY InitLInv
<1>2. LInv /\ [Next]_vars => LInv' BY NextLInv
<1>3. LInv => (Steady => Ledger) BY LInvLedger
<1> QED BY <1>1, <1>2, <1>3, PTL DEF Spec

===============================================================================
