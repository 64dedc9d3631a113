----------------------- MODULE CharacterVitalsProofs -----------------------
(***************************************************************************)
(* Safety of CharacterVitals for every health, damage, buff amount, set of *)
(* handlers and map.  The inductive invariant is the type invariant with   *)
(* two of the properties: HealthBounded needs to hold of the copies too,   *)
(* since a copy may be written back, and RegenChain needs the flag to be   *)
(* kept by every write that starts no timer.  TombstoneFollowsDeath needs  *)
(* a second one, Shown, which says what the casts under way will make the  *)
(* field show.                                                             *)
(***************************************************************************)
EXTENDS CharacterVitals, SequenceTheorems, TLAPS

IInv == TypeOK /\ HealthBounded /\ RegenChain

Mail == AddTombstone \cup ClearTombstone
Bounded(c) == c \in Character /\ c.cur <= c.max

-----------------------------------------------------------------------------
(* The operators on the character struct *)

LEMMA BuriedFacts ==
    ASSUME NEW c, Bounded(c)
    PROVE  /\ Bounded(Buried(c))
           /\ Buried(c).regen = c.regen
           /\ Buried(c).dead
<1>1. c \in Character /\ c.cur <= c.max BY DEF Bounded
<1>2. PICK deaths \in Nat : deaths = (IF c.penalty THEN c.deaths ELSE 0) + 1
  BY <1>1 DEF Character
<1>3. Buried(c) = [c EXCEPT !.dead = TRUE, !.penalty = TRUE, !.deaths = deaths]
  BY <1>2 DEF Buried
<1> QED BY <1>1, <1>3 DEF Bounded, Character

(* set/4 clamps whatever it is given, and can only raise the flag. *)
LEMMA WithHealthFacts ==
    ASSUME NEW c, Bounded(c), NEW n \in Int
    PROVE  /\ Bounded(WithHealth(c, n))
           /\ c.regen => WithHealth(c, n).regen
           /\ c.dead => WithHealth(c, n).dead
<1> DEFINE amount == AtMost(AtLeast0(n), c.max)
           s == [c EXCEPT !.cur = amount, !.regen = c.regen \/ amount < c.max]
<1>1. c \in Character /\ c.max \in Nat BY DEF Bounded, Character
<1>2. amount \in Nat /\ amount <= c.max BY <1>1 DEF AtMost, AtLeast0
<1>3. (c.regen \/ amount < c.max) \in BOOLEAN BY <1>1, <1>2 DEF Character
<1> HIDE DEF amount
<1>4. /\ s \in Character
      /\ s.cur <= s.max
      /\ s.regen = (c.regen \/ amount < c.max)
      /\ s.dead = c.dead
  BY <1>1, <1>2, <1>3 DEF Character
<1>5. Bounded(s) BY <1>4 DEF Bounded
<1>6. WithHealth(c, n) = IF s.cur = 0 /\ ~s.dead THEN Buried(s) ELSE s
  BY DEF WithHealth, amount
<1> HIDE DEF s
<1>7. CASE s.cur = 0 /\ ~s.dead
  BY <1>4, <1>5, <1>6, <1>7, BuriedFacts
<1>8. CASE ~(s.cur = 0 /\ ~s.dead)
  BY <1>4, <1>5, <1>6, <1>8
<1> QED BY <1>7, <1>8

LEMMA DecreasedFacts ==
    ASSUME NEW c, Bounded(c), NEW n \in Nat
    PROVE  /\ Bounded(Decreased(c, n))
           /\ c.regen => Decreased(c, n).regen
           /\ c.dead => Decreased(c, n).dead
<1> DEFINE w == [c EXCEPT !.wait = TRUE]
<1>1. Bounded(w) /\ w.regen = c.regen /\ w.dead = c.dead
  BY DEF Bounded, Character
<1>2. c.cur - n \in Int BY DEF Bounded, Character
<1>3. Decreased(c, n) = WithHealth(w, c.cur - n) BY DEF Decreased
<1> HIDE DEF w
<1> QED BY <1>1, <1>2, <1>3, WithHealthFacts

LEMMA IncreasedFacts ==
    ASSUME NEW c, Bounded(c), NEW n \in Nat
    PROVE  /\ Bounded(Increased(c, n))
           /\ Increased(c, n).regen = c.regen
           /\ Increased(c, n).dead = c.dead
<1> DEFINE cur == AtMost(c.cur + n, c.max)
<1>1. c \in Character BY DEF Bounded
<1>2. cur \in Nat /\ cur <= c.max BY <1>1 DEF AtMost, Character
<1>3. Increased(c, n) = [c EXCEPT !.cur = cur] BY DEF Increased
<1> HIDE DEF cur
<1> QED BY <1>1, <1>2, <1>3 DEF Bounded, Character

LEMMA MaxModifiedFacts ==
    ASSUME NEW c, Bounded(c), NEW n \in Int
    PROVE  /\ Bounded(MaxModified(c, n))
           /\ MaxModified(c, n).regen = c.regen
           /\ MaxModified(c, n).dead = c.dead
<1> DEFINE max == AtLeast0(c.max + n)
           cur == AtLeast0(c.cur + n)
<1>1. c \in Character /\ c.cur <= c.max BY DEF Bounded
<1>2. max \in Nat /\ cur \in Nat /\ cur <= max
  BY <1>1 DEF AtLeast0, Character
<1> DEFINE w == [c EXCEPT !.max = max, !.cur = cur]
<1>3. MaxModified(c, n) = w BY DEF MaxModified
<1> HIDE DEF max, cur
<1>4. /\ w \in Character /\ w.max = max /\ w.cur = cur
      /\ w.regen = c.regen /\ w.dead = c.dead
  BY <1>1, <1>2 DEF Character
<1> HIDE DEF w
<1> QED BY <1>2, <1>3, <1>4 DEF Bounded

(* A revival restores the whole of the health. *)
LEMMA AliveFacts ==
    ASSUME NEW c, Bounded(c), c.dead
    PROVE  /\ Bounded(Alive(c))
           /\ Alive(c).cur = Alive(c).max
           /\ c.regen => Alive(c).regen
           /\ Alive(c).dead = FALSE
<1> DEFINE s == WithHealth(c, c.max)
           a == [s EXCEPT !.dead = FALSE]
<1>1. c.max \in Int /\ c.max >= 0 BY DEF Bounded, Character
<1>2. Bounded(s) /\ (c.regen => s.regen) BY <1>1, WithHealthFacts
<1>3. s.cur = s.max
  BY <1>1 DEF WithHealth, AtMost, AtLeast0, Bounded, Character
<1>4. Alive(c) = PenaltyExtended(a) BY DEF Alive
<1> HIDE DEF s
<1>5. Bounded(a) /\ a.cur = a.max /\ a.regen = s.regen /\ a.dead = FALSE
  BY <1>2, <1>3 DEF Bounded, Character
<1> HIDE DEF a
<1>6. /\ Bounded(PenaltyExtended(a))
      /\ PenaltyExtended(a).cur = PenaltyExtended(a).max
      /\ PenaltyExtended(a).regen = a.regen
      /\ PenaltyExtended(a).dead = a.dead
  BY <1>5 DEF PenaltyExtended, Bounded, Character
<1> QED BY <1>2, <1>4, <1>5, <1>6

(* A copy written back leaves the flag alone. *)
LEMMA MergedFacts ==
    ASSUME NEW c, Bounded(c), NEW s \in Character
    PROVE  /\ Bounded(Merged(c, s))
           /\ Merged(c, s).regen = s.regen
           /\ Merged(c, s).dead = s.dead
  BY DEF Bounded, Merged, Character

-----------------------------------------------------------------------------
(* Handlers, by what they do to char, the timers and the casts *)

LEMMA CharFacts == IInv => Bounded(char)
  BY DEF IInv, TypeOK, HealthBounded, Bounded

(* Becomes keeps the chain whenever the flag is not lowered. *)
LEMMA BecomesFacts ==
    ASSUME IInv, NEW c, Bounded(c), char.regen => c.regen, Becomes(c)
    PROVE  /\ char' = c
           /\ regenTimers' \in Nat /\ RegenChain'
           /\ fieldMail' \in Seq(Mail)
<1>1. char' = c BY DEF Becomes
<1>2. regenTimers' = regenTimers + (IF c.regen /\ ~char.regen THEN 1 ELSE 0)
  BY DEF Becomes
<1>3. regenTimers = (IF char.regen THEN 1 ELSE 0) /\ char.regen \in BOOLEAN
  BY DEF IInv, RegenChain, TypeOK, Character
<1>4. c.regen \in BOOLEAN /\ c.deaths \in Nat BY DEF Bounded, Character
<1>5. regenTimers' \in Nat /\ RegenChain'
  BY <1>1, <1>2, <1>3, <1>4 DEF RegenChain
<1>6. fieldMail \in Seq(Mail) BY DEF IInv, TypeOK, Mail
<1>7. [type |-> "add", deaths |-> c.deaths] \in Mail
  BY <1>4 DEF Mail, AddTombstone
<1>8. fieldMail' \in Seq(Mail) BY <1>6, <1>7 DEF Becomes
<1> QED BY <1>1, <1>5, <1>8

LEMMA StandsFacts ==
    ASSUME IInv, NEW c, Bounded(c), char.regen => c.regen, Stands(c)
    PROVE  /\ char' = c
           /\ regenTimers' \in Nat /\ RegenChain'
           /\ fieldMail' \in Seq(Mail) /\ fieldMail' # <<>>
<1>1. char' = c BY DEF Stands
<1>2. regenTimers' = regenTimers + (IF c.regen /\ ~char.regen THEN 1 ELSE 0)
  BY DEF Stands
<1>3. regenTimers = (IF char.regen THEN 1 ELSE 0) /\ char.regen \in BOOLEAN
  BY DEF IInv, RegenChain, TypeOK, Character
<1>4. c.regen \in BOOLEAN BY DEF Bounded, Character
<1>5. regenTimers' \in Nat /\ RegenChain'
  BY <1>1, <1>2, <1>3, <1>4 DEF RegenChain
<1>6. fieldMail \in Seq(Mail) BY DEF IInv, TypeOK, Mail
<1>7. [type |-> "clear"] \in Mail BY DEF Mail, ClearTombstone
<1>8. fieldMail' = Append(fieldMail, [type |-> "clear"]) BY DEF Stands
<1>9. fieldMail' \in Seq(Mail) /\ Len(fieldMail') = Len(fieldMail) + 1
  BY <1>6, <1>7, <1>8
<1>10. fieldMail' # <<>> BY <1>6, <1>9
<1> QED BY <1>1, <1>5, <1>9, <1>10

(* Keeps keeps the chain whenever the flag is kept. *)
LEMMA KeepsFacts ==
    ASSUME IInv, NEW c, Bounded(c), c.regen = char.regen, Keeps(c)
    PROVE  /\ char' = c
           /\ regenTimers' \in Nat /\ RegenChain'
           /\ fieldMail' \in Seq(Mail)
  BY DEF Keeps, IInv, TypeOK, RegenChain, Mail

(* The parts of IInv a handler leaves alone, put together with the ones it *)
(* changes.                                                                 *)
LEMMA Rebuilt ==
    ASSUME IInv, Bounded(char)', RegenChain', regenTimers' \in Nat,
           fieldMail' \in Seq(Mail), running' \in BOOLEAN,
           UNCHANGED copy, used' \in Nat, buffs' \subseteq Buff,
           tombstone' \in Nat \cup {None}, revives' \in Nat, hurts' \in Nat
    PROVE  IInv'
<1>1. char' \in Character /\ char'.cur <= char'.max BY DEF Bounded
<1>2. copy' = copy /\ copy \in [Handler -> Character \cup {None}]
      /\ \A h \in Handler : copy[h] # None => copy[h].cur <= copy[h].max
  BY DEF IInv, TypeOK, HealthBounded
<1>3. TypeOK' BY <1>1, <1>2 DEF TypeOK, Mail
<1>4. HealthBounded' BY <1>1, <1>2 DEF HealthBounded
<1> QED BY <1>3, <1>4 DEF IInv

LEMMA HurtStep ==
    ASSUME IInv, NEW c, Bounded(c), char.regen => c.regen, Hurt(c)
    PROVE  IInv' /\ char' = c
<1>1. /\ char' = c /\ regenTimers' \in Nat /\ RegenChain'
      /\ fieldMail' \in Seq(Mail)
  BY BecomesFacts DEF Hurt
<1>2. Bounded(char)' BY <1>1 DEF Bounded
<1>3. /\ UNCHANGED <<running, copy, used, buffs, tombstone, revives>>
      /\ hurts' = hurts + 1
  BY DEF Hurt, field
<1>4. /\ running \in BOOLEAN /\ used \in Nat /\ buffs \subseteq Buff
      /\ tombstone \in Nat \cup {None} /\ revives \in Nat /\ hurts \in Nat
  BY DEF IInv, TypeOK
<1> QED BY <1>1, <1>2, <1>3, <1>4, Rebuilt

LEMMA ReviveStep ==
    ASSUME IInv, Revive, UNCHANGED copy, used' \in Nat, buffs' \subseteq Buff,
           revives' \in Nat, hurts' \in Nat
    PROVE  /\ IInv'
           /\ char.dead /\ ~char'.dead => char'.cur = char'.max /\ fieldMail' # <<>>
<1>0. Bounded(char) BY CharFacts
<1>1. /\ running \in BOOLEAN /\ tombstone \in Nat \cup {None}
      /\ regenTimers \in Nat /\ fieldMail \in Seq(Mail) /\ RegenChain
  BY DEF IInv, TypeOK, Mail
<1>2. CASE char.dead /\ RespawnHere
  <2>1. /\ Bounded(Alive(char)) /\ Alive(char).cur = Alive(char).max
        /\ char.regen => Alive(char).regen
    BY <1>0, <1>2, AliveFacts
  <2>2. Stands(Alive(char)) /\ UNCHANGED <<running, tombstone>>
    BY <1>2 DEF RespawnHere
  <2>3. /\ char' = Alive(char) /\ regenTimers' \in Nat /\ RegenChain'
        /\ fieldMail' \in Seq(Mail) /\ fieldMail' # <<>>
    BY <2>1, <2>2, StandsFacts
  <2>4. Bounded(char)' BY <2>1, <2>3 DEF Bounded
  <2> QED BY <1>1, <2>1, <2>2, <2>3, <2>4, Rebuilt
<1>3. CASE RespawnElsewhere
  <2>1. /\ running' \in BOOLEAN /\ tombstone' \in Nat \cup {None}
        /\ fieldMail' = <<>> /\ char' = char /\ regenTimers' = regenTimers
    BY <1>3 DEF RespawnElsewhere
  <2>2. Bounded(char)' BY <1>0, <2>1 DEF Bounded
  <2>3. RegenChain' BY <1>1, <2>1 DEF RegenChain
  <2>4. fieldMail' \in Seq(Mail) BY <2>1
  <2> QED BY <1>1, <2>1, <2>2, <2>3, <2>4, Rebuilt
<1>4. CASE UNCHANGED <<running, char, regenTimers, fieldMail, tombstone>>
  <2>1. Bounded(char)' BY <1>0, <1>4 DEF Bounded
  <2>2. RegenChain' BY <1>1, <1>4 DEF RegenChain
  <2> QED BY <1>1, <1>4, <2>1, <2>2, Rebuilt
<1> QED BY <1>2, <1>3, <1>4 DEF Revive

-----------------------------------------------------------------------------
(* The field is told of every death and every revival *)

(* The last cast under way announces what has become of the character.     *)
Last(mail) == mail[Len(mail)]
Announces(mail, dead) == Last(mail).type = "add" <=> dead

(* The inductive form of TombstoneFollowsDeath: what the field shows, or   *)
(* will show after the casts still under way.                              *)
Shown == running =>
    IF fieldMail = <<>> THEN tombstone # None <=> char.dead
                        ELSE Announces(fieldMail, char.dead)

(* A step of the process leaves the dead dead and the living alive, or     *)
(* casts the change to the field; after its exit it is of no concern.      *)
Cast(m) == fieldMail' = Append(fieldMail, m) /\ (m.type = "add" <=> char'.dead)
Tells == running' =>
    /\ running /\ UNCHANGED tombstone
    /\ \/ char'.dead = char.dead /\ UNCHANGED fieldMail
       \/ \E m \in Mail : Cast(m)

LEMMA LastAppended ==
    ASSUME NEW mail \in Seq(Mail), NEW m \in Mail
    PROVE  Append(mail, m) # <<>> /\ Last(Append(mail, m)) = m
<1>1. /\ Len(Append(mail, m)) = Len(mail) + 1
      /\ Append(mail, m)[Len(mail) + 1] = m
      /\ Append(mail, m) \in Seq(Mail)
  OBVIOUS
<1> QED BY <1>1 DEF Last

LEMMA LastOfTail ==
    ASSUME NEW mail \in Seq(Mail), mail # <<>>
    PROVE  \/ Tail(mail) = <<>> /\ Last(mail) = Head(mail)
           \/ Tail(mail) # <<>> /\ Last(Tail(mail)) = Last(mail)
<1>1. Len(mail) \in Nat /\ Len(mail) > 0 BY EmptySeq, LenProperties
<1>2. CASE Len(mail) = 1
  <2>1. Len(Tail(mail)) = 0 BY <1>2, HeadTailProperties
  <2>2. Tail(mail) = <<>> BY <2>1, HeadTailProperties, EmptySeq
  <2> QED BY <1>2, <2>2, HeadTailProperties DEF Last
<1>3. CASE Len(mail) > 1
  <2>1. Len(Tail(mail)) = Len(mail) - 1 /\ Tail(mail) \in Seq(Mail)
    BY <1>3, HeadTailProperties
  <2> DEFINE t == Tail(mail)
  <2>2. Len(t) > 0 BY <1>1, <1>3, <2>1
  <2> HIDE DEF t
  <2>3. t # <<>> BY <2>2
  <2> USE DEF t
  <2>4. Tail(mail)[Len(mail) - 1] = mail[Len(mail)]
    BY <1>1, <1>3, <2>1, HeadTailProperties
  <2> QED BY <2>1, <2>3, <2>4 DEF Last
<1>4. Len(mail) = 1 \/ Len(mail) > 1 BY <1>1
<1> QED BY <1>2, <1>3, <1>4

LEMMA BecomesTells ==
    ASSUME IInv, NEW c, Bounded(c), char.dead => c.dead, Becomes(c),
           UNCHANGED <<running, tombstone>>
    PROVE  Tells
<1>1. char' = c BY DEF Becomes
<1>2. char.dead \in BOOLEAN /\ c.dead \in BOOLEAN /\ c.deaths \in Nat
  BY DEF IInv, TypeOK, Bounded, Character
<1> DEFINE m == [type |-> "add", deaths |-> c.deaths]
<1>3. m \in Mail /\ m.type = "add" BY <1>2 DEF Mail, AddTombstone
<1>4. fieldMail' = IF c.dead /\ ~char.dead THEN Append(fieldMail, m) ELSE fieldMail
  BY DEF Becomes
<1> HIDE DEF m
<1>5. CASE c.dead /\ ~char.dead
  <2>1. Cast(m) BY <1>1, <1>3, <1>4, <1>5 DEF Cast
  <2> QED BY <1>3, <2>1 DEF Tells
<1>6. CASE ~(c.dead /\ ~char.dead)
  <2>1. char'.dead = char.dead BY <1>1, <1>2, <1>6
  <2> QED BY <1>4, <1>6, <2>1 DEF Tells
<1> QED BY <1>5, <1>6

LEMMA StandsTells ==
    ASSUME NEW c, c.dead = FALSE, Stands(c), UNCHANGED <<running, tombstone>>
    PROVE  Tells
<1> DEFINE m == [type |-> "clear"]
<1>1. m \in Mail /\ m.type # "add" BY DEF Mail, ClearTombstone
<1>2. fieldMail' = Append(fieldMail, m) /\ char' = c BY DEF Stands
<1> HIDE DEF m
<1>3. Cast(m) BY <1>1, <1>2 DEF Cast
<1> QED BY <1>1, <1>3 DEF Tells

LEMMA ReviveTells ==
    ASSUME IInv, running, Revive
    PROVE  Tells
<1>1. Bounded(char) BY CharFacts
<1>2. CASE char.dead /\ RespawnHere
  <2>1. Alive(char).dead = FALSE BY <1>1, <1>2, AliveFacts
  <2>2. Stands(Alive(char)) /\ UNCHANGED <<running, tombstone>>
    BY <1>2 DEF RespawnHere
  <2> QED BY <2>1, <2>2, StandsTells
<1>3. CASE RespawnElsewhere
  BY <1>3 DEF RespawnElsewhere, Tells
<1>4. CASE UNCHANGED <<running, char, regenTimers, fieldMail, tombstone>>
  BY <1>4 DEF Tells
<1> QED BY <1>2, <1>3, <1>4 DEF Revive

LEMMA ShownAfterTells ==
    ASSUME IInv, Shown, Tells
    PROVE  Shown'
<1> SUFFICES ASSUME running'
             PROVE  IF fieldMail' = <<>> THEN tombstone' # None <=> char'.dead
                                         ELSE Announces(fieldMail', char'.dead)
  BY DEF Shown
<1>1. running /\ tombstone' = tombstone BY DEF Tells
<1>2. CASE char'.dead = char.dead /\ UNCHANGED fieldMail
  BY <1>1, <1>2 DEF Shown
<1>3. ASSUME NEW m \in Mail, Cast(m)
      PROVE  fieldMail' # <<>> /\ Announces(fieldMail', char'.dead)
  <2>1. fieldMail \in Seq(Mail) BY DEF IInv, TypeOK, Mail
  <2>2. fieldMail' # <<>> /\ Last(fieldMail') = m
    BY <1>3, <2>1, LastAppended DEF Cast
  <2> QED BY <1>3, <2>2 DEF Cast, Announces
<1> QED BY <1>2, <1>3 DEF Tells

-----------------------------------------------------------------------------
(* The inductive step *)

Whole == char.dead /\ ~char'.dead => char'.cur = char'.max /\ fieldMail' # <<>>

LEMMA InitIInv == Init => IInv
  BY VitalsAssumption
     DEF Init, IInv, TypeOK, HealthBounded, RegenChain, Character

LEMMA HitsProduct == \A m, n \in Nat : m * n \in Nat
  OBVIOUS

LEMMA HitsCounted == \A n \in Nat : TotalHits(n) \in Nat
  BY VitalsAssumption, HitsProduct DEF TotalHits, AtMost

LEMMA HurtNext ==
    ASSUME IInv, NEW n \in Damage,
           MobHit(n) \/ DecreaseStats(n) \/ ReceiveFallDmg(n) \/ SetStat(n)
    PROVE  IInv' /\ Whole /\ Tells
<1>0. Bounded(char) /\ n \in Nat /\ char.cur \in Nat
  BY CharFacts, VitalsAssumption DEF Bounded, Character
<1>1. CASE Hurt(Decreased(char, n))
  <2>1. /\ Bounded(Decreased(char, n))
        /\ char.regen => Decreased(char, n).regen
        /\ char.dead => Decreased(char, n).dead
    BY <1>0, DecreasedFacts
  <2>2. IInv' /\ char' = Decreased(char, n) BY <1>1, <2>1, HurtStep
  <2>3. Tells BY <1>1, <2>1, BecomesTells DEF Hurt, field
  <2> QED BY <2>1, <2>2, <2>3 DEF Whole
<1>2. ASSUME NEW m \in Int, Hurt(WithHealth(char, m))
      PROVE  IInv' /\ Whole /\ Tells
  <2>1. /\ Bounded(WithHealth(char, m))
        /\ char.regen => WithHealth(char, m).regen
        /\ char.dead => WithHealth(char, m).dead
    BY <1>0, WithHealthFacts
  <2>2. IInv' /\ char' = WithHealth(char, m) BY <1>2, <2>1, HurtStep
  <2>3. Tells BY <1>2, <2>1, BecomesTells DEF Hurt, field
  <2> QED BY <2>1, <2>2, <2>3 DEF Whole
<1>3. char.cur - n \in Int /\ n \in Int BY <1>0
<1> QED BY <1>1, <1>2, <1>3 DEF MobHit, DecreaseStats, ReceiveFallDmg, SetStat

(* A write of the process's own that starts nothing. *)
LEMMA KeepsNext ==
    ASSUME IInv, NEW c, Bounded(c), c.regen = char.regen, c.dead = char.dead,
           Keeps(c), UNCHANGED <<running, used, field, hurts>>,
           copy' \in [Handler -> Character \cup {None}],
           \A h \in Handler : copy'[h] # None => copy'[h].cur <= copy'[h].max,
           buffs' \subseteq Buff
    PROVE  IInv' /\ Whole /\ Tells
<1>1. /\ char' = c /\ regenTimers' \in Nat /\ RegenChain'
      /\ fieldMail' \in Seq(Mail)
  BY KeepsFacts
<1>2. char' \in Character /\ char'.cur <= char'.max BY <1>1 DEF Bounded
<1>3. /\ running' \in BOOLEAN /\ used' \in Nat /\ hurts' \in Nat
      /\ tombstone' \in Nat \cup {None} /\ revives' \in Nat
  BY DEF IInv, TypeOK, field
<1>4. TypeOK' BY <1>1, <1>2, <1>3 DEF TypeOK, Mail
<1>5. HealthBounded' BY <1>2 DEF HealthBounded
<1>6. Tells BY <1>1 DEF Tells, Keeps, field
<1> QED BY <1>1, <1>4, <1>5, <1>6 DEF IInv, Whole

LEMMA HealNext ==
    ASSUME IInv, NEW n \in Heal, IncreaseStats(n)
    PROVE  IInv' /\ Whole /\ Tells
<1>1. Bounded(char) /\ n \in Nat BY CharFacts, VitalsAssumption
<1>2. /\ Bounded(Increased(char, n))
      /\ Increased(char, n).regen = char.regen
      /\ Increased(char, n).dead = char.dead
  BY <1>1, IncreasedFacts
<1>3. /\ Keeps(Increased(char, n)) /\ UNCHANGED <<running, used, field, hurts>>
      /\ copy' = copy /\ buffs' = buffs
  BY DEF IncreaseStats
<1>4. /\ copy' \in [Handler -> Character \cup {None}] /\ buffs' \subseteq Buff
      /\ \A h \in Handler : copy'[h] # None => copy'[h].cur <= copy'[h].max
  BY <1>3 DEF IInv, TypeOK, HealthBounded
<1> QED BY <1>2, <1>3, <1>4, KeepsNext

LEMMA BuffNext ==
    ASSUME IInv, NEW b \in Buff, BuffApplied(b) \/ BuffRemoved(b)
    PROVE  IInv' /\ Whole /\ Tells
<1>0. Bounded(char) /\ BuffHealth \in Int /\ -BuffHealth \in Int
  BY CharFacts, VitalsAssumption
<1>1. PICK n \in Int : Keeps(MaxModified(char, n))
  BY <1>0 DEF BuffApplied, BuffRemoved
<1>2. /\ Bounded(MaxModified(char, n))
      /\ MaxModified(char, n).regen = char.regen
      /\ MaxModified(char, n).dead = char.dead
  BY <1>0, MaxModifiedFacts
<1>3. /\ UNCHANGED <<running, used, field, hurts>> /\ copy' = copy
      /\ buffs' \in {buffs \cup {b}, buffs \ {b}}
  BY DEF BuffApplied, BuffRemoved
<1>4. /\ copy' \in [Handler -> Character \cup {None}] /\ buffs' \subseteq Buff
      /\ \A h \in Handler : copy'[h] # None => copy'[h].cur <= copy'[h].max
  BY <1>3 DEF IInv, TypeOK, HealthBounded
<1> QED BY <1>1, <1>2, <1>3, <1>4, KeepsNext

LEMMA RefreshNext ==
    ASSUME IInv, RefreshStats
    PROVE  IInv' /\ Whole /\ Tells
<1> DEFINE c == [char EXCEPT !.max = BaseHealth, !.cur = BaseHealth]
<1>1. Bounded(c) /\ c.regen = char.regen /\ c.dead = char.dead
  <2>1. char \in Character /\ BaseHealth \in Nat
    BY CharFacts, VitalsAssumption DEF Bounded
  <2>2. /\ c \in Character /\ c.max = BaseHealth /\ c.cur = BaseHealth
        /\ c.regen = char.regen /\ c.dead = char.dead
    BY <2>1 DEF Character
  <2> HIDE DEF c
  <2> QED BY <2>1, <2>2 DEF Bounded
<1>3. /\ Keeps(c) /\ UNCHANGED <<running, used, field, hurts>>
      /\ copy' = copy /\ buffs' = buffs
  BY DEF RefreshStats
<1>4. /\ copy' \in [Handler -> Character \cup {None}] /\ buffs' \subseteq Buff
      /\ \A h \in Handler : copy'[h] # None => copy'[h].cur <= copy'[h].max
  BY <1>3 DEF IInv, TypeOK, HealthBounded
<1> HIDE DEF c
<1> QED BY <1>1, <1>3, <1>4, KeepsNext

LEMMA CopyNext ==
    ASSUME IInv, NEW h \in Handler, Lookup(h) \/ Update(h)
    PROVE  IInv' /\ Whole /\ Tells
<1>0. Bounded(char) BY CharFacts
<1>1. /\ copy \in [Handler -> Character \cup {None}] /\ char \in Character
      /\ \A g \in Handler : copy[g] # None => copy[g].cur <= copy[g].max
      /\ buffs \subseteq Buff
  BY DEF IInv, TypeOK, HealthBounded
<1>2. CASE Lookup(h)
  <2>1. copy' = [copy EXCEPT ![h] = char] BY <1>2 DEF Lookup
  <2>2. copy' \in [Handler -> Character \cup {None}] BY <1>1, <2>1
  <2>3. \A g \in Handler : copy'[g] # None => copy'[g].cur <= copy'[g].max
    BY <1>0, <1>1, <2>1 DEF Bounded
  <2>4. Keeps(char) /\ UNCHANGED <<running, used, field, hurts>> /\ buffs' = buffs
    BY <1>2 DEF Lookup, Keeps
  <2> QED BY <1>0, <1>1, <2>2, <2>3, <2>4, KeepsNext
<1>3. CASE Update(h)
  <2>1. copy' = [copy EXCEPT ![h] = None] /\ copy[h] # None BY <1>3 DEF Update
  <2>2. copy' \in [Handler -> Character \cup {None}] BY <1>1, <2>1
  <2>3. \A g \in Handler : copy'[g] # None => copy'[g].cur <= copy'[g].max
    BY <1>1, <2>1
  <2>4. Bounded(copy[h]) BY <1>1, <2>1 DEF Bounded
  <2>5. /\ Bounded(Merged(copy[h], char))
        /\ Merged(copy[h], char).regen = char.regen
        /\ Merged(copy[h], char).dead = char.dead
    BY <1>1, <2>4, MergedFacts
  <2>6. /\ Keeps(Merged(copy[h], char)) /\ UNCHANGED <<running, used, field, hurts>>
        /\ buffs' = buffs
    BY <1>3 DEF Update
  <2> QED BY <1>1, <2>2, <2>3, <2>5, <2>6, KeepsNext
<1> QED BY <1>2, <1>3

LEMMA RegenNext ==
    ASSUME IInv, RegenMessage
    PROVE  IInv' /\ Whole /\ Tells
<1>0. /\ Bounded(char) /\ char \in Character /\ char.cur <= char.max
      /\ regenTimers > 0 /\ regenTimers = (IF char.regen THEN 1 ELSE 0)
      /\ Regen \in Nat
  BY CharFacts, VitalsAssumption
     DEF RegenMessage, RegenOfDead, RegenDeferred, RegenTick, RegenDone,
         RegenHandled, IInv, RegenChain, Bounded
<1>1. char.regen /\ regenTimers = 1 BY <1>0 DEF Character
<1>2. /\ UNCHANGED <<running, copy, used, buffs, fieldMail, tombstone, revives, hurts>>
  BY DEF RegenMessage, RegenOfDead, RegenDeferred, RegenTick, RegenDone,
         RegenHandled, field
<1>3. ASSUME NEW c, Bounded(c), c.dead = char.dead, NEW t \in Nat,
             t = (IF c.regen THEN 1 ELSE 0), char' = c, regenTimers' = t
      PROVE  IInv' /\ Whole /\ Tells
  <2>1. Bounded(char)' BY <1>3 DEF Bounded
  <2>2. RegenChain' BY <1>3 DEF RegenChain
  <2>3. /\ running \in BOOLEAN /\ used \in Nat /\ buffs \subseteq Buff
        /\ tombstone \in Nat \cup {None} /\ revives \in Nat /\ hurts \in Nat
        /\ fieldMail \in Seq(Mail)
    BY DEF IInv, TypeOK, Mail
  <2>4. IInv' BY <1>2, <1>3, <2>1, <2>2, <2>3, Rebuilt
  <2>5. Tells BY <1>2, <1>3 DEF Tells
  <2> QED BY <1>3, <2>4, <2>5 DEF Whole
<1>4. CASE RegenOfDead
  <2> DEFINE c == [char EXCEPT !.regen = FALSE]
  <2>1. Bounded(c) /\ c.dead = char.dead /\ 0 = (IF c.regen THEN 1 ELSE 0)
    BY <1>0 DEF Bounded, Character
  <2>2. char' = c /\ regenTimers' = 0 BY <1>1, <1>4 DEF RegenOfDead, RegenHandled
  <2> HIDE DEF c
  <2> QED BY <1>3, <2>1, <2>2
<1>5. CASE RegenDeferred
  <2> DEFINE c == [char EXCEPT !.regen = TRUE]
  <2>1. Bounded(c) /\ c.dead = char.dead /\ 1 = (IF c.regen THEN 1 ELSE 0)
    BY <1>0 DEF Bounded, Character
  <2>2. char' = c /\ regenTimers' = 1 BY <1>1, <1>5 DEF RegenDeferred, RegenHandled
  <2> HIDE DEF c
  <2> QED BY <1>3, <2>1, <2>2
<1>6. CASE RegenTick
  <2> DEFINE c == [char EXCEPT !.regen = TRUE,
                               !.cur = AtMost(char.cur + Regen, char.max)]
  <2>0. /\ AtMost(char.cur + Regen, char.max) \in Nat
        /\ AtMost(char.cur + Regen, char.max) <= char.max
    BY <1>0 DEF Character, AtMost
  <2>1. Bounded(c) /\ c.dead = char.dead /\ 1 = (IF c.regen THEN 1 ELSE 0)
    BY <1>0, <2>0 DEF Bounded, Character
  <2>2. char' = c /\ regenTimers' = 1 BY <1>1, <1>6 DEF RegenTick, RegenHandled
  <2> HIDE DEF c
  <2> QED BY <1>3, <2>1, <2>2
<1>7. CASE RegenDone
  <2> DEFINE c == [char EXCEPT !.regen = FALSE]
  <2>1. Bounded(c) /\ c.dead = char.dead /\ 0 = (IF c.regen THEN 1 ELSE 0)
    BY <1>0 DEF Bounded, Character
  <2>2. char' = c /\ regenTimers' = 0 BY <1>1, <1>7 DEF RegenDone, RegenHandled
  <2> HIDE DEF c
  <2> QED BY <1>3, <2>1, <2>2
<1> QED BY <1>4, <1>5, <1>6, <1>7 DEF RegenMessage

LEMMA ReviveNext ==
    ASSUME IInv, SafeRevive \/ TombstoneRevive \/ InstantRevive \/ DailyReset
    PROVE  IInv' /\ Whole /\ Tells
<1>0. /\ Bounded(char) /\ running \in BOOLEAN /\ used \in Nat /\ buffs \subseteq Buff
      /\ tombstone \in Nat \cup {None} /\ revives \in Nat /\ hurts \in Nat
      /\ regenTimers \in Nat /\ fieldMail \in Seq(Mail) /\ RegenChain
  BY CharFacts DEF IInv, TypeOK, Mail
<1>1. CASE SafeRevive
  <2>1. IInv' /\ Whole BY <1>0, <1>1, ReviveStep DEF SafeRevive, Whole
  <2>2. Tells BY <1>1, ReviveTells DEF SafeRevive
  <2> QED BY <2>1, <2>2
<1>2. CASE TombstoneRevive
  <2>1. revives' \in Nat BY <1>0, <1>2 DEF TombstoneRevive
  <2>2. IInv' /\ Whole
    BY <1>0, <1>2, <2>1, ReviveStep DEF TombstoneRevive, Whole
  <2>3. Tells BY <1>2, ReviveTells DEF TombstoneRevive
  <2> QED BY <2>2, <2>3
<1>3. CASE InstantRevive
  <2>1. /\ Bounded(Alive(char)) /\ Alive(char).cur = Alive(char).max
        /\ char.regen => Alive(char).regen
        /\ Alive(char).dead = FALSE
    BY <1>0, <1>3, AliveFacts DEF InstantRevive
  <2>2. /\ char' = Alive(char) /\ regenTimers' \in Nat /\ RegenChain'
        /\ fieldMail' \in Seq(Mail) /\ fieldMail' # <<>>
    BY <1>3, <2>1, StandsFacts DEF InstantRevive
  <2>3. Bounded(char)' BY <2>1, <2>2 DEF Bounded
  <2>4. /\ UNCHANGED <<running, copy, buffs, tombstone, revives, hurts>>
        /\ used' = used + 1
    BY <1>3 DEF InstantRevive, field
  <2>5. IInv' BY <1>0, <2>2, <2>3, <2>4, Rebuilt
  <2>6. Tells BY <1>3, <2>1, <2>4, StandsTells DEF InstantRevive
  <2> QED BY <2>1, <2>2, <2>5, <2>6 DEF Whole
<1>4. CASE DailyReset
  <2>1. /\ UNCHANGED <<running, char, regenTimers, copy, buffs, fieldMail,
                       tombstone, revives, hurts>>
        /\ used' = 0
    BY <1>4 DEF DailyReset, field
  <2>2. Bounded(char)' BY <1>0, <2>1 DEF Bounded
  <2>3. RegenChain' BY <1>0, <2>1 DEF RegenChain
  <2>4. IInv' BY <1>0, <2>1, <2>2, <2>3, Rebuilt
  <2>5. Tells BY <2>1 DEF Tells
  <2> QED BY <2>1, <2>4, <2>5 DEF Whole
<1> QED BY <1>1, <1>2, <1>3, <1>4

LEMMA FieldNext ==
    ASSUME IInv, FieldHandles \/ HitTombstone
    PROVE  IInv' /\ Whole
<1>0. /\ Bounded(char) /\ running \in BOOLEAN /\ used \in Nat /\ buffs \subseteq Buff
      /\ tombstone \in Nat \cup {None} /\ revives \in Nat /\ hurts \in Nat
      /\ regenTimers \in Nat /\ fieldMail \in Seq(Mail) /\ RegenChain
  BY CharFacts DEF IInv, TypeOK, Mail
<1>1. /\ UNCHANGED <<running, char, regenTimers, copy, buffs, hurts>>
      /\ used' = used
  BY DEF FieldHandles, HitTombstone
<1>2. Bounded(char)' BY <1>0, <1>1 DEF Bounded
<1>3. RegenChain' BY <1>0, <1>1 DEF RegenChain
<1>4. Whole BY <1>1 DEF Whole
<1>5. CASE FieldHandles
  <2>1. Head(fieldMail) \in Mail /\ fieldMail' \in Seq(Mail)
    BY <1>0, <1>5 DEF FieldHandles
  <2>2. Head(fieldMail).type = "add" => Head(fieldMail).deaths \in Nat
    BY <2>1 DEF Mail, AddTombstone, ClearTombstone
  <2>3. tombstone' \in Nat \cup {None} /\ revives' = revives
    BY <1>5, <2>2, HitsCounted DEF FieldHandles
  <2> QED BY <1>0, <1>1, <1>2, <1>3, <1>4, <2>1, <2>3, Rebuilt
<1>6. CASE HitTombstone
  <2>1. fieldMail' = fieldMail BY <1>6 DEF HitTombstone
  <2>2. tombstone' \in Int /\ tombstone' >= 0 /\ revives' \in Nat
    BY <1>0, <1>6 DEF HitTombstone, AtLeast0
  <2> QED BY <1>0, <1>1, <1>2, <1>3, <1>4, <2>1, <2>2, Rebuilt
<1> QED BY <1>5, <1>6

(* The field shows what the last cast it handles announces: new/1 of the   *)
(* tombstone counts hits, and hits never remove it.                        *)
LEMMA FieldShows ==
    ASSUME IInv, Shown, FieldHandles \/ HitTombstone
    PROVE  Shown'
<1> SUFFICES ASSUME running'
             PROVE  IF fieldMail' = <<>> THEN tombstone' # None <=> char'.dead
                                         ELSE Announces(fieldMail', char'.dead)
  BY DEF Shown
<1>1. running /\ char' = char BY DEF FieldHandles, HitTombstone
<1>2. fieldMail \in Seq(Mail) /\ tombstone \in Nat \cup {None} /\ None \notin Nat
  BY VitalsAssumption DEF IInv, TypeOK, Mail
<1>3. CASE FieldHandles
  <2>1. fieldMail # <<>> /\ fieldMail' = Tail(fieldMail)
    BY <1>3 DEF FieldHandles
  <2>2. Announces(fieldMail, char.dead) BY <1>1, <2>1 DEF Shown
  <2>3. CASE Tail(fieldMail) # <<>> /\ Last(Tail(fieldMail)) = Last(fieldMail)
    BY <1>1, <2>1, <2>2, <2>3 DEF Announces
  <2>4. CASE Tail(fieldMail) = <<>> /\ Last(fieldMail) = Head(fieldMail)
    <3>1. Head(fieldMail) \in Mail BY <1>2, <2>1
    <3>2. Head(fieldMail).type = "add" => Head(fieldMail).deaths \in Nat
      BY <3>1 DEF Mail, AddTombstone, ClearTombstone
    <3>3. Head(fieldMail).type = "add" => TotalHits(Head(fieldMail).deaths) \in Nat
      BY <3>2, HitsCounted
    <3>4. tombstone' # None <=> Head(fieldMail).type = "add"
      BY <1>2, <1>3, <3>3 DEF FieldHandles
    <3> QED BY <1>1, <2>1, <2>2, <2>4, <3>4 DEF Announces
  <2> QED BY <1>2, <2>1, <2>3, <2>4, LastOfTail
<1>4. CASE HitTombstone
  <2>1. fieldMail' = fieldMail /\ tombstone # None BY <1>4 DEF HitTombstone
  <2>2. tombstone \in Nat /\ tombstone' = AtLeast0(tombstone - 1)
    BY <1>2, <1>4 DEF HitTombstone
  <2>3. tombstone' \in Nat BY <2>2 DEF AtLeast0
  <2>4. tombstone' # None BY <1>2, <2>3
  <2> QED BY <1>1, <2>1, <2>4 DEF Shown
<1> QED BY <1>3, <1>4

LEMMA TimeNext ==
    ASSUME IInv, WaitOver \/ PenaltyOver
    PROVE  IInv' /\ Whole /\ Tells
<1>0. /\ char \in Character /\ char.cur <= char.max /\ running \in BOOLEAN
      /\ used \in Nat /\ buffs \subseteq Buff
      /\ tombstone \in Nat \cup {None} /\ revives \in Nat /\ hurts \in Nat
      /\ regenTimers \in Nat /\ fieldMail \in Seq(Mail) /\ RegenChain
  BY DEF IInv, TypeOK, HealthBounded, Mail
<1>1. /\ UNCHANGED <<running, regenTimers, copy, buffs, fieldMail, tombstone,
                     revives, hurts>>
      /\ used' = used
  BY DEF WaitOver, PenaltyOver, field
<1>2. /\ Bounded(char)' /\ char'.regen = char.regen /\ char'.dead = char.dead
  BY <1>0 DEF WaitOver, PenaltyOver, Bounded, Character
<1>3. RegenChain' BY <1>0, <1>1, <1>2 DEF RegenChain
<1>4. IInv' BY <1>0, <1>1, <1>2, <1>3, Rebuilt
<1>5. Tells BY <1>1, <1>2 DEF Tells
<1> QED BY <1>2, <1>4, <1>5 DEF Whole

LEMMA NextStep ==
    ASSUME IInv, Next
    PROVE  /\ IInv' /\ Whole
           /\ Tells \/ FieldHandles \/ HitTombstone
<1>1. CASE \E n \in Damage :
             MobHit(n) \/ DecreaseStats(n) \/ ReceiveFallDmg(n) \/ SetStat(n)
  BY <1>1, HurtNext
<1>2. CASE \E n \in Heal : IncreaseStats(n)
  BY <1>2, HealNext
<1>3. CASE RegenMessage
  BY <1>3, RegenNext
<1>4. CASE SafeRevive \/ TombstoneRevive \/ InstantRevive \/ DailyReset
  BY <1>4, ReviveNext
<1>5. CASE \E b \in Buff : BuffApplied(b) \/ BuffRemoved(b)
  BY <1>5, BuffNext
<1>6. CASE RefreshStats
  BY <1>6, RefreshNext
<1>7. CASE \E h \in Handler : Lookup(h) \/ Update(h)
  BY <1>7, CopyNext
<1>8. CASE FieldHandles \/ HitTombstone
  BY <1>8, FieldNext
<1>9. CASE WaitOver \/ PenaltyOver
  BY <1>9, TimeNext
<1> QED BY <1>1, <1>2, <1>3, <1>4, <1>5, <1>6, <1>7, <1>8, <1>9 DEF Next

LEMMA StutterIInv ==
    ASSUME IInv, UNCHANGED vars
    PROVE  IInv'
  BY DEF IInv, TypeOK, HealthBounded, RegenChain, vars, field

LEMMA Inductive == Spec => []IInv
<1>1. IInv /\ [Next]_vars => IInv' BY NextStep, StutterIInv
<1> QED BY InitIInv, <1>1, PTL DEF Spec

LEMMA ShownStep ==
    ASSUME IInv, Shown, [Next]_vars
    PROVE  Shown'
<1>1. CASE Next
  BY <1>1, NextStep, ShownAfterTells, FieldShows
<1>2. CASE UNCHANGED vars
  BY <1>2 DEF Shown, vars, field
<1> QED BY <1>1, <1>2

LEMMA ShownInductive == Spec => []Shown
<1>1. Init => Shown BY DEF Init, Shown
<1>2. IInv /\ Shown /\ [Next]_vars => Shown' BY ShownStep
<1> QED BY Inductive, <1>1, <1>2, PTL DEF Spec

-----------------------------------------------------------------------------
(* What every behaviour keeps *)

(* Every field of the character, its copies, the timers, the casts to the  *)
(* field and its tombstone keep their types: health is never negative,      *)
(* whatever modify_max/3 takes away.                                        *)
THEOREM TypeCorrect == Spec => []TypeOK
<1>1. IInv => TypeOK BY DEF IInv
<1> QED BY Inductive, <1>1, PTL

(* Health never exceeds its maximum, in the process or in a copy on its way *)
(* back, although modify_max/3 and the regeneration write without set/4.    *)
THEOREM HealthIsBounded == Spec => []HealthBounded
<1>1. IInv => HealthBounded BY DEF IInv
<1> QED BY Inductive, <1>1, PTL

(* However many hits, potions, deaths, revivals and copies written back, one *)
(* {:regen, :health} message is under way when regen_health? is set, else    *)
(* none: regeneration never runs twice.                                      *)
THEOREM OneRegenChain == Spec => []RegenChain
<1>1. IInv => RegenChain BY DEF IInv
<1> QED BY Inductive, <1>1, PTL

(* When every cast is handled the field shows a tombstone exactly for the   *)
(* dead, in whatever order hits, revivals, copies written back and the       *)
(* field's own work come: the last cast announces the present state.         *)
THEOREM TombstoneOfTheDead == Spec => []TombstoneFollowsDeath
<1>1. Shown => TombstoneFollowsDeath BY DEF Shown, TombstoneFollowsDeath
<1> QED BY ShownInductive, <1>1, PTL

(* A character only comes back to life through a revival, with full health   *)
(* and its tombstone's removal cast; no copy written back raises the dead.   *)
THEOREM RevivesWhole == Spec => ReviveIsWhole
<1>1. IInv /\ [Next]_vars
        => (char.dead /\ ~char'.dead => char'.cur = char'.max /\ fieldMail' # <<>>)
           \/ UNCHANGED vars
  BY NextStep DEF Whole
<1> QED BY Inductive, <1>1, PTL DEF Spec, ReviveIsWhole
=============================================================================
