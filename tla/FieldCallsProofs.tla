--------------------------- MODULE FieldCallsProofs ---------------------------
(***************************************************************************)
(* The lifetime of a shared field and the calls between it and its         *)
(* players, for any players and any bounds.                                *)
(*                                                                         *)
(* First: an empty field is on its way out and a field with players is     *)
(* not.  Deadline is inductive with the types of the field's own mailbox   *)
(* and task: whoever waits for whom has no part in it.                     *)
(*                                                                         *)
(* Then: no request and no reply is lost or taken for another's, and who   *)
(* is in the field is one of its sessions.  NoLostCall and OnField are not *)
(* inductive by themselves.  IInv adds what a session and a character are  *)
(* at while their calls are under way (Stances), and that no departure of  *)
(* a player is still to be handled when it is back (NoOldDeparture): a     *)
(* request outlives the caller that gave it up.                            *)
(***************************************************************************)
EXTENDS FieldCalls, SequenceTheorems, TLAPS

-------------------------------------------------------------------------------
(* The lifetime of the field *)

FieldTyped ==
    /\ sessions \in SUBSET Character
    /\ inbox \in Seq(Messages)
    /\ task \in Tasks \cup {None}

DInv == FieldTyped /\ Deadline

\* A message in the inbox that sets the timer or ends the field.
Pending(q) == \E i \in 1..Len(q) : q[i].type \in {"maybe_stop", "dispose"}

\* What is already in a mailbox stays there when a message comes in.
LEMMA PendingAppend ==
    ASSUME NEW q \in Seq(Messages), NEW m \in Messages
    PROVE  /\ Append(q, m) \in Seq(Messages)
           /\ Pending(q) => Pending(Append(q, m))
           /\ m.type \in {"maybe_stop", "dispose"} => Pending(Append(q, m))
<1>1. Append(q, m) \in Seq(Messages)
  BY AppendProperties
<1>2. /\ Len(Append(q, m)) = Len(q) + 1
      /\ \A i \in 1..Len(q) : Append(q, m)[i] = q[i]
      /\ Append(q, m)[Len(q) + 1] = m
  BY AppendProperties
<1>3. Len(q) \in Nat
  BY LenProperties
<1>4. Pending(q) => Pending(Append(q, m))
  BY <1>2, <1>3 DEF Pending
<1>5. m.type \in {"maybe_stop", "dispose"} => Pending(Append(q, m))
  BY <1>2, <1>3 DEF Pending
<1> QED BY <1>1, <1>4, <1>5

\* Handling a message of another type leaves those in the mailbox.
LEMMA PendingTail ==
    ASSUME NEW q \in Seq(Messages), q # <<>>
    PROVE  /\ Head(q) \in Messages
           /\ Tail(q) \in Seq(Messages)
           /\ Pending(q) /\ Head(q).type \notin {"maybe_stop", "dispose"} => Pending(Tail(q))
<1>1. /\ Head(q) \in Messages /\ Tail(q) \in Seq(Messages)
      /\ Head(q) = q[1]
      /\ Len(Tail(q)) = Len(q) - 1
      /\ \A i \in 1..Len(Tail(q)) : Tail(q)[i] = q[i + 1]
  BY HeadTailProperties, SMT
<1>2. Len(q) \in Nat
  BY LenProperties
<1>3. ASSUME Pending(q), Head(q).type \notin {"maybe_stop", "dispose"}
      PROVE  Pending(Tail(q))
  <2>1. PICK i \in 1..Len(q) : q[i].type \in {"maybe_stop", "dispose"}
    BY <1>3 DEF Pending
  <2>2. i # 1
    BY <1>1, <1>3, <2>1
  <2>3. i - 1 \in 1..Len(Tail(q)) /\ Tail(q)[i - 1] = q[i]
    BY <1>1, <1>2, <2>2
  <2> QED BY <2>1, <2>3 DEF Pending
<1> QED BY <1>1, <1>3

\* Giving up a request marks it and changes nothing else.
LEMMA AbandonedKeeps ==
    ASSUME FieldTyped, Deadline, NEW caller \in Caller, Abandoned(caller),
           UNCHANGED <<up, sessions, armed>>
    PROVE  FieldTyped' /\ Deadline'
<1>1. /\ inbox \in Seq(Messages) /\ Len(inbox) \in Nat
      /\ \A i \in 1..Len(inbox) : inbox[i] \in Messages
  BY LenProperties, ElementOfSeq DEF FieldTyped
<1>2. \A m \in Messages : IsRequest(m) =>
          /\ [m EXCEPT !.live = FALSE] \in Messages
          /\ [m EXCEPT !.live = FALSE].type = m.type
  BY DEF Messages, IsRequest
<1>3. /\ inbox' \in Seq(Messages) /\ Len(inbox') = Len(inbox)
      /\ \A i \in 1..Len(inbox) : inbox'[i].type = inbox[i].type
  <2> DEFINE new(i) == IF IsRequest(inbox[i]) /\ inbox[i].by = caller
                         THEN [inbox[i] EXCEPT !.live = FALSE] ELSE inbox[i]
  <2>1. inbox' = [i \in 1..Len(inbox) |-> new(i)]
    BY DEF Abandoned
  <2>2. \A i \in 1..Len(inbox) : new(i) \in Messages /\ new(i).type = inbox[i].type
    BY <1>1, <1>2
  <2> HIDE DEF new
  <2>3. inbox' \in Seq(Messages) /\ Len(inbox') = Len(inbox)
    BY <1>1, <2>1, <2>2, IsASeq
  <2> QED BY <2>1, <2>2, <2>3
<1>4. /\ task' \in Tasks \cup {None}
      /\ task # None => task' # None /\ task'.type = task.type
  BY NoneAssumption DEF Abandoned, FieldTyped, Tasks
<1> QED BY <1>1, <1>3, <1>4 DEF FieldTyped, Deadline

-----------------------------------------------------------------------------
\* A request comes in.
LEMMA SendKeeps ==
    ASSUME DInv, NEW type \in {"add", "remove", "buff"}, NEW caller \in Caller,
           Send(type, caller), UNCHANGED <<up, sessions, armed, task>>
    PROVE  DInv'
<1>1. Request(type, caller) \in Messages
  BY DEF Request, Messages
<1>2. inbox' \in Seq(Messages) /\ (Pending(inbox) => Pending(inbox'))
  BY <1>1, PendingAppend DEF Send, DInv, FieldTyped
<1> QED BY <1>2 DEF DInv, FieldTyped, Deadline, Pending

LEMMA UnchangedKeeps ==
    ASSUME DInv, UNCHANGED <<up, sessions, armed, inbox, task>> PROVE DInv'
  BY DEF DInv, FieldTyped, Deadline

LEMMA FieldEndsKeeps ==
    ASSUME FieldEnds PROVE DInv'
<1>1. <<>> \in Seq(Messages)
  BY EmptySeq
<1> QED BY <1>1 DEF FieldEnds, DInv, FieldTyped, Deadline

LEMMA CallersAreCallers ==
    ASSUME NEW c \in Character PROVE Session(c) \in Caller /\ Char(c) \in Caller
  BY DEF Session, Char, Caller

-----------------------------------------------------------------------------
LEMMA InitDInv == Init => DInv
<1>1. <<>> \in Seq(Messages)
  BY EmptySeq
<1> QED BY <1>1 DEF Init, DInv, FieldTyped, Deadline

\* What the players do.
LEMMA PlayersKeep ==
    ASSUME DInv, NEW c \in Character,
           Login(c) \/ Disconnect(c) \/ Enter(c) \/ Leave(c) \/ UseSkill(c) \/ CharSteps(c)
    PROVE  DInv'
<1>1. CASE Login(c) \/ Disconnect(c) \/ UseSkill(c) \/ BeginCleanup(c)
  BY <1>1, UnchangedKeeps DEF Login, Disconnect, UseSkill, BeginCleanup, field
<1>2. CASE Enter(c)
  <2>1. CASE up
    BY <1>2, <2>1, SendKeeps, CallersAreCallers DEF Enter
  <2>2. CASE ~up
    <3>1. task' = [type |-> "add", by |-> Session(c), live |-> FALSE,
                   left |-> {}, asks |-> None]
      BY <1>2, <2>2 DEF Enter
    <3>2. task' \in Tasks
      BY <3>1, CallersAreCallers DEF Tasks
    <3>3. task' # None /\ task'.type = "add"
      BY <3>1, <3>2, NoneAssumption
    <3>4. sessions' = {} /\ inbox' = <<>>
      BY <1>2, <2>2 DEF Enter
    <3>5. <<>> \in Seq(Messages)
      BY EmptySeq
    <3> QED BY <3>2, <3>3, <3>4, <3>5 DEF DInv, FieldTyped, Deadline
  <2> QED BY <2>1, <2>2
<1>3. CASE Leave(c)
  <2>1. CASE OnThisField(c)
    BY <1>3, <2>1, SendKeeps, CallersAreCallers DEF Leave
  <2>2. CASE ~OnThisField(c)
    BY <1>3, <2>2, UnchangedKeeps DEF Leave
  <2> QED BY <2>1, <2>2
<1>4. CASE CastSkill(c)
  <2>1. CASE OnThisField(c)
    BY <1>4, <2>1, SendKeeps, CallersAreCallers DEF CastSkill
  <2>2. CASE ~OnThisField(c)
    BY <1>4, <2>2, UnchangedKeeps DEF CastSkill
  <2> QED BY <2>1, <2>2
<1>5. CASE CleanupLeaves(c)
  <2>1. CASE OnThisField(c)
    BY <1>5, <2>1, SendKeeps, CallersAreCallers DEF CleanupLeaves
  <2>2. CASE ~OnThisField(c)
    BY <1>5, <2>2, UnchangedKeeps DEF CleanupLeaves
  <2> QED BY <2>1, <2>2
<1>6. CASE CharacterStops(c)
  <2>1. CASE task # None /\ task.asks = c
    BY <1>6, <2>1, FieldEndsKeeps DEF CharacterStops
  <2>2. CASE ~(task # None /\ task.asks = c)
    BY <1>6, <2>2, UnchangedKeeps DEF CharacterStops, field
  <2> QED BY <2>1, <2>2
<1> QED BY <1>1, <1>2, <1>3, <1>4, <1>5, <1>6 DEF CharSteps

\* What a handled message leaves of the inbox.
LEMMA ReceivedStep ==
    ASSUME DInv, NEW type, Received(type)
    PROVE  /\ inbox \in Seq(Messages) /\ inbox # <<>>
           /\ Head(inbox) \in Messages /\ Head(inbox).type = type
           /\ Tail(inbox) \in Seq(Messages)
           /\ Pending(inbox) /\ type \notin {"maybe_stop", "dispose"} => Pending(Tail(inbox))
           /\ up /\ task = None
  BY PendingTail DEF DInv, FieldTyped, Received, FieldFree

\* What the field does with its messages.
LEMMA FieldKeeps ==
    ASSUME DInv, FieldSteps \/ UpdatesDue \/ TimerFires
    PROVE  DInv'
<1>1. CASE RemoveCharacter
  <2>1. [type |-> "maybe_stop"] \in Messages /\ [type |-> "maybe_stop"].type = "maybe_stop"
    BY DEF Messages
  <2>2. Received("remove")
    BY <1>1 DEF RemoveCharacter
  <2>3. inbox' \in Seq(Messages) /\ Pending(inbox')
    BY <1>1, <2>1, <2>2, ReceivedStep, PendingAppend DEF RemoveCharacter
  <2>4. sessions # {} => ~armed
    BY <2>2, ReceivedStep DEF DInv, Deadline
  <2>5. sessions' \in SUBSET Character /\ (sessions' # {} => sessions # {})
    BY <1>1 DEF RemoveCharacter, DInv, FieldTyped
  <2> QED
    BY <1>1, <2>3, <2>4, <2>5 DEF RemoveCharacter, DInv, FieldTyped, Deadline, Pending
<1>2. CASE StartAdd
  <2>1. Received("add")
    BY <1>2 DEF StartAdd
  <2>2. Head(inbox).by \in Caller /\ Head(inbox).live \in BOOLEAN
    BY <2>1, ReceivedStep DEF Messages
  <2>3. /\ task' = Task("add", Head(inbox), sessions)
        /\ inbox' = Tail(inbox)
        /\ UNCHANGED <<up, sessions, armed>>
    BY <1>2 DEF StartAdd
  <2>4. task' \in Tasks /\ task'.type = "add"
    BY <2>2, <2>3 DEF Task, Tasks, DInv, FieldTyped
  <2>5. task' # None
    BY <2>4, NoneAssumption
  <2>6. inbox' \in Seq(Messages)
    BY <2>1, <2>3, ReceivedStep
  <2> QED
    BY <2>3, <2>4, <2>5, <2>6 DEF DInv, FieldTyped, Deadline
<1>3. CASE StartBuff
  <2>1. Received("buff")
    BY <1>3 DEF StartBuff
  <2>2. Head(inbox).by \in Caller /\ Head(inbox).live \in BOOLEAN
    BY <2>1, ReceivedStep DEF Messages
  <2>3. Head(inbox).by.id \in Character
    BY <2>2 DEF Caller
  <2>4. PICK left \in {{}, {Head(inbox).by.id}} : task' = Task("buff", Head(inbox), left)
    BY <1>3 DEF StartBuff
  <2>5. task' \in Tasks
    BY <2>2, <2>3, <2>4 DEF Task, Tasks
  <2>6. inbox' = Tail(inbox) /\ UNCHANGED <<up, sessions, armed>>
    BY <1>3 DEF StartBuff
  <2> QED
    BY <2>1, <2>5, <2>6, ReceivedStep DEF DInv, FieldTyped, Deadline, Pending
<1>4. CASE SendUpdates
  <2>1. Received("send_updates")
    BY <1>4 DEF SendUpdates
  <2>2. /\ task' = [type |-> "updates", by |-> None, live |-> FALSE,
                    left |-> sessions, asks |-> None]
        /\ inbox' = Tail(inbox)
        /\ UNCHANGED <<up, sessions, armed>>
    BY <1>4 DEF SendUpdates
  <2>3. task' \in Tasks
    BY <2>2 DEF Tasks, DInv, FieldTyped
  <2> QED
    BY <2>1, <2>2, <2>3, ReceivedStep DEF DInv, FieldTyped, Deadline, Pending
<1>5. CASE MaybeStop
  <2>1. Received("maybe_stop")
    BY <1>5 DEF MaybeStop
  <2>2. /\ armed' = (armed \/ sessions = {})
        /\ inbox' = Tail(inbox)
        /\ UNCHANGED <<up, sessions, task>>
    BY <1>5 DEF MaybeStop
  <2> QED
    BY <2>1, <2>2, ReceivedStep DEF DInv, FieldTyped, Deadline
<1>6. CASE Dispose
  <2>1. CASE sessions = {}
    BY <1>6, <2>1, FieldEndsKeeps DEF Dispose, FieldStops
  <2>2. CASE sessions # {}
    <3>1. Received("dispose")
      BY <1>6 DEF Dispose
    <3>2. inbox' = Tail(inbox) /\ armed' = FALSE /\ UNCHANGED <<up, sessions, task>>
      BY <1>6, <2>2 DEF Dispose
    <3> QED
      BY <2>2, <3>1, <3>2, ReceivedStep DEF DInv, FieldTyped, Deadline
  <2> QED BY <2>1, <2>2
<1>7. ASSUME NEW c \in Character, Ask(c) \/ LookedUp(c)
      PROVE  DInv'
  <2>1. task \in Tasks /\ task # None
    BY <1>7 DEF Ask, LookedUp, Asked, DInv, FieldTyped
  <2>2. \/ task' = [task EXCEPT !.asks = c]
        \/ task' = [task EXCEPT !.left = @ \ {c}, !.asks = None]
    BY <1>7 DEF Ask, LookedUp
  <2>3. task' \in Tasks /\ task'.type = task.type
    BY <2>1, <2>2 DEF Tasks
  <2>4. task' # None
    BY <2>3, NoneAssumption
  <2>5. UNCHANGED <<up, sessions, armed, inbox>>
    BY <1>7 DEF Ask, LookedUp
  <2> QED
    BY <2>1, <2>3, <2>4, <2>5 DEF DInv, FieldTyped, Deadline
<1>8. ASSUME NEW c \in Character, Joined(c)
      PROVE  DInv'
  BY <1>8 DEF Joined, MaybeCancelDispose, DInv, FieldTyped, Deadline
<1>9. CASE BuffAdded \/ UpdatesSent
  <2>1. /\ task # None /\ task.type # "add" /\ task' = None
        /\ UNCHANGED <<up, sessions, armed, inbox>>
    BY <1>9 DEF BuffAdded, UpdatesSent
  <2> QED
    BY <2>1 DEF DInv, FieldTyped, Deadline
<1>10. CASE UpdatesDue
  <2>1. [type |-> "send_updates"] \in Messages
    BY DEF Messages
  <2>2. inbox' \in Seq(Messages) /\ UNCHANGED <<up, sessions, armed, task>>
    BY <1>10, <2>1, PendingAppend DEF UpdatesDue, DInv, FieldTyped
  <2>3. sessions # {}
    BY <1>10 DEF UpdatesDue
  <2> QED
    BY <2>2, <2>3 DEF DInv, FieldTyped, Deadline
<1>11. CASE TimerFires
  <2>1. [type |-> "dispose"] \in Messages /\ [type |-> "dispose"].type = "dispose"
    BY DEF Messages
  <2>2. inbox' \in Seq(Messages) /\ Pending(inbox')
    BY <1>11, <2>1, PendingAppend DEF TimerFires, DInv, FieldTyped
  <2> QED
    BY <1>11, <2>2 DEF TimerFires, DInv, FieldTyped, Deadline, Pending
<1> QED
  BY <1>1, <1>2, <1>3, <1>4, <1>5, <1>6, <1>7, <1>8, <1>9, <1>10, <1>11 DEF FieldSteps

\* Calls that nobody answered in time.
LEMMA TimeoutsKeep ==
    ASSUME DInv, Timeouts PROVE DInv'
<1>1. ASSUME NEW c \in Character, SessionTimesOut(c)
      PROVE  DInv'
  BY <1>1, AbandonedKeeps, CallersAreCallers DEF SessionTimesOut, DInv
<1>2. ASSUME NEW c \in Character, CharTimesOut(c)
      PROVE  DInv'
  BY <1>2, AbandonedKeeps, CallersAreCallers DEF CharTimesOut, DInv
<1>3. CASE FieldTimesOut
  BY <1>3, FieldEndsKeeps DEF FieldTimesOut, FieldStops
<1> QED
  BY <1>1, <1>2, <1>3 DEF Timeouts

-----------------------------------------------------------------------------
\* A shared field that is empty stops in the end unless somebody comes: it has
\* its timer, a message that sets it, or a player on the way in.  One with
\* players has no timer (maybe_stop, maybe_cancel_dispose, dispose_if_empty).
THEOREM FieldHasDeadline == Spec => []Deadline
<1>1. Init => DInv
  BY InitDInv
<1>2. DInv /\ [Next]_vars => DInv'
  <2> SUFFICES ASSUME DInv, [Next]_vars PROVE DInv'
    OBVIOUS
  <2>1. CASE Next
    BY <2>1, PlayersKeep, FieldKeeps, TimeoutsKeep DEF Next
  <2>2. CASE UNCHANGED vars
    BY <2>2, UnchangedKeeps DEF vars, field
  <2> QED BY <2>1, <2>2
<1>3. DInv => Deadline
  BY DEF DInv
<1> QED BY <1>1, <1>2, <1>3, PTL DEF Spec

-------------------------------------------------------------------------------
(* Calls and members *)

\* Without a field process there is nothing to handle.
Idle == ~up => inbox = <<>> /\ task = None

\* Who asks for what: sessions enter, characters cast, nobody waits for updates.
Kind(m) ==
    /\ m.type = "add" => m.by \in Caller /\ m.by.of = "session"
    /\ m.type = "buff" => m.by \in Caller /\ m.by.of = "character"
    /\ m.type = "updates" => ~m.live

KindsIn(q) == \A i \in 1..Len(q) : Kind(q[i])

Kinds == KindsIn(inbox) /\ (task # None => Kind(task))

\* What a process is at says whom it may be waiting for.
Stances ==
    \A c \in Character :
        /\ Waiting(Session(c)) <=> session[c] \in {"entering", "leaving", "casting"}
        /\ Waiting(Char(c)) => char[c] \in {"casting", "cleanup"}
        /\ session[c] = "casting" => char[c] = "casting"
        /\ char[c] = "casting" => session[c] \in {"casting", "none"}
        /\ char[c] = "cleanup" => session[c] = "none"

Once(R) == \A i, j \in R : i = j

\* The second half of NoLostCall, without naming the request.
Answered ==
    \A k \in Caller : Once(Requests(k)) /\ (AwaitsField(k) <=> Requests(k) # {})

FieldTypes == FieldTyped /\ up \in BOOLEAN /\ starts \in Nat /\ armed \in BOOLEAN

CallsTyped == waits \in SUBSET (Caller \cup {Field}) /\ older \in SUBSET (waits \X waits)

PlayersTyped ==
    /\ session \in [Character -> {"none", "away", "entering", "in", "leaving", "casting"}]
    /\ char \in [Character -> {"offline", "online", "casting", "cleanup", "left"}]
    /\ pid \in [Character -> Nat]

CallsSound ==
    /\ FieldTypes /\ CallsTyped /\ PlayersTyped
    /\ Idle /\ Kinds /\ Stances /\ Answered

\* A departure of c is behind place i of the inbox, 0 for the task.
Departs(c, i) ==
    \E j \in 1..Len(inbox) : j > i /\ inbox[j].type = "remove" /\ inbox[j].by.id = c

\* What is at place i.
Kept(i) == IF i = 0 THEN task ELSE inbox[i]

\* Neither who is in the field nor who waits to be has a departure to come.
NoOldDeparture ==
    \A c \in Character :
        /\ session[c] \in {"in", "casting"} => ~Departs(c, 0)
        /\ \A i \in Requests(Session(c)) :
              Kept(i).type = "add" => ~Departs(c, i)

\* A pid is that of this field process or of an earlier one.
PidsPast == \A c \in Character : pid[c] <= starts

Members ==
    \A c \in Character :
        session[c] \in {"in", "casting"} /\ OnThisField(c) => c \in sessions

IInv == CallsSound /\ NoOldDeparture /\ PidsPast /\ Members

-----------------------------------------------------------------------------
(* Lemmas on callers, on calls under way and on requests. *)

LEMMA CallerFacts ==
    /\ \A c \in Character :
          /\ Session(c) \in Caller /\ Session(c).of = "session" /\ Session(c).id = c
          /\ Char(c) \in Caller /\ Char(c).of = "character" /\ Char(c).id = c
    /\ \A k \in Caller :
          /\ k.id \in Character
          /\ k.of \in {"session", "character"}
          /\ k.of = "session" => k = Session(k.id)
          /\ k.of = "character" => k = Char(k.id)
    /\ Field \notin Caller
  BY DEF Session, Char, Caller, Field

LEMMA CallsKeep ==
    ASSUME CallsTyped, NEW k \in Caller \cup {Field}, Calls(k)
    PROVE  CallsTyped'
  BY DEF CallsTyped, Calls

LEMMA ReturnedKeeps ==
    ASSUME CallsTyped, NEW S, Returned(S)
    PROVE  CallsTyped'
  BY DEF CallsTyped, Returned

LEMMA KindsAppend ==
    ASSUME NEW q \in Seq(Messages), KindsIn(q), NEW m \in Messages, Kind(m)
    PROVE  KindsIn(Append(q, m))
<1>1. /\ Len(Append(q, m)) = Len(q) + 1 /\ Len(q) \in Nat
      /\ \A i \in 1..Len(q) : Append(q, m)[i] = q[i]
      /\ Append(q, m)[Len(q) + 1] = m
  BY AppendProperties, LenProperties
<1> QED BY <1>1 DEF KindsIn

\* The places of Head and of what is behind it.
LEMMA TailPlaces ==
    ASSUME NEW q \in Seq(Messages), q # <<>>
    PROVE  /\ Tail(q) \in Seq(Messages) /\ Head(q) \in Messages
           /\ Len(q) \in Nat /\ Len(q) >= 1
           /\ Head(q) = q[1] /\ Len(Tail(q)) = Len(q) - 1
           /\ \A i \in 1..Len(Tail(q)) : Tail(q)[i] = q[i + 1]
  BY HeadTailProperties, LenProperties, EmptySeq

LEMMA KindsTail ==
    ASSUME NEW q \in Seq(Messages), q # <<>>, KindsIn(q)
    PROVE  Kind(Head(q)) /\ KindsIn(Tail(q))
<1>1. \A i \in 1..Len(Tail(q)) : Tail(q)[i] = q[i + 1] /\ i + 1 \in 1..Len(q)
  BY TailPlaces
<1>2. Head(q) = q[1] /\ 1 \in 1..Len(q)
  BY TailPlaces
<1> QED BY <1>1, <1>2 DEF KindsIn

\* Requests of k in a mailbox q while t is the task.
RequestsIn(q, t, k) ==
    {i \in 1..Len(q) : Asks(q[i], k)} \cup {i \in {0} : t # None /\ Asks(t, k)}

LEMMA RequestsAre ==
    ASSUME NEW k
    PROVE  /\ Requests(k) = RequestsIn(inbox, task, k)
           /\ Requests(k)' = RequestsIn(inbox', task', k)
  BY DEF Requests, RequestsIn, Asks

LEMMA AppendedRequests ==
    ASSUME NEW q \in Seq(Messages), NEW t, NEW m \in Messages, NEW k
    PROVE  /\ Asks(m, k) => RequestsIn(Append(q, m), t, k) = RequestsIn(q, t, k) \cup {Len(q) + 1}
           /\ ~Asks(m, k) => RequestsIn(Append(q, m), t, k) = RequestsIn(q, t, k)
<1>1. /\ Len(Append(q, m)) = Len(q) + 1 /\ Len(q) \in Nat
      /\ \A i \in 1..Len(q) : Append(q, m)[i] = q[i]
      /\ Append(q, m)[Len(q) + 1] = m
  BY AppendProperties, LenProperties
<1>2. \A i : i \in 1..Len(Append(q, m)) <=> i \in 1..Len(q) \/ i = Len(q) + 1
  BY <1>1
<1>3. \A i : i \in RequestsIn(Append(q, m), t, k) <=>
             i \in RequestsIn(q, t, k) \/ (i = Len(q) + 1 /\ Asks(m, k))
  BY <1>1, <1>2 DEF RequestsIn
<1> QED BY <1>3

LEMMA OtherAppended ==
    \A q \in Seq(Messages), m \in Messages : \A t, k :
       ~Asks(m, k) => RequestsIn(Append(q, m), t, k) = RequestsIn(q, t, k)
  BY AppendedRequests

\* The oldest message becomes the task.
LEMMA TakenRequests ==
    ASSUME NEW q \in Seq(Messages), q # <<>>, NEW t, t # None, NEW k,
           Once(RequestsIn(q, None, k)), Asks(t, k) <=> Asks(Head(q), k)
    PROVE  /\ Once(RequestsIn(Tail(q), t, k))
           /\ RequestsIn(Tail(q), t, k) = {} <=> RequestsIn(q, None, k) = {}
<1>1. \A i : i \in RequestsIn(q, None, k) <=> i \in 1..Len(q) /\ Asks(q[i], k)
  BY DEF RequestsIn
<1>2. \A i : i \in RequestsIn(Tail(q), t, k) <=>
             \/ i \in 1..Len(Tail(q)) /\ Asks(Tail(q)[i], k)
             \/ i = 0 /\ Asks(Head(q), k)
  BY DEF RequestsIn
<1>3. \A i : i \in RequestsIn(Tail(q), t, k) =>
             i \in Int /\ i + 1 \in RequestsIn(q, None, k)
  BY <1>1, <1>2, TailPlaces
<1>4. \A i : i \in RequestsIn(q, None, k) =>
             i \in Int /\ i - 1 \in RequestsIn(Tail(q), t, k)
  <2> SUFFICES ASSUME NEW i \in RequestsIn(q, None, k)
               PROVE  i \in Int /\ i - 1 \in RequestsIn(Tail(q), t, k)
    OBVIOUS
  <2>1. i \in 1..Len(q) /\ Asks(q[i], k) /\ Len(q) \in Nat
    BY <1>1, TailPlaces
  <2>2. CASE i = 1
    BY <1>2, <2>1, <2>2, TailPlaces
  <2>3. CASE i # 1
    <3>1. i - 1 \in 1..Len(Tail(q)) /\ Tail(q)[i - 1] = q[i]
      BY <2>1, <2>3, TailPlaces
    <3> QED BY <1>2, <2>1, <3>1
  <2> QED BY <2>2, <2>3
<1>5. Once(RequestsIn(Tail(q), t, k))
  BY <1>3 DEF Once
<1> QED BY <1>3, <1>4, <1>5

\* The oldest message is handled at once.
LEMMA HandledRequests ==
    ASSUME NEW q \in Seq(Messages), q # <<>>, NEW k, Once(RequestsIn(q, None, k))
    PROVE  /\ Once(RequestsIn(Tail(q), None, k))
           /\ RequestsIn(Tail(q), None, k) = {} <=>
                 RequestsIn(q, None, k) = {} \/ Asks(Head(q), k)
<1>1. \A i : i \in RequestsIn(q, None, k) <=> i \in 1..Len(q) /\ Asks(q[i], k)
  BY DEF RequestsIn
<1>2. \A i : i \in RequestsIn(Tail(q), None, k) <=>
             i \in 1..Len(Tail(q)) /\ Asks(Tail(q)[i], k)
  BY DEF RequestsIn
<1>3. \A i : i \in RequestsIn(Tail(q), None, k) =>
             i \in Int /\ i >= 1 /\ i + 1 \in RequestsIn(q, None, k)
  BY <1>1, <1>2, TailPlaces
<1>4. \A i : i \in RequestsIn(q, None, k) /\ i # 1 =>
             i - 1 \in RequestsIn(Tail(q), None, k)
  <2> SUFFICES ASSUME NEW i \in RequestsIn(q, None, k), i # 1
               PROVE  i - 1 \in RequestsIn(Tail(q), None, k)
    OBVIOUS
  <2>1. i \in 1..Len(q) /\ Asks(q[i], k) /\ Len(q) \in Nat
    BY <1>1, TailPlaces
  <2>2. i - 1 \in 1..Len(Tail(q)) /\ Tail(q)[i - 1] = q[i]
    BY <2>1, TailPlaces
  <2> QED BY <1>2, <2>1, <2>2
<1>5. Asks(Head(q), k) <=> 1 \in RequestsIn(q, None, k)
  BY <1>1, TailPlaces
<1>6. Once(RequestsIn(Tail(q), None, k))
  BY <1>3 DEF Once
<1>7. ASSUME Asks(Head(q), k) PROVE RequestsIn(Tail(q), None, k) = {}
  <2> SUFFICES ASSUME NEW i \in RequestsIn(Tail(q), None, k) PROVE FALSE
    OBVIOUS
  <2>1. i \in Int /\ i >= 1 /\ i + 1 \in RequestsIn(q, None, k)
    BY <1>3
  <2>2. i + 1 = 1
    BY <1>5, <1>7, <2>1 DEF Once
  <2> QED BY <2>1, <2>2
<1> QED BY <1>3, <1>4, <1>5, <1>6, <1>7

LEMMA TaskEnds ==
    ASSUME NEW q \in Seq(Messages), NEW t, NEW k, Once(RequestsIn(q, t, k))
    PROVE  /\ Once(RequestsIn(q, None, k))
           /\ RequestsIn(q, None, k) = {} <=>
                 RequestsIn(q, t, k) = {} \/ (t # None /\ Asks(t, k))
<1>1. Len(q) \in Nat
  BY LenProperties
<1>2. \A i : i \in RequestsIn(q, None, k) <=> i \in 1..Len(q) /\ Asks(q[i], k)
  BY DEF RequestsIn
<1>3. \A i : i \in RequestsIn(q, t, k) <=>
             i \in RequestsIn(q, None, k) \/ (i = 0 /\ t # None /\ Asks(t, k))
  BY <1>2 DEF RequestsIn
<1>4. 0 \notin RequestsIn(q, None, k)
  BY <1>1, <1>2
<1> QED BY <1>3, <1>4 DEF Once

\* Giving up takes all requests of that caller and no other's.
LEMMA RequestsGivenUp ==
    ASSUME inbox \in Seq(Messages), task \in Tasks \cup {None},
           NEW caller \in Caller, Abandoned(caller), NEW k
    PROVE  /\ inbox' \in Seq(Messages) /\ task' \in Tasks \cup {None}
           /\ Len(inbox') = Len(inbox)
           /\ \A i \in 1..Len(inbox) :
                 /\ inbox'[i].type = inbox[i].type
                 /\ IsRequest(inbox[i]) => inbox'[i].by = inbox[i].by
           /\ (task' # None) = (task # None)
           /\ task # None => task'.type = task.type /\ task'.by = task.by
           /\ task # None => task'.left = task.left /\ task'.asks = task.asks
           /\ task # None /\ ~task.live => ~task'.live
           /\ Requests(k)' = IF k = caller THEN {} ELSE Requests(k)
<1> DEFINE new(i) == IF IsRequest(inbox[i]) /\ inbox[i].by = caller
                       THEN [inbox[i] EXCEPT !.live = FALSE] ELSE inbox[i]
<1>1. /\ Len(inbox) \in Nat
      /\ \A i \in 1..Len(inbox) : inbox[i] \in Messages
  BY LenProperties, ElementOfSeq
<1>2. \A i \in 1..Len(inbox) :
         /\ new(i) \in Messages /\ new(i).type = inbox[i].type
         /\ IsRequest(inbox[i]) => new(i).by = inbox[i].by
         /\ Asks(new(i), k) <=> k # caller /\ Asks(inbox[i], k)
  <2> SUFFICES ASSUME NEW i \in 1..Len(inbox)
               PROVE  /\ new(i) \in Messages /\ new(i).type = inbox[i].type
                      /\ IsRequest(inbox[i]) => new(i).by = inbox[i].by
                      /\ Asks(new(i), k) <=> k # caller /\ Asks(inbox[i], k)
    OBVIOUS
  <2>1. CASE IsRequest(inbox[i]) /\ inbox[i].by = caller
    <3>1. inbox[i] \in [type : {"add", "remove", "buff"}, by : Caller, live : BOOLEAN]
      BY <1>1, <2>1 DEF Messages, IsRequest
    <3>2. new(i) = [inbox[i] EXCEPT !.live = FALSE]
      BY <2>1
    <3> HIDE DEF new
    <3>3. /\ new(i) \in [type : {"add", "remove", "buff"}, by : Caller, live : BOOLEAN]
          /\ new(i).type = inbox[i].type /\ new(i).by = inbox[i].by /\ new(i).live = FALSE
      BY <3>1, <3>2
    <3> QED BY <2>1, <3>3 DEF Messages, Asks
  <2>2. CASE ~(IsRequest(inbox[i]) /\ inbox[i].by = caller)
    BY <1>1, <2>2 DEF Asks
  <2> QED BY <2>1, <2>2
<1>3. inbox' = [i \in 1..Len(inbox) |-> new(i)]
  BY DEF Abandoned
<1> HIDE DEF new
<1>4. /\ inbox' \in Seq(Messages) /\ Len(inbox') = Len(inbox)
      /\ \A i \in 1..Len(inbox) : inbox'[i] = new(i)
  BY <1>1, <1>2, <1>3, IsASeq
<1>5. /\ task' \in Tasks \cup {None}
      /\ (task' # None) = (task # None)
      /\ task # None => task'.type = task.type /\ task'.by = task.by
      /\ task # None => task'.left = task.left /\ task'.asks = task.asks
      /\ task # None /\ ~task.live => ~task'.live
      /\ task # None => (Asks(task', k) <=> k # caller /\ Asks(task, k))
  <2>1. CASE task # None /\ task.by = caller
    <3>1. task \in Tasks /\ task' = [task EXCEPT !.live = FALSE]
      BY <2>1 DEF Abandoned
    <3>2. /\ task' \in Tasks /\ task'.type = task.type /\ task'.by = task.by
          /\ task'.left = task.left /\ task'.asks = task.asks /\ task'.live = FALSE
      BY <3>1 DEF Tasks
    <3> QED BY <2>1, <3>2, NoneAssumption DEF Asks
  <2>2. CASE ~(task # None /\ task.by = caller)
    BY <2>2 DEF Abandoned, Asks
  <2> QED BY <2>1, <2>2
<1>6. \A i : i \in RequestsIn(inbox', task', k) <=>
             k # caller /\ i \in RequestsIn(inbox, task, k)
  BY <1>2, <1>4, <1>5 DEF RequestsIn
<1>7. \A i : i \in Requests(k)' <=> k # caller /\ i \in Requests(k)
  BY <1>6, RequestsAre
<1> QED BY <1>2, <1>4, <1>5, <1>7

-----------------------------------------------------------------------------
(* CallsSound: what the players do. *)

LEMMA InitCallsSound == Init => CallsSound
<1> SUFFICES ASSUME Init PROVE CallsSound
  OBVIOUS
<1>1. <<>> \in Seq(Messages) /\ Len(<<>>) = 0
  BY EmptySeq
<1>2. FieldTypes /\ CallsTyped /\ PlayersTyped
  BY <1>1 DEF Init, FieldTypes, FieldTyped, CallsTyped, PlayersTyped
<1>3. Idle /\ Kinds /\ Stances
  BY <1>1 DEF Init, Idle, Kinds, KindsIn, Stances, Waiting
<1>4. Answered
  <2>1. \A k : Requests(k) = {}
    BY <1>1 DEF Init, Requests
  <2> QED BY <2>1 DEF Init, Answered, Once, AwaitsField, Waiting
<1> QED BY <1>2, <1>3, <1>4 DEF CallsSound

\* Requests stay answered when nothing moves that they speak of.
LEMMA AnsweredStays ==
    ASSUME Answered, UNCHANGED <<inbox, task>>,
           \A k \in Caller : AwaitsField(k)' <=> AwaitsField(k)
    PROVE  Answered'
  BY RequestsAre DEF Answered

\* A request comes in, from somebody who was not waiting.
LEMMA SendSound ==
    ASSUME CallsSound, up, NEW type \in {"add", "remove", "buff"}, NEW caller \in Caller,
           Kind(Request(type, caller)), ~Waiting(caller), Send(type, caller),
           UNCHANGED <<up, starts, sessions, armed, task>>,
           \A k \in Caller : AwaitsField(k)' <=> AwaitsField(k) \/ k = caller
    PROVE  FieldTypes' /\ CallsTyped' /\ Idle' /\ Kinds' /\ Answered'
<1> DEFINE m == Request(type, caller)
<1>1. m \in Messages /\ \A k : Asks(m, k) <=> k = caller
  BY DEF Request, Messages, Asks, IsRequest
<1>2. /\ inbox \in Seq(Messages) /\ inbox' = Append(inbox, m)
      /\ Calls(caller)
  BY DEF CallsSound, FieldTypes, FieldTyped, Send
<1> HIDE DEF m
<1>3. FieldTypes'
  BY <1>1, <1>2, AppendProperties DEF CallsSound, FieldTypes, FieldTyped
<1>4. CallsTyped'
  BY <1>2, CallsKeep DEF CallsSound
<1>5. Kinds'
  BY <1>1, <1>2, KindsAppend DEF CallsSound, Kinds, m
<1>6. ASSUME NEW k \in Caller
      PROVE  Once(Requests(k)') /\ (AwaitsField(k)' <=> Requests(k)' # {})
  <2>1. Requests(k) = RequestsIn(inbox, task, k) /\ Requests(k)' = RequestsIn(inbox', task, k)
    BY RequestsAre
  <2>2. Once(Requests(k)) /\ (AwaitsField(k) <=> Requests(k) # {})
    BY DEF CallsSound, Answered
  <2>3. CASE k = caller
    <3>1. Requests(k) = {}
      BY <2>2, <2>3 DEF AwaitsField
    <3>2. Requests(k)' = {Len(inbox) + 1}
      BY <1>1, <1>2, <2>1, <2>3, <3>1, AppendedRequests
    <3> QED BY <2>3, <3>2 DEF Once
  <2>4. CASE k # caller
    BY <1>1, <1>2, <2>1, <2>2, <2>4, AppendedRequests
  <2> QED BY <2>3, <2>4
<1>7. Answered'
  BY <1>6 DEF Answered, Once
<1> QED BY <1>3, <1>4, <1>5, <1>7 DEF Idle

\* What happens to the session and the character of one player alone.
LEMMA OthersStances ==
    ASSUME CallsSound, NEW c \in Character,
           \A d \in Character \ {c} :
              /\ session'[d] = session[d] /\ char'[d] = char[d]
              /\ Waiting(Session(d))' <=> Waiting(Session(d))
              /\ Waiting(Char(d))' => Waiting(Char(d)),
           Waiting(Session(c))' <=> session'[c] \in {"entering", "leaving", "casting"},
           Waiting(Char(c))' => char'[c] \in {"casting", "cleanup"},
           session'[c] = "casting" => char'[c] = "casting",
           char'[c] = "casting" => session'[c] \in {"casting", "none"},
           char'[c] = "cleanup" => session'[c] = "none"
    PROVE  Stances'
<1> SUFFICES ASSUME NEW d \in Character
             PROVE  /\ Waiting(Session(d))' <=> session'[d] \in {"entering", "leaving", "casting"}
                    /\ Waiting(Char(d))' => char'[d] \in {"casting", "cleanup"}
                    /\ session'[d] = "casting" => char'[d] = "casting"
                    /\ char'[d] = "casting" => session'[d] \in {"casting", "none"}
                    /\ char'[d] = "cleanup" => session'[d] = "none"
  BY DEF Stances
<1>1. CASE d = c
  BY <1>1
<1>2. CASE d # c
  BY <1>2 DEF CallsSound, Stances
<1> QED BY <1>1, <1>2

\* Steps without a call.
LEMMA QuietSound ==
    ASSUME CallsSound, NEW c \in Character, Login(c) \/ Disconnect(c) \/ BeginCleanup(c)
    PROVE  CallsSound'
<1>1. UNCHANGED <<up, starts, sessions, armed, inbox, task, waits, older>>
  BY DEF Login, Disconnect, BeginCleanup, field, calls
<1>2. FieldTypes' /\ CallsTyped' /\ Idle' /\ Kinds'
  BY <1>1 DEF CallsSound, FieldTypes, FieldTyped, CallsTyped, Idle, Kinds
<1>3. PlayersTyped'
  BY DEF Login, Disconnect, BeginCleanup, CallsSound, PlayersTyped
<1>4. /\ \A d \in Character \ {c} : session'[d] = session[d] /\ char'[d] = char[d]
      /\ session[c] \in {"none", "away", "in"}
      /\ session'[c] \in {"none", "away"}
      /\ char[c] \in {"offline", "online"} \/ char'[c] = char[c]
      /\ char'[c] \in {"online", "cleanup"} \/ char'[c] = char[c]
      /\ char'[c] = "cleanup" /\ char[c] # "cleanup" => session'[c] = "none"
      /\ session'[c] = "away" => char'[c] = "online"
  BY DEF Login, Disconnect, BeginCleanup, CallsSound, PlayersTyped
<1>5. Stances'
  <2>1. \A k : Waiting(k)' <=> Waiting(k)
    BY <1>1 DEF Waiting
  <2>2. /\ Waiting(Session(c)) <=> session[c] \in {"entering", "leaving", "casting"}
        /\ Waiting(Char(c)) => char[c] \in {"casting", "cleanup"}
        /\ char[c] = "casting" => session[c] \in {"casting", "none"}
        /\ char[c] = "cleanup" => session[c] = "none"
    BY DEF CallsSound, Stances
  <2>3. /\ char'[c] = "casting" => session'[c] = "none"
        /\ char'[c] = "cleanup" => session'[c] = "none"
        /\ Waiting(Char(c))' => char'[c] \in {"casting", "cleanup"}
        /\ ~Waiting(Session(c))'
    BY <1>4, <2>1, <2>2
  <2> QED BY <1>4, <2>1, <2>3, OthersStances
<1>6. Answered'
  <2>1. \A k \in Caller : session'[k.id] = "casting" <=> session[k.id] = "casting"
    BY <1>4, CallerFacts
  <2>2. \A k \in Caller : AwaitsField(k)' <=> AwaitsField(k)
    BY <1>1, <2>1 DEF AwaitsField, Waiting
  <2> QED BY <1>1, <2>2, AnsweredStays DEF CallsSound
<1> QED BY <1>2, <1>3, <1>5, <1>6 DEF CallsSound

\* A call of k adds k to the waiting, and nobody else.
LEMMA CallsWaiting ==
    ASSUME NEW k, Calls(k)
    PROVE  \A w : Waiting(w)' <=> Waiting(w) \/ w = k
  BY DEF Calls, Waiting

LEMMA ReturnedWaiting ==
    ASSUME NEW S, Returned(S)
    PROVE  \A w : Waiting(w)' <=> Waiting(w) /\ w \notin S
  BY DEF Returned, Waiting

LEMMA DifferentCallers ==
    /\ \A c, d \in Character : c # d => Session(c) # Session(d) /\ Char(c) # Char(d)
    /\ \A c, d \in Character : Session(c) # Char(d)
    /\ \A c \in Character : Field # Session(c) /\ Field # Char(c)
  BY CallerFacts

\* The session of c calls: it enters or leaves, or asks for a skill.
LEMMA SessionCalls ==
    ASSUME CallsSound, NEW c \in Character, Calls(Session(c)), char[c] = "online",
           session[c] \in {"away", "in"},
           NEW at \in {"entering", "leaving", "casting"},
           session' = [session EXCEPT ![c] = at],
           char' = [char EXCEPT ![c] = IF at = "casting" THEN "casting" ELSE "online"],
           UNCHANGED pid
    PROVE  /\ ~Waiting(Session(c)) /\ PlayersTyped'
           /\ Stances'
           /\ \A k \in Caller : AwaitsField(k)' <=>
                 AwaitsField(k) \/ (k = Session(c) /\ at # "casting")
<1>1. /\ session'[c] = at /\ char'[c] = (IF at = "casting" THEN "casting" ELSE "online")
      /\ \A d \in Character \ {c} : session'[d] = session[d] /\ char'[d] = char[d]
      /\ PlayersTyped'
  BY DEF CallsSound, PlayersTyped
<1>2. \A w : Waiting(w)' <=> Waiting(w) \/ w = Session(c)
  BY CallsWaiting
<1>3. ~Waiting(Session(c)) /\ ~Waiting(Char(c))
  BY DEF CallsSound, Stances
<1>4. Stances'
  BY <1>1, <1>2, <1>3, OthersStances, DifferentCallers
<1>5. \A k \in Caller : AwaitsField(k)' <=>
          AwaitsField(k) \/ (k = Session(c) /\ at # "casting")
  <2> SUFFICES ASSUME NEW k \in Caller
               PROVE  AwaitsField(k)' <=>
                         AwaitsField(k) \/ (k = Session(c) /\ at # "casting")
    OBVIOUS
  <2>1. k.id \in Character /\ (k.of = "session" => k = Session(k.id))
    BY CallerFacts
  <2>2. AwaitsField(k)' <=> (Waiting(k) \/ k = Session(c))
                            /\ ~(k.of = "session" /\ session'[k.id] = "casting")
    BY <1>2 DEF AwaitsField
  <2>3. CASE k = Session(c)
    BY <1>1, <1>3, <2>2, <2>3, CallerFacts DEF AwaitsField
  <2>4. CASE k # Session(c)
    <3>1. k.of = "session" => k.id # c
      BY <2>1, <2>4
    <3> QED BY <1>1, <2>1, <2>2, <2>4, <3>1 DEF AwaitsField
  <2> QED BY <2>3, <2>4
<1> QED BY <1>1, <1>3, <1>4, <1>5

\* enter/1, of a field that is there or of a new one.
LEMMA EnterSound ==
    ASSUME CallsSound, NEW c \in Character, Enter(c)
    PROVE  CallsSound'
<1>1. /\ session[c] \in {"away", "in"} /\ char[c] = "online"
      /\ char' = char /\ pid' = pid
      /\ char' = [char EXCEPT ![c] = "online"]
  BY DEF Enter, Answers, CallsSound, PlayersTyped
<1>2. CASE up
  <2>1. /\ Send("add", Session(c)) /\ session' = [session EXCEPT ![c] = "entering"]
        /\ UNCHANGED <<up, starts, sessions, armed, task>>
    BY <1>2 DEF Enter
  <2>2. /\ ~Waiting(Session(c)) /\ PlayersTyped' /\ Stances'
        /\ \A k \in Caller : AwaitsField(k)' <=> AwaitsField(k) \/ k = Session(c)
    BY <1>1, <2>1, SessionCalls DEF Send
  <2>3. Session(c) \in Caller /\ Kind(Request("add", Session(c)))
    BY CallerFacts DEF Kind, Request
  <2>4. FieldTypes' /\ CallsTyped' /\ Idle' /\ Kinds' /\ Answered'
    BY <1>2, <2>1, <2>2, <2>3, SendSound
  <2> QED BY <2>2, <2>4 DEF CallsSound
<1>3. CASE ~up
  <2> DEFINE t == [type |-> "add", by |-> Session(c), live |-> FALSE,
                   left |-> {}, asks |-> None]
  <2>1. /\ up' = TRUE /\ starts' = starts + 1 /\ sessions' = {} /\ armed' = FALSE
        /\ inbox' = <<>> /\ task' = t /\ session' = [session EXCEPT ![c] = "in"]
        /\ UNCHANGED <<waits, older>>
    BY <1>3 DEF Enter, calls
  <2>2. t \in Tasks /\ t.type = "add" /\ t.by = Session(c) /\ t.live = FALSE
    BY CallerFacts DEF Tasks
  <2> HIDE DEF t
  <2>3. <<>> \in Seq(Messages) /\ Len(<<>>) = 0
    BY EmptySeq
  <2>4. FieldTypes' /\ CallsTyped' /\ PlayersTyped'
    <3>1. FieldTypes'
      <4>1. FieldTyped'
        BY <2>1, <2>2, <2>3 DEF FieldTyped
      <4>2. up' \in BOOLEAN /\ armed' \in BOOLEAN
        BY <2>1
      <4>3. starts' \in Nat
        BY <2>1 DEF CallsSound, FieldTypes
      <4> QED BY <4>1, <4>2, <4>3 DEF FieldTypes
    <3>2. CallsTyped'
      BY <2>1 DEF CallsSound, CallsTyped
    <3>3. PlayersTyped'
      BY <1>1, <2>1 DEF CallsSound, PlayersTyped
    <3> QED BY <3>1, <3>2, <3>3
  <2>5. Idle' /\ Kinds'
    BY <2>1, <2>2, <2>3, CallerFacts DEF Idle, Kinds, KindsIn, Kind
  <2>6. /\ session'[c] = "in" /\ char'[c] = "online"
        /\ \A d \in Character \ {c} : session'[d] = session[d] /\ char'[d] = char[d]
        /\ \A w : Waiting(w)' <=> Waiting(w)
        /\ ~Waiting(Session(c)) /\ ~Waiting(Char(c))
    BY <1>1, <2>1 DEF CallsSound, PlayersTyped, Stances, Waiting
  <2>7. Stances'
    BY <2>6, OthersStances
  <2>8. Answered'
    <3>1. \A k : Requests(k) = {}
      BY <1>3, <2>3 DEF CallsSound, Idle, Requests
    <3>2. \A k : Requests(k)' = {}
      BY <2>1, <2>2, <2>3, RequestsAre DEF RequestsIn, Asks
    <3>3. \A k \in Caller : AwaitsField(k)' <=> AwaitsField(k)
      <4> SUFFICES ASSUME NEW k \in Caller PROVE AwaitsField(k)' <=> AwaitsField(k)
        OBVIOUS
      <4>1. k.id \in Character /\ (k.of = "session" => k = Session(k.id))
        BY CallerFacts
      <4>2. CASE k = Session(c)
        BY <2>6, <4>2 DEF AwaitsField
      <4>3. CASE k # Session(c)
        BY <2>6, <4>1, <4>3 DEF AwaitsField
      <4> QED BY <4>2, <4>3
    <3> QED BY <3>1, <3>2, <3>3 DEF CallsSound, Answered, Once
  <2> QED BY <2>4, <2>5, <2>7, <2>8 DEF CallsSound
<1> QED BY <1>2, <1>3

LEMMA LeaveSound ==
    ASSUME CallsSound, NEW c \in Character, Leave(c)
    PROVE  CallsSound'
<1>1. /\ session[c] \in {"away", "in"} /\ char[c] = "online"
      /\ char' = char /\ pid' = pid /\ UNCHANGED <<up, starts, sessions, armed, task>>
      /\ char' = [char EXCEPT ![c] = "online"]
  BY DEF Leave, Answers, CallsSound, PlayersTyped
<1>2. CASE OnThisField(c)
  <2>1. /\ Send("remove", Session(c)) /\ session' = [session EXCEPT ![c] = "leaving"]
        /\ up
    BY <1>2 DEF Leave, OnThisField
  <2>2. /\ ~Waiting(Session(c)) /\ PlayersTyped' /\ Stances'
        /\ \A k \in Caller : AwaitsField(k)' <=> AwaitsField(k) \/ k = Session(c)
    BY <1>1, <2>1, SessionCalls DEF Send
  <2>3. Session(c) \in Caller /\ Kind(Request("remove", Session(c)))
    BY CallerFacts DEF Kind, Request
  <2>4. FieldTypes' /\ CallsTyped' /\ Idle' /\ Kinds' /\ Answered'
    BY <1>1, <2>1, <2>2, <2>3, SendSound
  <2> QED BY <2>2, <2>4 DEF CallsSound
<1>3. CASE ~OnThisField(c)
  <2>1. /\ session' = [session EXCEPT ![c] = "away"]
        /\ UNCHANGED <<inbox, waits, older>>
    BY <1>3 DEF Leave, calls
  <2>2. FieldTypes' /\ CallsTyped' /\ PlayersTyped' /\ Idle' /\ Kinds'
    BY <1>1, <2>1 DEF CallsSound, FieldTypes, FieldTyped, CallsTyped, PlayersTyped, Idle, Kinds
  <2>3. /\ session'[c] = "away" /\ char'[c] = "online"
        /\ \A d \in Character \ {c} : session'[d] = session[d] /\ char'[d] = char[d]
        /\ \A w : Waiting(w)' <=> Waiting(w)
        /\ ~Waiting(Session(c)) /\ ~Waiting(Char(c))
    BY <1>1, <2>1 DEF CallsSound, PlayersTyped, Stances, Waiting
  <2>4. Stances'
    BY <2>3, OthersStances
  <2>5. \A k \in Caller : session'[k.id] = "casting" <=> session[k.id] = "casting"
    BY <1>1, <2>3, CallerFacts
  <2>6. Answered'
    BY <1>1, <2>1, <2>3, <2>5, AnsweredStays DEF CallsSound, AwaitsField
  <2> QED BY <2>2, <2>4, <2>6 DEF CallsSound
<1> QED BY <1>2, <1>3

LEMMA UseSkillSound ==
    ASSUME CallsSound, NEW c \in Character, UseSkill(c)
    PROVE  CallsSound'
<1>1. /\ session[c] \in {"away", "in"} /\ char[c] = "online"
      /\ UNCHANGED <<up, starts, sessions, armed, inbox, task, pid>>
      /\ Calls(Session(c)) /\ session' = [session EXCEPT ![c] = "casting"]
      /\ char' = [char EXCEPT ![c] = "casting"]
  BY DEF UseSkill, Answers, field
<1>2. /\ PlayersTyped' /\ Stances'
      /\ \A k \in Caller : AwaitsField(k)' <=> AwaitsField(k)
  BY <1>1, SessionCalls
<1>3. FieldTypes' /\ Idle' /\ Kinds'
  BY <1>1 DEF CallsSound, FieldTypes, FieldTyped, Idle, Kinds
<1>4. CallsTyped'
  BY <1>1, CallsKeep, CallerFacts DEF CallsSound
<1>5. Answered'
  BY <1>1, <1>2, AnsweredStays DEF CallsSound
<1> QED BY <1>2, <1>3, <1>4, <1>5 DEF CallsSound

\* A cast goes on to the field, or ends where there is none.
LEMMA CastSkillSound ==
    ASSUME CallsSound, NEW c \in Character, CastSkill(c)
    PROVE  CallsSound'
<1>1. /\ char[c] = "casting" /\ ~Waiting(Char(c)) /\ session[c] \in {"casting", "none"}
      /\ UNCHANGED <<up, starts, sessions, armed, task, pid>>
  BY DEF CastSkill, CallsSound, Stances
<1>2. CASE OnThisField(c)
  <2>1. Send("buff", Char(c)) /\ up /\ UNCHANGED <<session, char>>
    BY <1>2 DEF CastSkill, OnThisField
  <2>2. \A w : Waiting(w)' <=> Waiting(w) \/ w = Char(c)
    BY <2>1, CallsWaiting DEF Send
  <2>3. Stances'
    BY <1>1, <2>1, <2>2, OthersStances, DifferentCallers DEF CallsSound, Stances
  <2>4. \A k \in Caller : AwaitsField(k)' <=> AwaitsField(k) \/ k = Char(c)
    BY <2>1, <2>2, CallerFacts DEF AwaitsField
  <2>5. Char(c) \in Caller /\ Kind(Request("buff", Char(c)))
    BY CallerFacts DEF Kind, Request
  <2>6. FieldTypes' /\ CallsTyped' /\ Idle' /\ Kinds' /\ Answered'
    BY <1>1, <2>1, <2>4, <2>5, SendSound
  <2>7. PlayersTyped'
    BY <1>1, <2>1 DEF CallsSound, PlayersTyped
  <2> QED BY <2>3, <2>6, <2>7 DEF CallsSound
<1>3. CASE ~OnThisField(c)
  <2>1. /\ char' = [char EXCEPT ![c] = "online"]
        /\ session' = [session EXCEPT ![c] = IF @ = "casting" THEN "in" ELSE @]
        /\ Returned({Session(c)}) /\ UNCHANGED inbox
    BY <1>3 DEF CastSkill
  <2>2. /\ PlayersTyped'
        /\ char'[c] = "online" /\ session'[c] \in {"in", "none"}
        /\ \A d \in Character \ {c} : session'[d] = session[d] /\ char'[d] = char[d]
    BY <1>1, <2>1 DEF CallsSound, PlayersTyped
  <2>3. \A w : Waiting(w)' <=> Waiting(w) /\ w # Session(c)
    BY <2>1, ReturnedWaiting
  <2>4. Stances'
    BY <1>1, <2>2, <2>3, OthersStances, DifferentCallers
  <2>5. ASSUME NEW k \in Caller PROVE AwaitsField(k)' <=> AwaitsField(k)
    <3>1. k.id \in Character /\ (k.of = "session" => k = Session(k.id))
      BY CallerFacts
    <3>2. Waiting(Session(c)) => session[c] = "casting"
      BY <1>1 DEF CallsSound, Stances
    <3>3. CASE k = Session(c)
      BY <2>3, <3>2, <3>3, CallerFacts DEF AwaitsField
    <3>4. CASE k # Session(c)
      BY <2>2, <2>3, <3>1, <3>4 DEF AwaitsField
    <3> QED BY <3>3, <3>4
  <2>6. Answered'
    BY <1>1, <2>1, <2>5, AnsweredStays DEF CallsSound
  <2>7. CallsTyped'
    BY <2>1, ReturnedKeeps DEF CallsSound
  <2>8. FieldTypes' /\ Idle' /\ Kinds'
    BY <1>1, <2>1 DEF CallsSound, FieldTypes, FieldTyped, Idle, Kinds
  <2> QED BY <2>2, <2>4, <2>6, <2>7, <2>8 DEF CallsSound
<1> QED BY <1>2, <1>3

LEMMA CleanupLeavesSound ==
    ASSUME CallsSound, NEW c \in Character, CleanupLeaves(c)
    PROVE  CallsSound'
<1>1. /\ char[c] = "cleanup" /\ ~Waiting(Char(c)) /\ session[c] = "none"
      /\ UNCHANGED <<up, starts, sessions, armed, task, pid, session>>
  BY DEF CleanupLeaves, CallsSound, Stances
<1>2. CASE OnThisField(c)
  <2>1. Send("remove", Char(c)) /\ up /\ UNCHANGED char
    BY <1>2 DEF CleanupLeaves, OnThisField
  <2>2. \A w : Waiting(w)' <=> Waiting(w) \/ w = Char(c)
    BY <2>1, CallsWaiting DEF Send
  <2>3. Stances'
    BY <1>1, <2>1, <2>2, OthersStances, DifferentCallers DEF CallsSound, Stances
  <2>4. \A k \in Caller : AwaitsField(k)' <=> AwaitsField(k) \/ k = Char(c)
    BY <1>1, <2>2, CallerFacts DEF AwaitsField
  <2>5. Char(c) \in Caller /\ Kind(Request("remove", Char(c)))
    BY CallerFacts DEF Kind, Request
  <2>6. FieldTypes' /\ CallsTyped' /\ Idle' /\ Kinds' /\ Answered'
    BY <1>1, <2>1, <2>4, <2>5, SendSound
  <2>7. PlayersTyped'
    BY <1>1, <2>1 DEF CallsSound, PlayersTyped
  <2> QED BY <2>3, <2>6, <2>7 DEF CallsSound
<1>3. CASE ~OnThisField(c)
  <2>1. char' = [char EXCEPT ![c] = "left"] /\ UNCHANGED <<inbox, waits, older>>
    BY <1>3 DEF CleanupLeaves, calls
  <2>2. /\ PlayersTyped' /\ char'[c] = "left"
        /\ \A d \in Character \ {c} : session'[d] = session[d] /\ char'[d] = char[d]
        /\ session'[c] = "none"
        /\ \A w : Waiting(w)' <=> Waiting(w)
    BY <1>1, <2>1 DEF CallsSound, PlayersTyped, Waiting
  <2>3. Stances'
    BY <1>1, <2>2, OthersStances DEF CallsSound, Stances
  <2>4. Answered'
    BY <1>1, <2>1, <2>2, AnsweredStays DEF CallsSound, AwaitsField
  <2>5. FieldTypes' /\ CallsTyped' /\ Idle' /\ Kinds'
    BY <1>1, <2>1 DEF CallsSound, FieldTypes, FieldTyped, CallsTyped, Idle, Kinds
  <2> QED BY <2>2, <2>3, <2>4, <2>5 DEF CallsSound
<1> QED BY <1>2, <1>3

-----------------------------------------------------------------------------
(* CallsSound: the field's end, and calls that return. *)

\* Everybody who waits for the field is answered; a cast that has not come to
\* the field goes on.
LEMMA FieldEndsSound ==
    ASSUME CallsSound, FieldEnds,
           char' \in [Character -> {"offline", "online", "casting", "cleanup", "left"}],
           \A d \in Character :
              char'[d] = CharAfterExit(d) \/ (char[d] = "left" /\ char'[d] = "offline")
    PROVE  CallsSound'
<1>1. /\ up' = FALSE /\ sessions' = {} /\ armed' = FALSE /\ inbox' = <<>> /\ task' = None
      /\ Returned({w \in waits : ~StillWaits(w)})
      /\ session' = [d \in Character |-> SessionAfterExit(d)]
      /\ UNCHANGED <<starts, pid>>
  BY DEF FieldEnds
<1>2. <<>> \in Seq(Messages) /\ Len(<<>>) = 0
  BY EmptySeq
<1>3. FieldTypes'
  <2>1. FieldTyped'
    BY <1>1, <1>2 DEF FieldTyped
  <2>2. up' \in BOOLEAN /\ armed' \in BOOLEAN
    BY <1>1
  <2> QED BY <1>1, <2>1, <2>2 DEF FieldTypes, CallsSound
<1>4. CallsTyped'
  BY <1>1, ReturnedKeeps DEF CallsSound
<1>5. \A d \in Character :
         session[d] \in {"none", "away", "entering", "in", "leaving", "casting"}
  BY DEF CallsSound, PlayersTyped
<1>6. PlayersTyped'
  BY <1>1, <1>5 DEF CallsSound, PlayersTyped, SessionAfterExit
<1>7. Idle' /\ Kinds'
  BY <1>1, <1>2 DEF Idle, Kinds, KindsIn
<1>8. ASSUME NEW d \in Character
      PROVE  /\ Waiting(Session(d))' <=> session'[d] = "casting"
             /\ ~Waiting(Char(d))'
             /\ session'[d] \notin {"entering", "leaving"}
             /\ session'[d] = "casting" => char'[d] = "casting"
             /\ char'[d] = "casting" => session'[d] \in {"casting", "none"}
             /\ char'[d] = "cleanup" => session'[d] = "none"
  <2>1. /\ Waiting(Session(d)) <=> session[d] \in {"entering", "leaving", "casting"}
        /\ Waiting(Char(d)) => char[d] \in {"casting", "cleanup"}
        /\ session[d] = "casting" => char[d] = "casting"
        /\ char[d] = "casting" => session[d] \in {"casting", "none"}
        /\ char[d] = "cleanup" => session[d] = "none"
    BY DEF CallsSound, Stances
  <2>2. /\ Waiting(Session(d))' <=> Waiting(Session(d)) /\ StillWaits(Session(d))
        /\ Waiting(Char(d))' <=> Waiting(Char(d)) /\ StillWaits(Char(d))
    BY <1>1, ReturnedWaiting DEF Waiting
  <2>3. /\ StillWaits(Session(d)) <=> session[d] = "casting" /\ ~Waiting(Char(d))
        /\ ~StillWaits(Char(d))
    BY CallerFacts DEF StillWaits
  <2>4. /\ session'[d] = SessionAfterExit(d)
        /\ char'[d] = CharAfterExit(d) \/ (char[d] = "left" /\ char'[d] = "offline")
    BY <1>1
  <2>5. /\ session'[d] = "casting" <=> session[d] = "casting" /\ ~Waiting(Char(d))
        /\ session'[d] \notin {"entering", "leaving"}
        /\ session[d] = "none" => session'[d] = "none"
    BY <1>5, <2>4 DEF SessionAfterExit
  <2>6. /\ char'[d] = "casting" <=> char[d] = "casting" /\ ~Waiting(Char(d))
        /\ char'[d] = "cleanup" => char[d] = "cleanup"
    BY <2>4 DEF CharAfterExit
  <2> QED BY <2>1, <2>2, <2>3, <2>5, <2>6
<1>9. Stances'
  BY <1>8 DEF Stances
<1>10. Answered'
  <2>1. \A k : Requests(k)' = {}
    BY <1>1, <1>2, RequestsAre DEF RequestsIn
  <2>2. \A k \in Caller : ~AwaitsField(k)'
    BY <1>8, CallerFacts DEF AwaitsField
  <2> QED BY <2>1, <2>2 DEF Answered, Once
<1> QED BY <1>3, <1>4, <1>6, <1>7, <1>9, <1>10 DEF CallsSound

LEMMA ExitTyped ==
    ASSUME CallsSound
    PROVE  \A d \in Character :
              CharAfterExit(d) \in {"offline", "online", "casting", "cleanup", "left"}
<1>1. \A d \in Character : char[d] \in {"offline", "online", "casting", "cleanup", "left"}
  BY DEF CallsSound, PlayersTyped
<1> QED BY <1>1 DEF CharAfterExit

LEMMA FieldStopsSound ==
    ASSUME CallsSound, FieldStops PROVE CallsSound'
<1>1. FieldEnds /\ char' = [d \in Character |-> CharAfterExit(d)]
  BY DEF FieldStops
<1> QED BY <1>1, ExitTyped, FieldEndsSound

LEMMA CharacterStopsSound ==
    ASSUME CallsSound, NEW c \in Character, CharacterStops(c)
    PROVE  CallsSound'
<1>1. CASE task # None /\ task.asks = c
  <2>1. /\ FieldEnds /\ char[c] = "left"
        /\ char' = [d \in Character |-> IF d = c THEN "offline" ELSE CharAfterExit(d)]
    BY <1>1 DEF CharacterStops
  <2>2. /\ char' \in [Character -> {"offline", "online", "casting", "cleanup", "left"}]
        /\ \A d \in Character :
              char'[d] = CharAfterExit(d) \/ (char[d] = "left" /\ char'[d] = "offline")
    BY <2>1, ExitTyped
  <2> QED BY <2>1, <2>2, FieldEndsSound
<1>2. CASE ~(task # None /\ task.asks = c)
  <2>1. /\ char[c] = "left" /\ char' = [char EXCEPT ![c] = "offline"]
        /\ UNCHANGED <<up, starts, sessions, armed, inbox, task, waits, older, session, pid>>
    BY <1>2 DEF CharacterStops, field, calls
  <2>2. /\ PlayersTyped' /\ char'[c] = "offline"
        /\ \A d \in Character \ {c} : char'[d] = char[d]
        /\ \A w : Waiting(w)' <=> Waiting(w)
    BY <2>1 DEF CallsSound, PlayersTyped, Waiting
  <2>3. Stances'
    BY <2>1, <2>2, OthersStances DEF CallsSound, Stances
  <2>4. Answered'
    BY <2>1, <2>2, AnsweredStays DEF CallsSound, AwaitsField
  <2>5. FieldTypes' /\ CallsTyped' /\ Idle' /\ Kinds'
    BY <2>1 DEF CallsSound, FieldTypes, FieldTyped, CallsTyped, Idle, Kinds
  <2> QED BY <2>2, <2>3, <2>4, <2>5 DEF CallsSound
<1> QED BY <1>1, <1>2

\* A character's call that returns ends that call, and the cast behind it.
LEMMA CharReturnsSound ==
    ASSUME CallsSound, NEW c \in Character, char[c] \in {"casting", "cleanup"},
           CharReturns(c), UNCHANGED pid
    PROVE  /\ CallsTyped' /\ PlayersTyped' /\ Stances'
           /\ \A k \in Caller : AwaitsField(k)' <=> AwaitsField(k) /\ k # Char(c)
<1> DEFINE S == {Char(c)} \cup (IF char[c] = "casting" THEN {Session(c)} ELSE {})
<1>1. /\ char' = [char EXCEPT ![c] = IF @ = "casting" THEN "online" ELSE "left"]
      /\ session' = [session EXCEPT ![c] =
                        IF char[c] = "casting" /\ @ = "casting" THEN "in" ELSE @]
      /\ Returned(S)
  BY DEF CharReturns
<1>2. CallsTyped'
  BY <1>1, ReturnedKeeps DEF CallsSound
<1>3. PlayersTyped'
  BY <1>1 DEF CallsSound, PlayersTyped
<1>4. /\ Waiting(Session(c)) <=> session[c] \in {"entering", "leaving", "casting"}
      /\ char[c] = "casting" => session[c] \in {"casting", "none"}
      /\ char[c] = "cleanup" => session[c] = "none"
  BY DEF CallsSound, Stances
<1>5. /\ \A d \in Character \ {c} : session'[d] = session[d] /\ char'[d] = char[d]
      /\ char'[c] \in {"online", "left"} /\ session'[c] \in {"in", "none"}
  BY <1>1, <1>4 DEF CallsSound, PlayersTyped
<1>6. \A w : Waiting(w)' <=> Waiting(w) /\ w \notin S
  BY <1>1, ReturnedWaiting
<1>7. /\ \A d \in Character \ {c} : Session(d) \notin S /\ Char(d) \notin S
      /\ Char(c) \in S /\ ~(Waiting(Session(c)) /\ Session(c) \notin S)
      /\ \A k \in Caller \ {Char(c), Session(c)} : k \notin S
  BY <1>4, DifferentCallers
<1>8. Stances'
  BY <1>5, <1>6, <1>7, OthersStances
<1> HIDE DEF S
<1>9. ASSUME NEW k \in Caller PROVE AwaitsField(k)' <=> AwaitsField(k) /\ k # Char(c)
  <2>1. k.id \in Character /\ (k.of = "session" => k = Session(k.id))
    BY CallerFacts
  <2>2. CASE k = Char(c)
    BY <1>6, <1>7, <2>2 DEF AwaitsField
  <2>3. CASE k = Session(c)
    BY <1>4, <1>6, <1>7, <2>3, DifferentCallers, CallerFacts DEF AwaitsField
  <2>4. CASE k \notin {Char(c), Session(c)}
    BY <1>5, <1>6, <1>7, <2>1, <2>4 DEF AwaitsField
  <2> QED BY <2>2, <2>3, <2>4
<1> QED BY <1>2, <1>3, <1>8, <1>9

\* A session's call that returns.
LEMMA SessionReturnsSound ==
    ASSUME CallsSound, NEW c \in Character, Waiting(Session(c)),
           NEW at \in {"none", "away", "in"},
           at = "none" \/ session[c] \in {"entering", "leaving"},
           NEW S \in SUBSET {Session(c), Field}, Session(c) \in S, Returned(S),
           session' = [session EXCEPT ![c] = at], UNCHANGED char,
           UNCHANGED pid \/ pid' \in [Character -> Nat]
    PROVE  /\ CallsTyped' /\ PlayersTyped' /\ Stances'
           /\ \A k \in Caller : AwaitsField(k)' <=> AwaitsField(k) /\ k # Session(c)
<1>1. CallsTyped'
  BY ReturnedKeeps DEF CallsSound
<1>2. /\ PlayersTyped' /\ session'[c] = at
      /\ \A d \in Character \ {c} : session'[d] = session[d]
  BY DEF CallsSound, PlayersTyped
<1>3. /\ char[c] = "casting" => session[c] \in {"casting", "none"}
      /\ char[c] = "cleanup" => session[c] = "none"
      /\ Waiting(Char(c)) => char[c] \in {"casting", "cleanup"}
  BY DEF CallsSound, Stances
<1>4. \A w : Waiting(w)' <=> Waiting(w) /\ w \notin S
  BY ReturnedWaiting
<1>5. \A k \in Caller : k \in S <=> k = Session(c)
  BY CallerFacts
<1>6. /\ \A d \in Character \ {c} : Waiting(Session(d))' <=> Waiting(Session(d))
      /\ \A d \in Character : Waiting(Char(d))' <=> Waiting(Char(d))
      /\ ~Waiting(Session(c))'
  BY <1>4, <1>5, CallerFacts, DifferentCallers
<1>7. Stances'
  BY <1>2, <1>3, <1>6, OthersStances
<1>8. ASSUME NEW k \in Caller PROVE AwaitsField(k)' <=> AwaitsField(k) /\ k # Session(c)
  <2>1. k.id \in Character /\ (k.of = "session" => k = Session(k.id))
    BY CallerFacts
  <2>2. CASE k = Session(c)
    BY <1>6, <2>2 DEF AwaitsField
  <2>3. CASE k # Session(c)
    BY <1>2, <1>4, <1>5, <2>1, <2>3 DEF AwaitsField
  <2> QED BY <2>2, <2>3
<1> QED BY <1>1, <1>2, <1>7, <1>8

\* Only the field's own call begins or ends.
LEMMA FieldCallSound ==
    ASSUME CallsSound, UNCHANGED <<session, char>>, UNCHANGED pid \/ pid' \in [Character -> Nat],
           \/ UNCHANGED calls
           \/ Calls(Field)
           \/ Returned({Field})
    PROVE  /\ CallsTyped' /\ PlayersTyped' /\ Stances'
           /\ \A k \in Caller : AwaitsField(k)' <=> AwaitsField(k)
<1>1. CallsTyped'
  <2>1. CASE UNCHANGED calls
    BY <2>1 DEF CallsSound, CallsTyped, calls
  <2>2. CASE Calls(Field)
    BY <2>2, CallsKeep DEF CallsSound
  <2>3. CASE Returned({Field})
    BY <2>3, ReturnedKeeps DEF CallsSound
  <2> QED BY <2>1, <2>2, <2>3
<1>2. \A k \in Caller : Waiting(k)' <=> Waiting(k)
  <2>1. CASE UNCHANGED calls
    BY <2>1 DEF Waiting, calls
  <2>2. CASE Calls(Field)
    BY <2>2, CallsWaiting, CallerFacts
  <2>3. CASE Returned({Field})
    BY <2>3, ReturnedWaiting, CallerFacts
  <2> QED BY <2>1, <2>2, <2>3
<1>3. PlayersTyped'
  BY DEF CallsSound, PlayersTyped
<1>4. Stances'
  BY <1>2, CallerFacts DEF CallsSound, Stances
<1>5. \A k \in Caller : AwaitsField(k)' <=> AwaitsField(k)
  BY <1>2 DEF AwaitsField
<1> QED BY <1>1, <1>3, <1>4, <1>5

-----------------------------------------------------------------------------
(* CallsSound: the field's messages. *)

\* Who waits for the message that the field receives.
LEMMA HeadFacts ==
    ASSUME CallsSound, NEW type, Received(type)
    PROVE  /\ up /\ task = None /\ inbox \in Seq(Messages) /\ inbox # <<>>
           /\ Head(inbox) \in Messages /\ Head(inbox).type = type
           /\ Kind(Head(inbox))
           /\ type \in {"add", "remove", "buff"} =>
                 /\ Head(inbox).by \in Caller /\ Head(inbox).live \in BOOLEAN
                 /\ Head(inbox).live => AwaitsField(Head(inbox).by)
                 /\ \A k : Asks(Head(inbox), k) <=> Head(inbox).live /\ k = Head(inbox).by
           /\ type \notin {"add", "remove", "buff"} => \A k : ~Asks(Head(inbox), k)
<1>1. /\ up /\ task = None /\ inbox \in Seq(Messages) /\ inbox # <<>>
      /\ Head(inbox).type = type
  BY DEF Received, FieldFree, CallsSound, FieldTypes, FieldTyped
<1>2. Head(inbox) \in Messages /\ Kind(Head(inbox))
  BY <1>1, TailPlaces, KindsTail DEF CallsSound, Kinds
<1>3. ASSUME type \in {"add", "remove", "buff"}
      PROVE  /\ Head(inbox).by \in Caller /\ Head(inbox).live \in BOOLEAN
             /\ Head(inbox).live => AwaitsField(Head(inbox).by)
             /\ \A k : Asks(Head(inbox), k) <=> Head(inbox).live /\ k = Head(inbox).by
  <2>1. Head(inbox).by \in Caller /\ Head(inbox).live \in BOOLEAN
    BY <1>1, <1>2, <1>3 DEF Messages
  <2>2. \A k : Asks(Head(inbox), k) <=> Head(inbox).live /\ k = Head(inbox).by
    BY <1>1, <1>3 DEF Asks, IsRequest
  <2>3. ASSUME Head(inbox).live PROVE AwaitsField(Head(inbox).by)
    <3>1. Head(inbox) = inbox[1] /\ 1 \in 1..Len(inbox)
      BY <1>1, TailPlaces
    <3>2. 1 \in Requests(Head(inbox).by)
      BY <2>2, <2>3, <3>1 DEF Requests
    <3> QED BY <2>1, <3>2 DEF CallsSound, Answered
  <2> QED BY <2>1, <2>2, <2>3
<1>4. type \notin {"add", "remove", "buff"} => \A k : ~Asks(Head(inbox), k)
  BY <1>1 DEF Asks, IsRequest
<1> QED BY <1>1, <1>2, <1>3, <1>4

\* The message is handled, and :maybe_stop may follow.
LEMMA HandledSound ==
    ASSUME CallsSound, NEW type, Received(type), UNCHANGED <<up, starts, task>>,
           \/ inbox' = Tail(inbox)
           \/ inbox' = Append(Tail(inbox), [type |-> "maybe_stop"]),
           sessions' \in SUBSET Character, armed' \in BOOLEAN,
           \A k \in Caller : AwaitsField(k)' <=> AwaitsField(k) /\ ~Asks(Head(inbox), k)
    PROVE  FieldTypes' /\ Idle' /\ Kinds' /\ Answered'
<1> DEFINE m == [type |-> "maybe_stop"]
<1>1. m \in Messages /\ Kind(m) /\ \A k : ~Asks(m, k)
  BY DEF Messages, Kind, Asks, IsRequest
<1> HIDE DEF m
<1>2. inbox' = Tail(inbox) \/ inbox' = Append(Tail(inbox), m)
  BY DEF m
<1>3. /\ up /\ task = None /\ inbox \in Seq(Messages) /\ inbox # <<>>
      /\ Tail(inbox) \in Seq(Messages) /\ KindsIn(Tail(inbox))
  BY HeadFacts, TailPlaces, KindsTail DEF CallsSound, Kinds
<1>4. inbox' \in Seq(Messages)
  <2>1. Append(Tail(inbox), m) \in Seq(Messages)
    BY <1>1, <1>3, AppendProperties
  <2> QED BY <1>2, <1>3, <2>1
<1>5. Kinds'
  BY <1>1, <1>2, <1>3, KindsAppend DEF Kinds
<1>6. FieldTypes'
  BY <1>3, <1>4 DEF CallsSound, FieldTypes, FieldTyped
<1>7. ASSUME NEW k \in Caller
      PROVE  Once(Requests(k)') /\ (AwaitsField(k)' <=> Requests(k)' # {})
  <2>1. /\ Requests(k) = RequestsIn(inbox, None, k)
        /\ Requests(k)' = RequestsIn(inbox', None, k)
    BY <1>3, RequestsAre
  <2>2. RequestsIn(inbox', None, k) = RequestsIn(Tail(inbox), None, k)
    <3>1. m \in Messages /\ ~Asks(m, k) /\ Tail(inbox) \in Seq(Messages)
      BY <1>1, <1>3
    <3>2. RequestsIn(Append(Tail(inbox), m), task, k) = RequestsIn(Tail(inbox), task, k)
      BY <3>1, OtherAppended
    <3> QED BY <1>2, <1>3, <3>2
  <2>3. Once(Requests(k)) /\ (AwaitsField(k) <=> Requests(k) # {})
    BY DEF CallsSound, Answered
  <2>4. /\ Once(RequestsIn(Tail(inbox), None, k))
        /\ RequestsIn(Tail(inbox), None, k) = {} <=>
              RequestsIn(inbox, None, k) = {} \/ Asks(Head(inbox), k)
    BY <1>3, <2>1, <2>3, HandledRequests
  <2> QED BY <2>1, <2>2, <2>3, <2>4
<1>8. Answered'
  BY <1>7 DEF Answered, Once
<1> QED BY <1>3, <1>5, <1>6, <1>8 DEF Idle

\* {:remove_character}
LEMMA RemoveSound ==
    ASSUME CallsSound, RemoveCharacter PROVE CallsSound'
<1> DEFINE r == Head(inbox)
<1>1. /\ Received("remove")
      /\ inbox' = Append(Tail(inbox), [type |-> "maybe_stop"])
      /\ UNCHANGED <<up, starts, armed, task, pid>>
      /\ sessions' = sessions \ {r.by.id}
  BY DEF RemoveCharacter
<1>2. /\ r.by \in Caller /\ r.live \in BOOLEAN
      /\ r.live => AwaitsField(r.by)
      /\ \A k : Asks(r, k) <=> r.live /\ k = r.by
  BY <1>1, HeadFacts
<1>3. sessions' \in SUBSET Character /\ armed' \in BOOLEAN
  BY <1>1 DEF CallsSound, FieldTypes, FieldTyped
<1>4. /\ CallsTyped' /\ PlayersTyped' /\ Stances'
      /\ \A k \in Caller : AwaitsField(k)' <=> AwaitsField(k) /\ ~Asks(r, k)
  <2>1. CASE ~r.live
    <3>1. UNCHANGED <<session, char, pid>> /\ UNCHANGED calls
      BY <1>1, <2>1 DEF RemoveCharacter
    <3> QED BY <1>2, <2>1, <3>1, FieldCallSound
  <2>2. CASE r.live /\ r.by.of = "character"
    <3>1. CharReturns(r.by.id) /\ UNCHANGED pid
      BY <1>1, <2>2 DEF RemoveCharacter
    <3>2. r.by = Char(r.by.id) /\ r.by.id \in Character
      BY <1>2, <2>2, CallerFacts
    <3>3. char[r.by.id] \in {"casting", "cleanup"}
      BY <1>2, <2>2, <3>2 DEF AwaitsField, CallsSound, Stances
    <3>4. /\ CallsTyped' /\ PlayersTyped' /\ Stances'
          /\ \A k \in Caller : AwaitsField(k)' <=> AwaitsField(k) /\ k # Char(r.by.id)
      BY <3>1, <3>2, <3>3, CharReturnsSound
    <3> QED BY <1>2, <2>2, <3>2, <3>4
  <2>3. CASE r.live /\ r.by.of # "character"
    <3>1. /\ session' = [session EXCEPT ![r.by.id] = "away"]
          /\ Returned({r.by}) /\ UNCHANGED <<char, pid>>
      BY <1>1, <2>3 DEF RemoveCharacter
    <3>2. r.by = Session(r.by.id) /\ r.by.id \in Character /\ r.by.of = "session"
      BY <1>2, <2>3, CallerFacts
    <3>3. Waiting(r.by) /\ session[r.by.id] # "casting"
      BY <1>2, <2>3, <3>2 DEF AwaitsField
    <3>4. session[r.by.id] \in {"entering", "leaving"}
      BY <3>2, <3>3 DEF CallsSound, Stances
    <3>5. /\ CallsTyped' /\ PlayersTyped' /\ Stances'
          /\ \A k \in Caller : AwaitsField(k)' <=> AwaitsField(k) /\ k # Session(r.by.id)
      BY <3>1, <3>2, <3>3, <3>4, SessionReturnsSound
    <3> QED BY <1>2, <2>3, <3>2, <3>5
  <2> QED BY <2>1, <2>2, <2>3
<1> HIDE DEF r
<1>5. FieldTypes' /\ Idle' /\ Kinds' /\ Answered'
  BY <1>1, <1>3, <1>4, HandledSound DEF r
<1> QED BY <1>4, <1>5 DEF CallsSound

\* :maybe_stop, and :dispose_if_empty where somebody is there.
LEMMA TimerMessagesSound ==
    ASSUME CallsSound, MaybeStop \/ Dispose PROVE CallsSound'
<1>1. CASE Dispose /\ sessions = {}
  BY <1>1, FieldStopsSound DEF Dispose
<1>2. CASE MaybeStop \/ (Dispose /\ sessions # {})
  <2>1. PICK type \in {"maybe_stop", "dispose"} :
           /\ Received(type) /\ inbox' = Tail(inbox)
           /\ UNCHANGED <<up, starts, sessions, task>> /\ UNCHANGED <<session, char, pid>>
           /\ UNCHANGED calls /\ armed' \in BOOLEAN
    <3>1. CASE MaybeStop
      BY <3>1 DEF MaybeStop, players, calls
    <3>2. CASE Dispose /\ sessions # {}
      BY <3>2 DEF Dispose, players, calls
    <3> QED BY <1>2, <3>1, <3>2
  <2>2. /\ CallsTyped' /\ PlayersTyped' /\ Stances'
        /\ \A k \in Caller : AwaitsField(k)' <=> AwaitsField(k)
    BY <2>1, FieldCallSound
  <2>3. \A k : ~Asks(Head(inbox), k)
    BY <2>1, HeadFacts
  <2>4. sessions' \in SUBSET Character
    BY <2>1 DEF CallsSound, FieldTypes, FieldTyped
  <2>5. FieldTypes' /\ Idle' /\ Kinds' /\ Answered'
    BY <2>1, <2>2, <2>3, <2>4, HandledSound
  <2> QED BY <2>2, <2>5 DEF CallsSound
<1> QED BY <1>1, <1>2 DEF Dispose

-----------------------------------------------------------------------------
(* CallsSound: the task. *)

\* A message becomes the task; its request goes with it.
LEMMA TakenSound ==
    ASSUME CallsSound, NEW type, Received(type), inbox' = Tail(inbox),
           UNCHANGED <<up, starts, sessions, armed>>, UNCHANGED players,
           task' \in Tasks, Kind(task'), \A k : Asks(task', k) <=> Asks(Head(inbox), k)
    PROVE  CallsSound'
<1>1. /\ up /\ task = None /\ inbox \in Seq(Messages) /\ inbox # <<>>
      /\ Tail(inbox) \in Seq(Messages) /\ KindsIn(Tail(inbox)) /\ task' # None
  BY HeadFacts, TailPlaces, KindsTail, NoneAssumption DEF CallsSound, Kinds
<1>2. FieldTypes'
  BY <1>1 DEF CallsSound, FieldTypes, FieldTyped
<1>3. Idle' /\ Kinds'
  BY <1>1 DEF Idle, Kinds
<1>4. UNCHANGED <<session, char, pid>> /\ UNCHANGED calls
  BY DEF players
<1>5. /\ CallsTyped' /\ PlayersTyped' /\ Stances'
      /\ \A k \in Caller : AwaitsField(k)' <=> AwaitsField(k)
  BY <1>4, FieldCallSound
<1>6. ASSUME NEW k \in Caller
      PROVE  Once(Requests(k)') /\ (AwaitsField(k)' <=> Requests(k)' # {})
  <2>1. /\ Requests(k) = RequestsIn(inbox, None, k)
        /\ Requests(k)' = RequestsIn(Tail(inbox), task', k)
    BY <1>1, RequestsAre
  <2>2. Once(Requests(k)) /\ (AwaitsField(k) <=> Requests(k) # {})
    BY DEF CallsSound, Answered
  <2>3. /\ Once(RequestsIn(Tail(inbox), task', k))
        /\ RequestsIn(Tail(inbox), task', k) = {} <=> RequestsIn(inbox, None, k) = {}
    BY <1>1, <2>1, <2>2, TakenRequests
  <2> QED BY <1>5, <2>1, <2>2, <2>3
<1>7. Answered'
  BY <1>6 DEF Answered, Once
<1> QED BY <1>2, <1>3, <1>5, <1>7 DEF CallsSound

LEMMA StartsSound ==
    ASSUME CallsSound, StartAdd \/ StartBuff \/ SendUpdates
    PROVE  CallsSound'
<1>1. CASE StartAdd
  <2>1. /\ Received("add") /\ inbox' = Tail(inbox) /\ task' = Task("add", Head(inbox), sessions)
        /\ UNCHANGED <<up, starts, sessions, armed>> /\ UNCHANGED players
    BY <1>1 DEF StartAdd, players, calls
  <2>2. /\ Head(inbox).by \in Caller /\ Head(inbox).live \in BOOLEAN
        /\ Kind(Head(inbox)) /\ Head(inbox).type = "add"
    BY <2>1, HeadFacts
  <2>3. task' \in Tasks /\ Kind(task') /\ \A k : Asks(task', k) <=> Asks(Head(inbox), k)
    BY <2>1, <2>2 DEF Task, Tasks, Kind, Asks, IsRequest, CallsSound, FieldTypes, FieldTyped
  <2> QED BY <2>1, <2>3, TakenSound
<1>2. CASE StartBuff
  <2>1. /\ Received("buff") /\ inbox' = Tail(inbox)
        /\ UNCHANGED <<up, starts, sessions, armed>> /\ UNCHANGED players
    BY <1>2 DEF StartBuff, players, calls
  <2>2. PICK left \in {{}, {Head(inbox).by.id}} : task' = Task("buff", Head(inbox), left)
    BY <1>2 DEF StartBuff
  <2>3. /\ Head(inbox).by \in Caller /\ Head(inbox).live \in BOOLEAN
        /\ Kind(Head(inbox)) /\ Head(inbox).type = "buff"
    BY <2>1, HeadFacts
  <2>4. left \in SUBSET Character
    BY <2>2, <2>3, CallerFacts
  <2>5. task' \in Tasks /\ Kind(task') /\ \A k : Asks(task', k) <=> Asks(Head(inbox), k)
    BY <2>2, <2>3, <2>4 DEF Task, Tasks, Kind, Asks, IsRequest
  <2> QED BY <2>1, <2>5, TakenSound
<1>3. CASE SendUpdates
  <2>1. /\ Received("send_updates") /\ inbox' = Tail(inbox)
        /\ task' = [type |-> "updates", by |-> None, live |-> FALSE,
                    left |-> sessions, asks |-> None]
        /\ UNCHANGED <<up, starts, sessions, armed>> /\ UNCHANGED players
    BY <1>3 DEF SendUpdates, players, calls
  <2>2. \A k : ~Asks(Head(inbox), k)
    BY <2>1, HeadFacts
  <2>3. task' \in Tasks /\ Kind(task') /\ \A k : Asks(task', k) <=> Asks(Head(inbox), k)
    BY <2>1, <2>2 DEF Tasks, Kind, Asks, IsRequest, CallsSound, FieldTypes, FieldTyped
  <2> QED BY <2>1, <2>3, TakenSound
<1> QED BY <1>1, <1>2, <1>3

\* The task calls a player, or goes on with the answer.
LEMMA TaskGoesOn ==
    ASSUME CallsSound, NEW c \in Character, Ask(c) \/ LookedUp(c)
    PROVE  CallsSound'
<1>1. /\ task \in Tasks /\ task # None
      /\ UNCHANGED <<up, starts, sessions, armed, inbox>> /\ UNCHANGED <<session, char, pid>>
      /\ Calls(Field) \/ Returned({Field})
      /\ \/ task' = [task EXCEPT !.asks = c]
         \/ task' = [task EXCEPT !.left = @ \ {c}, !.asks = None]
  BY DEF Ask, LookedUp, Asked, CallsSound, FieldTypes, FieldTyped
<1>2. /\ task' \in Tasks /\ task'.type = task.type /\ task'.by = task.by
      /\ task'.live = task.live
  BY <1>1 DEF Tasks
<1>3. task' # None /\ Kind(task') /\ \A k : Asks(task', k) <=> Asks(task, k)
  BY <1>1, <1>2, NoneAssumption DEF CallsSound, Kinds, Kind, Asks, IsRequest
<1>4. FieldTypes' /\ Kinds' /\ Idle'
  BY <1>1, <1>2, <1>3 DEF CallsSound, FieldTypes, FieldTyped, Kinds, Idle
<1>5. /\ CallsTyped' /\ PlayersTyped' /\ Stances'
      /\ \A k \in Caller : AwaitsField(k)' <=> AwaitsField(k)
  BY <1>1, FieldCallSound
<1>6. \A k : Requests(k)' = Requests(k)
  BY <1>1, <1>3, RequestsAre DEF RequestsIn
<1>7. Answered'
  BY <1>5, <1>6 DEF CallsSound, Answered
<1> QED BY <1>4, <1>5, <1>7 DEF CallsSound

\* Who waits for the task.
LEMMA TaskFacts ==
    ASSUME CallsSound, task # None, task.live
    PROVE  /\ task.by \in Caller /\ AwaitsField(task.by)
           /\ \A k : Asks(task, k) <=> k = task.by
<1>1. task \in Tasks /\ Kind(task) /\ task.type \in {"add", "buff", "updates"}
  BY DEF CallsSound, FieldTypes, FieldTyped, Kinds, Tasks
<1>2. task.type \in {"add", "buff"} /\ task.by \in Caller
  BY <1>1 DEF Kind
<1>3. \A k : Asks(task, k) <=> k = task.by
  BY <1>2 DEF Asks, IsRequest
<1>4. 0 \in Requests(task.by)
  BY <1>3 DEF Requests
<1> QED BY <1>2, <1>3, <1>4 DEF CallsSound, Answered

\* The task is done, and who waits for it gets its answer.
LEMMA DoneSound ==
    ASSUME CallsSound, task # None, task' = None, UNCHANGED <<up, starts, inbox>>,
           sessions' \in SUBSET Character, armed' \in BOOLEAN,
           \A k \in Caller : AwaitsField(k)' <=> AwaitsField(k) /\ ~Asks(task, k)
    PROVE  FieldTypes' /\ Idle' /\ Kinds' /\ Answered'
<1>1. inbox \in Seq(Messages) /\ FieldTypes'
  BY DEF CallsSound, FieldTypes, FieldTyped
<1>2. Idle' /\ Kinds'
  BY DEF CallsSound, Idle, Kinds
<1>3. ASSUME NEW k \in Caller
      PROVE  Once(Requests(k)') /\ (AwaitsField(k)' <=> Requests(k)' # {})
  <2>1. /\ Requests(k) = RequestsIn(inbox, task, k)
        /\ Requests(k)' = RequestsIn(inbox, None, k)
    BY RequestsAre
  <2>2. Once(Requests(k)) /\ (AwaitsField(k) <=> Requests(k) # {})
    BY DEF CallsSound, Answered
  <2>3. /\ Once(RequestsIn(inbox, None, k))
        /\ RequestsIn(inbox, None, k) = {} <=>
              RequestsIn(inbox, task, k) = {} \/ (task # None /\ Asks(task, k))
    BY <1>1, <2>1, <2>2, TaskEnds
  <2> QED BY <2>1, <2>2, <2>3
<1>4. Answered'
  BY <1>3 DEF Answered, Once
<1> QED BY <1>1, <1>2, <1>4

\* add_character ends: the player is one of the field's.
LEMMA JoinedSound ==
    ASSUME CallsSound, NEW c \in Character, Joined(c) PROVE CallsSound'
<1>1. /\ task # None /\ task.type = "add" /\ task' = None /\ c = task.by.id
      /\ UNCHANGED <<up, starts, inbox, char>>
      /\ sessions' \in SUBSET Character /\ armed' = FALSE
      /\ session' = Entered(task)
      /\ pid' = [pid EXCEPT ![c] = IF Answers(c) THEN starts ELSE @]
      /\ Returned({Field} \cup (IF task.live THEN {task.by} ELSE {}))
  BY DEF Joined, Asked, ToAsk, MaybeCancelDispose, CallsSound, FieldTypes, FieldTyped
<1>2. task.by \in Caller /\ task.by.of = "session" /\ task.by = Session(c)
  BY <1>1, CallerFacts DEF CallsSound, Kinds, Kind
<1>3. pid' \in [Character -> Nat]
  BY <1>1 DEF CallsSound, PlayersTyped, FieldTypes
<1>4. /\ CallsTyped' /\ PlayersTyped' /\ Stances'
      /\ \A k \in Caller : AwaitsField(k)' <=> AwaitsField(k) /\ ~Asks(task, k)
  <2>1. CASE task.live
    <3>1. AwaitsField(Session(c)) /\ \A k : Asks(task, k) <=> k = Session(c)
      BY <1>1, <1>2, <2>1, TaskFacts
    <3>2. Waiting(Session(c)) /\ session[c] \in {"entering", "leaving"}
      BY <3>1, CallerFacts DEF AwaitsField, CallsSound, Stances
    <3>3. session' = [session EXCEPT ![c] = "in"] /\ Returned({Field, Session(c)})
      BY <1>1, <1>2, <2>1 DEF Entered, Returned
    <3> QED BY <1>1, <1>3, <3>1, <3>2, <3>3, SessionReturnsSound
  <2>2. CASE ~task.live
    <3>1. session' = session /\ Returned({Field}) /\ \A k : ~Asks(task, k)
      BY <1>1, <2>2 DEF Entered, Returned, Asks
    <3> QED BY <1>1, <1>3, <3>1, FieldCallSound
  <2> QED BY <2>1, <2>2
<1>5. FieldTypes' /\ Idle' /\ Kinds' /\ Answered'
  BY <1>1, <1>4, DoneSound
<1> QED BY <1>4, <1>5 DEF CallsSound

LEMMA TaskDoneSound ==
    ASSUME CallsSound, BuffAdded \/ UpdatesSent PROVE CallsSound'
<1>1. /\ task # None /\ task' = None
      /\ UNCHANGED <<up, starts, sessions, armed, inbox, pid>>
      /\ sessions' \in SUBSET Character /\ armed' \in BOOLEAN
  BY DEF BuffAdded, UpdatesSent, players, CallsSound, FieldTypes, FieldTyped
<1>2. /\ CallsTyped' /\ PlayersTyped' /\ Stances'
      /\ \A k \in Caller : AwaitsField(k)' <=> AwaitsField(k) /\ ~Asks(task, k)
  <2>1. CASE BuffAdded /\ task.live
    <3>1. task.type = "buff" /\ CharReturns(task.by.id)
      BY <2>1 DEF BuffAdded
    <3>2. task.by = Char(task.by.id) /\ task.by.id \in Character
      BY <1>1, <3>1, CallerFacts DEF CallsSound, Kinds, Kind
    <3>3. AwaitsField(Char(task.by.id)) /\ \A k : Asks(task, k) <=> k = Char(task.by.id)
      BY <1>1, <2>1, <3>2, TaskFacts
    <3>4. char[task.by.id] \in {"casting", "cleanup"}
      BY <3>2, <3>3 DEF AwaitsField, CallsSound, Stances
    <3> QED BY <1>1, <3>1, <3>2, <3>3, <3>4, CharReturnsSound
  <2>2. CASE ~(BuffAdded /\ task.live)
    <3>1. UNCHANGED <<session, char, pid>> /\ UNCHANGED calls
      BY <1>1, <2>2 DEF BuffAdded, UpdatesSent, players
    <3>2. ~task.live
      BY <2>2 DEF UpdatesSent, CallsSound, Kinds, Kind
    <3>3. \A k : ~Asks(task, k)
      BY <3>2 DEF Asks
    <3> QED BY <3>1, <3>3, FieldCallSound
  <2> QED BY <2>1, <2>2
<1>3. FieldTypes' /\ Idle' /\ Kinds' /\ Answered'
  BY <1>1, <1>2, DoneSound
<1> QED BY <1>2, <1>3 DEF CallsSound

-----------------------------------------------------------------------------
(* CallsSound: timers and timeouts. *)

LEMMA TimersSound ==
    ASSUME CallsSound, UpdatesDue \/ TimerFires PROVE CallsSound'
<1>1. PICK m \in {[type |-> "send_updates"], [type |-> "dispose"]} :
         inbox' = Append(inbox, m)
  BY DEF UpdatesDue, TimerFires
<1>2. /\ up /\ UNCHANGED <<up, starts, sessions, task>> /\ UNCHANGED <<session, char, pid>>
      /\ UNCHANGED calls /\ armed' \in BOOLEAN /\ inbox \in Seq(Messages)
  BY DEF UpdatesDue, TimerFires, players, CallsSound, FieldTypes, FieldTyped
<1>3. m \in Messages /\ Kind(m) /\ \A k : ~Asks(m, k)
  BY <1>1 DEF Messages, Kind, Asks, IsRequest
<1>4. inbox' \in Seq(Messages)
  BY <1>1, <1>2, <1>3, AppendProperties
<1>5. FieldTypes'
  BY <1>2, <1>4 DEF CallsSound, FieldTypes, FieldTyped
<1>6. Kinds'
  BY <1>1, <1>2, <1>3, KindsAppend DEF CallsSound, Kinds
<1>7. /\ CallsTyped' /\ PlayersTyped' /\ Stances'
      /\ \A k \in Caller : AwaitsField(k)' <=> AwaitsField(k)
  BY <1>2, FieldCallSound
<1>8. \A k : Requests(k)' = Requests(k)
  BY <1>1, <1>2, <1>3, RequestsAre, OtherAppended
<1>9. Answered'
  BY <1>7, <1>8 DEF CallsSound, Answered
<1> QED BY <1>2, <1>5, <1>6, <1>7, <1>9 DEF CallsSound, Idle

\* Who gives up is not waiting any more, and its requests are nobody's.
LEMMA AbandonedSound ==
    ASSUME CallsSound, NEW caller \in Caller, Abandoned(caller),
           UNCHANGED <<up, starts, sessions, armed>>,
           \A k \in Caller : AwaitsField(k)' <=> AwaitsField(k) /\ k # caller
    PROVE  FieldTypes' /\ Idle' /\ Kinds' /\ Answered'
<1>1. inbox \in Seq(Messages) /\ task \in Tasks \cup {None}
  BY DEF CallsSound, FieldTypes, FieldTyped
<1>2. /\ inbox' \in Seq(Messages) /\ task' \in Tasks \cup {None}
      /\ Len(inbox') = Len(inbox)
      /\ \A i \in 1..Len(inbox) :
            /\ inbox'[i].type = inbox[i].type
            /\ IsRequest(inbox[i]) => inbox'[i].by = inbox[i].by
      /\ (task' # None) = (task # None)
      /\ task # None => task'.type = task.type /\ task'.by = task.by
      /\ task # None /\ ~task.live => ~task'.live
  BY <1>1, RequestsGivenUp
<1>3. FieldTypes'
  BY <1>2 DEF CallsSound, FieldTypes, FieldTyped
<1>4. Idle'
  BY <1>1, <1>2, EmptySeq DEF CallsSound, Idle
<1>5. Kinds'
  <2>1. ASSUME NEW i \in 1..Len(inbox') PROVE Kind(inbox'[i])
    <3>1. i \in 1..Len(inbox) /\ Kind(inbox[i]) /\ inbox'[i] \in Messages
      BY <1>2, <2>1, ElementOfSeq DEF CallsSound, Kinds, KindsIn
    <3>2. inbox'[i].type # "updates"
      BY <3>1 DEF Messages
    <3> QED BY <1>2, <3>1, <3>2 DEF Kind, IsRequest
  <2>2. task' # None => Kind(task')
    BY <1>2 DEF CallsSound, Kinds, Kind
  <2> QED BY <2>1, <2>2 DEF Kinds, KindsIn
<1>6. \A k : Requests(k)' = IF k = caller THEN {} ELSE Requests(k)
  BY <1>1, RequestsGivenUp
<1>7. Answered'
  BY <1>6 DEF CallsSound, Answered, Once
<1> QED BY <1>3, <1>4, <1>5, <1>7

LEMMA TimeoutsSound ==
    ASSUME CallsSound, Timeouts PROVE CallsSound'
<1>1. ASSUME NEW c \in Character, SessionTimesOut(c) PROVE CallsSound'
  <2> DEFINE at == IF session[c] = "leaving" THEN "away" ELSE "none"
  <2>1. /\ Waiting(Session(c)) /\ Returned({Session(c)}) /\ Abandoned(Session(c))
        /\ UNCHANGED <<up, starts, sessions, armed>> /\ UNCHANGED <<char, pid>>
        /\ session' = [session EXCEPT ![c] = IF @ = "leaving" THEN "away" ELSE "none"]
    BY <1>1 DEF SessionTimesOut, Oldest
  <2>2. session' = [session EXCEPT ![c] = at]
    BY <2>1
  <2>3. at \in {"none", "away", "in"} /\ (at = "none" \/ session[c] \in {"entering", "leaving"})
    OBVIOUS
  <2> HIDE DEF at
  <2>4. /\ CallsTyped' /\ PlayersTyped' /\ Stances'
        /\ \A k \in Caller : AwaitsField(k)' <=> AwaitsField(k) /\ k # Session(c)
    BY <2>1, <2>2, <2>3, SessionReturnsSound
  <2>5. FieldTypes' /\ Idle' /\ Kinds' /\ Answered'
    BY <2>1, <2>4, CallerFacts, AbandonedSound
  <2> QED BY <2>4, <2>5 DEF CallsSound
<1>2. ASSUME NEW c \in Character, CharTimesOut(c) PROVE CallsSound'
  <2>1. /\ Waiting(Char(c)) /\ CharReturns(c) /\ Abandoned(Char(c))
        /\ UNCHANGED <<up, starts, sessions, armed>> /\ UNCHANGED pid
    BY <1>2 DEF CharTimesOut, Oldest
  <2>2. char[c] \in {"casting", "cleanup"}
    BY <2>1 DEF CallsSound, Stances
  <2>3. /\ CallsTyped' /\ PlayersTyped' /\ Stances'
        /\ \A k \in Caller : AwaitsField(k)' <=> AwaitsField(k) /\ k # Char(c)
    BY <2>1, <2>2, CharReturnsSound
  <2>4. FieldTypes' /\ Idle' /\ Kinds' /\ Answered'
    BY <2>1, <2>3, CallerFacts, AbandonedSound
  <2> QED BY <2>3, <2>4 DEF CallsSound
<1>3. CASE FieldTimesOut
  BY <1>3, FieldStopsSound DEF FieldTimesOut
<1> QED BY <1>1, <1>2, <1>3 DEF Timeouts

-----------------------------------------------------------------------------
LEMMA CallsSoundStep ==
    ASSUME CallsSound, [Next]_vars PROVE CallsSound'
<1>1. ASSUME NEW c \in Character,
             Login(c) \/ Disconnect(c) \/ Enter(c) \/ Leave(c) \/ UseSkill(c)
      PROVE  CallsSound'
  BY <1>1, QuietSound, EnterSound, LeaveSound, UseSkillSound
<1>2. ASSUME NEW c \in Character, CharSteps(c) PROVE CallsSound'
  BY <1>2, CastSkillSound, QuietSound, CleanupLeavesSound, CharacterStopsSound DEF CharSteps
<1>3. CASE FieldSteps
  BY <1>3, RemoveSound, StartsSound, TimerMessagesSound, TaskGoesOn, JoinedSound, TaskDoneSound
     DEF FieldSteps
<1>4. CASE UpdatesDue \/ TimerFires \/ Timeouts
  BY <1>4, TimersSound, TimeoutsSound
<1>5. CASE UNCHANGED vars
  <2>1. UNCHANGED <<up, starts, sessions, armed, inbox, task>> /\ UNCHANGED <<session, char, pid>>
        /\ UNCHANGED calls
    BY <1>5 DEF vars, field, players
  <2>2. /\ CallsTyped' /\ PlayersTyped' /\ Stances'
        /\ \A k \in Caller : AwaitsField(k)' <=> AwaitsField(k)
    BY <2>1, FieldCallSound
  <2>3. Answered'
    BY <2>1, <2>2, AnsweredStays DEF CallsSound
  <2>4. FieldTypes' /\ Idle' /\ Kinds'
    BY <2>1 DEF CallsSound, FieldTypes, FieldTyped, Idle, Kinds
  <2> QED BY <2>2, <2>3, <2>4 DEF CallsSound
<1> QED BY <1>1, <1>2, <1>3, <1>4, <1>5 DEF Next

LEMMA CallsSoundImplies == CallsSound => TypeOK /\ NoLostCall
<1> SUFFICES ASSUME CallsSound PROVE TypeOK /\ NoLostCall
  OBVIOUS
<1>1. TypeOK
  BY DEF CallsSound, FieldTypes, FieldTyped, CallsTyped, PlayersTyped, TypeOK
<1>2. ASSUME NEW k \in Caller
      PROVE  IF AwaitsField(k) THEN \E i \in 0..Len(inbox) : Requests(k) = {i}
                               ELSE Requests(k) = {}
  <2>1. Once(Requests(k)) /\ (AwaitsField(k) <=> Requests(k) # {})
    BY DEF CallsSound, Answered
  <2>2. CASE Requests(k) = {}
    BY <2>1, <2>2
  <2>3. CASE Requests(k) # {}
    <3>1. PICK i : i \in Requests(k)
      BY <2>3
    <3>2. Requests(k) = {i}
      BY <2>1, <3>1 DEF Once
    <3>3. i \in 0..Len(inbox)
      BY <3>1, LenProperties DEF Requests, CallsSound, FieldTypes, FieldTyped
    <3> QED BY <2>1, <2>3, <3>2, <3>3
  <2> QED BY <2>2, <2>3
<1> QED BY <1>1, <1>2 DEF NoLostCall

\* Whoever waits for the field has its request there, once, and what the field
\* will answer is waited for, through every timeout, crash and restart
\* (Field.call, Managed.call, handle_call of managers/field.ex).
THEOREM CallsAreAnswered == Spec => []NoLostCall
<1>1. CallsSound /\ [Next]_vars => CallsSound'
  BY CallsSoundStep
<1>2. CallsSound => NoLostCall
  BY CallsSoundImplies
<1> QED BY InitCallsSound, <1>1, <1>2, PTL DEF Spec

-----------------------------------------------------------------------------
(* IInv: who is in the field. *)

IsIn(c) == session[c] \in {"in", "casting"}

\* Nobody comes in, and the field keeps its sessions.
LEMMA PlacesKept ==
    ASSUME IInv, UNCHANGED <<up, starts, pid>>, sessions \subseteq sessions',
           \A d \in Character : IsIn(d)' => IsIn(d)
    PROVE  PidsPast' /\ Members'
  BY DEF IInv, PidsPast, Members, OnThisField, IsIn

\* An end of the field.
LEMMA PlacesGone ==
    ASSUME IInv, up' = FALSE, UNCHANGED <<starts, pid>>
    PROVE  PidsPast' /\ Members'
  BY DEF IInv, PidsPast, Members, OnThisField

LEMMA EmptyQueue ==
    ASSUME inbox' = <<>> PROVE NoOldDeparture'
<1>1. \A c, i : ~Departs(c, i)'
  BY EmptySeq DEF Departs
<1> QED BY <1>1 DEF NoOldDeparture

\* No departure joins the queue and no request changes.
LEMMA QueueKept ==
    ASSUME IInv, \A d \in Character : IsIn(d)' => IsIn(d),
           \A d \in Character, i \in Nat : Departs(d, i)' => Departs(d, i),
           \A d \in Character : \A i \in Requests(Session(d))' :
              i \in Nat /\
              (Kept(i)'.type = "add" =>
                 \/ i \in Requests(Session(d)) /\ Kept(i).type = "add"
                 \/ ~Departs(d, i)')
    PROVE  NoOldDeparture'
  BY DEF IInv, NoOldDeparture, IsIn

LEMMA QueueSame ==
    ASSUME IInv, \A d \in Character : IsIn(d)' => IsIn(d), UNCHANGED inbox,
           \/ UNCHANGED task
           \/ task' = None
           \/ /\ task # None /\ task'.type = task.type
              /\ \A k : Asks(task', k) <=> Asks(task, k)
    PROVE  NoOldDeparture'
<1>1. \A d, i : Departs(d, i)' <=> Departs(d, i)
  BY DEF Departs
<1>2. inbox \in Seq(Messages) /\ Len(inbox) \in Nat
  BY LenProperties DEF IInv, CallsSound, FieldTypes, FieldTyped
<1>3. ASSUME NEW d \in Character, NEW i \in Requests(Session(d))'
      PROVE  /\ i \in Nat
             /\ Kept(i)'.type = "add" =>
                   i \in Requests(Session(d)) /\ Kept(i).type = "add"
  <2>1. \/ i \in 1..Len(inbox) /\ Asks(inbox[i], Session(d))
        \/ i = 0 /\ task' # None /\ Asks(task', Session(d))
    BY <1>3, RequestsAre DEF RequestsIn
  <2>2. CASE i \in 1..Len(inbox) /\ Asks(inbox[i], Session(d))
    BY <1>2, <2>2 DEF Requests, Kept
  <2>3. CASE i = 0 /\ task' # None /\ Asks(task', Session(d))
    BY <2>3 DEF Requests, Kept
  <2> QED BY <2>1, <2>2, <2>3
<1> QED BY <1>1, <1>3, QueueKept

\* A message that is no departure comes in.
LEMMA QueueGrows ==
    ASSUME IInv, \A d \in Character : IsIn(d)' => IsIn(d), UNCHANGED task,
           NEW m \in Messages, m.type # "remove", inbox' = Append(inbox, m)
    PROVE  NoOldDeparture'
<1>1. inbox \in Seq(Messages)
  BY DEF IInv, CallsSound, FieldTypes, FieldTyped
<1>2. /\ Len(inbox') = Len(inbox) + 1 /\ Len(inbox) \in Nat
      /\ \A i \in 1..Len(inbox) : inbox'[i] = inbox[i]
      /\ inbox'[Len(inbox) + 1] = m
  BY <1>1, AppendProperties, LenProperties
<1>3. ASSUME NEW d \in Character, NEW i \in Nat, Departs(d, i)'
      PROVE  Departs(d, i) /\ i < Len(inbox)
  <2>1. PICK j \in 1..Len(inbox') :
           j > i /\ inbox'[j].type = "remove" /\ inbox'[j].by.id = d
    BY <1>3 DEF Departs
  <2>2. j \in 1..Len(inbox)
    BY <1>2, <2>1
  <2> QED BY <1>2, <2>1, <2>2 DEF Departs
<1>4. ASSUME NEW d \in Character, NEW i \in Requests(Session(d))'
      PROVE  i \in Nat /\ (Kept(i)'.type = "add" =>
                             \/ i \in Requests(Session(d)) /\ Kept(i).type = "add"
                             \/ ~Departs(d, i)')
  <2>1. \/ i \in 1..Len(inbox') /\ Asks(inbox'[i], Session(d))
        \/ i = 0 /\ task # None /\ Asks(task, Session(d))
    BY <1>4, RequestsAre DEF RequestsIn
  <2>2. CASE i \in 1..Len(inbox) /\ Asks(inbox'[i], Session(d))
    BY <1>2, <2>2 DEF Requests, Kept
  <2>3. CASE i = Len(inbox) + 1
    BY <1>2, <1>3, <2>3
  <2>4. CASE i = 0 /\ task # None /\ Asks(task, Session(d))
    BY <2>4 DEF Requests, Kept
  <2> QED BY <1>2, <2>1, <2>2, <2>3, <2>4
<1> QED BY <1>3, <1>4, QueueKept

\* The player who departs is not in the field and does not wait to be.
LEMMA QueueDeparts ==
    ASSUME IInv, NEW c \in Character, NEW caller \in {Session(c), Char(c)},
           Send("remove", caller), UNCHANGED task, ~Waiting(Session(c)),
           \A d \in Character : IsIn(d)' => IsIn(d) /\ d # c
    PROVE  NoOldDeparture'
<1> DEFINE m == Request("remove", caller)
<1>1. /\ m \in Messages /\ m.type = "remove" /\ m.by.id = c
      /\ inbox' = Append(inbox, m) /\ inbox \in Seq(Messages)
  BY CallerFacts DEF Send, Request, Messages, IInv, CallsSound, FieldTypes, FieldTyped
<1> HIDE DEF m
<1>2. /\ Len(inbox') = Len(inbox) + 1 /\ Len(inbox) \in Nat
      /\ \A i \in 1..Len(inbox) : inbox'[i] = inbox[i]
      /\ inbox'[Len(inbox) + 1] = m
  BY <1>1, AppendProperties, LenProperties
<1>3. ASSUME NEW d \in Character, d # c
      PROVE  /\ IsIn(d)' => ~Departs(d, 0)'
             /\ \A i \in Requests(Session(d))' : Kept(i)'.type = "add" => ~Departs(d, i)'
  <2>1. \A i \in Nat : Departs(d, i)' => Departs(d, i)
    <3> SUFFICES ASSUME NEW i \in Nat, Departs(d, i)' PROVE Departs(d, i)
      OBVIOUS
    <3>1. PICK j \in 1..Len(inbox') :
             j > i /\ inbox'[j].type = "remove" /\ inbox'[j].by.id = d
      BY DEF Departs
    <3>2. j \in 1..Len(inbox)
      BY <1>1, <1>2, <1>3, <3>1
    <3> QED BY <1>2, <3>1, <3>2 DEF Departs
  <2>2. ASSUME NEW i \in Requests(Session(d))', Kept(i)'.type = "add"
        PROVE  i \in Nat /\ i \in Requests(Session(d)) /\ Kept(i).type = "add"
    <3>1. \/ i \in 1..Len(inbox') /\ Asks(inbox'[i], Session(d))
          \/ i = 0 /\ task # None /\ Asks(task, Session(d))
      BY <2>2, RequestsAre DEF RequestsIn
    <3>2. i # Len(inbox) + 1
      BY <1>1, <1>2, <2>2 DEF Kept
    <3>3. CASE i \in 1..Len(inbox) /\ Asks(inbox'[i], Session(d))
      BY <1>2, <2>2, <3>3 DEF Requests, Kept
    <3>4. CASE i = 0 /\ task # None /\ Asks(task, Session(d))
      BY <2>2, <3>4 DEF Requests, Kept
    <3> QED BY <1>2, <3>1, <3>2, <3>3, <3>4
  <2> QED BY <2>1, <2>2 DEF IInv, NoOldDeparture, IsIn
<1>4. \A i \in Requests(Session(c))' : Kept(i)'.type # "add"
  <2> SUFFICES ASSUME NEW i \in Requests(Session(c))' PROVE Kept(i)'.type # "add"
    OBVIOUS
  <2>1. Requests(Session(c)) = {}
    BY CallerFacts DEF AwaitsField, IInv, CallsSound, Answered
  <2>2. \/ i \in 1..Len(inbox') /\ Asks(inbox'[i], Session(c))
        \/ i = 0 /\ task # None /\ Asks(task, Session(c))
    BY RequestsAre DEF RequestsIn
  <2>3. i \notin 1..Len(inbox) /\ i # 0
    BY <1>2, <2>1, <2>2 DEF Requests
  <2>4. i = Len(inbox) + 1
    BY <1>2, <2>2, <2>3
  <2> QED BY <1>1, <1>2, <2>4 DEF Kept
<1>5. ~IsIn(c)'
  OBVIOUS
<1> QED BY <1>3, <1>4, <1>5 DEF NoOldDeparture, IsIn

\* What is in the queue once the oldest message is taken.
LEMMA MovedUp ==
    ASSUME NEW q \in Seq(Messages), q # <<>>, NEW m \in Messages
    PROVE  /\ \A i \in 1..Len(Tail(q)) : i + 1 \in 1..Len(q) /\ Tail(q)[i] = q[i + 1]
           /\ \A i \in 1..Len(Append(Tail(q), m)) :
                 \/ i + 1 \in 1..Len(q) /\ Append(Tail(q), m)[i] = q[i + 1]
                 \/ Append(Tail(q), m)[i] = m
<1> DEFINE t == Tail(q)
<1>1. /\ t \in Seq(Messages) /\ Len(q) \in Nat /\ Len(t) = Len(q) - 1
      /\ \A i \in 1..Len(t) : t[i] = q[i + 1]
  BY TailPlaces
<1> HIDE DEF t
<1>2. /\ Len(Append(t, m)) = Len(t) + 1
      /\ \A i \in 1..Len(t) : Append(t, m)[i] = t[i]
      /\ Append(t, m)[Len(t) + 1] = m
  BY <1>1, AppendProperties
<1>3. \A i \in 1..Len(t) : i + 1 \in 1..Len(q) /\ t[i] = q[i + 1]
  BY <1>1
<1>4. \A i \in 1..Len(Append(t, m)) : i \in 1..Len(t) \/ i = Len(t) + 1
  BY <1>1, <1>2
<1>5. \A i \in 1..Len(Append(t, m)) :
         \/ i + 1 \in 1..Len(q) /\ Append(t, m)[i] = q[i + 1]
         \/ Append(t, m)[i] = m
  BY <1>2, <1>3, <1>4
<1> QED BY <1>3, <1>5 DEF t

\* The oldest message is taken: everything moves up by one.
LEMMA QueueMoves ==
    ASSUME IInv, \A d \in Character : IsIn(d)' => IsIn(d),
           NEW type, Received(type),
           \/ inbox' = Tail(inbox)
           \/ inbox' = Append(Tail(inbox), [type |-> "maybe_stop"]),
           \/ task' = None
           \/ \A k : ~Asks(task', k)
           \/ /\ task'.type = Head(inbox).type
              /\ \A k : Asks(task', k) <=> Asks(Head(inbox), k)
    PROVE  NoOldDeparture'
<1> DEFINE m == [type |-> "maybe_stop"]
<1>1. m \in Messages /\ m.type # "remove" /\ \A k : ~Asks(m, k)
  BY DEF Messages, Asks, IsRequest
<1>2. inbox' = Tail(inbox) \/ inbox' = Append(Tail(inbox), m)
  OBVIOUS
<1> HIDE DEF m
<1>3. /\ inbox \in Seq(Messages) /\ Len(inbox) \in Nat /\ Len(inbox) >= 1
      /\ Head(inbox) = inbox[1]
      /\ Tail(inbox) \in Seq(Messages) /\ Len(Tail(inbox)) = Len(inbox) - 1
      /\ \A i \in 1..Len(Tail(inbox)) : Tail(inbox)[i] = inbox[i + 1]
  BY HeadFacts, TailPlaces DEF IInv
<1>4. inbox # <<>>
  BY DEF Received
<1>5. \A i \in 1..Len(inbox') :
         \/ i + 1 \in 1..Len(inbox) /\ inbox'[i] = inbox[i + 1]
         \/ inbox'[i] = m
  <2>1. CASE inbox' = Tail(inbox)
    BY <1>1, <1>3, <1>4, <2>1, MovedUp
  <2>2. CASE inbox' = Append(Tail(inbox), m)
    BY <1>1, <1>3, <1>4, <2>2, MovedUp
  <2> QED BY <1>2, <2>1, <2>2
<1>6. ASSUME NEW d \in Character, NEW i \in Nat, Departs(d, i)'
      PROVE  Departs(d, i + 1)
  <2>1. PICK j \in 1..Len(inbox') :
           j > i /\ inbox'[j].type = "remove" /\ inbox'[j].by.id = d
    BY <1>6 DEF Departs
  <2>2. j + 1 \in 1..Len(inbox) /\ inbox'[j] = inbox[j + 1]
    BY <1>1, <1>5, <2>1
  <2> QED BY <1>3, <2>1, <2>2 DEF Departs
<1>7. ASSUME NEW d \in Character, IsIn(d)' PROVE ~Departs(d, 0)'
  <2>1. ~Departs(d, 0)
    BY <1>7 DEF IInv, NoOldDeparture, IsIn
  <2>2. Departs(d, 1) => Departs(d, 0)
    BY DEF Departs
  <2> QED BY <1>6, <2>1, <2>2
<1>8. ASSUME NEW d \in Character, NEW i \in Requests(Session(d))', Kept(i)'.type = "add"
      PROVE  ~Departs(d, i)'
  <2>1. \/ i \in 1..Len(inbox') /\ Asks(inbox'[i], Session(d))
        \/ i = 0 /\ task' # None /\ Asks(task', Session(d))
    BY <1>8, RequestsAre DEF RequestsIn
  <2>2. i \in Nat /\ i + 1 \in Requests(Session(d)) /\ Kept(i + 1).type = "add"
    <3>1. CASE i \in 1..Len(inbox') /\ Asks(inbox'[i], Session(d))
      <4>1. i # 0 /\ i \in Nat /\ i + 1 \in 1..Len(inbox) /\ inbox'[i] = inbox[i + 1]
        BY <1>1, <1>5, <3>1
      <4>2. Kept(i)' = inbox'[i] /\ Kept(i + 1) = inbox[i + 1]
        BY <4>1 DEF Kept
      <4> QED BY <1>8, <3>1, <4>1, <4>2 DEF Requests
    <3>2. CASE i = 0 /\ task' # None /\ Asks(task', Session(d))
      <4>1. task'.type = Head(inbox).type /\ Asks(Head(inbox), Session(d))
        BY <3>2
      <4>2. Kept(i)' = task' /\ Kept(i + 1) = inbox[1]
        BY <3>2 DEF Kept
      <4> QED BY <1>3, <1>8, <3>2, <4>1, <4>2 DEF Requests
    <3> QED BY <2>1, <3>1, <3>2
  <2>3. ~Departs(d, i + 1)
    BY <2>2 DEF IInv, NoOldDeparture
  <2> QED BY <1>6, <2>2, <2>3
<1> QED BY <1>7, <1>8 DEF NoOldDeparture, IsIn

\* A caller gives up.
LEMMA QueueAbandoned ==
    ASSUME IInv, \A d \in Character : IsIn(d)' => IsIn(d),
           NEW caller \in Caller, Abandoned(caller)
    PROVE  NoOldDeparture'
<1>1. /\ inbox \in Seq(Messages) /\ task \in Tasks \cup {None} /\ Len(inbox) \in Nat
  BY LenProperties DEF IInv, CallsSound, FieldTypes, FieldTyped
<1>2. /\ Len(inbox') = Len(inbox)
      /\ \A i \in 1..Len(inbox) :
            /\ inbox'[i].type = inbox[i].type
            /\ IsRequest(inbox[i]) => inbox'[i].by = inbox[i].by
      /\ task # None => task'.type = task.type
      /\ \A k : Requests(k)' \subseteq Requests(k)
  <2>1. \A k : Requests(k)' = IF k = caller THEN {} ELSE Requests(k)
    BY <1>1, RequestsGivenUp
  <2> QED BY <1>1, <2>1, RequestsGivenUp
<1>3. \A d \in Character, i \in Nat : Departs(d, i)' => Departs(d, i)
  BY <1>2 DEF Departs, IsRequest
<1>4. ASSUME NEW d \in Character, NEW i \in Requests(Session(d))'
      PROVE  i \in Nat /\ i \in Requests(Session(d))
             /\ (Kept(i)'.type = "add" => Kept(i).type = "add")
  <2>1. i \in Requests(Session(d))
    BY <1>2, <1>4
  <2>2. i \in 1..Len(inbox) \/ (i = 0 /\ task # None)
    BY <2>1 DEF Requests
  <2> QED BY <1>1, <1>2, <2>1, <2>2 DEF Kept
<1> QED BY <1>3, <1>4, QueueKept

-----------------------------------------------------------------------------
(* IInv: the steps. *)

\* A cast that is over leaves its player in the field.
LEMMA ReturnsIsIn ==
    ASSUME CallsSound, NEW c \in Character, CharReturns(c)
    PROVE  \A d \in Character : IsIn(d)' => IsIn(d)
  BY DEF CharReturns, CallsSound, PlayersTyped, IsIn

LEMMA EndsIsIn ==
    ASSUME CallsSound, FieldEnds
    PROVE  NoOldDeparture' /\ (IInv => PidsPast' /\ Members')
<1>1. inbox' = <<>> /\ up' = FALSE /\ UNCHANGED <<starts, pid>>
  BY DEF FieldEnds
<1> QED BY <1>1, EmptyQueue, PlacesGone

Places == NoOldDeparture /\ PidsPast /\ Members

LEMMA PlayersPlaces ==
    ASSUME IInv, NEW c \in Character,
           Login(c) \/ Disconnect(c) \/ Leave(c) \/ UseSkill(c) \/ CharSteps(c)
    PROVE  Places'
<1>1. CASE Login(c)
  <2>1. /\ UNCHANGED <<up, starts, sessions, inbox, task>>
        /\ pid' = [pid EXCEPT ![c] = 0] /\ session' = [session EXCEPT ![c] = "away"]
    BY <1>1 DEF Login, field
  <2>2. \A d \in Character : IsIn(d)' => IsIn(d) /\ d # c
    BY <2>1 DEF IInv, CallsSound, PlayersTyped, IsIn
  <2>3. NoOldDeparture'
    BY <2>1, <2>2, QueueSame
  <2>4. \A d \in Character : pid'[d] = IF d = c THEN 0 ELSE pid[d]
    BY <2>1 DEF IInv, CallsSound, PlayersTyped
  <2>5. PidsPast'
    BY <2>1, <2>4 DEF IInv, PidsPast, CallsSound, FieldTypes
  <2>6. Members'
    BY <2>1, <2>2, <2>4 DEF IInv, Members, OnThisField, IsIn
  <2> QED BY <2>3, <2>5, <2>6 DEF Places
<1>2. CASE \/ Disconnect(c) \/ UseSkill(c) \/ BeginCleanup(c)
           \/ Leave(c) /\ ~OnThisField(c)
           \/ (CastSkill(c) \/ CleanupLeaves(c)) /\ ~OnThisField(c)
           \/ CharacterStops(c) /\ ~(task # None /\ task.asks = c)
  <2>1. UNCHANGED <<up, starts, sessions, inbox, task, pid>>
    BY <1>2 DEF Disconnect, UseSkill, BeginCleanup, Leave, CastSkill, CleanupLeaves,
                CharacterStops, field
  <2>2. \A d \in Character : IsIn(d)' => IsIn(d)
    BY <1>2 DEF Disconnect, UseSkill, BeginCleanup, Leave, CastSkill, CleanupLeaves,
                CharacterStops, IInv, CallsSound, PlayersTyped, IsIn
  <2> QED BY <2>1, <2>2, QueueSame, PlacesKept DEF Places
<1>3. CASE CharacterStops(c) /\ task # None /\ task.asks = c
  BY <1>3, EndsIsIn DEF CharacterStops, IInv, Places
<1>4. CASE Leave(c) /\ OnThisField(c)
  <2>1. /\ Send("remove", Session(c)) /\ UNCHANGED <<up, starts, sessions, task, pid>>
        /\ session' = [session EXCEPT ![c] = "leaving"] /\ session[c] \in {"away", "in"}
    BY <1>4 DEF Leave
  <2>2. \A d \in Character : IsIn(d)' => IsIn(d) /\ d # c
    BY <2>1 DEF IInv, CallsSound, PlayersTyped, IsIn
  <2>3. ~Waiting(Session(c))
    BY <2>1 DEF IInv, CallsSound, Stances
  <2> QED BY <2>1, <2>2, <2>3, QueueDeparts, PlacesKept DEF Places
<1>5. CASE CleanupLeaves(c) /\ OnThisField(c)
  <2>1. /\ Send("remove", Char(c)) /\ UNCHANGED <<up, starts, sessions, task, pid, session>>
        /\ char[c] = "cleanup"
    BY <1>5 DEF CleanupLeaves
  <2>2. session[c] = "none" /\ ~Waiting(Session(c))
    BY <2>1 DEF IInv, CallsSound, Stances
  <2>3. \A d \in Character : IsIn(d)' => IsIn(d) /\ d # c
    BY <2>1, <2>2 DEF IsIn
  <2> QED BY <2>1, <2>2, <2>3, QueueDeparts, PlacesKept DEF Places
<1>6. CASE CastSkill(c) /\ OnThisField(c)
  <2>1. /\ inbox' = Append(inbox, Request("buff", Char(c)))
        /\ UNCHANGED <<up, starts, sessions, task, pid, session>>
    BY <1>6 DEF CastSkill, Send
  <2>2. Request("buff", Char(c)) \in Messages /\ Request("buff", Char(c)).type # "remove"
    BY CallerFacts DEF Request, Messages
  <2>3. \A d \in Character : IsIn(d)' => IsIn(d)
    BY <2>1 DEF IsIn
  <2> QED BY <2>1, <2>2, <2>3, QueueGrows, PlacesKept DEF Places
<1> QED BY <1>1, <1>2, <1>3, <1>4, <1>5, <1>6 DEF CharSteps

LEMMA EnterPlaces ==
    ASSUME IInv, NEW c \in Character, Enter(c)
    PROVE  Places'
<1>1. CASE up
  <2>1. /\ inbox' = Append(inbox, Request("add", Session(c)))
        /\ UNCHANGED <<up, starts, sessions, task, pid>>
        /\ session' = [session EXCEPT ![c] = "entering"]
    BY <1>1 DEF Enter, Send
  <2>2. Request("add", Session(c)) \in Messages /\ Request("add", Session(c)).type # "remove"
    BY CallerFacts DEF Request, Messages
  <2>3. \A d \in Character : IsIn(d)' => IsIn(d)
    BY <2>1 DEF IInv, CallsSound, PlayersTyped, IsIn
  <2> QED BY <2>1, <2>2, <2>3, QueueGrows, PlacesKept DEF Places
<1>2. CASE ~up
  <2>1. starts' = starts + 1 /\ inbox' = <<>> /\ UNCHANGED pid
    BY <1>2 DEF Enter
  <2>2. \A d \in Character : pid[d] \in Nat /\ starts \in Nat /\ pid[d] <= starts
    BY DEF IInv, PidsPast, CallsSound, PlayersTyped, FieldTypes
  <2>3. PidsPast' /\ Members'
    BY <2>1, <2>2 DEF PidsPast, Members, OnThisField
  <2> QED BY <2>1, <2>3, EmptyQueue DEF Places
<1> QED BY <1>1, <1>2

\* The oldest message is the departure of somebody who is not in the field.
LEMMA RemovePlaces ==
    ASSUME IInv, RemoveCharacter PROVE Places'
<1> DEFINE r == Head(inbox)
<1>1. /\ Received("remove") /\ sessions' = sessions \ {r.by.id}
      /\ inbox' = Append(Tail(inbox), [type |-> "maybe_stop"])
      /\ UNCHANGED <<up, starts, task, pid>>
      /\ \/ session' = session
         \/ CharReturns(r.by.id)
         \/ session' = [session EXCEPT ![r.by.id] = "away"]
  BY DEF RemoveCharacter
<1>2. /\ r.by \in Caller /\ r.type = "remove" /\ inbox \in Seq(Messages) /\ inbox # <<>>
      /\ task = None
  BY <1>1, HeadFacts DEF IInv
<1>3. r.by.id \in Character
  BY <1>2, CallerFacts
<1>4. Departs(r.by.id, 0)
  <2>1. 1 \in 1..Len(inbox) /\ inbox[1] = r
    BY <1>2, TailPlaces
  <2> QED BY <1>2, <2>1 DEF Departs
<1>5. ~IsIn(r.by.id)
  BY <1>3, <1>4 DEF IInv, NoOldDeparture, IsIn
<1> HIDE DEF r
<1>6. \A d \in Character : IsIn(d)' => IsIn(d)
  <2>1. CASE session' = session
    BY <2>1 DEF IsIn
  <2>2. CASE CharReturns(r.by.id)
    BY <1>3, <2>2, ReturnsIsIn DEF IInv
  <2>3. CASE session' = [session EXCEPT ![r.by.id] = "away"]
    BY <2>3 DEF IsIn, IInv, CallsSound, PlayersTyped
  <2> QED BY <1>1, <2>1, <2>2, <2>3
<1>7. NoOldDeparture'
  BY <1>1, <1>2, <1>6, QueueMoves
<1>8. PidsPast'
  BY <1>1 DEF IInv, PidsPast
<1>9. Members'
  BY <1>1, <1>5, <1>6 DEF IInv, Members, OnThisField, IsIn
<1> QED BY <1>7, <1>8, <1>9 DEF Places

LEMMA JoinedPlaces ==
    ASSUME IInv, NEW c \in Character, Joined(c) PROVE Places'
<1>1. /\ task # None /\ task.type = "add" /\ task' = None /\ c = task.by.id
      /\ UNCHANGED <<up, starts, inbox>> /\ sessions' = sessions \cup {c}
      /\ session' = Entered(task)
      /\ pid' = [pid EXCEPT ![c] = IF Answers(c) THEN starts ELSE @]
  BY DEF Joined, Asked, ToAsk
<1>2. task.by = Session(c)
  BY <1>1, CallerFacts DEF IInv, CallsSound, Kinds, Kind
<1>3. \A d \in Character \ {c} : (IsIn(d)' <=> IsIn(d)) /\ pid'[d] = pid[d]
  BY <1>1 DEF Entered, IInv, CallsSound, PlayersTyped, IsIn
<1>4. \A d, i : Departs(d, i)' <=> Departs(d, i)
  BY <1>1 DEF Departs
<1>5. IsIn(c)' => ~Departs(c, 0)
  <2>1. CASE task.live
    <3>1. 0 \in Requests(Session(c)) /\ Kept(0).type = "add"
      BY <1>1, <1>2, <2>1 DEF Requests, Asks, IsRequest, Kept
    <3> QED BY <3>1 DEF IInv, NoOldDeparture
  <2>2. CASE ~task.live
    BY <1>1, <2>2 DEF Entered, IsIn, IInv, NoOldDeparture
  <2> QED BY <2>1, <2>2
<1>6. \A d \in Character : \A i \in Requests(Session(d))' :
         i \in Requests(Session(d)) /\ Kept(i)' = Kept(i)
  <2> SUFFICES ASSUME NEW d \in Character, NEW i \in Requests(Session(d))'
               PROVE  i \in Requests(Session(d)) /\ Kept(i)' = Kept(i)
    OBVIOUS
  <2>1. i \in 1..Len(inbox) /\ Asks(inbox[i], Session(d))
    BY <1>1, RequestsAre DEF RequestsIn
  <2>2. Len(inbox) \in Nat
    BY LenProperties DEF IInv, CallsSound, FieldTypes, FieldTyped
  <2> QED BY <1>1, <2>1, <2>2 DEF Requests, Kept
<1>7. NoOldDeparture'
  <2> SUFFICES ASSUME NEW d \in Character
               PROVE  /\ IsIn(d)' => ~Departs(d, 0)
                      /\ \A i \in Requests(Session(d))' : Kept(i)'.type = "add" => ~Departs(d, i)
    BY <1>4 DEF NoOldDeparture, IsIn
  <2>1. IsIn(d)' => ~Departs(d, 0)
    BY <1>3, <1>5 DEF IInv, NoOldDeparture, IsIn
  <2> QED BY <1>6, <2>1 DEF IInv, NoOldDeparture
<1>8. pid'[c] \in {starts, pid[c]} /\ starts \in Nat
  BY <1>1 DEF IInv, CallsSound, PlayersTyped, FieldTypes
<1>9. PidsPast'
  <2> SUFFICES ASSUME NEW d \in Character PROVE pid'[d] <= starts
    BY <1>1 DEF PidsPast
  <2>1. CASE d = c
    BY <1>8, <2>1 DEF IInv, PidsPast
  <2>2. CASE d # c
    BY <1>3, <2>2 DEF IInv, PidsPast
  <2> QED BY <2>1, <2>2
<1>10. Members'
  BY <1>1, <1>3 DEF IInv, Members, OnThisField, IsIn
<1> QED BY <1>7, <1>9, <1>10 DEF Places

LEMMA TaskPlaces ==
    ASSUME IInv, BuffAdded \/ UpdatesSent \/ (\E c \in Character : Ask(c) \/ LookedUp(c))
    PROVE  Places'
<1>1. UNCHANGED <<up, starts, sessions, inbox, pid>>
  BY DEF BuffAdded, UpdatesSent, Ask, LookedUp, players
<1>2. \/ task' = None
      \/ task # None /\ task'.type = task.type /\ \A k : Asks(task', k) <=> Asks(task, k)
  <2>1. CASE BuffAdded \/ UpdatesSent
    BY <2>1 DEF BuffAdded, UpdatesSent
  <2>2. ASSUME NEW c \in Character, Ask(c) \/ LookedUp(c)
        PROVE  task # None /\ task'.type = task.type /\ \A k : Asks(task', k) <=> Asks(task, k)
    <3>1. /\ task \in Tasks /\ task # None
          /\ \/ task' = [task EXCEPT !.asks = c]
             \/ task' = [task EXCEPT !.left = @ \ {c}, !.asks = None]
      BY <2>2 DEF Ask, LookedUp, Asked, IInv, CallsSound, FieldTypes, FieldTyped
    <3>2. task'.type = task.type /\ task'.by = task.by /\ task'.live = task.live
      BY <3>1 DEF Tasks
    <3> QED BY <3>1, <3>2 DEF Asks, IsRequest
  <2> QED BY <2>1, <2>2
<1>3. session' = session \/ CharReturns(task.by.id)
  BY DEF BuffAdded, UpdatesSent, Ask, LookedUp, players
<1>4. \A d \in Character : IsIn(d)' => IsIn(d)
  <2>1. CASE session' = session
    BY <2>1 DEF IsIn
  <2>2. CASE CharReturns(task.by.id)
    BY <2>2 DEF CharReturns, IInv, CallsSound, PlayersTyped, IsIn
  <2> QED BY <1>3, <2>1, <2>2
<1> QED BY <1>1, <1>2, <1>4, QueueSame, PlacesKept DEF Places

LEMMA MessagesPlaces ==
    ASSUME IInv, StartAdd \/ StartBuff \/ SendUpdates \/ MaybeStop \/ Dispose
    PROVE  Places'
<1>1. CASE Dispose /\ sessions = {}
  BY <1>1, EndsIsIn DEF Dispose, FieldStops, IInv, Places
<1>2. CASE StartAdd \/ StartBuff \/ SendUpdates \/ MaybeStop \/ (Dispose /\ sessions # {})
  <2>1. PICK type \in {"add", "buff", "send_updates", "maybe_stop", "dispose"} :
           /\ Received(type) /\ inbox' = Tail(inbox)
           /\ UNCHANGED <<up, starts, sessions, pid, session>>
           /\ \/ task' = task
              \/ type = "add" /\ task' = Task("add", Head(inbox), sessions)
              \/ type = "buff" /\ \E left : task' = Task("buff", Head(inbox), left)
              \/ type = "send_updates" /\ task'.type = "updates"
    <3>1. CASE StartAdd
      BY <3>1 DEF StartAdd, players
    <3>2. CASE StartBuff
      BY <3>2 DEF StartBuff, players
    <3>3. CASE SendUpdates
      BY <3>3 DEF SendUpdates, players
    <3>4. CASE MaybeStop
      BY <3>4 DEF MaybeStop, players
    <3>5. CASE Dispose /\ sessions # {}
      BY <3>5 DEF Dispose, players
    <3> QED BY <1>2, <3>1, <3>2, <3>3, <3>4, <3>5
  <2>2. Head(inbox).type = type /\ task = None
    BY <2>1, HeadFacts DEF IInv
  <2>3. \A d \in Character : IsIn(d)' => IsIn(d)
    BY <2>1 DEF IsIn
  <2>4. CASE task' = task
    BY <2>1, <2>2, <2>3, <2>4, QueueMoves, PlacesKept DEF Places
  <2>5. CASE type \in {"add", "buff"} /\ \E left : task' = Task(type, Head(inbox), left)
    <3>1. task'.type = Head(inbox).type /\ \A k : Asks(task', k) <=> Asks(Head(inbox), k)
      BY <2>2, <2>5 DEF Task, Asks, IsRequest
    <3> QED BY <2>1, <2>3, <3>1, QueueMoves, PlacesKept DEF Places
  <2>6. CASE type = "send_updates" /\ task'.type = "updates"
    <3>1. \A k : ~Asks(task', k)
      BY <2>6 DEF Asks, IsRequest
    <3>2. NoOldDeparture'
      BY <2>1, <2>2, <2>3, <2>6, <3>1, QueueMoves
    <3> QED BY <2>1, <2>3, <3>2, PlacesKept DEF Places
  <2> QED BY <2>1, <2>4, <2>5, <2>6
<1> QED BY <1>1, <1>2 DEF Dispose

LEMMA TimersPlaces ==
    ASSUME IInv, UpdatesDue \/ TimerFires PROVE Places'
<1>1. PICK m \in {[type |-> "send_updates"], [type |-> "dispose"]} :
         inbox' = Append(inbox, m)
  BY DEF UpdatesDue, TimerFires
<1>2. m \in Messages /\ m.type # "remove"
  BY <1>1 DEF Messages
<1>3. UNCHANGED <<up, starts, sessions, task, pid, session>>
  BY DEF UpdatesDue, TimerFires, players
<1>4. \A d \in Character : IsIn(d)' => IsIn(d)
  BY <1>3 DEF IsIn
<1> QED BY <1>1, <1>2, <1>3, <1>4, QueueGrows, PlacesKept DEF Places

LEMMA TimeoutsPlaces ==
    ASSUME IInv, Timeouts PROVE Places'
<1>1. ASSUME NEW c \in Character, SessionTimesOut(c) PROVE Places'
  <2>1. /\ Abandoned(Session(c)) /\ UNCHANGED <<up, starts, sessions, pid>>
        /\ session' = [session EXCEPT ![c] = IF @ = "leaving" THEN "away" ELSE "none"]
    BY <1>1 DEF SessionTimesOut
  <2>2. \A d \in Character : IsIn(d)' => IsIn(d)
    BY <2>1 DEF IInv, CallsSound, PlayersTyped, IsIn
  <2> QED BY <2>1, <2>2, CallerFacts, QueueAbandoned, PlacesKept DEF Places
<1>2. ASSUME NEW c \in Character, CharTimesOut(c) PROVE Places'
  <2>1. /\ Abandoned(Char(c)) /\ CharReturns(c) /\ UNCHANGED <<up, starts, sessions, pid>>
    BY <1>2 DEF CharTimesOut
  <2>2. \A d \in Character : IsIn(d)' => IsIn(d)
    BY <2>1, ReturnsIsIn DEF IInv
  <2> QED BY <2>1, <2>2, CallerFacts, QueueAbandoned, PlacesKept DEF Places
<1>3. CASE FieldTimesOut
  BY <1>3, EndsIsIn DEF FieldTimesOut, FieldStops, IInv, Places
<1> QED BY <1>1, <1>2, <1>3 DEF Timeouts

-----------------------------------------------------------------------------
LEMMA InitIInv == Init => IInv
<1> SUFFICES ASSUME Init PROVE IInv
  OBVIOUS
<1>1. inbox = <<>> /\ Len(inbox) = 0
  BY EmptySeq DEF Init
<1>2. \A c, i : ~Departs(c, i)
  BY <1>1 DEF Departs
<1>3. NoOldDeparture
  BY <1>2 DEF NoOldDeparture
<1>4. PidsPast /\ Members
  BY DEF Init, PidsPast, Members
<1> QED BY <1>3, <1>4, InitCallsSound DEF IInv

LEMMA IInvStep ==
    ASSUME IInv, [Next]_vars PROVE IInv'
<1> SUFFICES Places'
  BY CallsSoundStep DEF IInv, Places
<1>1. ASSUME NEW c \in Character,
             Login(c) \/ Disconnect(c) \/ Enter(c) \/ Leave(c) \/ UseSkill(c) \/ CharSteps(c)
      PROVE  Places'
  BY <1>1, PlayersPlaces, EnterPlaces
<1>2. CASE FieldSteps
  BY <1>2, RemovePlaces, JoinedPlaces, TaskPlaces, MessagesPlaces DEF FieldSteps
<1>3. CASE UpdatesDue \/ TimerFires \/ Timeouts
  BY <1>3, TimersPlaces, TimeoutsPlaces
<1>4. CASE UNCHANGED vars
  <2>1. UNCHANGED <<up, starts, sessions, inbox, task, pid, session>>
    BY <1>4 DEF vars, field, players
  <2>2. \A d \in Character : IsIn(d)' => IsIn(d)
    BY <2>1 DEF IsIn
  <2> QED BY <2>1, <2>2, QueueSame, PlacesKept DEF Places
<1> QED BY <1>1, <1>2, <1>3, <1>4 DEF Next

\* A player whose session is in the field it last joined is one of its
\* sessions, whatever was given up, restarted or is still in the mailbox
\* (enter/1, leave_for_change, add_character, {:remove_character}).
THEOREM MembersAreSessions == Spec => []OnField
<1>1. IInv /\ [Next]_vars => IInv'
  BY IInvStep
<1>2. IInv => OnField
  BY DEF IInv, Members, OnField
<1> QED BY InitIInv, <1>1, <1>2, PTL DEF Spec
===============================================================================
