------------------------------ MODULE FieldCalls ------------------------------
(***************************************************************************)
(* One shared field of Ms2ex.Managers.Field and the processes it shares    *)
(* its players with: each player's session, which enters and leaves the    *)
(* field and casts skills, and each player's Managers.Character, which     *)
(* asks the field for buffs and leaves it when the session is gone.        *)
(*                                                                         *)
(* They call each other both ways: the field looks its players up while    *)
(* it handles a message, and a player may be waiting for the field at that *)
(* moment.  A call that nobody answers ends after 5 s, for all callers     *)
(* alike, so the oldest call ends first; Field.call turns the exit into    *)
(* :error, Managed.call does not.  A process that is not itself waiting    *)
(* answers well within 5 s.                                                *)
(*                                                                         *)
(* The field process has an `inbox`, and a `task` while it handles a       *)
(* message that makes it call.  It stops 5 minutes after its last player   *)
(* left, and enter/1 starts the next one.                                  *)
(***************************************************************************)
EXTENDS Naturals, Sequences

CONSTANTS
    Character,
    None,
    MaxStarts,  \* bound: field processes of that name
    MaxLogins,  \* bound: logins
    MaxCasts    \* bound: skills cast

ASSUME ConstantsAssumption ==
    MaxStarts \in Nat /\ MaxLogins \in Nat /\ MaxCasts \in Nat

VARIABLES
    up,        \* the field process is alive
    starts,    \* its incarnation, which stands for its pid
    sessions,  \* state.sessions
    armed,     \* state.dispose_timer is running
    inbox,     \* the messages it has not handled yet
    task,      \* the message it is handling, when that takes calls
    waits,     \* the processes with a call under way
    older,     \* their pairs, the one whose call began earlier first
    session,   \* what each player's session process is at
    char,      \* what each player's Managers.Character is at
    pid,       \* field_pid of that character, 0 for nil
    logins, casts

field == <<up, starts, sessions, armed, inbox, task>>
calls == <<waits, older>>
players == <<calls, session, char, pid>>
vars == <<field, players, logins, casts>>

Caller == [of : {"session", "character"}, id : Character]
Session(c) == [of |-> "session", id |-> c]
Char(c) == [of |-> "character", id |-> c]
Field == [of |-> "field"]

IsRequest(m) == m.type \in {"add", "remove", "buff"}
Request(type, caller) == [type |-> type, by |-> caller, live |-> TRUE]

Messages ==
    [type : {"add", "remove", "buff"}, by : Caller, live : BOOLEAN]
      \cup [type : {"maybe_stop", "dispose", "send_updates"}]

Tasks ==
    [type : {"add", "buff", "updates"}, by : Caller \cup {None}, live : BOOLEAN,
     left : SUBSET Character, asks : Character \cup {None}]

ASSUME NoneAssumption == None \notin Tasks

TypeOK ==
    /\ up \in BOOLEAN
    /\ starts \in Nat
    /\ sessions \in SUBSET Character
    /\ armed \in BOOLEAN
    /\ inbox \in Seq(Messages)
    /\ task \in Tasks \cup {None}
    /\ waits \in SUBSET (Caller \cup {Field})
    /\ older \in SUBSET (waits \X waits)
    /\ session \in [Character -> {"none", "away", "entering", "in", "leaving", "casting"}]
    /\ char \in [Character -> {"offline", "online", "casting", "cleanup", "left"}]
    /\ pid \in [Character -> Nat]

Waiting(caller) == caller \in waits

Calls(caller) ==
    /\ waits' = waits \cup {caller}
    /\ older' = older \cup (waits \X {caller})

\* The calls of these come to their end.
Returned(S) ==
    /\ waits' = waits \ S
    /\ older' = older \cap ((waits \ S) \X (waits \ S))

\* The character process answers: it is neither at a cast nor going down.
Answers(c) == char[c] = "online"

FieldFree == up /\ task = None

Init ==
    /\ up = FALSE /\ starts = 0
    /\ sessions = {} /\ armed = FALSE
    /\ inbox = <<>> /\ task = None
    /\ waits = {} /\ older = {}
    /\ session = [c \in Character |-> "none"]
    /\ char = [c \in Character |-> "offline"]
    /\ pid = [c \in Character |-> 0]
    /\ logins = 0 /\ casts = 0

-----------------------------------------------------------------------------
(* The field process ends: whoever waits for it gets :error. *)

SessionAfterExit(c) ==
    CASE session[c] = "entering" -> "none"   \* {:ok, _pid} = :error
      [] session[c] = "leaving" -> "away"
      [] session[c] = "casting" /\ Waiting(Char(c)) -> "in"
      [] OTHER -> session[c]

CharAfterExit(c) ==
    CASE char[c] = "casting" /\ Waiting(Char(c)) -> "online"
      [] char[c] = "cleanup" /\ Waiting(Char(c)) -> "left"
      [] OTHER -> char[c]

\* What remains is a session whose character has yet to call the field.
StillWaits(w) ==
    /\ w.of = "session"
    /\ session[w.id] = "casting"
    /\ ~Waiting(Char(w.id))

FieldEnds ==
    /\ up' = FALSE /\ sessions' = {} /\ armed' = FALSE
    /\ inbox' = <<>> /\ task' = None
    /\ Returned({w \in waits : ~StillWaits(w)})
    /\ session' = [c \in Character |-> SessionAfterExit(c)]
    /\ UNCHANGED <<starts, pid, logins, casts>>

FieldStops == FieldEnds /\ char' = [c \in Character |-> CharAfterExit(c)]

-----------------------------------------------------------------------------
(* Sessions *)

\* response_key.ex starts the Character, which monitors the session.
Login(c) ==
    /\ session[c] = "none" /\ char[c] = "offline"
    /\ logins < MaxLogins
    /\ logins' = logins + 1
    /\ session' = [session EXCEPT ![c] = "away"]
    /\ char' = [char EXCEPT ![c] = "online"]
    /\ pid' = [pid EXCEPT ![c] = 0]
    /\ UNCHANGED <<field, calls, casts>>

Disconnect(c) ==
    /\ session[c] \in {"away", "in"}
    /\ session' = [session EXCEPT ![c] = "none"]
    /\ UNCHANGED <<field, calls, char, pid, logins, casts>>

Send(type, caller) ==
    /\ inbox' = Append(inbox, Request(type, caller))
    /\ Calls(caller)

\* enter/1 from ResponseFieldEnter.  A new process adds its first character in
\* handle_continue, after GenServer.start has returned.
Enter(c) ==
    /\ session[c] \in {"away", "in"}
    /\ Answers(c)
    /\ IF up
         THEN /\ Send("add", Session(c))
              /\ session' = [session EXCEPT ![c] = "entering"]
              /\ UNCHANGED <<up, starts, sessions, armed, task>>
         ELSE /\ starts < MaxStarts
              /\ up' = TRUE /\ starts' = starts + 1
              /\ sessions' = {} /\ armed' = FALSE /\ inbox' = <<>>
              /\ task' = [type |-> "add", by |-> Session(c), live |-> FALSE,
                          left |-> {}, asks |-> None]
              /\ session' = [session EXCEPT ![c] = "in"]
              /\ UNCHANGED calls
    /\ UNCHANGED <<char, pid, logins, casts>>

OnThisField(c) == up /\ pid[c] = starts

\* change_field, to another field; also again before that one is entered.
Leave(c) ==
    /\ session[c] \in {"away", "in"}
    /\ Answers(c)
    /\ IF OnThisField(c)
         THEN /\ Send("remove", Session(c))
              /\ session' = [session EXCEPT ![c] = "leaving"]
         ELSE /\ session' = [session EXCEPT ![c] = "away"]
              /\ UNCHANGED <<inbox, calls>>
    /\ UNCHANGED <<up, starts, sessions, armed, task, char, pid, logins, casts>>

\* use_cast/5 calls the character ...
UseSkill(c) ==
    /\ session[c] = "in" /\ Answers(c)
    /\ casts < MaxCasts
    /\ casts' = casts + 1
    /\ Calls(Session(c))
    /\ session' = [session EXCEPT ![c] = "casting"]
    /\ char' = [char EXCEPT ![c] = "casting"]
    /\ UNCHANGED <<field, pid, logins>>

-----------------------------------------------------------------------------
(* Characters *)

\* ... which calls the field, when it has one, and answers its session after
\* whatever the field said.
CastSkill(c) ==
    /\ char[c] = "casting" /\ ~Waiting(Char(c))
    /\ IF OnThisField(c)
         THEN Send("buff", Char(c)) /\ UNCHANGED <<session, char>>
         ELSE /\ char' = [char EXCEPT ![c] = "online"]
              /\ session' = [session EXCEPT ![c] = IF @ = "casting" THEN "in" ELSE @]
              /\ Returned({Session(c)})
              /\ UNCHANGED inbox
    /\ UNCHANGED <<up, starts, sessions, armed, task, pid, logins, casts>>

\* {:DOWN} of the session: cleanup/1 ...
BeginCleanup(c) ==
    /\ char[c] = "online" /\ session[c] = "none"
    /\ char' = [char EXCEPT ![c] = "cleanup"]
    /\ UNCHANGED <<field, calls, session, pid, logins, casts>>

\* ... leaves the field in the middle ...
CleanupLeaves(c) ==
    /\ char[c] = "cleanup" /\ ~Waiting(Char(c))
    /\ IF OnThisField(c)
         THEN Send("remove", Char(c)) /\ UNCHANGED char
         ELSE char' = [char EXCEPT ![c] = "left"] /\ UNCHANGED <<inbox, calls>>
    /\ UNCHANGED <<up, starts, sessions, armed, task, session, pid, logins, casts>>

\* Mutant of CharacterStops: {:noreply, character} after the cleanup.
CharacterStops_Stays(c) == FALSE

\* ... and the process stops.  A field that waits for its answer goes with it.
CharacterStops(c) ==
    /\ char[c] = "left"
    /\ IF task # None /\ task.asks = c
         THEN /\ FieldEnds
              /\ char' = [d \in Character |->
                             IF d = c THEN "offline" ELSE CharAfterExit(d)]
         ELSE /\ char' = [char EXCEPT ![c] = "offline"]
              /\ UNCHANGED <<field, calls, session, pid, logins, casts>>

-----------------------------------------------------------------------------
(* The field's messages *)

Received(type) == FieldFree /\ inbox # <<>> /\ Head(inbox).type = type

Task(type, r, left) ==
    [type |-> type, by |-> r.by, live |-> r.live, left |-> left, asks |-> None]

Entered(r) == IF r.live THEN [session EXCEPT ![r.by.id] = "in"] ELSE session

\* A character's call returns: the cast is over, or the cleanup goes on.
CharReturns(c) ==
    /\ char' = [char EXCEPT ![c] = IF @ = "casting" THEN "online" ELSE "left"]
    /\ session' = [session EXCEPT ![c] =
                      IF char[c] = "casting" /\ @ = "casting" THEN "in" ELSE @]
    /\ Returned({Char(c)} \cup (IF char[c] = "casting" THEN {Session(c)} ELSE {}))

\* {:remove_character}
RemoveCharacter ==
    /\ Received("remove")
    /\ LET r == Head(inbox)
       IN  /\ sessions' = sessions \ {r.by.id}
           /\ IF ~r.live THEN UNCHANGED <<session, char, calls>>
              ELSE IF r.by.of = "character" THEN CharReturns(r.by.id)
              ELSE /\ session' = [session EXCEPT ![r.by.id] = "away"]
                   /\ Returned({r.by})
                   /\ UNCHANGED char
    /\ inbox' = Append(Tail(inbox), [type |-> "maybe_stop"])
    /\ UNCHANGED <<up, starts, armed, task, pid, logins, casts>>

\* {:add_character}, {:add_buff} and :send_updates, which look characters up.
StartAdd ==
    /\ Received("add")
    /\ task' = Task("add", Head(inbox), sessions)
    /\ inbox' = Tail(inbox)
    /\ UNCHANGED <<up, starts, sessions, armed, players, logins, casts>>

\* A buff that fires another asks its owner for the amounts.
StartBuff ==
    /\ Received("buff")
    /\ \E left \in {{}, {Head(inbox).by.id}} :
          task' = Task("buff", Head(inbox), left)
    /\ inbox' = Tail(inbox)
    /\ UNCHANGED <<up, starts, sessions, armed, players, logins, casts>>

SendUpdates ==
    /\ Received("send_updates")
    /\ task' = [type |-> "updates", by |-> None, live |-> FALSE,
                left |-> sessions, asks |-> None]
    /\ inbox' = Tail(inbox)
    /\ UNCHANGED <<up, starts, sessions, armed, players, logins, casts>>

\* Once a second; without sessions it changes nothing.
UpdatesDue ==
    /\ up /\ sessions # {}
    /\ \A i \in 1..Len(inbox) : inbox[i].type # "send_updates"
    /\ inbox' = Append(inbox, [type |-> "send_updates"])
    /\ UNCHANGED <<up, starts, sessions, armed, task, players, logins, casts>>

\* Whom the task calls next: those it looks up, then the one it adds.
ToAsk ==
    IF task.left # {} THEN task.left
    ELSE IF task.type = "add" THEN {task.by.id} ELSE {}

\* No process of that name is :error, which lookups and updates put up with.
Asked(c) ==
    /\ task # None /\ c \in ToAsk
    /\ \/ task.asks = None /\ (Answers(c) \/ char[c] = "offline")
       \/ task.asks = c /\ Answers(c)

\* The process is busy: the field waits.
Ask(c) ==
    /\ task # None /\ task.asks = None /\ c \in ToAsk
    /\ char[c] \in {"casting", "cleanup", "left"}
    /\ task' = [task EXCEPT !.asks = c]
    /\ Calls(Field)
    /\ UNCHANGED <<up, starts, sessions, armed, inbox, session, char, pid, logins, casts>>

LookedUp(c) ==
    /\ Asked(c) /\ c \in task.left
    /\ task' = [task EXCEPT !.left = @ \ {c}, !.asks = None]
    /\ Returned({Field})
    /\ UNCHANGED <<up, starts, sessions, armed, inbox, session, char, pid, logins, casts>>

\* Mutant of MaybeCancelDispose: the timer goes on.
MaybeCancelDispose_Keeps == armed

\* With a session the dispose timer is off.
MaybeCancelDispose == FALSE

\* The character gets the field's pid, the field the session.
Joined(c) ==
    /\ Asked(c) /\ task.left = {} /\ task.type = "add"
    /\ pid' = [pid EXCEPT ![c] = IF Answers(c) THEN starts ELSE @]
    /\ sessions' = sessions \cup {c}
    /\ armed' = MaybeCancelDispose
    /\ session' = Entered(task)
    /\ Returned({Field} \cup (IF task.live THEN {task.by} ELSE {}))
    /\ task' = None
    /\ UNCHANGED <<up, starts, inbox, char, logins, casts>>

\* Mutant of BuffAdded: {:noreply, state}.
BuffAdded_NoReply ==
    /\ task # None /\ task.type = "buff" /\ task.left = {}
    /\ task' = None
    /\ UNCHANGED <<up, starts, sessions, armed, inbox, players, logins, casts>>

BuffAdded ==
    /\ task # None /\ task.type = "buff" /\ task.left = {}
    /\ task' = None
    /\ IF task.live THEN CharReturns(task.by.id)
       ELSE UNCHANGED <<session, char, calls>>
    /\ UNCHANGED <<up, starts, sessions, armed, inbox, pid, logins, casts>>

UpdatesSent ==
    /\ task # None /\ task.type = "updates" /\ task.left = {}
    /\ task' = None
    /\ UNCHANGED <<up, starts, sessions, armed, inbox, players, logins, casts>>

\* :maybe_stop of a shared field
MaybeStop ==
    /\ Received("maybe_stop")
    /\ armed' = (armed \/ sessions = {})
    /\ inbox' = Tail(inbox)
    /\ UNCHANGED <<up, starts, sessions, task, players, logins, casts>>

\* Five minutes after.
TimerFires ==
    /\ up /\ armed
    /\ armed' = FALSE
    /\ inbox' = Append(inbox, [type |-> "dispose"])
    /\ UNCHANGED <<up, starts, sessions, task, players, logins, casts>>

\* :dispose_if_empty
Dispose ==
    /\ Received("dispose")
    /\ IF sessions = {} THEN FieldStops
       ELSE /\ inbox' = Tail(inbox)
            /\ armed' = FALSE
            /\ UNCHANGED <<up, starts, sessions, task, players, logins, casts>>

-----------------------------------------------------------------------------
(* Timeouts *)

\* A request whose caller has given up is handled all the same.
Abandoned(caller) ==
    /\ inbox' = [i \in 1..Len(inbox) |->
                    IF IsRequest(inbox[i]) /\ inbox[i].by = caller
                      THEN [inbox[i] EXCEPT !.live = FALSE] ELSE inbox[i]]
    /\ task' = IF task # None /\ task.by = caller
                 THEN [task EXCEPT !.live = FALSE] ELSE task

FieldWaits == task # None /\ task.asks # None

\* A call ends by itself when it is the oldest and the process it
\* called is itself waiting.
Oldest(caller) == Waiting(caller) /\ \A w \in waits : <<w, caller>> \notin older

\* Mutant of SessionTimesOut: change_field gives up when leave/1 does, and the
\* player stays.
SessionTimesOut_Stays(c) ==
    /\ Oldest(Session(c))
    /\ IF session[c] = "casting" THEN Waiting(Char(c)) ELSE FieldWaits
    /\ Returned({Session(c)})
    /\ session' = [session EXCEPT ![c] = IF @ = "leaving" THEN "in" ELSE "none"]
    /\ Abandoned(Session(c))
    /\ UNCHANGED <<up, starts, sessions, armed, char, pid, logins, casts>>

\* leave_for_change takes an :error of a field for a departure; a cast and an
\* enter do not survive theirs.
SessionTimesOut(c) ==
    /\ Oldest(Session(c))
    /\ IF session[c] = "casting" THEN Waiting(Char(c)) ELSE FieldWaits
    /\ Returned({Session(c)})
    /\ session' = [session EXCEPT ![c] = IF @ = "leaving" THEN "away" ELSE "none"]
    /\ Abandoned(Session(c))
    /\ UNCHANGED <<up, starts, sessions, armed, char, pid, logins, casts>>

CharTimesOut(c) ==
    /\ Oldest(Char(c))
    /\ FieldWaits
    /\ CharReturns(c)
    /\ Abandoned(Char(c))
    /\ UNCHANGED <<up, starts, sessions, armed, pid, logins, casts>>

\* The exit is not caught: the field goes down with everybody on it.
FieldTimesOut ==
    /\ Oldest(Field)
    /\ Waiting(Char(task.asks))
    /\ FieldStops

-----------------------------------------------------------------------------
FieldSteps ==
    \/ RemoveCharacter \/ StartAdd \/ StartBuff \/ SendUpdates \/ MaybeStop \/ Dispose
    \/ \E c \in Character : Ask(c) \/ LookedUp(c) \/ Joined(c)
    \/ BuffAdded \/ UpdatesSent

CharSteps(c) == CastSkill(c) \/ BeginCleanup(c) \/ CleanupLeaves(c) \/ CharacterStops(c)

Timeouts ==
    \/ \E c \in Character : SessionTimesOut(c) \/ CharTimesOut(c)
    \/ FieldTimesOut

Next ==
    \/ \E c \in Character : Login(c) \/ Disconnect(c) \/ Enter(c) \/ Leave(c) \/ UseSkill(c)
    \/ \E c \in Character : CharSteps(c)
    \/ FieldSteps \/ UpdatesDue \/ TimerFires
    \/ Timeouts

Spec == Init /\ [][Next]_vars

\* The field works off its messages, characters go on with what they are at,
\* and timers fire.
FairSpec ==
    /\ Spec
    /\ WF_vars(FieldSteps) /\ WF_vars(TimerFires) /\ WF_vars(Timeouts)
    /\ \A c \in Character : WF_vars(CharSteps(c))

-----------------------------------------------------------------------------
(* Properties *)

\* An empty field is on its way out, a field with players is not: the timer
\* runs, or a message that sets it or ends the field is in the inbox, or the
\* next player is being added, through every order of joins, departures,
\* timers that have just fired and calls that were given up.
Deadline ==
    up => IF sessions = {}
            THEN \/ armed
                 \/ \E i \in 1..Len(inbox) : inbox[i].type \in {"maybe_stop", "dispose"}
                 \/ task # None /\ task.type = "add"
            ELSE ~armed

Asks(m, caller) == IsRequest(m) /\ m.by = caller /\ m.live

\* Where its request is: the place in the inbox, 0 for the task.
Requests(caller) ==
    {i \in 1..Len(inbox) : Asks(inbox[i], caller)}
      \cup {i \in {0} : task # None /\ Asks(task, caller)}

AwaitsField(caller) ==
    Waiting(caller) /\ ~(caller.of = "session" /\ session[caller.id] = "casting")

\* Whoever waits for the field has its request there, once, and what the field
\* will answer is waited for: no reply is lost and none comes to a later call;
\* every part keeps its type.
NoLostCall ==
    /\ TypeOK
    /\ \A caller \in Caller :
          IF AwaitsField(caller)
            THEN \E i \in 0..Len(inbox) : Requests(caller) = {i}
            ELSE Requests(caller) = {}

\* A player whose session is in the field it last joined is one of its
\* sessions: it hears the field and the field does not stop under it.
OnField ==
    \A c \in Character :
        session[c] = "in" /\ OnThisField(c) => c \in sessions

\* Every logout comes to its end, whoever waits for whom: logins being
\* bounded, again and again none is under way.
LogoutEnds == []<>(\A c \in Character : char[c] \notin {"cleanup", "left"})

\* docs/features/field-manager.md:66-71: what happens to a field happens when
\* the last session leaves.
FieldOutlivesSessions == [][up /\ ~up' => sessions = {}]_vars
===============================================================================
