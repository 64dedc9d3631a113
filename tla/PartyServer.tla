----------------------------- MODULE PartyServer -----------------------------
(***************************************************************************)
(* One Ms2ex.Managers.PartyServer process: the party's members and leader, *)
(* the vote to kick a member, the ready check, and the two 20 s timers.    *)
(*                                                                         *)
(* A GenServer handles one message at a time, so a handler is one action.  *)
(* handle_call clauses take their argument from whatever a session last    *)
(* saw (callers look the party up first and act on that copy), hence from  *)
(* all of Character.  Casts sit in `mailbox` between the session's lookup  *)
(* and the handler: their guards are evaluated on the sending side.        *)
(*                                                                         *)
(* Members are a set: the list's order decides only which online member    *)
(* Enum.find returns, which is left open.                                  *)
(***************************************************************************)
EXTENDS Naturals, FiniteSets, Sequences

CONSTANTS
    Character,        \* character ids
    MaxMembers,       \* Constants.get(:party_max_members)
    VoteMinimum,      \* members a party needs before a kick vote (4)
    None,             \* nil
    MaxVotes,         \* bound: kick votes started in one behaviour
    MaxChecks,        \* bound: end_ready_check timers pending at once
    MaxAnswers,       \* bound: answers recorded in one ready check
    MaxMailbox        \* bound: casts waiting in the mailbox

ASSUME ConstantsAssumption ==
    /\ IsFiniteSet(Character)
    /\ MaxMembers \in Nat \ {0}
    /\ VoteMinimum \in Nat
    /\ MaxVotes \in Nat
    /\ MaxChecks \in Nat
    /\ MaxAnswers \in Nat
    /\ MaxMailbox \in Nat
    /\ None \notin Character

VARIABLES
    status,       \* "up", or "down" once the process has stopped or crashed
    stopping,     \* :shutdown has been sent to self and not yet handled
    members,      \* ids in state.members
    online,       \* members whose snapshot has online? = true
    leader,       \* state.leader_id
    ready,        \* state.ready_check, newest answer first
    checkTimers,  \* number of :end_ready_check timers pending
    vote,         \* state.vote_kick
    voteTimers,   \* ids of the votes whose {:end_vote_kick, id} is pending
    nextVote,     \* make_ref(): ids are never used twice
    mailbox,      \* casts sent by session handlers, oldest first
    indexed       \* PartyManager's entries for this party once it has worked
                  \* off the register and unregister casts sent so far

roster == <<status, stopping, members, online, leader, indexed>>
checking == <<ready, checkTimers>>
voting == <<vote, voteTimers, nextVote>>
vars == <<roster, checking, voting, mailbox>>

StartVoteCast == [type : {"start_vote_kick"}, from : Character, target : Character]
VoteCast == [type : {"vote_kick"}, from : Character, yes : BOOLEAN]
StartCheckCast == [type : {"start_ready_check"}]
AnswerCast == [type : {"ready_check"}, from : Character]
Cast == StartVoteCast \cup VoteCast \cup StartCheckCast \cup AnswerCast

Vote == [id : Nat, target : Character, voters : SUBSET Character,
         approvals : SUBSET Character, disapprovals : SUBSET Character,
         needed : Nat]

TypeOK ==
    /\ status \in {"up", "down"}
    /\ stopping \in BOOLEAN
    /\ members \in SUBSET Character
    /\ online \in SUBSET members
    /\ leader \in Character
    /\ ready \in Seq(Character)
    /\ checkTimers \in Nat
    /\ vote \in Vote \cup {None}
    /\ voteTimers \in SUBSET Nat
    /\ nextVote \in Nat
    /\ mailbox \in Seq(Cast)
    /\ indexed \in SUBSET Character

-----------------------------------------------------------------------------
(* Types.Party *)

InParty(c) == c \in members
Full == Cardinality(members) >= MaxMembers

\* new?/1: one member left, the state a party starts in and is disbanded from.
New(ms) == Cardinality(ms) = 1

\* Mutant of VotesNeeded: rounds down.
VotesNeeded_Floor(voters) == Cardinality(voters) \div 2

\* ceil(Enum.count(voters) / 2)
VotesNeeded(voters) == (Cardinality(voters) + 1) \div 2

Answered(c) == \E i \in 1..Len(ready) : ready[i] = c

-----------------------------------------------------------------------------
(* The leader creates the party through PartyManager.create, which puts the *)
(* leader in its index itself.                                              *)
Init ==
    /\ status = "up"
    /\ stopping = FALSE
    /\ \E c \in Character :
          /\ members = {c} /\ online = {c} /\ leader = c /\ indexed = {c}
    /\ ready = <<>> /\ checkTimers = 0
    /\ vote = None /\ voteTimers = {} /\ nextVote = 0
    /\ mailbox = <<>>

\* update_member/2 adds an unknown character and registers it with PartyManager.
PutMember(c) ==
    /\ members' = members \cup {c}
    /\ indexed' = IF InParty(c) THEN indexed ELSE indexed \cup {c}

\* Mutant of DropMember: the index is not told.
DropMember_KeepsIndex(c) ==
    members' = members \ {c} /\ online' = online \ {c} /\ indexed' = indexed

DropMember(c) ==
    /\ members' = members \ {c}
    /\ online' = online \ {c}
    /\ indexed' = indexed \ {c}

\* Mutant of SucceedTo: nobody takes over.
SucceedTo_Nobody(c) == leader' = leader

\* maybe_find_new_leader/3: an online member takes over from c if c led.
SucceedTo(c) ==
    IF c = leader THEN leader' \in online' ELSE leader' = leader

\* disband/1 sends :shutdown to self (and tells every online member's session).
Disband == stopping' = TRUE /\ leader' = leader

-----------------------------------------------------------------------------
(* handle_call *)

SetLeader(requestor, c) ==
    /\ status = "up"
    /\ leader = requestor
    /\ InParty(c)
    /\ leader' = c
    /\ UNCHANGED <<status, stopping, members, online, indexed, checking, voting, mailbox>>

\* From Helper.Session.cleanup, with the leaving character's own party_id.
MemberOffline(c) ==
    /\ status = "up"
    /\ PutMember(c)
    /\ online' = online \ {c}
    /\ IF online' = {}
         THEN stopping' = TRUE /\ leader' = leader
         ELSE stopping' = stopping /\ SucceedTo(c)
    /\ UNCHANGED <<status, checking, voting, mailbox>>

\* An accepted invitation, a party finder join, or a relog.
UpdateMember(c) ==
    /\ status = "up"
    /\ ~Full \/ InParty(c)
    /\ PutMember(c)
    /\ online' = online \cup {c}
    /\ UNCHANGED <<status, stopping, leader, checking, voting, mailbox>>

RemoveMember(c) ==
    /\ status = "up"
    /\ DropMember(c)
    /\ IF New(members') \/ online' = {}
         THEN Disband
         ELSE stopping' = stopping /\ SucceedTo(c)
    /\ UNCHANGED <<status, checking, voting, mailbox>>

KickMember(requestor, c) ==
    /\ status = "up"
    /\ leader = requestor
    /\ requestor # c
    /\ InParty(c)
    /\ DropMember(c)
    /\ IF New(members') THEN Disband ELSE UNCHANGED <<stopping, leader>>
    /\ UNCHANGED <<status, checking, voting, mailbox>>

-----------------------------------------------------------------------------
(* Casts: the session side, GameHandlers.Party, which looked the party up. *)

Send(m) ==
    /\ status = "up"
    /\ Len(mailbox) < MaxMailbox
    /\ mailbox' = Append(mailbox, m)
    /\ UNCHANGED <<roster, checking, voting>>

SendStartVote(c, target) ==
    /\ Cardinality(members) >= VoteMinimum
    /\ target # c
    /\ InParty(target)
    /\ Send([type |-> "start_vote_kick", from |-> c, target |-> target])

SendStartCheck ==
    /\ MaxChecks > 0
    /\ Send([type |-> "start_ready_check"])

\* One packet answers both: an open vote takes precedence over a ready check.
SendAnswer(c, yes) ==
    IF vote # None
      THEN Send([type |-> "vote_kick", from |-> c, yes |-> yes])
      ELSE ~Answered(c) /\ Send([type |-> "ready_check", from |-> c])

-----------------------------------------------------------------------------
(* handle_cast *)

Receive(type) ==
    /\ status = "up"
    /\ mailbox # <<>>
    /\ Head(mailbox).type = type
    /\ mailbox' = Tail(mailbox)

\* Started when no vote is open; otherwise, or when the target or the
\* requestor is not (any longer) a member, the cast is dropped.
StartVoteKick ==
    /\ Receive("start_vote_kick")
    /\ LET m == Head(mailbox) IN
         IF vote = None /\ InParty(m.target) /\ InParty(m.from) /\ m.from # m.target
           THEN /\ nextVote < MaxVotes
                /\ vote' = [id |-> nextVote, target |-> m.target,
                            voters |-> members \ {m.target},
                            approvals |-> {m.from}, disapprovals |-> {},
                            needed |-> VotesNeeded(members \ {m.target})]
                /\ voteTimers' = voteTimers \cup {nextVote}
                /\ nextVote' = nextVote + 1
           ELSE UNCHANGED voting
    /\ UNCHANGED <<roster, checking>>

\* Mutant of Ballot: the sides are swapped.
\* The ballot of vote_kick once c's answer is entered.
Ballot(c, yes) ==
    IF yes THEN [vote EXCEPT !.approvals = @ \cup {c}]
           ELSE [vote EXCEPT !.disapprovals = @ \cup {c}]

\* Mutant of Counts: anybody votes, the target included.
Counts_Anyone(c) == c \notin vote.approvals \cup vote.disapprovals

Counts(c) == c \in vote.voters \ (vote.approvals \cup vote.disapprovals)

\* kick_voted_member/2 when the call to the target's Character returns.
KickVoted(target) ==
    /\ DropMember(target)
    /\ IF online' = {} THEN leader' = leader ELSE SucceedTo(target)
    /\ UNCHANGED <<status, stopping>>

Crash == status' = "down" /\ UNCHANGED <<stopping, members, online, leader, indexed>>

\* A vote is open.  The target's Character may be down or waiting on this very
\* process (its cleanup calls member_offline): then the call exits.
VoteKick ==
    /\ Receive("vote_kick")
    /\ vote # None
    /\ UNCHANGED <<checking, voteTimers, nextVote>>
    /\ LET m == Head(mailbox)
           b == Ballot(m.from, m.yes)
       IN IF ~Counts(m.from)
            THEN UNCHANGED <<vote, roster>>
            ELSE IF Cardinality(b.approvals) >= b.needed
            THEN \/ vote' = None /\ KickVoted(b.target)
                 \/ UNCHANGED vote /\ Crash
            ELSE /\ UNCHANGED roster
                 /\ vote' = IF Cardinality(b.approvals) + Cardinality(b.disapprovals)
                                 >= Cardinality(b.voters)
                              THEN None ELSE b

\* No vote is open any more: the clause's `vote.voters` is read from nil, the
\* ignoring clause below it is never reached.
VoteKickAfterEnd ==
    /\ Receive("vote_kick")
    /\ vote = None
    /\ Crash
    /\ UNCHANGED <<checking, voting>>

StartReadyCheck ==
    /\ Receive("start_ready_check")
    /\ IF ready # <<>>
         THEN UNCHANGED checkTimers
         ELSE checkTimers < MaxChecks /\ checkTimers' = checkTimers + 1
    /\ UNCHANGED <<ready, roster, voting>>

ReadyCheck ==
    /\ Receive("ready_check")
    /\ Len(ready) < MaxAnswers
    /\ ready' = IF Cardinality(members) = Len(ready) + 1
                  THEN <<>> ELSE <<Head(mailbox).from>> \o ready
    /\ UNCHANGED <<checkTimers, roster, voting>>

-----------------------------------------------------------------------------
(* handle_info *)

\* The timer carries no id: it closes whichever check is running.
EndReadyCheck ==
    /\ status = "up"
    /\ checkTimers > 0
    /\ checkTimers' = checkTimers - 1
    /\ ready' = IF Cardinality(members) # Len(ready) THEN <<>> ELSE ready
    /\ UNCHANGED <<roster, voting, mailbox>>

\* Mutant of EndVoteKick: the vote outlives its timer.
EndVoteKick_Forgets(id) ==
    /\ status = "up"
    /\ id \in voteTimers
    /\ voteTimers' = voteTimers \ {id}
    /\ UNCHANGED <<roster, checking, vote, nextVote, mailbox>>

EndVoteKick(id) ==
    /\ status = "up"
    /\ id \in voteTimers
    /\ voteTimers' = voteTimers \ {id}
    /\ vote' = IF vote # None /\ vote.id = id THEN None ELSE vote
    /\ UNCHANGED <<roster, checking, nextVote, mailbox>>

Shutdown ==
    /\ status = "up"
    /\ stopping
    /\ status' = "down"
    /\ UNCHANGED <<stopping, members, online, leader, indexed, checking, voting, mailbox>>

-----------------------------------------------------------------------------
Calls ==
    \/ \E c, d \in Character : SetLeader(c, d)
    \/ \E c \in Character : MemberOffline(c)
    \/ \E c \in Character : UpdateMember(c)
    \/ \E c \in Character : RemoveMember(c)
    \/ \E c, d \in Character : KickMember(c, d)

Sends ==
    \/ \E c, d \in Character : SendStartVote(c, d)
    \/ SendStartCheck
    \/ \E c \in Character, yes \in BOOLEAN : SendAnswer(c, yes)

Receives ==
    \/ StartVoteKick
    \/ VoteKick
    \/ VoteKickAfterEnd
    \/ StartReadyCheck
    \/ ReadyCheck

Timeouts ==
    \/ EndReadyCheck
    \/ \E id \in voteTimers : EndVoteKick(id)
    \/ Shutdown

Next == Calls \/ Sends \/ Receives \/ Timeouts

Spec == Init /\ [][Next]_vars

\* The BEAM delivers every message and fires every timer of a live process.
FairSpec ==
    /\ Spec
    /\ WF_vars(Receives)
    /\ WF_vars(EndReadyCheck)
    /\ \A id \in 0 .. MaxVotes - 1 : WF_vars(EndVoteKick(id))
    /\ WF_vars(Shutdown)

-----------------------------------------------------------------------------
(* Properties *)

\* PartyManager's index is how a relogging player finds the party again: the
\* casts of update_member, remove_member, kick_member and the vote kick leave
\* it with exactly the members, whatever the order of the calls.
IndexMirrorsMembers == indexed = members

\* The open vote is a fair ballot with a deadline of its own: the target has
\* no vote, nobody is counted twice, and the timer that closes this vote (and
\* not an earlier one) is pending.
VoteSound ==
    vote # None =>
        /\ vote.target \notin vote.voters
        /\ vote.approvals \cup vote.disapprovals \subseteq vote.voters
        /\ vote.approvals \cap vote.disapprovals = {}
        /\ vote.id \in voteTimers

\* A vote stays open only while its answers do not decide it.  Two voters are
\* left out: votes_needed is then 1, which the initiator alone satisfies but
\* which is only looked at when the next answer comes.
VoteUndecided ==
    (vote # None /\ Cardinality(vote.voters) > 2) =>
        /\ Cardinality(vote.approvals) < vote.needed
        /\ Cardinality(vote.approvals) + Cardinality(vote.disapprovals)
              < Cardinality(vote.voters)

\* The ballot of an open vote is fair, on time and undecided.
BallotOpen == VoteSound /\ VoteUndecided

\* Through departures, logouts, promotions and kicks the leader is a member;
\* a step may lose the leader only when the party is being shut down or has
\* nobody recorded online to take over.
LeadershipKept ==
    [][(leader \in members) =>
          (leader' \in members' \/ stopping' \/ online' = {})]_vars

VoteKickStep == vote' # vote /\ members' # members

\* The target of the open vote has gone; what decided it is the first answer of
\* one of the voters, half of whom now approve.
HalfApprove ==
    LET voter == Head(mailbox).from
    IN  /\ members' = members \ {vote.target}
        /\ voter \in vote.voters \ (vote.approvals \cup vote.disapprovals)
        /\ 2 * Cardinality(vote.approvals \cup {voter}) >= Cardinality(vote.voters)

\* A kick by vote is backed by its ballot: by half of the voters, and with three
\* of them or more it is no disapproval that completes it.
KickBacked ==
    [][VoteKickStep => /\ HalfApprove
                       /\ Cardinality(vote.voters) > 2 => Head(mailbox).yes]_vars

\* Every vote ends, by its answers, its timer or the end of the party.
VoteEnds ==
    \A id \in 0 .. MaxVotes - 1 :
        (vote # None /\ vote.id = id)
            ~> (status = "down" \/ vote = None \/ vote.id # id)
=============================================================================
