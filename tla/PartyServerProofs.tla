-------------------------- MODULE PartyServerProofs --------------------------
(***************************************************************************)
(* Theorems about PartyServer, for every set of characters and every bound.*)
(*                                                                         *)
(* IInv is inductive: the types, the index, the ballot, and the link       *)
(* between votes_needed and the voters that the action properties about    *)
(* the kick rest on.                                                       *)
(***************************************************************************)
EXTENDS PartyServer, FiniteSetTheorems, TLAPS

NeededIsHalf == vote # None => vote.needed = VotesNeeded(vote.voters)

IInv == TypeOK /\ IndexMirrorsMembers /\ VoteSound /\ VoteUndecided /\ NeededIsHalf

-----------------------------------------------------------------------------
\* Sets of characters are finite, so their sizes are numbers.
LEMMA CharacterSets ==
    ASSUME NEW S \in SUBSET Character
    PROVE  IsFiniteSet(S) /\ Cardinality(S) \in Nat
  BY ConstantsAssumption, FS_Subset, FS_CardinalityType

\* What a received cast carries, by its type.
LEMMA ReceivedCast ==
    ASSUME TypeOK, NEW type, Receive(type)
    PROVE  /\ mailbox' \in Seq(Cast)
           /\ Head(mailbox) \in Cast
           /\ type = "start_vote_kick" => Head(mailbox) \in StartVoteCast
           /\ type = "vote_kick" => Head(mailbox) \in VoteCast
           /\ type = "ready_check" => Head(mailbox) \in AnswerCast
<1>1. mailbox \in Seq(Cast) /\ mailbox # <<>>
  BY DEF TypeOK, Receive
<1>2. Head(mailbox) \in Cast /\ Tail(mailbox) \in Seq(Cast)
  BY <1>1
<1>3. Head(mailbox).type = type /\ mailbox' = Tail(mailbox)
  BY DEF Receive
<1>4. QED
  BY <1>2, <1>3 DEF Cast, StartVoteCast, VoteCast, StartCheckCast, AnswerCast

\* An answer that counts enters exactly one side of the ballot and nothing else.
LEMMA BallotStep ==
    ASSUME TypeOK, vote # None, VoteSound,
           NEW c \in Character, Counts(c), NEW yes \in BOOLEAN
    PROVE  LET b == Ballot(c, yes) IN
           /\ b \in Vote
           /\ b.id = vote.id /\ b.target = vote.target
           /\ b.voters = vote.voters /\ b.needed = vote.needed
           /\ b.approvals = IF yes THEN vote.approvals \cup {c} ELSE vote.approvals
           /\ b.disapprovals = IF yes THEN vote.disapprovals ELSE vote.disapprovals \cup {c}
<1>1. vote \in Vote
  BY DEF TypeOK
<1>2. CASE yes
  BY <1>1, <1>2 DEF Ballot, Vote
<1>3. CASE ~yes
  BY <1>1, <1>3 DEF Ballot, Vote
<1>4. QED
  BY <1>2, <1>3

-----------------------------------------------------------------------------
LEMMA InitIInv == Init => IInv
<1> SUFFICES ASSUME Init PROVE IInv
  OBVIOUS
<1>1. PICK c \in Character : members = {c} /\ online = {c} /\ leader = c /\ indexed = {c}
  BY DEF Init
<1>2. ready \in Seq(Character) /\ mailbox \in Seq(Cast)
  BY DEF Init
<1>3. TypeOK
  BY <1>1, <1>2 DEF Init, TypeOK
<1>4. QED
  BY <1>1, <1>3 DEF Init, IInv, IndexMirrorsMembers, VoteSound, VoteUndecided, NeededIsHalf

\* Handlers that change the roster leave an open vote as it is.
LEMMA RosterTypes ==
    ASSUME TypeOK, UNCHANGED <<checking, voting, mailbox>>,
           status' \in {"up", "down"}, stopping' \in BOOLEAN,
           members' \in SUBSET Character, online' \in SUBSET members',
           leader' \in Character, indexed' \in SUBSET Character
    PROVE  TypeOK'
  BY DEF TypeOK, checking, voting

LEMMA VotingUnchanged ==
    ASSUME VoteSound, VoteUndecided, NeededIsHalf, UNCHANGED voting
    PROVE  VoteSound' /\ VoteUndecided' /\ NeededIsHalf'
<1>1. vote' = vote /\ voteTimers' = voteTimers
  BY DEF voting
<1>2. VoteSound'
  BY <1>1 DEF VoteSound
<1>3. VoteUndecided'
  BY <1>1 DEF VoteUndecided
<1>4. NeededIsHalf'
  BY <1>1 DEF NeededIsHalf, VotesNeeded
<1>5. QED
  BY <1>2, <1>3, <1>4

-----------------------------------------------------------------------------
\* The roster part of the invariant, one lemma per handler family.
RosterInv == TypeOK /\ IndexMirrorsMembers

LEMMA CallsRoster ==
    ASSUME RosterInv, Calls
    PROVE  RosterInv'
<1> USE DEF RosterInv
<1>1. ASSUME NEW c \in Character, NEW d \in Character, SetLeader(c, d)
      PROVE  RosterInv'
  BY <1>1, RosterTypes DEF SetLeader, TypeOK, IndexMirrorsMembers
<1>2. ASSUME NEW c \in Character, MemberOffline(c)
      PROVE  RosterInv'
  <2>1. UNCHANGED <<checking, voting, mailbox>> /\ status' = status
    BY <1>2 DEF MemberOffline
  <2>2. /\ members' = members \cup {c}
        /\ indexed' = IF InParty(c) THEN indexed ELSE indexed \cup {c}
        /\ online' = online \ {c}
    BY <1>2 DEF MemberOffline, PutMember
  <2>3. stopping' \in BOOLEAN /\ leader' \in Character
    BY <1>2, <2>2 DEF MemberOffline, SucceedTo, TypeOK
  <2>4. IndexMirrorsMembers'
    BY <2>2 DEF IndexMirrorsMembers, InParty
  <2>5. QED
    BY <2>1, <2>2, <2>3, <2>4, RosterTypes DEF TypeOK, IndexMirrorsMembers
<1>3. ASSUME NEW c \in Character, UpdateMember(c)
      PROVE  RosterInv'
  <2>1. UNCHANGED <<checking, voting, mailbox, status, stopping, leader>>
    BY <1>3 DEF UpdateMember
  <2>2. /\ members' = members \cup {c}
        /\ indexed' = IF InParty(c) THEN indexed ELSE indexed \cup {c}
        /\ online' = online \cup {c}
    BY <1>3 DEF UpdateMember, PutMember
  <2>3. IndexMirrorsMembers'
    BY <2>2 DEF IndexMirrorsMembers, InParty
  <2>4. QED
    BY <2>1, <2>2, <2>3, RosterTypes DEF TypeOK, IndexMirrorsMembers
<1>4. ASSUME NEW c \in Character, RemoveMember(c)
      PROVE  RosterInv'
  <2>1. UNCHANGED <<checking, voting, mailbox>> /\ status' = status
    BY <1>4 DEF RemoveMember
  <2>2. members' = members \ {c} /\ indexed' = indexed \ {c} /\ online' = online \ {c}
    BY <1>4 DEF RemoveMember, DropMember
  <2>3. stopping' \in BOOLEAN /\ leader' \in Character
    BY <1>4, <2>2 DEF RemoveMember, Disband, SucceedTo, TypeOK
  <2>4. QED
    BY <2>1, <2>2, <2>3, RosterTypes DEF TypeOK, IndexMirrorsMembers
<1>5. ASSUME NEW c \in Character, NEW d \in Character, KickMember(c, d)
      PROVE  RosterInv'
  <2>1. UNCHANGED <<checking, voting, mailbox>> /\ status' = status
    BY <1>5 DEF KickMember
  <2>2. members' = members \ {d} /\ indexed' = indexed \ {d} /\ online' = online \ {d}
    BY <1>5 DEF KickMember, DropMember
  <2>3. stopping' \in BOOLEAN /\ leader' \in Character
    BY <1>5 DEF KickMember, Disband, TypeOK
  <2>4. QED
    BY <2>1, <2>2, <2>3, RosterTypes DEF TypeOK, IndexMirrorsMembers
<1>6. QED
  BY <1>1, <1>2, <1>3, <1>4, <1>5 DEF Calls

-----------------------------------------------------------------------------
\* Session-side sends only append a well-typed cast to the mailbox.
LEMMA SendsIInv ==
    ASSUME IInv, Sends
    PROVE  IInv'
<1> USE DEF IInv
<1>1. \E m \in Cast : Send(m)
  <2>1. ASSUME NEW c \in Character, NEW d \in Character, SendStartVote(c, d)
        PROVE  \E m \in Cast : Send(m)
    BY <2>1 DEF SendStartVote, Cast, StartVoteCast
  <2>2. CASE SendStartCheck
    BY <2>2 DEF SendStartCheck, Cast, StartCheckCast
  <2>3. ASSUME NEW c \in Character, NEW yes \in BOOLEAN, SendAnswer(c, yes)
        PROVE  \E m \in Cast : Send(m)
    BY <2>3 DEF SendAnswer, Cast, VoteCast, AnswerCast
  <2>4. QED
    BY <2>1, <2>2, <2>3 DEF Sends
<1>2. PICK m \in Cast : Send(m)
  BY <1>1
<1>3. mailbox' \in Seq(Cast)
  BY <1>2 DEF Send, TypeOK
<1>4. UNCHANGED <<roster, checking, voting>>
  BY <1>2 DEF Send
<1>5. TypeOK' /\ IndexMirrorsMembers'
  BY <1>3, <1>4 DEF TypeOK, IndexMirrorsMembers, roster, checking, voting
<1>6. QED
  BY <1>4, <1>5, VotingUnchanged

LEMMA StartVoteKickIInv ==
    ASSUME IInv, StartVoteKick
    PROVE  IInv'
<1> USE DEF IInv
<1> DEFINE m == Head(mailbox)
           voters == members \ {m.target}
           started == [id |-> nextVote, target |-> m.target, voters |-> voters,
                       approvals |-> {m.from}, disapprovals |-> {},
                       needed |-> VotesNeeded(voters)]
<1>1. UNCHANGED <<roster, checking>> /\ Receive("start_vote_kick")
  BY DEF StartVoteKick
<1>2. m \in StartVoteCast /\ mailbox' \in Seq(Cast)
  BY <1>1, ReceivedCast
<1>3. CASE UNCHANGED voting
  <2>1. TypeOK' /\ IndexMirrorsMembers'
    BY <1>1, <1>2, <1>3 DEF TypeOK, IndexMirrorsMembers, roster, checking, voting
  <2>2. QED
    BY <1>3, <2>1, VotingUnchanged
<1>4. CASE ~UNCHANGED voting
  <2>1. /\ vote' = started /\ voteTimers' = voteTimers \cup {nextVote}
        /\ nextVote' = nextVote + 1
        /\ InParty(m.from) /\ m.from # m.target
    BY <1>4 DEF StartVoteKick
  <2>2. m.from \in voters /\ m.target \in Character /\ voters \in SUBSET Character
    BY <1>2, <2>1 DEF TypeOK, InParty, StartVoteCast
  <2>3. Cardinality(voters) \in Nat /\ VotesNeeded(voters) \in Nat
    BY <2>2, CharacterSets DEF VotesNeeded
  <2>4. Cardinality({m.from}) = 1 /\ Cardinality({}) = 0
    BY FS_Singleton, FS_EmptySet
  <2>5. started \in Vote
    BY <2>2, <2>3 DEF Vote, TypeOK
  <2>6. TypeOK' /\ IndexMirrorsMembers'
    BY <1>1, <1>2, <2>1, <2>5 DEF TypeOK, IndexMirrorsMembers, roster, checking
  <2>7. VoteSound'
    BY <2>1, <2>2 DEF VoteSound
  <2>8. VoteUndecided'
    BY <2>1, <2>3, <2>4 DEF VoteUndecided, VotesNeeded
  <2>9. NeededIsHalf'
    BY <2>1 DEF NeededIsHalf, VotesNeeded
  <2>10. QED
    BY <2>6, <2>7, <2>8, <2>9
<1>5. QED
  BY <1>3, <1>4

\* The ballot step that leaves the vote open.
LEMMA BallotKept ==
    ASSUME IInv, vote # None, NEW c \in Character, Counts(c), NEW yes \in BOOLEAN,
           vote' = Ballot(c, yes), voteTimers' = voteTimers,
           Cardinality(Ballot(c, yes).approvals) < Ballot(c, yes).needed,
           Cardinality(Ballot(c, yes).approvals) + Cardinality(Ballot(c, yes).disapprovals)
               < Cardinality(Ballot(c, yes).voters)
    PROVE  VoteSound' /\ VoteUndecided' /\ NeededIsHalf'
<1> USE DEF IInv
<1>1. c \in vote.voters /\ c \notin vote.approvals /\ c \notin vote.disapprovals
  BY DEF Counts
<1>2. VoteSound'
  <2> DEFINE b == Ballot(c, yes)
  <2>1. /\ b.id = vote.id /\ b.target = vote.target /\ b.voters = vote.voters
        /\ b.approvals = IF yes THEN vote.approvals \cup {c} ELSE vote.approvals
        /\ b.disapprovals = IF yes THEN vote.disapprovals ELSE vote.disapprovals \cup {c}
    BY BallotStep
  <2>2. QED
    BY <1>1, <2>1 DEF VoteSound
<1>3. VoteUndecided'
  BY DEF VoteUndecided
<1>4. NeededIsHalf'
  BY BallotStep DEF NeededIsHalf, VotesNeeded
<1>5. QED
  BY <1>2, <1>3, <1>4

\* What vote_kick does with an answer while a vote is open.
LEMMA VoteKickCases ==
    ASSUME TypeOK, VoteKick, VoteSound
    PROVE  LET m == Head(mailbox)
               b == Ballot(m.from, m.yes)
           IN /\ m \in VoteCast /\ mailbox' \in Seq(Cast) /\ vote # None
              /\ UNCHANGED <<checking, voteTimers, nextVote>>
              /\ \/ UNCHANGED <<vote, roster>>
                 \/ Counts(m.from) /\ vote' = None /\ KickVoted(b.target)
                      /\ Cardinality(b.approvals) >= b.needed
                 \/ UNCHANGED vote /\ Crash
                 \/ Counts(m.from) /\ vote' = None /\ UNCHANGED roster
                 \/ /\ Counts(m.from) /\ vote' = b /\ UNCHANGED roster
                    /\ Cardinality(b.approvals) < b.needed
                    /\ Cardinality(b.approvals) + Cardinality(b.disapprovals)
                          < Cardinality(b.voters)
<1> DEFINE m == Head(mailbox)
           b == Ballot(m.from, m.yes)
<1>1. m \in VoteCast /\ mailbox' \in Seq(Cast)
  BY ReceivedCast DEF VoteKick
<1>2. vote # None /\ UNCHANGED <<checking, voteTimers, nextVote>>
  BY DEF VoteKick
<1>3. CASE ~Counts(m.from)
  BY <1>1, <1>2, <1>3 DEF VoteKick
<1>4. CASE Counts(m.from)
  <2>1. b \in Vote
    BY <1>1, <1>2, <1>4, BallotStep DEF VoteCast
  <2>2. /\ Cardinality(b.approvals) \in Nat /\ Cardinality(b.disapprovals) \in Nat
        /\ Cardinality(b.voters) \in Nat /\ b.needed \in Nat
    BY <2>1, CharacterSets DEF Vote
  <2>3. QED
    BY <1>1, <1>2, <1>4, <2>2 DEF VoteKick
<1>5. QED
  BY <1>3, <1>4

LEMMA VoteKickIInv ==
    ASSUME IInv, VoteKick
    PROVE  IInv'
<1> USE DEF IInv
<1> DEFINE m == Head(mailbox)
           b == Ballot(m.from, m.yes)
<1>1. /\ m \in VoteCast /\ mailbox' \in Seq(Cast) /\ vote # None
      /\ UNCHANGED <<checking, voteTimers, nextVote>>
  BY VoteKickCases
<1>2. m.from \in Character /\ m.yes \in BOOLEAN
  BY <1>1 DEF VoteCast
<1>3. CASE UNCHANGED <<vote, roster>>
  <2>1. TypeOK' /\ IndexMirrorsMembers'
    BY <1>1, <1>3 DEF TypeOK, IndexMirrorsMembers, roster, checking
  <2>2. QED
    BY <1>1, <1>3, <2>1, VotingUnchanged DEF voting
<1>4. CASE Counts(m.from) /\ vote' = None /\ KickVoted(b.target)
  <2>1. b.target \in Character
    BY <1>1, <1>2, <1>4, BallotStep DEF Vote
  <2>2. /\ members' = members \ {b.target} /\ online' = online \ {b.target}
        /\ indexed' = indexed \ {b.target} /\ UNCHANGED <<status, stopping>>
    BY <1>4 DEF KickVoted, DropMember
  <2>3. leader' \in Character
    BY <1>4, <2>2 DEF KickVoted, SucceedTo, TypeOK
  <2>4. TypeOK' /\ IndexMirrorsMembers'
    BY <1>1, <1>4, <2>2, <2>3 DEF TypeOK, IndexMirrorsMembers, checking
  <2>5. QED
    BY <1>4, <2>4 DEF VoteSound, VoteUndecided, NeededIsHalf
<1>5. CASE UNCHANGED vote /\ Crash
  <2>1. TypeOK' /\ IndexMirrorsMembers'
    BY <1>1, <1>5 DEF TypeOK, IndexMirrorsMembers, Crash, checking
  <2>2. QED
    BY <1>1, <1>5, <2>1, VotingUnchanged DEF voting
<1>6. CASE vote' = None /\ UNCHANGED roster
  <2>1. TypeOK' /\ IndexMirrorsMembers'
    BY <1>1, <1>6 DEF TypeOK, IndexMirrorsMembers, roster, checking
  <2>2. QED
    BY <1>6, <2>1 DEF VoteSound, VoteUndecided, NeededIsHalf
<1>7. CASE /\ Counts(m.from) /\ vote' = b /\ UNCHANGED roster
           /\ Cardinality(b.approvals) < b.needed
           /\ Cardinality(b.approvals) + Cardinality(b.disapprovals) < Cardinality(b.voters)
  <2>1. b \in Vote
    BY <1>1, <1>2, <1>7, BallotStep
  <2>2. TypeOK' /\ IndexMirrorsMembers'
    BY <1>1, <1>7, <2>1 DEF TypeOK, IndexMirrorsMembers, roster, checking
  <2>3. QED
    BY <1>1, <1>2, <1>7, <2>2, BallotKept
<1>8. QED
  BY <1>3, <1>4, <1>5, <1>6, <1>7, VoteKickCases

LEMMA OtherReceivesIInv ==
    ASSUME IInv, VoteKickAfterEnd \/ StartReadyCheck \/ ReadyCheck
    PROVE  IInv'
<1> USE DEF IInv
<1>1. UNCHANGED voting /\ mailbox' \in Seq(Cast)
  BY ReceivedCast DEF VoteKickAfterEnd, StartReadyCheck, ReadyCheck
<1>2. CASE VoteKickAfterEnd
  BY <1>1, <1>2, VotingUnchanged
     DEF VoteKickAfterEnd, Crash, TypeOK, IndexMirrorsMembers, checking, voting
<1>3. CASE StartReadyCheck
  BY <1>1, <1>3, VotingUnchanged
     DEF StartReadyCheck, TypeOK, IndexMirrorsMembers, roster, voting
<1>4. CASE ReadyCheck
  <2>1. Head(mailbox) \in AnswerCast
    BY <1>4, ReceivedCast DEF ReadyCheck
  <2>2. Head(mailbox).from \in Character
    BY <2>1 DEF AnswerCast
  <2>3. ready' \in Seq(Character)
    BY <1>4, <2>2 DEF ReadyCheck, TypeOK
  <2>4. TypeOK' /\ IndexMirrorsMembers'
    BY <1>1, <1>4, <2>3 DEF ReadyCheck, TypeOK, IndexMirrorsMembers, roster, voting
  <2>5. QED
    BY <1>1, <2>4, VotingUnchanged
<1>5. QED
  BY <1>2, <1>3, <1>4

LEMMA TimeoutsIInv ==
    ASSUME IInv, Timeouts
    PROVE  IInv'
<1> USE DEF IInv
<1>1. CASE EndReadyCheck
  <2>1. ready' \in Seq(Character) /\ checkTimers' \in Nat
    BY <1>1 DEF EndReadyCheck, TypeOK
  <2>2. TypeOK' /\ IndexMirrorsMembers' /\ UNCHANGED voting
    BY <1>1, <2>1 DEF EndReadyCheck, TypeOK, IndexMirrorsMembers, roster, voting
  <2>3. QED
    BY <2>2, VotingUnchanged
<1>2. ASSUME NEW id \in voteTimers, EndVoteKick(id)
      PROVE  IInv'
  <2>1. /\ UNCHANGED <<roster, checking, nextVote, mailbox>>
        /\ voteTimers' = voteTimers \ {id}
        /\ (vote' = vote /\ (vote # None => vote.id # id)) \/ vote' = None
    BY <1>2 DEF EndVoteKick
  <2>2. TypeOK' /\ IndexMirrorsMembers'
    BY <2>1 DEF TypeOK, IndexMirrorsMembers, roster, checking
  <2>3. VoteSound'
    BY <2>1 DEF VoteSound
  <2>4. VoteUndecided' /\ NeededIsHalf'
    BY <2>1 DEF VoteUndecided, NeededIsHalf, VotesNeeded
  <2>5. QED
    BY <2>2, <2>3, <2>4
<1>3. CASE Shutdown
  <2>1. TypeOK' /\ IndexMirrorsMembers' /\ UNCHANGED voting
    BY <1>3 DEF Shutdown, TypeOK, IndexMirrorsMembers, checking, voting
  <2>2. QED
    BY <2>1, VotingUnchanged
<1>4. QED
  BY <1>1, <1>2, <1>3 DEF Timeouts

-----------------------------------------------------------------------------
LEMMA CallsIInv ==
    ASSUME IInv, Calls
    PROVE  IInv'
<1> USE DEF IInv
<1>1. UNCHANGED voting
  BY DEF Calls, SetLeader, MemberOffline, UpdateMember, RemoveMember, KickMember
<1>2. RosterInv'
  BY CallsRoster DEF RosterInv
<1>3. QED
  BY <1>1, <1>2, VotingUnchanged DEF RosterInv

LEMMA StepIInv == IInv /\ [Next]_vars => IInv'
<1> SUFFICES ASSUME IInv, [Next]_vars PROVE IInv'
  OBVIOUS
<1>1. CASE Calls
  BY <1>1, CallsIInv
<1>2. CASE Sends
  BY <1>2, SendsIInv
<1>3. CASE Receives
  BY <1>3, StartVoteKickIInv, VoteKickIInv, OtherReceivesIInv DEF Receives
<1>4. CASE Timeouts
  BY <1>4, TimeoutsIInv
<1>5. CASE UNCHANGED vars
  <2>1. TypeOK' /\ IndexMirrorsMembers' /\ UNCHANGED voting
    BY <1>5 DEF IInv, TypeOK, IndexMirrorsMembers, vars, roster, checking, voting
  <2>2. QED
    BY <2>1, VotingUnchanged DEF IInv
<1>6. QED
  BY <1>1, <1>2, <1>3, <1>4, <1>5 DEF Next

LEMMA InvariantIInv == Spec => []IInv
  BY InitIInv, StepIInv, PTL DEF Spec

\* Every variable keeps its type: in particular only members are recorded as
\* online, whatever the order of joins, logouts, kicks and crashes.
THEOREM TypeCorrect == Spec => []TypeOK
<1>1. IInv => TypeOK
  BY DEF IInv
<1>2. QED
  BY <1>1, InvariantIInv, PTL

\* The PartyManager index a relog consults names exactly the party's members.
THEOREM IndexCorrect == Spec => []IndexMirrorsMembers
<1>1. IInv => IndexMirrorsMembers
  BY DEF IInv
<1>2. QED
  BY <1>1, InvariantIInv, PTL

\* An open vote is a fair ballot and has its own timer pending.
\* One of three or more voters is open only while it is undecided.
THEOREM BallotIsOpen == Spec => []BallotOpen
<1>1. IInv => BallotOpen
  BY DEF IInv, BallotOpen
<1>2. QED
  BY <1>1, InvariantIInv, PTL

-----------------------------------------------------------------------------
\* One step of the server never drops the leadership while somebody recorded
\* online is left to take it and the party is not being disbanded.
THEOREM LeadershipIsKept == Spec => LeadershipKept
<1>1. ASSUME TypeOK, [Next]_vars, leader \in members
      PROVE  leader' \in members' \/ stopping' \/ online' = {}
  <2>1. ASSUME NEW c \in Character, NEW d \in Character, SetLeader(c, d)
        PROVE  leader' \in members'
    BY <2>1 DEF SetLeader, InParty
  <2>2. ASSUME NEW c \in Character, MemberOffline(c)
        PROVE  leader' \in members' \/ stopping'
    <3>1. members' = members \cup {c} /\ online' = online \ {c}
      BY <2>2 DEF MemberOffline, PutMember
    <3>2. QED
      BY <1>1, <2>2, <3>1 DEF MemberOffline, SucceedTo, TypeOK
  <2>3. ASSUME NEW c \in Character, UpdateMember(c)
        PROVE  leader' \in members'
    BY <1>1, <2>3 DEF UpdateMember, PutMember
  <2>4. ASSUME NEW c \in Character, RemoveMember(c)
        PROVE  leader' \in members' \/ stopping'
    <3>1. members' = members \ {c} /\ online' = online \ {c}
      BY <2>4 DEF RemoveMember, DropMember
    <3>2. QED
      BY <1>1, <2>4, <3>1 DEF RemoveMember, Disband, SucceedTo, TypeOK
  <2>5. ASSUME NEW c \in Character, NEW d \in Character, KickMember(c, d)
        PROVE  leader' \in members' \/ stopping'
    BY <1>1, <2>5 DEF KickMember, DropMember, Disband
  <2>6. CASE VoteKick
    <3> DEFINE target == vote.target
               b == Ballot(Head(mailbox).from, Head(mailbox).yes)
    <3>1. ASSUME KickVoted(b.target)
          PROVE  leader' \in members' \/ online' = {}
      <4>1. members' = members \ {b.target} /\ online' = online \ {b.target}
        BY <3>1 DEF KickVoted, DropMember
      <4>2. QED
        BY <1>1, <3>1, <4>1 DEF KickVoted, SucceedTo, TypeOK
    <3>2. KickVoted(b.target) \/ UNCHANGED <<leader, members>>
      BY <2>6 DEF VoteKick, Crash, roster
    <3>3. QED
      BY <1>1, <3>1, <3>2
  <2>7. CASE Sends \/ StartVoteKick \/ VoteKickAfterEnd \/ StartReadyCheck
               \/ ReadyCheck \/ Timeouts \/ UNCHANGED vars
    <3>1. UNCHANGED <<leader, members>>
      BY <2>7 DEF Sends, SendStartVote, SendStartCheck, SendAnswer, Send, StartVoteKick,
                  VoteKickAfterEnd, Crash, StartReadyCheck, ReadyCheck, Timeouts,
                  EndReadyCheck, EndVoteKick, Shutdown, roster, vars
    <3>2. QED
      BY <1>1, <3>1
  <2>8. QED
    BY <1>1, <2>1, <2>2, <2>3, <2>4, <2>5, <2>6, <2>7 DEF Next, Calls, Receives
<1>2. TypeOK /\ [Next]_vars =>
        [(leader \in members) => (leader' \in members' \/ stopping' \/ online' = {})]_vars
  BY <1>1
<1>3. QED
  BY <1>2, TypeCorrect, PTL DEF Spec, LeadershipKept

\* The only step that changes both the vote and the members is the deciding
\* answer of an open vote.
LEMMA KickIsDecidingAnswer ==
    ASSUME IInv, [Next]_vars, VoteKickStep
    PROVE  LET m == Head(mailbox)
               b == Ballot(m.from, m.yes)
           IN /\ VoteKick /\ m \in VoteCast /\ vote # None
              /\ Counts(m.from) /\ members' = members \ {b.target}
              /\ Cardinality(b.approvals) >= b.needed
<1> USE DEF IInv
<1>1. ASSUME Calls PROVE FALSE
  BY <1>1 DEF Calls, SetLeader, MemberOffline, UpdateMember, RemoveMember, KickMember,
              voting, VoteKickStep
<1>2. ASSUME Sends \/ Timeouts \/ UNCHANGED vars PROVE FALSE
  BY <1>2 DEF Sends, SendStartVote, SendStartCheck, SendAnswer, Send, Timeouts,
              EndReadyCheck, EndVoteKick, Shutdown, roster, vars, VoteKickStep
<1>3. ASSUME StartVoteKick \/ VoteKickAfterEnd \/ StartReadyCheck \/ ReadyCheck PROVE FALSE
  BY <1>3 DEF StartVoteKick, VoteKickAfterEnd, Crash, StartReadyCheck, ReadyCheck,
              roster, voting, VoteKickStep
<1>4. VoteKick
  BY <1>1, <1>2, <1>3 DEF Next, Receives
<1>5. ~UNCHANGED vote /\ ~UNCHANGED members
  BY DEF VoteKickStep
<1>6. QED
  BY <1>4, <1>5, VoteKickCases DEF Crash, roster, KickVoted, DropMember

\* A vote can remove only its target, on the first answer of one of its voters,
\* and only with half of the voters approving.
LEMMA VoteKickIsBacked ==
    ASSUME IInv, [Next]_vars, VoteKickStep
    PROVE  HalfApprove
<1> DEFINE m == Head(mailbox)
           b == Ballot(m.from, m.yes)
<1>1. /\ m \in VoteCast /\ vote # None /\ Counts(m.from)
      /\ members' = members \ {b.target} /\ Cardinality(b.approvals) >= b.needed
  BY KickIsDecidingAnswer
<1>2. m.from \in Character /\ m.yes \in BOOLEAN /\ vote \in Vote
  BY <1>1 DEF VoteCast, IInv, TypeOK
<1>3. /\ b \in Vote /\ b.target = vote.target /\ b.needed = vote.needed
      /\ b.approvals = IF m.yes THEN vote.approvals \cup {m.from} ELSE vote.approvals
  BY <1>1, <1>2, BallotStep DEF IInv
<1>4. vote.needed = (Cardinality(vote.voters) + 1) \div 2
  BY <1>1 DEF IInv, NeededIsHalf, VotesNeeded
<1>5. /\ vote.approvals \cup {m.from} \in SUBSET Character
      /\ Cardinality(b.approvals) \in Nat /\ Cardinality(vote.voters) \in Nat
      /\ Cardinality(vote.approvals \cup {m.from}) \in Nat
      /\ Cardinality(vote.approvals \cup {m.from}) >= Cardinality(b.approvals)
  <2>1. vote.approvals \cup {m.from} \in SUBSET Character
    BY <1>2 DEF Vote
  <2>2. IsFiniteSet(vote.approvals \cup {m.from})
    BY <2>1, CharacterSets
  <2>3. b.approvals \subseteq vote.approvals \cup {m.from}
    BY <1>3
  <2>4. b.approvals \in SUBSET Character /\ vote.voters \in SUBSET Character
    BY <1>2, <1>3 DEF Vote
  <2>5. Cardinality(b.approvals) <= Cardinality(vote.approvals \cup {m.from})
    BY <2>2, <2>3, FS_Subset
  <2>6. QED
    BY <2>1, <2>4, <2>5, CharacterSets
<1>6. 2 * Cardinality(vote.approvals \cup {m.from}) >= Cardinality(vote.voters)
  BY <1>1, <1>3, <1>4, <1>5
<1>7. QED
  BY <1>1, <1>3, <1>6 DEF Counts, HalfApprove

\* With three voters or more the answer that completes a kick is an approval:
\* a refusal leaves the approvals as they were, and those had not decided.
LEMMA NoKickByRefusal ==
    ASSUME IInv, [Next]_vars, VoteKickStep, Cardinality(vote.voters) > 2
    PROVE  Head(mailbox).yes
<1> DEFINE m == Head(mailbox)
           b == Ballot(m.from, m.yes)
<1>1. /\ m \in VoteCast /\ vote # None /\ Counts(m.from)
      /\ Cardinality(b.approvals) >= b.needed
  BY KickIsDecidingAnswer
<1>2. m.from \in Character /\ m.yes \in BOOLEAN /\ vote \in Vote
  BY <1>1 DEF VoteCast, IInv, TypeOK
<1>3. /\ b.needed = vote.needed
      /\ b.approvals = IF m.yes THEN vote.approvals \cup {m.from} ELSE vote.approvals
  BY <1>1, <1>2, BallotStep DEF IInv
<1>4. Cardinality(vote.approvals) < vote.needed
  BY <1>1 DEF IInv, VoteUndecided
<1>5. Cardinality(vote.approvals) \in Nat /\ vote.needed \in Nat
  BY <1>2, CharacterSets DEF Vote
<1>6. QED
  BY <1>1, <1>2, <1>3, <1>4, <1>5

\* A kick by vote has half of the voters behind it, and a fresh answer of one of
\* them that, with three or more, is an approval.
THEOREM KickIsBacked == Spec => KickBacked
<1> DEFINE backed == /\ HalfApprove
                     /\ Cardinality(vote.voters) > 2 => Head(mailbox).yes
<1>1. IInv /\ [Next]_vars => [VoteKickStep => backed]_vars
  BY VoteKickIsBacked, NoKickByRefusal
<1>2. QED
  BY <1>1, InvariantIInv, PTL DEF Spec, KickBacked
=============================================================================
