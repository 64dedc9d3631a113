CONSTANTS
    c1 = c1
    c2 = c2
    c3 = c3
    c4 = c4
    None = None
    Character = {c1, c2, c3, c4}
    MaxMembers = 3
    VoteMinimum = 3
    MaxVotes = 2
    MaxChecks = 1
    MaxAnswers = 1
    MaxMailbox = 1
SYMMETRY Symmetry
SPECIFICATION Spec
INVARIANTS IndexMirrorsMembers BallotOpen
PROPERTIES LeadershipKept KickBacked
CHECK_DEADLOCK FALSE
