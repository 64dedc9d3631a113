CONSTANTS
    c1 = c1
    c2 = c2
    c3 = c3
    None = None
    Character = {c1, c2, c3}
    MaxMembers = 3
    VoteMinimum = 3
    MaxVotes = 2
    MaxChecks = 0
    MaxAnswers = 0
    MaxMailbox = 1
SPECIFICATION FairSpec
PROPERTIES VoteEnds
CHECK_DEADLOCK FALSE
