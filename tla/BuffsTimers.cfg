CONSTANTS
    None = None
    Player = {p1}
    Field = {f1}
    Effect = {"burn", "boost", "tonic"}
    SkillEffect = {"boost"}
    Persistent = {"tonic"}
    Unlimited = {"badge"}
    KeepsEnd = {}
    Ticking = {"burn"}
    Duration <- MCDuration
    Delay <- MCDelay
    Interval <- MCInterval
    MaxCount <- MCMaxCount
    Cancels <- MCCancels
    Fires <- MCFires
    Overlaps <- MCOverlaps
    Offset <- MCOffset
    Amounts <- MCOneAmount
    Base <- MCBase
    MaxIds = 3
    MaxTime = 2
    MaxDelay = 1
    MaxRefreshes = 1
    MaxMoves = 1
    p1 = p1
    f1 = f1
SPECIFICATION FairSpec
INVARIANTS EndsCome
PROPERTIES BuffsExpire
CHECK_DEADLOCK FALSE
