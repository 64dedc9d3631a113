CONSTANTS
    None = None
    Player = {p1}
    Field = {f1}
    Effect = {"chill", "frozen", "marker", "thaw"}
    SkillEffect = {}
    Persistent = {"tonic"}
    Unlimited = {"badge"}
    KeepsEnd = {}
    Ticking = {"burn"}
    Duration <- MCDuration
    Delay <- MCDelay
    Interval <- MCInterval
    MaxCount <- MCMaxCount
    Cancels <- MCCancels
    Fires <- MCFires
    Overlaps <- MCOverlaps
    Offset <- MCOffset
    Amounts <- MCAmounts
    Base <- MCBase
    MaxIds = 4
    MaxTime = 2
    MaxDelay = 1
    MaxRefreshes = 0
    MaxMoves = 0
    p1 = p1
    f1 = f1
SPECIFICATION Spec
INVARIANTS Ledger
PROPERTIES NoEarlyEnd
CHECK_DEADLOCK FALSE
