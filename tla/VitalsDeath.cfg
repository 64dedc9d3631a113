CONSTANTS
    h1 = h1
    b1 = b1
    b2 = b2
    None = None
    BaseHealth = 3
    Damage = {2, 3}
    Heal = {2}
    Regen = 2
    Buff = {}
    BuffHealth = 2
    Handler = {h1}
    HitPerDeath = 2
    MaxDeadCount = 2
    NoRevivalHere = FALSE
    DeathPenalty = TRUE
    ReturnsElsewhere = FALSE
    InstantMax = 1
    MaxHurts = 3
    MaxRevives = 1
SPECIFICATION Spec
INVARIANTS RegenChain TombstoneFollowsDeath
PROPERTIES ReviveIsWhole
