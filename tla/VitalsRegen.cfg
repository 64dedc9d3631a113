CONSTANTS
    h1 = h1
    b1 = b1
    b2 = b2
    None = None
    BaseHealth = 4
    Damage = {1, 3}
    Heal = {2}
    Regen = 3
    Buff = {b1, b2}
    BuffHealth = 2
    Handler = {}
    HitPerDeath = 2
    MaxDeadCount = 2
    NoRevivalHere = FALSE
    DeathPenalty = TRUE
    ReturnsElsewhere = TRUE
    InstantMax = 1
    MaxHurts = 4
    MaxRevives = 1
SPECIFICATION FairSpec
INVARIANTS HealthBounded
PROPERTIES RegenFills
