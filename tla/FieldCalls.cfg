CONSTANTS
    c1 = c1
    c2 = c2
    None = None
    Character = {c1, c2}
    MaxStarts = 2
    MaxLogins = 3
    MaxCasts = 1
SPECIFICATION FairSpec
INVARIANTS Deadline NoLostCall OnField
PROPERTIES LogoutEnds
CHECK_DEADLOCK FALSE
