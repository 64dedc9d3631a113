CONSTANTS
    NoRef = 0
    Data <- MCData
    MaxTiles = 3
    Salts = 4
    TileNumbers = 4
    PolyNumbers = 4
    MaxCon = 2
    MaxNeis = 2
    Marks = {0}
    MaxHeld = 4
    Marked = {"yard"}
SPECIFICATION Spec
INVARIANTS SlotsOK LinksAsIfFresh LinksMutual HeldRefs StartsWhereOneIs
