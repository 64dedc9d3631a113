CONSTANTS
    Meshes <- MCMeshes
    Filters <- MCFilters
    Distance <- MCDistance
    HashRef <- MCHashRef
    NoRef = 0
    PoolSizes = {16}
    PathSizes = {8}
    CellSize = 3
    TileSize = 16
SPECIFICATION RouteSpec
INVARIANTS RouteEndsClosest
