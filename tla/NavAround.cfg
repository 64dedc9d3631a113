CONSTANTS
    Meshes <- MCMeshes
    Filters <- MCFilters
    Distance <- MCDistance
    HashRef <- MCHashRef
    Shapes <- MCShapes
    NoRef = 0
    PoolSizes = {4, 16}
    Radii = {2, 6, 9}
    ResultSizes = {2, 8}
    Goals <- MCGoals
    Rolls = {0, 50, 99}
    CellSize = 3
    TileSize = 16
    TinySizes = {4, 64}
    Aims <- MCAims
    Places <- MCPlaces
    Extents <- MCExtents
SPECIFICATION QueriesFairSpec
INVARIANTS NodesOK ResultsOrdered AroundComplete WallNearest PathsBack PullsTaut NeighbourhoodApart MovesNearest RaysStopAtWalls NearestFound
PROPERTIES AroundEnds
