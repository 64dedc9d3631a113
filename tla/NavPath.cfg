CONSTANTS
    Meshes <- MCMeshes
    Filters <- MCFilters
    NoRef = 0
    Distance <- MCDistance
    HashRef <- MCHashRef
    PoolSizes = {5, 8}
    PathSizes = {3, 8}
SPECIFICATION FairSpec
CHECK_DEADLOCK FALSE
INVARIANTS NodesOK Rooted PathLinked Complete
PROPERTIES Refines FindEnds
