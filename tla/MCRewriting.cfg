SPECIFICATION Spec
CONSTANTS
    W = 2
    ControlPlaneTypes <- TypesOfControlPlane
    DataPlaneTypes <- TypesOfDataPlane
    MuxExpressions <- NestedMuxes
    DataPlaneExpressions <- OfBothPlanes
    ReducedExpressions <- TwoLevels
INVARIANTS
    RewritingKeepsValue
    CollapseKeepsOutcomes
    ErrorsAreReal
CHECK_DEADLOCK FALSE
