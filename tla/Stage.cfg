SPECIFICATION Spec
CONSTANTS
    Trajectories <- MCTrajectories
    Cells <- MCCells
    Converted <- MCConverted
    Customs <- MCCustoms
    ViaLists <- MCViaLists
    BehindSq = 4
    ForceSq = 1
    CutoffSq = 5
    Shift <- MCShift
    LimitSets <- MCLimitSets
INVARIANTS
    TypeOK
    EdgesFit
    NearestConsidered
    ViaPointsInOrder
    VelocityBelongs
