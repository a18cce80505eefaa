SPECIFICATION Spec
CONSTANTS
    Poses <- MCPoses
    Half = 144
    NMax = 4
    Plans <- MCPlans
    DtRef = 2
    Dts <- MCDts
    MaxMoves = 2
    Radius = 10
    MinAngle = 70
    LookAheads <- MCLookAheads
    Obstacles <- MCObstacles
INVARIANTS
    TypeOK
    SampledNoFaster
    ControlsInOrder
    NothingJumpedOver
PROPERTIES
    ShiftedTogether
