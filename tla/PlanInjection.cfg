SPECIFICATION Spec
CONSTANTS
    Positions <- MCPositions
    Plans <- MCPlans
    PruneSq = 2
    ReachSq = 5
    MaxLength = 3
    ViaSepSq = 3
    ToleranceSq = 1
    MovingAverage = 3
PROPERTIES
    InjectedOnlyNearGoal
