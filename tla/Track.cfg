SPECIFICATION TrackSpec
CONSTANTS
    Positions <- MCPositions
    Plans <- MCPlans
    PruneSq = 4
    ReachSq = 16
    MaxLength = 3
    ViaSepSq = 0
    ToleranceSq = 1
    MovingAverage = 3
PROPERTIES
    ReachesGoal
