SPECIFICATION Spec
CONSTANTS
    Goals <- MCGoals
    Turn = 8
    GoalDist = 1
    GoalAngle = 2
    ForceSteps <- MCForceSteps
    Dt = 1
    Pauses <- MCPauses
    Delays <- MCDelays
    MaxConfigure = 2
    MaxSteps = 4
INVARIANTS
    TypeOK
    MeasurementFresh
    TrajectoryRenewed
    WarmStartNearGoal
    OneConfiguration
CHECK_DEADLOCK FALSE
