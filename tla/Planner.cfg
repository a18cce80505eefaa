SPECIFICATION FairSpec
CONSTANTS
    p1 = p1
    v1 = v1
    o1 = o1
    c1 = c1
    c2 = c2
    Plans <- MCPlans
    Paths <- MCPaths
    ObstacleMsgs <- MCObstacleMsgs
    CheckParams <- MCCheckParams
    MaxInfeasible = 2
INVARIANTS
    TypeOK
    LockDiscipline
    NoDanglingViaPoint
    ObstaclesOfThisCall
    GoalOnlyAtRest
PROPERTIES
    InputsFrozen
    ImplementsContract
    ComputeReturns
