SPECIFICATION Spec
CONSTANTS
    s1 = s1
    s2 = s2
    g1 = g1
    g2 = g2
    d1 = d1
    d2 = d2
    Starts <- MCStarts
    Goals <- MCGoals
    Dims <- MCDims
    FinalTimes <- MCFinalTimes
    NLimit = 5
    NMin = 2
    NMax = 4
    DtRef = 12
    HystNum = 1
    HystDen = 4
PROPERTIES
    InitialSizeAsserted
