SPECIFICATION FairSpec
CONSTANTS
    svcA = svcA
    svcB = svcB
    svcC = svcC
    svcD = svcD
    svcP = svcP
    ifaceA = ifaceA
    NoOne = NoOne
    MaxDepth = 256
    Goroutines = {g1, g2}
    Types = {svcA, svcB, svcC, svcD, svcP}
    Singletons = {svcA, svcB}
    Transients = {svcD}
    Scopeds = {svcC}
    Provided <- LayerProvided
    Alias <- NoAlias
    Args <- LayerArgs
    Calls <- LayerCalls
    MayFail = {svcA, svcC}
    MayPanic = {svcC}
    LateGiven = {svcA}
 
INVARIANT InstancesInDependencyOrder
PROPERTY ResolveReturns
