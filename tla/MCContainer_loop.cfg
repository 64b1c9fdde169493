SPECIFICATION Spec
CONSTANTS
    svcA = svcA
    svcB = svcB
    svcC = svcC
    svcD = svcD
    svcP = svcP
    ifaceA = ifaceA
    NoOne = NoOne
    MaxDepth = 256
    Goroutines = {g1, g2, g3}
    Types = {svcA, svcB, svcC}
    Singletons = {svcA, svcB, svcC}
    Transients = {}
    Scopeds = {}
    Provided <- NoAlias
    Alias <- LoopAlias
    Args <- LoopArgs
    Calls <- LoopCalls
    MayFail = {svcB}
    MayPanic = {}
    LateGiven = {}
SYMMETRY Symmetric
INVARIANT OneBuilder
INVARIANT NoWaitCycle
INVARIANT WalkIsReachability
INVARIANT BlockedHasBuilder
