SPECIFICATION Spec
CONSTANTS
    svcA = svcA
    svcB = svcB
    svcC = svcC
    svcD = svcD
    svcP = svcP
    ifaceA = ifaceA
    NoOne = NoOne
    MaxDepth = 256
    Goroutines = {g1, g2}
    Types = {svcA, svcB}
    Singletons = {svcA, svcB}
    Transients = {}
    Scopeds = {}
    Provided <- NoAlias
    Alias <- NoAlias
    Args <- PairArgs
    Calls <- PairCalls
    MayFail = {svcA}
    MayPanic = {}
    LateGiven = {}
SYMMETRY Symmetric
INVARIANT NoFalseCircle
