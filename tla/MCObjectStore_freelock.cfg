SPECIFICATION Spec
CONSTANTS
    writer = writer
    other = other
    admin = admin
    d1 = d1
    d2 = d2
    d3 = d3
    d4 = d4
    d5 = d5
    None = None
    Callers = {writer, other, admin}
    Inodes = {i1, i2, i3, i4, i5}
    DataFiles = {d1, d2, d3, d4}
    InitialObjects = {None}
    Asks <- RacingAsk
    MaxCalls <- RacingCalls
    MayCrash = {}
    MaxCrashes = 0
PROPERTY HeldFileStays
CHECK_DEADLOCK FALSE
