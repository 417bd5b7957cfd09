SPECIFICATION Spec
CONSTANTS
    p1 = p1
    p2 = p2
    d1 = d1
    d2 = d2
    Process = {p1, p2}
    Device = {d1, d2}
    DeviceDir <- MCDeviceDir
    Code <- MCCode
    MaxFail = 2
SYMMETRY MCSymmetry
INVARIANTS
    ErrorNotLost
    LastDeviceNotStale
    TextUnlessHole
CHECK_DEADLOCK FALSE
