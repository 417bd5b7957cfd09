SPECIFICATION FairSpec
CONSTANTS
    d1 = d1
    d2 = d2
    g1 = g1
    g2 = g2
    w1 = w1
    w2 = w2
    e1 = e1
    Device = {d1, d2}
    Group = {g1, g2}
    Wq = {w1, w2}
    Engine = {e1}
    DeviceDir <- MCDeviceDir
    GroupDir <- MCGroupDir
    WqDir <- MCWqDir
    EngineDir <- MCEngineDir
    NoGroup = NoGroup
    MaxRef = 2
    MaxScan = 2
INVARIANTS
    ListedOnce
    HeapIsListed
    GroupsLive
PROPERTY
    WalkEnds
