SPECIFICATION Spec
CONSTANTS
    d1 = d1
    d2 = d2
    g1 = g1
    g2 = g2
    h1 = h1
    h2 = h2
    h3 = h3
    w1 = w1
    w2 = w2
    v1 = v1
    e1 = e1
    Device = {d1, d2}
    Wq = {w1, w2, v1}
    DevOf <- MCDevOf
    MaxClients = 1
    Group = {g1, g2, h1, h2, h3}
    Engine = {e1}
    DeviceSeq <- MCDeviceSeq
    GroupSeq <- MCGroupSeq
    WqSeq <- MCWqSeq
    EngineSeq <- MCEngineSeq
    MaxGroups <- MCMaxGroups
    NoGroup = NoGroup
    BadName = BadName
    Option <- MCOption
    MaxOther = 1
INVARIANTS
    InOwnGroup
    ListingComplete
    FoundMeansListed
CHECK_DEADLOCK FALSE
