SPECIFICATION FairSpec
CONSTANTS
    d1 = d1
    d2 = d2
    w1 = w1
    w2 = w2
    g1 = g1
    Loader = Loader
    Device = {d1, d2}
    Wq = {w1, w2}
    DevOf <- MCDevOf
    MaxClients = 1
    Process = {Loader}
    NoObject = NoObject
    UnknownDriver = {}
    Part = {g1}
    PartOf <- MCPartOf
    IdOf <- MCIdOf
    KindOf <- MCKindOf
    File <- MCFile
    Option <- MCOption
INVARIANTS
    WritesInBlock
    LoadedMeansEnabled
    NothingEnabledEarly
    DeviceBeforeWq
PROPERTIES
    LoadEnds
CHECK_DEADLOCK FALSE
