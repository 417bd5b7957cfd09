SPECIFICATION Spec
CONSTANTS
    d1 = d1
    d2 = d2
    w1 = w1
    w2 = w2
    g1 = g1
    Loader = Loader
    Device = {d1}
    Wq = {w1}
    DevOf <- OneDevOf
    MaxClients = 1
    Process = {Loader}
    NoObject = NoObject
    UnknownDriver = {}
    Part = {}
    PartOf <- NoParts
    IdOf <- OneIdOf
    KindOf <- OneKindOf
    File <- OneFile
    Option <- MCOption
INVARIANTS
    ActiveWqSkipped
CHECK_DEADLOCK FALSE
