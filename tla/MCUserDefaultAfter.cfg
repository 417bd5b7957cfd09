SPECIFICATION Spec
CONSTANTS
    d1 = d1
    d2 = d2
    w1 = w1
    w2 = w2
    t = t
    Tool = t
    Process = {t}
    Device = {d1}
    Wq = {w1, w2}
    DevOf <- OneDevOf
    DevSeq <- OneDevSeq
    WqSeq <- OneWqSeq
    TypeOf <- OneType
    MaxClients = 1
    NoObject = NoObject
    UnknownDriver = {}
    Run = {"disable"}
    MaxOther = 0
PROPERTIES
    DeviceAfterWqs
CHECK_DEADLOCK FALSE
