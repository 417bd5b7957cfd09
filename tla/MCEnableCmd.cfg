SPECIFICATION FairSpec
CONSTANTS
    d1 = d1
    w1 = w1
    w2 = w2
    p1 = p1
    p2 = p2
    Device = {d1}
    Wq = {w1, w2}
    DevOf <- MCDevOf
    MaxClients = 1
    Process = {p1, p2}
    NoObject = NoObject
    UnknownDriver = {w2}
    AllName = AllName
    BadName = BadName
    Command <- MCCommand
    NoRequest = NoRequest
INVARIANTS
    TypeOK
    NoStolenCredit
    OutcomeStands
    ExitStatusSound
PROPERTIES
    ClientsSpared
    ImplementsService
    CommandsEnd
CHECK_DEADLOCK FALSE
