SPECIFICATION Spec
CONSTANTS
    p1 = p1
    p2 = p2
    d1 = d1
    d2 = d2
    g1 = g1
    g2 = g2
    w1 = w1
    w2 = w2
    e1 = e1
    Process = {p1, p2}
    Device = {d1, d2}
    Group = {g1, g2}
    Wq = {w1, w2}
    Engine = {e1}
    DevOf <- MCDevOf
    Limit <- MCLimit
    Missing <- MCMissing
    KnownDriver = {"user"}
    BadName = BadName
    Command <- MCCommand
    Pow2 <- MCPow2
    IntMax = 131071
INVARIANTS
    SettingStands
    AppliedPrefix
    WithinLimits
    CacheCoherent
CHECK_DEADLOCK FALSE
