SPECIFICATION Spec
CONSTANTS
    s1 = s1
    s2 = s2
    p1 = p1
    p2 = p2
    Sessions <- MCSessions
    Pids <- MCPids
    Keys = {bind, uid}
    Values = {default, other}
    DefaultValue = default
    NoKey = NoKey
    Absent = Absent
    Torn = Torn
SYMMETRY Symmetry
INVARIANTS
    TypeOK
    OneServer
    SettingsKept
    InstalledIsUsable
    RemovedIsGone
