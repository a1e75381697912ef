CONSTANTS
    x = x
    w = w
    y = y
    z = z
    u = u
    ArgWords <- MCArgWords
    MaxSkip = 1
    Hosts = {h}
    Top = Top
    NoParent = NoParent
    Absent = Absent
    NoResponse = NoResponse
    EnvNames <- MCEnvNames
    ClusterNames <- MCClusterNames
SPECIFICATION Spec
INVARIANTS
    TypeOK
    ListingsMatchStore
    RouteReachesView
