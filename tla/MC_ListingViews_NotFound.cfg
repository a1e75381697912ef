\* NotFoundMeansAbsent: expected to be violated by the read-only views.
CONSTANTS
    x = x
    w = w
    y = y
    z = z
    u = u
    ArgWords <- MCArgWords
    MaxSkip = 1
    Hosts = {h}
    Top = Top
    NoParent = NoParent
    Absent = Absent
    NoResponse = NoResponse
    EnvNames <- MCEnvNames
    ClusterNames <- MCClusterNames
SPECIFICATION Spec
INVARIANT NotFoundMeansAbsent
