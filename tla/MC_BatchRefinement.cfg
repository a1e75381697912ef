\* Two concurrent batches without store faults or handler exceptions.
CONSTANTS
    h1 = h1  k1 = k1  v1 = v1  v2 = v2  d1 = d1
    BadType = BadType  BadItems = BadItems  NoBody = NoBody  NoResponse = NoResponse
    q1 = q1  q2 = q2
    Requests = {q1, q2}
    Hosts <- RefHosts
    Keys <- RefKeys
    Vals <- RefVals
    Deps <- RefDeps
    Unencodable = {}
    Bodies <- RefBodies
    MaxFaults = 0
SPECIFICATION Spec
PROPERTY ImplementsBatchSpec
CHECK_DEADLOCK FALSE
