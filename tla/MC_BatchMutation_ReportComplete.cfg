\* ReportComplete: expected to be violated by ClusterInfo.post.
CONSTANTS
    h1 = h1
    h2 = h2
    k1 = k1
    v1 = v1
    v2 = v2
    d1 = d1
    BadType = BadType
    BadItems = BadItems
    NoBody = NoBody
    NoResponse = NoResponse
    Requests = {q1}
    Hosts <- MCHosts
    Keys <- MCKeys
    Vals <- MCVals
    Deps <- MCDeps
    Unencodable <- MCUnencodable
    Bodies <- MCBodies
    MaxFaults = 1

SPECIFICATION Spec

INVARIANT ReportComplete


\* The model has a finite set of requests; once each is answered the
\* system has nothing left to do.
CHECK_DEADLOCK FALSE
