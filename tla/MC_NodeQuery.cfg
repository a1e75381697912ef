\* A node GET answers the projection spec.md 4.2 prescribes.
CONSTANTS
    a = a
    b = b
    Absent = Absent
    NoResponse = NoResponse
    Names = {a, b}
    MaxChildren = 2
    MAX_DEPTH = 1000
    RawDepths <- MCRawDepths

SPECIFICATION Spec

INVARIANT TypeOK
INVARIANT ViewMatchesSpec

\* One request per behaviour: once it is answered nothing is left to do.
CHECK_DEADLOCK FALSE
