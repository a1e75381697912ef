\* Flat and clustered renders of environments with distinct node names,
\* through both render views with every combination of the two flags.
CONSTANTS
    n0 = n0  n1 = n1  n2 = n2  n11 = n11  n12 = n12  n21 = n21  n22 = n22
    Names = {n0, n1, n2, n11, n12, n21, n22}
    MaxChildren = 2
    StoredTrees <- DistinctTrees
    Absent = Absent
    NoResponse = NoResponse
SPECIFICATION Spec
INVARIANT TypeOK FlatRenderMatchesSpec GroupedRenderMatchesSpec
