\* One orphan delete, naming a node that is not a cluster, with no store fault.
CONSTANTS
    e1 = e1  c1 = c1  c2 = c2  h1 = h1  q1 = q1  q2 = q2
    NoResponse = NoResponse
    Envs = {e1}
    Clusters = {c1, c2}
    Hosts = {h1}
    Requests = {q1}
    Handlers = {"ClusterOrphansDetail_delete"}
    MaxFaults = 0
SPECIFICATION Spec
INVARIANT OrphanDeleteTruthful
CHECK_DEADLOCK FALSE
