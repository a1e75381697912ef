----------------------------- MODULE ListingViews -----------------------------
(***************************************************************************)
(* The read-only views of views.py, reached through the routes of        *)
(* urls.py (Routing): each answers one GET with at most one store call    *)
(* and a pure transformation of its result.                               *)
(*   EnvList.get (50-52) and DotAllEnvView.get (664-677),                  *)
(*   EnvClusterList.get (111-130), ClusterClusterList.get (419-429),       *)
(*   EnvClusterOrphansList.get (461-471), ClusterOrphansList.get (476-489),*)
(*   ClusterOrphansDetail.get (493-497), HostOrphansList.get (519-524),    *)
(*   HostOrphansDetail.get (528-532), HostsList.get (556-560),             *)
(*   ExpressionView (592-610), the constant and 'pass' views (455-457,     *)
(*   614-660, 795-803), LegacyListView.get and LegacyExpandView.get        *)
(*   (808-841).  HostsDetail has no route and no request reaches it.       *)
(*                                                                         *)
(* The store (spec.md 6) holds environments, clusters in an environment's  *)
(* namespace, each with a parent (its environment, another cluster, or    *)
(* none: an orphan), and hosts, each in a cluster or an orphan.  A name   *)
(* is the sequence of its '#'-separated segments: the store qualifies a   *)
(* cluster as env#cluster, and the orphan views take that string apart    *)
(* with index('#') and startswith.  Any store call may raise a fault.     *)
(***************************************************************************)
EXTENDS Routing, SequencesExt, FiniteSets

CONSTANTS
    EnvNames,       \* environment names (segment sequences)
    ClusterNames,   \* cluster names (segment sequences)
    Hosts,          \* host names
    Top, NoParent, Absent, NoResponse

VARIABLES
    envs,       \* the environments
    parentOf,   \* env/cluster key -> Absent | Top (the environment) | NoParent | parent cluster
    hostIn,     \* host -> Absent | NoParent | the key of its cluster
    req,        \* the last request
    resp        \* its answer

vars == <<envs, parentOf, hostIn, req, resp>>

Keys == EnvNames \X ClusterNames

\* URL arguments match [a-zA-Z0-9_]+ (urls.py 31-54): a single segment.
UrlEnvs == {e \in EnvNames : Len(e) = 1}
UrlClusters == {c \in ClusterNames : Len(c) = 1}

\* A store the API can build: clusters live in an existing environment,
\* a parent cluster exists in the same environment, no cluster is its own
\* parent's parent (every cycle, with two cluster names per environment),
\* and a host's cluster exists.
StoreStates ==
    {s \in [envs : SUBSET EnvNames,
            parentOf : [Keys -> {Absent, Top, NoParent} \cup ClusterNames],
            hostIn : [Hosts -> {Absent, NoParent} \cup Keys]] :
       /\ \A k \in Keys : s.parentOf[k] # Absent => k[1] \in s.envs
       /\ \A k \in Keys : s.parentOf[k] \in ClusterNames =>
             /\ s.parentOf[k] # k[2]
             /\ s.parentOf[<<k[1], s.parentOf[k]>>] \notin {Absent, k[2]}
       /\ \A h \in Hosts : s.hostIn[h] \in Keys => s.parentOf[s.hostIn[h]] # Absent}

\* Range.find_orphaned_nodes: (type, qualified name) of each parentless node.
Orphans ==
    {[type |-> "CLUSTER", qn |-> k[1] \o k[2]] : k \in {k \in Keys : parentOf[k] = NoParent}}
    \cup {[type |-> "HOST", qn |-> <<h>>] : h \in {h \in Hosts : hostIn[h] = NoParent}}

\* The children of cluster k as expand_cluster returns them, with types.
Children(k) ==
    {[type |-> "CLUSTER", name |-> j[2]] : j \in {j \in Keys : j[1] = k[1] /\ parentOf[j] = k[2]}}
    \cup {[type |-> "HOST", name |-> <<h>>] : h \in {h \in Hosts : hostIn[h] = k}}

Exists(k) == parentOf[k] # Absent

Answer(code, body) == [code |-> code, body |-> body]
Status(code) == [code |-> code]
-----------------------------------------------------------------------------
Init ==
    /\ \E s \in StoreStates : envs = s.envs /\ parentOf = s.parentOf /\ hostIn = s.hostIn
    /\ req = NoResponse
    /\ resp = NoResponse

\* A request for view r.view arrives by one of its routes; the handler
\* runs only if the route's keyword arguments bind its parameters, and
\* otherwise the call raises TypeError: a 500.  In each view, \E fault
\* chooses whether its store call raises.
View(r, answer) ==
    \E i \in RoutesTo(r.view) :
        /\ req' = [route |-> i] @@ r
        /\ resp' = IF Binds(i) THEN answer ELSE Status(500)
        /\ UNCHANGED <<envs, parentOf, hostIn>>

\* EnvList.get: all_environments outside any try.
EnvListGet ==
    \E fault \in BOOLEAN :
        View([view |-> "EnvList"], IF fault THEN Status(500) ELSE Answer(200, envs))

\* DotAllEnvView.get, reached through its subclass DotTopologyView: the same.
DotAllEnvGet ==
    \E fault \in BOOLEAN :
        View([view |-> "DotTopologyView"], IF fault THEN Status(500) ELSE Answer(200, envs))

\* TopView is not routed; OrphansView.get and DotView.get answer a constant
\* list (OrphansView.get(self, format=None) takes the request as format).
ConstantListGet ==
    \E v \in {"OrphansView", "DotView"} : View([view |-> v], Status(200))

\* The Graph views and DotDependencyClusterView have 'pass' bodies, and the
\* DotDependencyView routed is the one of line 795: their get returns None,
\* which the framework rejects with a 500.
StubGet ==
    \E v \in {"GraphCommonAncestor", "GraphBFSParents", "GraphDFSParents", "GraphTopsort",
              "DotDependencyView", "DotDependencyClusterView"} :
        View([view |-> v], Status(500))

\* EnvClusterList.get: all=true lists all_clusters(env); otherwise the
\* CLUSTER children of expand_env(env); any exception is a 404.
EnvClusterListGet ==
    \E e \in UrlEnvs, all \in BOOLEAN, fault \in BOOLEAN :
        View([view |-> "EnvClusterList", env |-> e, all |-> all],
             IF fault \/ e \notin envs THEN Status(404)
             ELSE IF all THEN Answer(200, {k[2] : k \in {k \in Keys : k[1] = e /\ Exists(k)}})
             ELSE Answer(200, {k[2] : k \in {k \in Keys : k[1] = e /\ parentOf[k] = Top}}))

\* Bug variant of ClusterClusterListGet (mutation check of ListingsMatchStore):
\* the children listed without the test c['type'] == 'CLUSTER'.
ClusterClusterListUnfiltered ==
    \E e \in UrlEnvs, c \in UrlClusters, fault \in BOOLEAN :
        View([view |-> "ClusterClusterList", env |-> e, cluster |-> c],
             IF fault \/ ~Exists(<<e, c>>) THEN Status(404)
             ELSE Answer(200, {ch.name : ch \in Children(<<e, c>>)}))

\* ClusterClusterList.get: the CLUSTER children of expand_cluster(env, cluster).
ClusterClusterListGet ==
    \E e \in UrlEnvs, c \in UrlClusters, fault \in BOOLEAN :
        View([view |-> "ClusterClusterList", env |-> e, cluster |-> c],
             IF fault \/ ~Exists(<<e, c>>) THEN Status(404)
             ELSE Answer(200, {ch.name : ch \in {ch \in Children(<<e, c>>) : ch.type = "CLUSTER"}}))

\* Bug variant of EnvClusterOrphansGet (mutation check of TypeOK): the
\* whole qualified name o[1] used as the key instead of its env part.
EnvClusterOrphansWholeName ==
    \E fault \in BOOLEAN :
        View([view |-> "EnvClusterOrphansList"],
             IF fault THEN Status(500)
             ELSE Answer(200, {o.qn : o \in {o \in Orphans : o.type = "CLUSTER"}}))

\* EnvClusterOrphansList.get: the text before the first '#' of each orphan
\* cluster, sorted and without repeats.  Its except clause evaluates
\* "error" + e, a TypeError: a store fault ends in 500.
EnvClusterOrphansGet ==
    \E fault \in BOOLEAN :
        View([view |-> "EnvClusterOrphansList"],
             IF fault THEN Status(500)
             ELSE Answer(200, {<<o.qn[1]>> : o \in {o \in Orphans : o.type = "CLUSTER"}}))

\* ClusterOrphansList.get: the text after the first '#' of each orphan
\* cluster whose name starts with env + '#'; a fault ends in 500 as above.
ClusterOrphansGet ==
    \E e \in UrlEnvs, fault \in BOOLEAN :
        View([view |-> "ClusterOrphansList", env |-> e],
             IF fault THEN Status(500)
             ELSE Answer(200, {Tail(o.qn) : o \in {o \in Orphans : o.type = "CLUSTER" /\ IsStrictPrefix(e, o.qn)}}))

\* ClusterOrphansDetail.get: expand_cluster(env, cluster), orphan or not.
ClusterOrphanDetailGet ==
    \E e \in UrlEnvs, c \in UrlClusters, fault \in BOOLEAN :
        View([view |-> "ClusterOrphansDetail", env |-> e, cluster |-> c],
             IF fault \/ ~Exists(<<e, c>>) THEN Status(404) ELSE Answer(200, <<e, c>>))

\* HostOrphansList.get: the HOST orphans; any exception is a 404.  Its
\* get(self, req, env) is routed with no env (urls.py 53): it never runs.
HostOrphansGet ==
    \E fault \in BOOLEAN :
        View([view |-> "HostOrphansList"],
             IF fault THEN Status(404)
             ELSE Answer(200, {o.qn : o \in {o \in Orphans : o.type = "HOST"}}))

\* HostOrphansDetail.get passes the name depth, defined nowhere in its
\* scope: the NameError is caught by the bare except, always a 404.
HostOrphanDetailGet ==
    \E h \in Hosts : View([view |-> "HostOrphansDetail", host |-> h], Status(404))

\* HostsList.get: all_hosts; any exception is a 404.
HostsListGet ==
    \E fault \in BOOLEAN :
        View([view |-> "HostsList"],
             IF fault THEN Status(404) ELSE Answer(200, {h \in Hosts : hostIn[h] # Absent}))

\* ExpressionView.get and .post: expand_range_expression passed through;
\* its RuntimeError (a bad expression or a store fault) is a 400.
ExpressionGet ==
    \E raises \in BOOLEAN :
        View([view |-> "ExpressionView"], IF raises THEN Status(400) ELSE Status(200))

\* LegacyListView.get, LegacyExpandView.get: str(env) reads a name defined
\* nowhere; the NameError escapes the RuntimeError-only except: a 500.
LegacyGet ==
    \E v \in {"LegacyListView", "LegacyExpandView"} : View([view |-> v], Status(500))

Next ==
    \/ EnvListGet \/ DotAllEnvGet \/ EnvClusterListGet \/ ClusterClusterListGet
    \/ EnvClusterOrphansGet \/ ClusterOrphansGet \/ ClusterOrphanDetailGet
    \/ HostOrphansGet \/ HostOrphanDetailGet \/ HostsListGet
    \/ ExpressionGet \/ LegacyGet \/ ConstantListGet \/ StubGet

Spec == Init /\ [][Next]_vars
-----------------------------------------------------------------------------
TypeOK ==
    /\ [envs |-> envs, parentOf |-> parentOf, hostIn |-> hostIn] \in StoreStates
    /\ resp = NoResponse \/ resp.code \in {200, 400, 404, 500}
    /\ resp # NoResponse /\ "body" \in DOMAIN resp =>
         IF req.view = "ClusterOrphansDetail" THEN resp.body \in Keys \cup Hosts
         ELSE resp.body \subseteq EnvNames \cup ClusterNames \cup Hosts \cup {<<hh>> : hh \in Hosts}

\* The orphan clusters by the store's structure (spec.md glossary: a node
\* with no parent reference), and the child clusters of a node.
OrphanClusters == {k \in Keys : parentOf[k] = NoParent}
ClustersUnder(e, p) == {k[2] : k \in {k \in Keys : k[1] = e /\ parentOf[k] = p}}

(***************************************************************************)
(* ListingsMatchStore: every listing answered 200 names exactly the nodes  *)
(* the store holds in that relation: the environments with an orphan       *)
(* cluster, an environment's orphan clusters (names containing '#'         *)
(* included), and the clusters directly under an environment or a        *)
(* cluster, reached by any of its routes.  It ties the qualified-name      *)
(* parsing of the orphan views and the type filtering of the child      *)
(* listings to the store.                                                  *)
(***************************************************************************)
ListingsMatchStore ==
    (resp # NoResponse /\ resp.code = 200) =>
      CASE req.view = "EnvClusterOrphansList" -> resp.body = {k[1] : k \in OrphanClusters}
        [] req.view = "ClusterOrphansList" ->
             resp.body = {k[2] : k \in {k \in OrphanClusters : k[1] = req.env}}
        [] req.view = "EnvClusterList" /\ ~req.all -> resp.body = ClustersUnder(req.env, Top)
        [] req.view = "ClusterClusterList" -> resp.body = ClustersUnder(req.env, req.cluster)
        [] OTHER -> TRUE

(***************************************************************************)
(* NotFoundMeansAbsent (spec.md 7): a view answers not-found only when the *)
(* entity it names is absent from the store: the environment, the cluster, *)
(* or for HostOrphansDetail an orphan host.  A store fault is an internal *)
(* error, so a listing that names no entity never answers 404.  The bare  *)
(* excepts of HostsList and the child listings (560, 117, 425) and the    *)
(* undefined depth of HostOrphansDetail (531) are what it is about.       *)
(***************************************************************************)
NotFoundMeansAbsent ==
    (resp # NoResponse /\ resp.code = 404) =>
      CASE req.view = "EnvClusterList" -> req.env \notin envs
        [] req.view \in {"ClusterClusterList", "ClusterOrphansDetail"} -> ~Exists(<<req.env, req.cluster>>)
        [] req.view = "HostOrphansDetail" -> hostIn[req.host] # NoParent
        [] OTHER -> FALSE

(***************************************************************************)
(* RouteReachesView: the route a request takes is reached by every URL of  *)
(* its shape, so no earlier pattern of urlpatterns shadows it and the view *)
(* a URL names is the view that answers it.  It is about urls.py 31-36,    *)
(* where one env/.../cluster prefix leads to five views by the trailing    *)
(* slash and the number of segments.                                       *)
(***************************************************************************)
RouteReachesView == req # NoResponse => req.route \notin Shadowed
=============================================================================
