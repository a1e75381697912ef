------------------------------ MODULE Topology ------------------------------
(***************************************************************************)
(* The single-item topology handlers of views.py, run by concurrent server *)
(* threads against the shared store handle r.  Each handler makes one or   *)
(* two store calls and maps each call's outcome to an answer or to its     *)
(* second call:                                                            *)
(*   create (add, then expand the new node): EnvList.post, EnvClusterList. *)
(*     post, ClusterClusterList.post, HostsList.post;                      *)
(*   delete (one remove): EnvDetail.delete, EnvClusterDetail.delete,       *)
(*     ClusterClusterDetail.delete;                                        *)
(*   orphan delete (expand, check the type, remove):                       *)
(*     ClusterOrphansDetail.delete, HostOrphansDetail.delete.              *)
(* The outcome of a call is TRUE / FALSE for a mutation, the node's type   *)
(* for an expand, or "raise" for an exception of the store.  A handler is  *)
(* a record: its two calls and, for each, the table from outcome to the    *)
(* answer (an HTTP status) or NextCall (make the second call).               *)
(*                                                                         *)
(* The store (spec.md section 6) holds environments, cluster nodes, the    *)
(* parent -> child cluster edges and hosts, all in one environment's       *)
(* namespace.  A logical failure returns FALSE; a fault raises and has no  *)
(* effect.                                                                 *)
(***************************************************************************)
EXTENDS Naturals, FiniteSets

CONSTANTS
    Envs, Clusters, Hosts,  \* names
    Requests,               \* concurrent requests (server threads)
    Handlers,               \* the handlers clients call
    MaxFaults,              \* bound on store faults over a behaviour
    NoResponse

VARIABLES
    envs, clusters, edges, hosts,   \* the store
    faults,     \* store faults raised so far
    req,        \* request -> [handler, env, parent, name] or NoResponse
    pc,         \* request -> "idle" | "call1" | "call2" | "done"
    resp,       \* request -> HTTP status of the answer
    changed     \* request -> some call of it returned TRUE (history)

store == <<envs, clusters, edges, hosts>>
vars == <<envs, clusters, edges, hosts, faults, req, pc, resp, changed>>

(***************************************************************************)
(* The store calls (spec-modelled).  Ok(c, q): the call returns TRUE or a  *)
(* node; Done(c, q): the store after it did.                               *)
(***************************************************************************)
Ok(c, q) ==
    CASE c = "create_env"             -> q.env \notin envs
      [] c = "remove_env"             -> q.env \in envs
      [] c = "expand_env"             -> q.env \in envs
      [] c = "add_cluster_to_env"     -> q.env \in envs /\ <<q.env, q.name>> \notin edges
      [] c = "add_cluster_to_cluster" -> q.env \in envs /\ q.parent \in clusters
                                           /\ q.parent # q.name /\ <<q.parent, q.name>> \notin edges
      [] c = "expand_cluster"         -> q.name \in clusters
      [] c = "remove_cluster_from_env"     -> <<q.env, q.name>> \in edges
      [] c = "remove_cluster_from_cluster" -> <<q.parent, q.name>> \in edges
      [] c = "add_host"               -> q.name \notin hosts
      [] c = "expand"                 -> q.name \in clusters \cup hosts
      [] c = "remove_cluster"         -> q.name \in clusters
      [] c = "remove_host"            -> q.name \in hosts

Touching(n) == {e \in edges : n \in {e[1], e[2]}}

Done(c, q) ==
    CASE c = "create_env"  -> <<envs \cup {q.env}, clusters, edges, hosts>>
      [] c = "remove_env"  -> <<envs \ {q.env}, clusters, edges \ Touching(q.env), hosts>>
      [] c \in {"add_cluster_to_env", "add_cluster_to_cluster"} ->
           <<envs, clusters \cup {q.name},
             edges \cup {<<IF c = "add_cluster_to_env" THEN q.env ELSE q.parent, q.name>>}, hosts>>
      [] c = "remove_cluster_from_env"     -> <<envs, clusters, edges \ {<<q.env, q.name>>}, hosts>>
      [] c = "remove_cluster_from_cluster" -> <<envs, clusters, edges \ {<<q.parent, q.name>>}, hosts>>
      [] c = "add_host"       -> <<envs, clusters, edges, hosts \cup {q.name}>>
      [] c = "remove_cluster" -> <<envs, clusters \ {q.name}, edges \ Touching(q.name), hosts>>
      [] c = "remove_host"    -> <<envs, clusters, edges, hosts \ {q.name}>>
      [] OTHER                -> store      \* the expands read only

\* What a call that did not raise returns: the node's type for an expand.
Outcome(c, q) ==
    IF c \in {"expand_env", "expand_cluster", "expand"}
    THEN IF ~Ok(c, q) THEN "raise"
         ELSE IF c = "expand_env" THEN "ENVIRONMENT"
         ELSE IF q.name \in clusters THEN "CLUSTER" ELSE "HOST"
    ELSE IF Ok(c, q) THEN "True" ELSE "False"
-----------------------------------------------------------------------------
(***************************************************************************)
(* The handlers.  on1 / on2 map the outcome of call1 / call2 to an answer. *)
(* An exception the handler does not catch is a 500.                       *)
(***************************************************************************)
\* The table entry "make the second call" (answers are HTTP statuses).
NextCall == 0

EnvListPost ==              \* lines 56-68: no try around either call
    [call1 |-> "create_env", on1 |-> [True |-> NextCall, False |-> 409, raise |-> 500],
     call2 |-> "expand_env", on2 |-> [ENVIRONMENT |-> 200, raise |-> 500]]

EnvDetailDelete ==          \* lines 99-105
    [call1 |-> "remove_env", on1 |-> [True |-> 200, False |-> 500, raise |-> 404]]

EnvClusterListPost ==       \* lines 133-146: one bare except around both calls
    [call1 |-> "add_cluster_to_env", on1 |-> [True |-> NextCall, False |-> 500, raise |-> 409],
     call2 |-> "expand_cluster", on2 |-> [CLUSTER |-> 200, raise |-> 409]]

ClusterClusterListPost ==   \* lines 435-450
    [call1 |-> "add_cluster_to_cluster", on1 |-> [True |-> NextCall, False |-> 500, raise |-> 409],
     call2 |-> "expand_cluster", on2 |-> [CLUSTER |-> 200, raise |-> 409]]

EnvClusterDetailDelete ==   \* lines 395-401
    [call1 |-> "remove_cluster_from_env", on1 |-> [True |-> 200, False |-> 500, raise |-> 404]]

ClusterClusterDetailDelete ==  \* lines 408-414
    [call1 |-> "remove_cluster_from_cluster", on1 |-> [True |-> 200, False |-> 500, raise |-> 404]]

HostsListPost ==            \* lines 565-577
    [call1 |-> "add_host", on1 |-> [True |-> NextCall, False |-> 500, raise |-> 409],
     call2 |-> "expand", on2 |-> [HOST |-> 200, CLUSTER |-> 200, raise |-> 409]]

\* Lines 500-514: the "not a cluster" Response of line 511 is built but not
\* returned, so a node of another type falls through to Response(True).
ClusterOrphansDelete ==
    [call1 |-> "expand", on1 |-> [CLUSTER |-> NextCall, HOST |-> 200, raise |-> 404],
     call2 |-> "remove_cluster", on2 |-> [True |-> 200, False |-> 500, raise |-> 404]]

\* Lines 535-549, the same shape for hosts (line 546).
HostOrphansDelete ==
    [call1 |-> "expand", on1 |-> [HOST |-> NextCall, CLUSTER |-> 200, raise |-> 404],
     call2 |-> "remove_host", on2 |-> [True |-> 200, False |-> 500, raise |-> 404]]

Handler ==
    [EnvList_post |-> EnvListPost, EnvDetail_delete |-> EnvDetailDelete,
     EnvClusterList_post |-> EnvClusterListPost,
     ClusterClusterList_post |-> ClusterClusterListPost,
     EnvClusterDetail_delete |-> EnvClusterDetailDelete,
     ClusterClusterDetail_delete |-> ClusterClusterDetailDelete,
     HostsList_post |-> HostsListPost,
     ClusterOrphansDetail_delete |-> ClusterOrphansDelete,
     HostOrphansDetail_delete |-> HostOrphansDelete]

\* The requests a client can send: URL arguments from the small name sets.
RequestsOf(h) ==
    [handler : {h}, env : Envs, parent : Clusters,
     name : CASE h \in {"EnvList_post", "EnvDetail_delete"} -> Envs
              [] h = "HostsList_post" -> Hosts
              [] h \in {"ClusterOrphansDetail_delete", "HostOrphansDetail_delete"} -> Clusters \cup Hosts
              [] OTHER -> Clusters]

\* The call a request in phase p makes and the table for its outcome.
CallOf(r) == Handler[req[r].handler][IF pc[r] = "call1" THEN "call1" ELSE "call2"]
TableOf(r) == Handler[req[r].handler][IF pc[r] = "call1" THEN "on1" ELSE "on2"]
-----------------------------------------------------------------------------
Init ==
    /\ envs \in SUBSET Envs
    /\ clusters \in SUBSET Clusters
    /\ edges \in SUBSET {e \in (envs \cup clusters) \X clusters : e[1] # e[2]}
    /\ hosts \in SUBSET Hosts
    /\ faults = 0
    /\ req = [r \in Requests |-> NoResponse]
    /\ pc = [r \in Requests |-> "idle"]
    /\ resp = [r \in Requests |-> NoResponse]
    /\ changed = [r \in Requests |-> FALSE]

\* A request for one of the handlers arrives.
Arrive(r) ==
    /\ pc[r] = "idle"
    /\ \E h \in Handlers : \E q \in RequestsOf(h) : req' = [req EXCEPT ![r] = q]
    /\ pc' = [pc EXCEPT ![r] = "call1"]
    /\ UNCHANGED <<envs, clusters, edges, hosts, faults, resp, changed>>

\* Lines 58-62 (135-139, 440-444, 567-571): a create whose body is an
\* empty list is answered 400 before any store call.
CreateHandlers == {"EnvList_post", "EnvClusterList_post", "ClusterClusterList_post", "HostsList_post"}

RejectBody(r) ==
    /\ pc[r] = "idle"
    /\ \E h \in Handlers \cap CreateHandlers : \E q \in RequestsOf(h) : req' = [req EXCEPT ![r] = q]
    /\ pc' = [pc EXCEPT ![r] = "done"]
    /\ resp' = [resp EXCEPT ![r] = 400]
    /\ UNCHANGED <<envs, clusters, edges, hosts, faults, changed>>

\* Apply the handler's table to outcome o: the second call, or the answer.
Continue(r, o) ==
    LET a == TableOf(r)[o] IN
    /\ \/ /\ a = NextCall
          /\ pc' = [pc EXCEPT ![r] = "call2"]
          /\ UNCHANGED resp
       \/ /\ a # NextCall
          /\ pc' = [pc EXCEPT ![r] = "done"]
          /\ resp' = [resp EXCEPT ![r] = a]

\* The current store call returns.
CallReturns(r) ==
    LET c == CallOf(r)
        o == Outcome(c, req[r])
        st == IF o = "True" THEN Done(c, req[r]) ELSE store
    IN
    /\ pc[r] \in {"call1", "call2"}
    /\ o # "raise"
    /\ envs' = st[1] /\ clusters' = st[2] /\ edges' = st[3] /\ hosts' = st[4]
    /\ changed' = [changed EXCEPT ![r] = @ \/ o = "True"]
    /\ Continue(r, o)
    /\ UNCHANGED <<faults, req>>

\* The current store call raises: an expand of a missing node, or a fault.
CallRaises(r) ==
    /\ pc[r] \in {"call1", "call2"}
    /\ \/ Outcome(CallOf(r), req[r]) = "raise" /\ UNCHANGED faults
       \/ faults < MaxFaults /\ faults' = faults + 1
    /\ Continue(r, "raise")
    /\ UNCHANGED <<envs, clusters, edges, hosts, req, changed>>

Next == \E r \in Requests : Arrive(r) \/ RejectBody(r) \/ CallReturns(r) \/ CallRaises(r)

Spec == Init /\ [][Next]_vars
-----------------------------------------------------------------------------
\* The request r was answered, and the answer says it changed the store
\* exactly when one of its calls did.
Truthful(r) == pc[r] = "done" => (resp[r] = 200 <=> changed[r])

Answered(hs) == {r \in Requests : req[r] # NoResponse /\ req[r].handler \in hs}

CreateConflictMeansExisted ==
    \A r \in Answered(CreateHandlers) : pc[r] = "done" /\ resp[r] = 409 => ~changed[r]

(***************************************************************************)
(* OrphanDeleteTruthful: an orphan delete answers True exactly when it     *)
(* removed the node (line 511 intends a 400 "not a cluster" otherwise).   *)
(***************************************************************************)
OrphanDeleteTruthful ==
    \A r \in Answered({"ClusterOrphansDetail_delete", "HostOrphansDetail_delete"}) :
        Truthful(r)
=============================================================================
