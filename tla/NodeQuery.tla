------------------------------ MODULE NodeQuery ------------------------------
(***************************************************************************)
(* The node GETs of views.py: EnvDetail.get (lines 76-95) and              *)
(* ClusterDetail.get (154-171).  The handler parses the depth query        *)
(* parameter, asks the store to expand the node to that depth, and answers *)
(* pretty_node (17-32) of it: flattened to {name, type} summaries of the   *)
(* direct children when the depth is at most 1, nested otherwise, without  *)
(* children for a HOST.  Any exception of the store (no such node, a       *)
(* fault) is answered 404.                                                 *)
(*                                                                         *)
(* The raw depth parameter is abstracted to what the parsing tells apart:  *)
(* absent, a word (lower-cased, as the comparison of line 80 sees it) or   *)
(* an integer literal that int() accepts.                                  *)
(***************************************************************************)
EXTENDS RangeTree, Integers

CONSTANTS
    MAX_DEPTH,    \* views.py line 15
    RawDepths,    \* the depth parameters a client may send
    Absent, NoResponse

VARIABLES
    env,     \* the environment node in the store, or Absent
    raw,     \* the depth parameter of the request
    asked,   \* the depth the handler passed to the store
    resp     \* the answer: NoResponse, [code |-> 404] or a 200 with a view

vars == <<env, raw, asked, resp>>

\* The environments the store may hold: clusters nested one level.
StoredEnvs == EnvTrees(1)

\* Depth parsing, lines 79-86 (and 156-163): 'full' / 'all' in any case is
\* MAX_DEPTH, anything int() rejects is 1, the default is str(1).
ResolveDepth(p) ==
    CASE p.kind = "absent"                            -> 1
      [] p.kind = "word" /\ p.word \in {"full", "all"} -> MAX_DEPTH
      [] p.kind = "word"                              -> 1
      [] p.kind = "int"                               -> p.n

\* Bug variant of Flatten (mutation check of ViewMatchesSpec): depth 1
\* already nested.
FlattenAtOne(d) == ~(d > 0)

\* Lines 88-91: flatten unless the depth exceeds 1.
Flatten(d) == ~(d > 1)

\* pretty_node, lines 17-32.
PrettyNode(n, flatten) ==
    IF n.type = "HOST" THEN [name |-> n.name, type |-> n.type]
    ELSE [name |-> n.name, type |-> n.type,
          children |-> IF flatten THEN Summary(n.children) ELSE n.children]

\* The store's expand: the node with its children expanded d levels deep
\* (spec.md section 4.2: the store bounds the recursion).
RECURSIVE Expand(_, _)
Expand(t, d) ==
    Node(t.name, t.type,
         IF d <= 0 THEN <<>> ELSE [i \in DOMAIN t.children |-> Expand(t.children[i], d - 1)])

\* The env's child cluster named c, the node expand_cluster(env, c) finds.
ClustersNamed(c) ==
    IF env = Absent THEN {}
    ELSE {env.children[i] : i \in {i \in DOMAIN env.children :
                                     env.children[i].name = c /\ env.children[i].type = "CLUSTER"}}

\* Bug variant of Get (mutation check of TypeOK): the store's exception
\* not caught, so the request ends in a server error.
GetUncaught(t) ==
    LET d == ResolveDepth(raw) IN
    /\ resp = NoResponse
    /\ asked' = d
    /\ \/ \E n \in t : resp' = [code |-> 200, view |-> PrettyNode(Expand(n, d), Flatten(d))]
       \/ resp' = [code |-> 500]
    /\ UNCHANGED <<env, raw>>

\* One GET of node t (a set of at most one node): the store either returns
\* the expansion or raises, which the bare except answers 404.
Get(t) ==
    LET d == ResolveDepth(raw) IN
    /\ resp = NoResponse
    /\ asked' = d
    /\ \/ \E n \in t : resp' = [code |-> 200, view |-> PrettyNode(Expand(n, d), Flatten(d))]
       \/ resp' = [code |-> 404]
    /\ UNCHANGED <<env, raw>>

EnvDetailGet == Get(IF env = Absent THEN {} ELSE {env})

ClusterDetailGet == \E c \in Names : Get(ClustersNamed(c))

Init ==
    /\ env \in StoredEnvs \cup {Absent}
    /\ raw \in RawDepths
    /\ asked = 0
    /\ resp = NoResponse

Next == EnvDetailGet \/ ClusterDetailGet

Spec == Init /\ [][Next]_vars
-----------------------------------------------------------------------------
TypeOK ==
    /\ env \in StoredEnvs \cup {Absent}
    /\ raw \in RawDepths
    /\ asked \in Int
    /\ \/ resp = NoResponse
       \/ resp.code = 404
       \/ resp.code = 200 /\ resp.view.name \in Names

\* The view spec.md section 4.2 prescribes for the stored node n asked at
\* depth d.
SpecView(n, d) ==
    IF n.type = "HOST" THEN [name |-> n.name, type |-> n.type]
    ELSE IF d <= 1
         THEN [name |-> n.name, type |-> n.type, children |-> Summary(n.children)]
         ELSE [name |-> n.name, type |-> n.type, children |-> Expand(n, d).children]

\* The stored nodes a view can be of.
Targets == IF env = Absent THEN {} ELSE {env} \cup {env.children[i] : i \in DOMAIN env.children}

(***************************************************************************)
(* ViewMatchesSpec: a node GET answered with a view at a depth of at least *)
(* 1 answers exactly the projection spec.md 4.2 prescribes for the stored  *)
(* node: summaries of all its direct children when the depth is 1, the    *)
(* nested children to that depth otherwise, no children for a host.  The  *)
(* depth it compares at is the handler's own parsed depth (asked), so it   *)
(* checks the store's expansion and pretty_node's flatten and host rules, *)
(* not the parsing: that the depth is never clamped to MAX_DEPTH (line 84) *)
(* is outside it.                                                          *)
(***************************************************************************)
ViewMatchesSpec ==
    (resp # NoResponse /\ resp.code = 200 /\ asked >= 1) =>
        \E n \in Targets : resp.view = SpecView(n, asked)
=============================================================================
