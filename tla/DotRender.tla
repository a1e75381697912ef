------------------------------ MODULE DotRender ------------------------------
(***************************************************************************)
(* The graph renderer of views.py: DotRender (lines 683-748) and the views *)
(* that use it, DotEnvView.get (752-769) and DotClusterView.get (773-790). *)
(*                                                                         *)
(* Flat mode (gendfs) writes DOT node statements and edges; graphviz, the  *)
(* downstream collaborator, identifies a layout node by its name, merges  *)
(* repeated edges (set_simplify, line 688), and takes a node's fill from   *)
(* the last statement that sets one.  A statement is [name, fill], fill    *)
(* one of "root" (#AAFFAA), "inner" (#AAAAff) or "none"; the constant      *)
(* shape and style attributes are left out.                                *)
(*                                                                         *)
(* Clustered mode (genclusterdfs) builds a tree of pydot objects: a        *)
(* subgraph [group |-> TRUE, name, members] or a leaf node [group |->      *)
(* FALSE, name, hint] (the pos '0,0!' of line 731).                         *)
(***************************************************************************)
EXTENDS RangeTree, SequencesExt, FiniteSets

CONSTANTS
    StoredTrees,   \* the environment trees the store may hold
    Absent, NoResponse

VARIABLES
    env,    \* the stored environment tree, or Absent
    req,    \* the request: [view, name, cluster] or NoResponse
    resp    \* the answer: [code] or [code, mode, node, graph]

vars == <<env, req, resp>>

IsLeaf(x) == x.type \in LeafTypes

Stmt(x, fill) == [name |-> x.name, fill |-> fill]

(***************************************************************************)
(* gendfs_, lines 691-702: for each child in order, a non-leaf child is    *)
(* recursed into first; the child's statement and the edge from its parent *)
(* are added after its descendants.                                        *)
(***************************************************************************)
\* Bug variant of GenDfs_ (mutation check of FlatRenderMatchesSpec): a
\* non-leaf child is coloured but its subtree is not traversed.
GenDfsNoRecurse(n) ==
    LET stmts == [i \in DOMAIN n.children |->
                    Stmt(n.children[i], IF IsLeaf(n.children[i]) THEN "none" ELSE "inner")]
    IN  [nodes |-> stmts, edges |-> [i \in DOMAIN n.children |-> <<n.name, n.children[i].name>>]]

RECURSIVE GenDfs_(_)
GenDfs_(n) ==
    LET Part(c) ==
            LET sub == IF IsLeaf(c) THEN [nodes |-> <<>>, edges |-> <<>>] ELSE GenDfs_(c)
            IN  [nodes |-> sub.nodes \o <<Stmt(c, IF IsLeaf(c) THEN "none" ELSE "inner")>>,
                 edges |-> sub.edges \o << <<n.name, c.name>> >>]
        parts == [i \in DOMAIN n.children |-> Part(n.children[i])]
    IN  [nodes |-> FlattenSeq([i \in DOMAIN parts |-> parts[i].nodes]),
         edges |-> FlattenSeq([i \in DOMAIN parts |-> parts[i].edges])]

\* Bug variant of GenDfs (mutation check of TypeOK): the root statement
\* made from the node dict itself instead of its name.
GenDfsUnnamed(n) ==
    LET g == GenDfs_(n) IN [nodes |-> <<[name |-> n, fill |-> "root"]>> \o g.nodes, edges |-> g.edges]

\* gendfs, lines 704-712: the root's statement, then the traversal.
GenDfs(n) ==
    LET g == GenDfs_(n) IN [nodes |-> <<Stmt(n, "root")>> \o g.nodes, edges |-> g.edges]

\* Bug variant of GenClusterDfs_ (mutation check of GroupedRenderMatchesSpec):
\* nodenum advanced before the recursive call.
RECURSIVE GenClusterDfsEarly(_, _)
GenClusterDfsEarly(n, count) ==
    IF Len(n.children) > 0 \/ n.type = "CLUSTER"
    THEN [group |-> TRUE, name |-> n.name, hint |-> FALSE,
          members |-> [i \in DOMAIN n.children |-> GenClusterDfsEarly(n.children[i], i)]]
    ELSE [group |-> FALSE, name |-> n.name, hint |-> count % 2 # 0, members |-> <<>>]

(***************************************************************************)
(* genclusterdfs_, lines 714-732: a node with children or of type CLUSTER  *)
(* is a subgraph of its children's renderings, the i-th child (from 0)    *)
(* rendered with count i; any other node is a leaf node, with the position *)
(* hint when its count is odd.                                             *)
(***************************************************************************)
RECURSIVE GenClusterDfs_(_, _)
GenClusterDfs_(n, count) ==
    IF Len(n.children) > 0 \/ n.type = "CLUSTER"
    THEN [group |-> TRUE, name |-> n.name, hint |-> FALSE,
          members |-> [i \in DOMAIN n.children |-> GenClusterDfs_(n.children[i], i - 1)]]
    ELSE [group |-> FALSE, name |-> n.name, hint |-> count % 2 # 0, members |-> <<>>]

\* genclusterdfs, lines 735-742: the root rendered with count 0.
GenClusterDfs(n) == GenClusterDfs_(n, 0)

\* The env's child cluster named c (what expand_cluster(env, c) returns).
ClusterNamed(c) ==
    IF env = Absent THEN {}
    ELSE {x \in ToSet(env.children) : x.name = c /\ x.type = "CLUSTER"}

\* Render node n in the mode the 'cluster' flag selects.
Rendered(n, grouped) ==
    IF grouped THEN [code |-> 200, mode |-> "grouped", node |-> n, graph |-> GenClusterDfs(n)]
    ELSE [code |-> 200, mode |-> "flat", node |-> n, graph |-> GenDfs(n)]

\* The 'cluster' query flag, true only when exactly 'true'.  The 'dot' flag
\* only selects the encoding of the same graph (DOT text or SVG) and is left out.
Flags == [cluster : BOOLEAN]
-----------------------------------------------------------------------------
Init ==
    /\ env \in StoredTrees \cup {Absent}
    /\ req = NoResponse
    /\ resp = NoResponse

\* DotEnvView.get, lines 753-769: 404 if expand_env raises, else render.
DotEnvGet ==
    /\ \E f \in Flags :
         /\ req' = [view |-> "env", name |-> IF env = Absent THEN Absent ELSE env.name] @@ f
         /\ resp' = IF env = Absent THEN [code |-> 404] ELSE Rendered(env, f.cluster)
    /\ UNCHANGED env

\* DotClusterView.get, lines 774-790: 404 if expand_cluster raises; with
\* cluster=true it calls rend.getclusterdfs (line 784), which DotRender
\* does not define: the AttributeError escapes, a 500.
DotClusterGet ==
    /\ \E c \in Names, f \in Flags :
         /\ req' = [view |-> "cluster", name |-> c] @@ f
         /\ resp' = IF ClusterNamed(c) = {} THEN [code |-> 404]
                    ELSE IF f.cluster THEN [code |-> 500]
                    ELSE Rendered(CHOOSE x \in ClusterNamed(c) : TRUE, FALSE)
    /\ UNCHANGED env

Next == DotEnvGet \/ DotClusterGet

Spec == Init /\ [][Next]_vars
-----------------------------------------------------------------------------
(***************************************************************************)
(* The layout graph graphviz draws from the flat statements, and what     *)
(* spec.md 4.4 says of the rendered tree.                                  *)
(***************************************************************************)
LayoutNodes(g) == {s.name : s \in ToSet(g.nodes)} \cup {e[1] : e \in ToSet(g.edges)}
                    \cup {e[2] : e \in ToSet(g.edges)}
LayoutEdges(g) == ToSet(g.edges)
FillOf(g, x) ==
    LET set == SelectSeq(g.nodes, LAMBDA s : s.name = x /\ s.fill # "none")
    IN  IF set = <<>> THEN "none" ELSE Last(set).fill

RECURSIVE TreeNodes(_)
TreeNodes(t) == {t} \cup UNION {TreeNodes(t.children[i]) : i \in DOMAIN t.children}

\* Parent/child pairs with the child's 0-based position among its siblings.
TreeEdges(t) ==
    UNION {{[parent |-> p, child |-> p.children[i], pos |-> i - 1] : i \in DOMAIN p.children}
           : p \in TreeNodes(t)}

SubtreeNames(x) == {y.name : y \in TreeNodes(x)}

TypeOK ==
    /\ env \in StoredTrees \cup {Absent}
    /\ \/ resp = NoResponse
       \/ resp.code \in {404, 500}
       \/ /\ resp.code = 200
          /\ resp.mode = "flat" =>
               /\ resp.graph.nodes \in Seq([name : Names, fill : {"root", "inner", "none"}])
               /\ resp.graph.edges \in Seq(Names \X Names)

(***************************************************************************)
(* FlatRenderMatchesSpec (spec.md 4.4 and 8): a flat render of a tree has  *)
(* one layout node per tree node and one edge per parent/child pair, the   *)
(* root in the root colour, non-leaf nodes in the secondary colour and    *)
(* leaves in none, and each child's subtree written as one contiguous run  *)
(* of statements: its descendants before any later sibling.                *)
(***************************************************************************)
FlatRenderMatchesSpec ==
    (resp # NoResponse /\ resp.code = 200 /\ resp.mode = "flat") =>
      LET t == resp.node
          g == resp.graph
      IN  /\ Cardinality(LayoutNodes(g)) = Cardinality(TreeNodes(t))
          /\ LayoutEdges(g) = {<<e.parent.name, e.child.name>> : e \in TreeEdges(t)}
          /\ Cardinality(LayoutEdges(g)) = Cardinality(TreeEdges(t))
          /\ FillOf(g, t.name) = "root"
          /\ \A e \in TreeEdges(t) :
               FillOf(g, e.child.name) = IF IsLeaf(e.child) THEN "none" ELSE "inner"
          /\ \A e \in TreeEdges(t) :
               LET P == {i \in DOMAIN g.nodes : g.nodes[i].name \in SubtreeNames(e.child)}
               IN  \A i, j \in P : \A k \in i..j : k \in P

\* The facts a clustered rendering states: each member of each subgraph,
\* its position, whether it is a subgraph and whether it has the hint.
RECURSIVE Members(_)
Members(o) ==
    UNION {{[parent |-> o.name, child |-> o.members[i].name, pos |-> i - 1,
             group |-> o.members[i].group, hint |-> o.members[i].hint]}
           \cup Members(o.members[i]) : i \in DOMAIN o.members}

IsGroup(x) == x.children # <<>> \/ x.type = "CLUSTER"

(***************************************************************************)
(* GroupedRenderMatchesSpec (spec.md 4.4 and 8): in a clustered render,    *)
(* every node with children or of type CLUSTER is its own subgraph nested *)
(* in its parent's subgraph, every other node is a leaf of its parent's    *)
(* subgraph, exactly the leaves at odd positions among their siblings     *)
(* carry the position hint, and the root is on top without a hint.        *)
(***************************************************************************)
GroupedRenderMatchesSpec ==
    (resp # NoResponse /\ resp.code = 200 /\ resp.mode = "grouped") =>
      LET t == resp.node
          o == resp.graph
      IN  /\ o.name = t.name /\ o.group = IsGroup(t) /\ ~o.hint
          /\ Members(o) =
               {[parent |-> e.parent.name, child |-> e.child.name, pos |-> e.pos,
                 group |-> IsGroup(e.child),
                 hint |-> ~IsGroup(e.child) /\ e.pos % 2 = 1] : e \in TreeEdges(t)}
=============================================================================
