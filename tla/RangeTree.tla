------------------------------ MODULE RangeTree ------------------------------
(***************************************************************************)
(* The node the store returns from expand_env / expand_cluster / expand    *)
(* (the dict shape read by pretty_node and DotRender in views.py, and      *)
(* declared by serializers.Node / NodeSerializer): a name, a type of       *)
(* HOST | CLUSTER | STRING | ENVIRONMENT, and the children mapping.  The   *)
(* children are a sequence in the mapping's iteration order, with names    *)
(* distinct among siblings; dependencies and tags are copied verbatim by   *)
(* every consumer and are left out.                                        *)
(***************************************************************************)
EXTENDS Naturals, Sequences

CONSTANTS
    Names,        \* node names
    MaxChildren   \* bound on the children of one node

NodeTypes == {"HOST", "CLUSTER", "STRING", "ENVIRONMENT"}

\* HOST and STRING nodes never carry children (spec.md section 3).
LeafTypes == {"HOST", "STRING"}

Node(n, t, cs) == [name |-> n, type |-> t, children |-> cs]

\* Sequences of at most MaxChildren nodes of S with distinct names.
ChildSeqs(S) ==
    UNION {{cs \in [1..k -> S] :
              \A i, j \in 1..k : i # j => cs[i].name # cs[j].name}
           : k \in 0..MaxChildren}

\* Cluster subtrees of height at most h below an environment.
RECURSIVE ClusterTrees(_)
ClusterTrees(h) ==
    {Node(n, t, <<>>) : n \in Names, t \in LeafTypes \cup {"CLUSTER"}}
    \cup
    (IF h = 0 THEN {}
     ELSE {Node(n, "CLUSTER", cs) : n \in Names,
                                    cs \in ChildSeqs(ClusterTrees(h - 1))})

\* Environment trees whose clusters nest at most h levels.
EnvTrees(h) == {Node(n, "ENVIRONMENT", cs) : n \in Names,
                                             cs \in ChildSeqs(ClusterTrees(h))}

\* The children's names and types, in order.
Summary(cs) == [i \in DOMAIN cs |-> [name |-> cs[i].name, type |-> cs[i].type]]

\* The number of nodes of a tree.
RECURSIVE Size(_)
Size(t) == 1 + LET RECURSIVE SumFrom(_)
                   SumFrom(i) == IF i > Len(t.children) THEN 0
                                 ELSE Size(t.children[i]) + SumFrom(i + 1)
               IN  SumFrom(1)
=============================================================================
