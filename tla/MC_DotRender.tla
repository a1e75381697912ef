---------------------------- MODULE MC_DotRender ----------------------------
(***************************************************************************)
(* Renders of every environment with clusters nested one level and at     *)
(* most two children per node.  StoredTrees names each position of the    *)
(* tree by its own model value (the case spec.md 8 describes: distinct    *)
(* names).                                                                *)
(***************************************************************************)
EXTENDS DotRender

CONSTANTS n0, n1, n2, n11, n12, n21, n22

\* A distinct name for each tree position (a path of child indices).
NameAt == (<<>> :> n0) @@ (<<1>> :> n1) @@ (<<2>> :> n2)
          @@ (<<1, 1>> :> n11) @@ (<<1, 2>> :> n12) @@ (<<2, 1>> :> n21) @@ (<<2, 2>> :> n22)

\* Cluster subtrees of height at most h at position p, named by position.
RECURSIVE TreesAt(_, _), SeqsAt(_, _)
TreesAt(p, h) ==
    {Node(NameAt[p], t, <<>>) : t \in LeafTypes \cup {"CLUSTER"}}
    \cup (IF h = 0 THEN {} ELSE {Node(NameAt[p], "CLUSTER", cs) : cs \in SeqsAt(p, h - 1) \ {<<>>}})
SeqsAt(p, h) ==
    {<<>>} \cup {<<x>> : x \in TreesAt(p \o <<1>>, h)}
    \cup {<<x, y>> : x \in TreesAt(p \o <<1>>, h), y \in TreesAt(p \o <<2>>, h)}

DistinctTrees == {Node(n0, "ENVIRONMENT", cs) : cs \in SeqsAt(<<>>, 1)}

=============================================================================
