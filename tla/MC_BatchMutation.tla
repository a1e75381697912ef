-------------------------- MODULE MC_BatchMutation --------------------------
(***************************************************************************)
(* Model-checking instance of BatchMutation: one cluster node with one     *)
(* host name, one tag key with two values (v2 non-ASCII) and one           *)
(* dependency target; each field of a body is empty, one or two items, or *)
(* malformed, so that a batch can remove and re-add a host, hit a key with *)
(* two values, and carry a dependency dict spelled "Env"/"Cluster".  The  *)
(* BatchNeverAborts run adds a non-ASCII host h2.                          *)
(***************************************************************************)
EXTENDS BatchMutation

CONSTANTS h1, h2, k1, v1, v2, d1

Lower(d) == [target |-> d, keys |-> "lower"]
Mixed(d) == [target |-> d, keys |-> "mixed"]

MCHosts == {h1}
MCKeys == {k1}
MCVals == {v1, v2}
MCDeps == {d1}
MCUnencodable == {v2}

\* Bodies with the seven fields drawn from small sets, and one non-dict body.
MCBodies ==
    [shape : {"dict"},
     removehosts : {<<>>, <<h1>>, BadType},
     addhosts : {<<>>, <<h1>>, BadType},
     addkeyvalues : {<<>>, << <<k1, <<v1>> >> >>, << <<k1, <<v1, v2>> >> >>, BadItems},
     removekeyvalues : {<<>>, << <<k1, <<v1>> >> >>},
     removekeys : {<<>>, <<k1>>},
     adddependencies : {<<>>, <<Lower(d1)>>, <<Mixed(d1)>>, BadItems},
     removedependencies : {<<>>, <<Lower(d1)>>, BadType}]
    \cup
    [shape : {"list"},
     removehosts : {<<>>}, addhosts : {<<h1>>}, addkeyvalues : {<<>>},
     removekeyvalues : {<<>>}, removekeys : {<<>>}, adddependencies : {<<>>},
     removedependencies : {<<>>}]

\* For BatchNeverAborts: a second host h2 whose name is non-ASCII, added
\* after h1 so that the batch has applied items when str(h2) raises.
MCHostsU == {h1, h2}
MCUnencodableU == {v2, h2}
MCBodiesU ==
    MCBodies \cup {[b EXCEPT !.addhosts = <<h1, h2>>] : b \in {b \in MCBodies : b.shape = "dict"}}
=============================================================================
