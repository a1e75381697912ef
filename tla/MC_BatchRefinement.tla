------------------------- MODULE MC_BatchRefinement -------------------------
(***************************************************************************)
(* Two concurrent batches against one cluster node.  Bodies touch the same *)
(* host, key and dependency so that the two requests' items interleave on  *)
(* the same state: a remove and re-add of a host, a key with two values,   *)
(* a key removal and a dependency added and removed.                       *)
(***************************************************************************)
EXTENDS BatchRefinement

CONSTANTS h1, k1, v1, v2, d1

Lower(d) == [target |-> d, keys |-> "lower"]

RefHosts == {h1}
RefKeys == {k1}
RefVals == {v1, v2}
RefDeps == {d1}

\* Every field empty but the ones varied; all-empty, malformed and non-dict
\* bodies for the 400 answers.
Empty == [shape |-> "dict", removehosts |-> <<>>, addhosts |-> <<>>,
          addkeyvalues |-> <<>>, removekeyvalues |-> <<>>, removekeys |-> <<>>,
          adddependencies |-> <<>>, removedependencies |-> <<>>]

RefBodies ==
       {[Empty EXCEPT !.removehosts = rh, !.addhosts = ah, !.addkeyvalues = kv] :
          rh \in {<<>>, <<h1>>}, ah \in {<<>>, <<h1>>},
          kv \in {<<>>, << <<k1, <<v1, v2>> >> >>}}
       \cup {[Empty EXCEPT !.removekeyvalues = << <<k1, <<v1>> >> >>, !.removekeys = <<k1>>],
             [Empty EXCEPT !.adddependencies = <<Lower(d1)>>],
             [Empty EXCEPT !.removedependencies = <<Lower(d1)>>],
             [Empty EXCEPT !.addhosts = BadType],
             [Empty EXCEPT !.removedependencies = BadItems],
             [Empty EXCEPT !.shape = "list"]}
=============================================================================
