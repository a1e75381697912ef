----------------------------- MODULE RangeStore -----------------------------
(***************************************************************************)
(* The graph store (librange_python's Range object, the module-level       *)
(* handle r of views.py) seen from one cluster node <<env, cluster>>: the  *)
(* hosts that are its children, its tags (key -> set of values) and its    *)
(* external dependencies.  The store is an external collaborator: its     *)
(* calls are modelled from the contract of spec.md section 6, a call       *)
(* returns TRUE when it changed the node and FALSE ("already exists" /     *)
(* "not found") when it did not.  A store fault (a RuntimeError raised     *)
(* through the binding) is chosen by the caller and has no effect.         *)
(***************************************************************************)
CONSTANTS
    Hosts,      \* host names
    Keys,       \* tag keys
    Vals,       \* tag values
    Deps        \* dependency targets, each an <<env, cluster>> pair

\* The state of the target cluster node.
StoreState ==
    [members : SUBSET Hosts, tags : [Keys -> SUBSET Vals], deps : SUBSET Deps]

\* The store calls made by ClusterInfo.post, named by the result category
\* under which views.py records them.
StoreCalls == {"removehosts", "addhosts", "keyvalues", "removekeyvalues",
               "removekeys", "adddependencies", "removedependencies"}

\* Does call c with argument x succeed on store st?  x is a host for the
\* host calls, a <<key, value>> pair for the key/value calls, a key for
\* remove_key_from_node and a dependency target for the dependency calls.
Succeeds(st, c, x) ==
    CASE c = "removehosts"         -> x \in st.members
      [] c = "addhosts"            -> x \notin st.members
      [] c = "keyvalues"           -> x[2] \notin st.tags[x[1]]
      [] c = "removekeyvalues"     -> x[2] \in st.tags[x[1]]
      [] c = "removekeys"          -> st.tags[x] # {}
      [] c = "adddependencies"     -> x \notin st.deps
      [] c = "removedependencies"  -> x \in st.deps

\* The store after call c with argument x succeeded.
Effect(st, c, x) ==
    CASE c = "removehosts"         -> [st EXCEPT !.members = @ \ {x}]
      [] c = "addhosts"            -> [st EXCEPT !.members = @ \cup {x}]
      [] c = "keyvalues"           -> [st EXCEPT !.tags[x[1]] = @ \cup {x[2]}]
      [] c = "removekeyvalues"     -> [st EXCEPT !.tags[x[1]] = @ \ {x[2]}]
      [] c = "removekeys"          -> [st EXCEPT !.tags[x] = {}]
      [] c = "adddependencies"     -> [st EXCEPT !.deps = @ \cup {x}]
      [] c = "removedependencies"  -> [st EXCEPT !.deps = @ \ {x}]

\* The store after a call, whatever it returned.
Call(st, c, x) == IF Succeeds(st, c, x) THEN Effect(st, c, x) ELSE st
=============================================================================
