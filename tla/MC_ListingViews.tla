--------------------------- MODULE MC_ListingViews ---------------------------
(***************************************************************************)
(* Two environments named by one URL-safe segment, and two cluster names  *)
(* of which one holds a '#' (a name POSTed to EnvClusterList, which is not *)
(* matched by a URL pattern): with two environments and two clusters each, *)
(* every parent shape and every kind of orphan occurs.  Every route of    *)
(* urls.py is taken, and its URLs are those of MCArgWords with one segment *)
(* in a non-capturing repeat.                                              *)
(***************************************************************************)
EXTENDS ListingViews

CONSTANTS x, w, y, z, u

\* URL segments: a fresh word and every literal of urlpatterns, so that an
\* argument may spell a literal of another pattern.
MCArgWords == {u, "api", "v1", "environments", "hosts", "dot", "topology", "dependency",
               "orphans", "clusters", "expression", "graph", "list", "expand"}

MCEnvNames == {<<x>>, <<w>>}
MCClusterNames == {<<y>>, <<y, z>>}
=============================================================================
