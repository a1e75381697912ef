------------------------------- MODULE Routing -------------------------------
(***************************************************************************)
(* The URL table of range_app/urls.py (lines 28-63) and how Django uses it: *)
(* a request path is tried against the patterns in order and the first     *)
(* match wins; the named groups it captures are passed to the view's       *)
(* handler as keyword arguments, and a handler whose parameters do not     *)
(* bind them raises TypeError before its body runs (a 500).                *)
(*                                                                         *)
(* A path is the sequence of its segments after range/ and whether it ends *)
(* in '/'.  A pattern is a sequence of tokens: a literal segment, a named  *)
(* group ([a-zA-Z0-9_]+, which any segment of the model matches), or the   *)
(* non-capturing (?:[a-zA-Z0-9_]+/)+? and * of lines 35 and 36.            *)
(***************************************************************************)
EXTENDS Sequences, FiniteSets, Integers

CONSTANTS
    ArgWords,   \* the segments a URL may hold where a pattern has a group
    MaxSkip     \* the most segments one non-capturing repeat absorbs

Lit(w) == [kind |-> "lit", word |-> w]
Arg(n) == [kind |-> "arg", name |-> n]
Skip(m) == [kind |-> "skip", min |-> m]

Api(toks) == <<Lit("api"), Lit("v1")>> \o toks
Env == <<Lit("environments"), Arg("env")>>
R(v, toks, slash) == [view |-> v, toks |-> toks, slash |-> slash]

\* Bug variant of EnvRoutes (mutation check of RouteReachesView): the
\* EnvDetail pattern written with the '/?$' of the other routes.
EnvRoutesOptSlash == <<
    R("EnvList", Api(<<Lit("environments")>>), "yes"),
    R("EnvDetail", Api(Env), "opt"),
    R("EnvClusterList", Api(Env), "yes"),
    R("EnvClusterDetail", Api(Env \o <<Arg("cluster")>>), "no"),
    R("ClusterClusterList", Api(Env \o <<Arg("cluster")>>), "yes"),
    R("ClusterClusterList", Api(Env \o <<Skip(1), Arg("cluster")>>), "yes"),
    R("ClusterClusterDetail", Api(Env \o <<Skip(0), Arg("parent"), Arg("cluster")>>), "no")
  >>

\* urlpatterns 30-36, in order; slash: "yes" for '/$', "no" for '$', "opt"
\* for '/?$'.
EnvRoutes == <<
    R("EnvList", Api(<<Lit("environments")>>), "yes"),
    R("EnvDetail", Api(Env), "no"),
    R("EnvClusterList", Api(Env), "yes"),
    R("EnvClusterDetail", Api(Env \o <<Arg("cluster")>>), "no"),
    R("ClusterClusterList", Api(Env \o <<Arg("cluster")>>), "yes"),
    R("ClusterClusterList", Api(Env \o <<Skip(1), Arg("cluster")>>), "yes"),
    R("ClusterClusterDetail", Api(Env \o <<Skip(0), Arg("parent"), Arg("cluster")>>), "no")
  >>

\* The whole of urlpatterns in order (line 29, TopView, is commented out;
\* the docs include of line 64 is another application).
Routes == EnvRoutes \o <<
    R("HostsList", Api(<<Lit("hosts")>>), "opt"),
    R("DotView", Api(<<Lit("dot")>>), "opt"),
    R("DotTopologyView", Api(<<Lit("dot"), Lit("topology")>>), "opt"),
    R("DotEnvView", Api(<<Lit("dot"), Lit("topology"), Arg("env")>>), "no"),
    R("DotClusterView", Api(<<Lit("dot"), Lit("topology"), Arg("env"), Arg("cluster")>>), "no"),
    R("DotDependencyView", Api(<<Lit("dot"), Lit("dependency")>>), "opt"),
    R("DotDependencyClusterView", Api(<<Lit("dot"), Lit("dependency"), Arg("env"), Arg("cluster")>>), "no"),
    R("OrphansView", Api(<<Lit("orphans")>>), "opt"),
    R("EnvClusterOrphansList", Api(<<Lit("orphans"), Lit("clusters")>>), "opt"),
    R("ClusterOrphansList", Api(<<Lit("orphans"), Lit("clusters"), Arg("env")>>), "opt"),
    R("ClusterOrphansDetail", Api(<<Lit("orphans"), Lit("clusters"), Arg("env"), Arg("cluster")>>), "opt"),
    R("HostOrphansList", Api(<<Lit("orphans"), Lit("hosts")>>), "opt"),
    R("HostOrphansDetail", Api(<<Lit("orphans"), Lit("hosts"), Arg("host")>>), "opt"),
    R("ExpressionView", Api(<<Lit("expression")>>), "opt"),
    R("ExpressionView", Api(<<Lit("expression"), Arg("env")>>), "opt"),
    R("GraphCommonAncestor", Api(<<Lit("graph"), Lit("nearest_common_ancestor")>>), "opt"),
    R("GraphBFSParents", Api(<<Lit("graph"), Lit("bfs_search_parents_for_first_key")>>), "opt"),
    R("GraphDFSParents", Api(<<Lit("graph"), Lit("dfs_search_parents_for_first_key")>>), "opt"),
    R("GraphTopsort", Api(<<Lit("graph"), Lit("environment_topological_sort")>>), "opt"),
    R("LegacyListView", <<Lit("list")>>, "opt"),
    R("LegacyExpandView", <<Lit("expand")>>, "opt")
  >>

\* The keyword arguments a route passes: the names of its groups.
Kwargs(i) == {Routes[i].toks[k].name : k \in {k \in DOMAIN Routes[i].toks : Routes[i].toks[k].kind = "arg"}}

RoutesTo(v) == {i \in DOMAIN Routes : Routes[i].view = v}

\* The keyword parameters of each routed view's get: those without a
\* default (req) and those with one (opt).  DotDependencyView is the class
\* of line 795, which replaces the subclass of line 676 of the same name.
Sig(req, opt) == [req |-> req, opt |-> opt]
GetSig == [v \in {Routes[i].view : i \in DOMAIN Routes} |->
    CASE v \in {"EnvDetail", "EnvClusterList", "ClusterOrphansList", "HostOrphansList",
                "DotEnvView", "DotDependencyView"} -> Sig({"env"}, {})
      [] v \in {"ClusterClusterList", "ClusterOrphansDetail", "DotClusterView",
                "DotDependencyClusterView"} -> Sig({"env", "cluster"}, {})
      [] v \in {"EnvClusterDetail", "ClusterClusterDetail"} -> Sig({"env", "cluster"}, {"parent"})
      [] v = "HostOrphansDetail" -> Sig({"host"}, {})
      [] v = "ExpressionView" -> Sig({}, {"env"})
      [] OTHER -> Sig({}, {})]

\* The call handler(request, **kwargs) binds: every parameter without a
\* default is passed and nothing else is.
Binds(i) ==
    LET s == GetSig[Routes[i].view]
    IN  s.req \subseteq Kwargs(i) /\ Kwargs(i) \subseteq s.req \cup s.opt

\* Django's regex match of one pattern against a path.
RECURSIVE MatchToks(_, _)
MatchToks(toks, segs) ==
    IF toks = <<>> THEN segs = <<>>
    ELSE LET t == Head(toks) IN
         IF t.kind = "skip"
         THEN \E n \in t.min..Len(segs) : MatchToks(Tail(toks), SubSeq(segs, n + 1, Len(segs)))
         ELSE /\ segs # <<>>
              /\ t.kind = "lit" => Head(segs) = t.word
              /\ MatchToks(Tail(toks), Tail(segs))

Match(i, p) ==
    /\ MatchToks(Routes[i].toks, p.segs)
    /\ Routes[i].slash = "opt" \/ (Routes[i].slash = "yes") = p.slash

\* The route a path resolves to: the first that matches.
Resolve(p) ==
    LET ms == {i \in DOMAIN Routes : Match(i, p)}
    IN  IF ms = {} THEN 0 ELSE CHOOSE i \in ms : \A j \in ms : i <= j
-----------------------------------------------------------------------------
\* Every path a pattern describes, with ArgWords in its groups and up to
\* MaxSkip segments in a non-capturing repeat.
RECURSIVE Gen(_)
Gen(toks) ==
    IF toks = <<>> THEN {<<>>}
    ELSE LET t == Head(toks)
             rest == Gen(Tail(toks))
         IN  CASE t.kind = "lit" -> {<<t.word>> \o s : s \in rest}
               [] t.kind = "arg" -> {<<w>> \o s : w \in ArgWords, s \in rest}
               [] OTHER -> UNION {{k \o s : k \in [1..n -> ArgWords], s \in rest} : n \in t.min..MaxSkip}

Paths(i) ==
    {[segs |-> s, slash |-> b] :
        s \in Gen(Routes[i].toks),
        b \in CASE Routes[i].slash = "opt" -> BOOLEAN [] Routes[i].slash = "yes" -> {TRUE} [] OTHER -> {FALSE}}

\* The routes some URL of their own shape does not resolve to: an earlier
\* pattern of urlpatterns captures it.
Shadowed == {i \in DOMAIN Routes : \E p \in Paths(i) : Resolve(p) # i}
=============================================================================
