---------------------------- MODULE MC_NodeQuery ----------------------------
(***************************************************************************)
(* Node GETs over every environment with clusters nested one level, two    *)
(* names (so that a child can share its parent's name) and at most two     *)
(* children per node, for each kind of depth parameter the parsing tells   *)
(* apart, including the boundaries 0, 1, 2 and MAX_DEPTH + 1.              *)
(***************************************************************************)
EXTENDS NodeQuery

CONSTANTS a, b

MCRawDepths ==
    {[kind |-> "absent"]}
    \cup [kind : {"word"}, word : {"full", "all", "abc"}]
    \cup [kind : {"int"}, n : {-1, 0, 1, 2, 3, MAX_DEPTH + 1}]
=============================================================================
