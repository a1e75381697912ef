--------------------------- MODULE BatchRefinement ---------------------------
(***************************************************************************)
(* ClusterInfo.post (BatchMutation) as an implementation of the batch      *)
(* endpoint's specification (BatchSpec).  The refinement mapping keeps the *)
(* store, the report, pc and the answers, and maps the handler's position  *)
(* in its loops to the abstract list of items still to apply: the suffix  *)
(* of Plan(body) from the cursor on.                                       *)
(***************************************************************************)
EXTENDS BatchMutation

\* The items a request still has to apply.
TodoMap ==
    [r \in Requests |->
        IF pc[r] = "exec" THEN SubSeq(Planned[body[r]], cursor[r], Len(Planned[body[r]]))
        ELSE <<>>]

Abs == INSTANCE BatchSpec WITH todo <- TodoMap

(***************************************************************************)
(* ImplementsBatchSpec: every step of concurrent batch requests is a step  *)
(* of the specification: validation answers 400 before any store call,    *)
(* the store calls follow the specified category order one item at a       *)
(* time, each item is reported where its call put it, and the answer is   *)
(* 409 exactly when something failed.                                      *)
(***************************************************************************)
ImplementsBatchSpec == Abs!Spec

=============================================================================
