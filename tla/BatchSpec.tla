------------------------------ MODULE BatchSpec ------------------------------
(***************************************************************************)
(* What the batch mutation endpoint promises (spec.md sections 4.3, 5, 7   *)
(* and 8), independently of how ClusterInfo.post is written.  A request    *)
(* whose shape is malformed, or whose seven fields are all empty, is       *)
(* rejected as a bad request before any store call.  Otherwise its items   *)
(* are applied one at a time, category by category in the specified      *)
(* order and each key's values one by one; each item either lands         *)
(* (success), or fails with no effect (a logical failure or a store       *)
(* fault), and is reported under succeeded or failed.  Batches of         *)
(* different requests are not isolated: their items interleave.  Once    *)
(* every item is done the batch is answered: a conflict with the report   *)
(* if any item failed, success otherwise.                                  *)
(***************************************************************************)
EXTENDS RangeStore, Sequences, SequencesExt

CONSTANTS
    Requests,     \* concurrent requests
    Bodies,       \* the request bodies a client may send
    Malformed,    \* field values of the wrong shape
    NoResponse

VARIABLES
    store,       \* the target cluster node
    pc,          \* request -> "idle" | "exec" | "done"
    todo,        \* request -> the items not yet applied, in order
    succeeded,   \* request -> category -> items that landed
    failed,      \* request -> category -> items that failed
    resp         \* request -> the answer

avars == <<store, pc, todo, succeeded, failed, resp>>

\* The categories in execution order, and the field each is read from.
Categories == <<"removehosts", "addhosts", "keyvalues", "removekeyvalues",
                "removekeys", "adddependencies", "removedependencies">>
FieldOf == [removehosts |-> "removehosts", addhosts |-> "addhosts",
            keyvalues |-> "addkeyvalues", removekeyvalues |-> "removekeyvalues",
            removekeys |-> "removekeys", adddependencies |-> "adddependencies",
            removedependencies |-> "removedependencies"]

\* A well-formed request with at least one item (spec.md 7 and 8).
Valid(b) ==
    /\ b.shape = "dict"
    /\ \A c \in StoreCalls : b[FieldOf[c]] \notin Malformed
    /\ \E c \in StoreCalls : b[FieldOf[c]] # <<>>

\* The items of category c: one per value of each key for key/values.
ItemsIn(b, c) ==
    LET xs == b[FieldOf[c]] IN
    IF c \in {"keyvalues", "removekeyvalues"}
    THEN FlattenSeq([i \in DOMAIN xs |->
                       [j \in DOMAIN xs[i][2] |-> [cat |-> c, item |-> <<xs[i][1], xs[i][2][j]>>]]])
    ELSE [i \in DOMAIN xs |-> [cat |-> c, item |-> xs[i]]]

AllItems(b) == FlattenSeq([k \in DOMAIN Categories |-> ItemsIn(b, Categories[k])])

\* A dependency is applied to the store by its target.
Target(s) == IF s.cat \in {"adddependencies", "removedependencies"} THEN s.item.target ELSE s.item

\* The items of every body, computed once.
BodyItems == [b \in Bodies |-> AllItems(b)]

Note(rep, r, s) == [rep EXCEPT ![r][s.cat] = Append(@, s.item)]

Init ==
    /\ store \in StoreState
    /\ pc = [r \in Requests |-> "idle"]
    /\ todo = [r \in Requests |-> <<>>]
    /\ succeeded = [r \in Requests |-> [c \in StoreCalls |-> <<>>]]
    /\ failed = [r \in Requests |-> [c \in StoreCalls |-> <<>>]]
    /\ resp = [r \in Requests |-> NoResponse]

Start(r) ==
    /\ pc[r] = "idle"
    /\ \E b \in Bodies : \/ Valid(b) /\ todo' = [todo EXCEPT ![r] = BodyItems[b]]
                                     /\ pc' = [pc EXCEPT ![r] = "exec"]
                                     /\ UNCHANGED resp
                         \/ ~Valid(b) /\ pc' = [pc EXCEPT ![r] = "done"]
                                      /\ resp' = [resp EXCEPT ![r] = 400]
                                      /\ UNCHANGED todo
    /\ UNCHANGED <<store, succeeded, failed>>

\* The next item lands, or fails without effect.
Apply(r) ==
    LET s == Head(todo[r]) IN
    /\ pc[r] = "exec" /\ todo[r] # <<>>
    /\ \/ /\ Succeeds(store, s.cat, Target(s))
          /\ store' = Effect(store, s.cat, Target(s))
          /\ succeeded' = Note(succeeded, r, s)
          /\ UNCHANGED failed
       \/ /\ failed' = Note(failed, r, s)
          /\ UNCHANGED <<store, succeeded>>
    /\ todo' = [todo EXCEPT ![r] = Tail(@)]
    /\ UNCHANGED <<pc, resp>>

Answer(r) ==
    /\ pc[r] = "exec" /\ todo[r] = <<>>
    /\ pc' = [pc EXCEPT ![r] = "done"]
    /\ resp' = [resp EXCEPT ![r] =
                  IF \E c \in StoreCalls : failed[r][c] # <<>> THEN 409 ELSE 200]
    /\ UNCHANGED <<store, todo, succeeded, failed>>

Next == \E r \in Requests : Start(r) \/ Apply(r) \/ Answer(r)

Spec == Init /\ [][Next]_avars

=============================================================================
