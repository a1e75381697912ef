---------------------------- MODULE BatchMutation ----------------------------
(***************************************************************************)
(* ClusterInfo.post of range_api/views.py (lines 179-384): the batch       *)
(* mutation endpoint behind EnvClusterDetail and ClusterClusterDetail.     *)
(* Each request is handled by its own server thread against the shared     *)
(* store handle r: it validates the body, then makes one store call per    *)
(* item in a fixed category order, recording each item as succeeded or    *)
(* failed, and answers 200 (True), 409 (the report) or 500 (an exception   *)
(* escaped the handler).                                                   *)
(*                                                                         *)
(* A request body is the parsed JSON with each field abstracted to what    *)
(* the handler distinguishes: a list (a bare string is the one-element     *)
(* list it is normalised to at lines 201-208), BadType (a JSON number: not *)
(* a list and not iterable) or BadItems (a list, dict or string holding an *)
(* element of the wrong type).  A key/value field is a sequence of         *)
(* <<key, values>> pairs with distinct keys, in the dict's iteration       *)
(* order.  A dependency is [target, keys]: keys = "lower" when the JSON    *)
(* dict is spelled {"env", "cluster"}, "mixed" when it is another spelling *)
(* that the case-insensitive check of line 266 accepts (e.g. "Env").       *)
(***************************************************************************)
EXTENDS RangeStore, Naturals, Sequences, SequencesExt, Bags

CONSTANTS
    Requests,      \* concurrent requests to the endpoint (server threads)
    Bodies,        \* the request bodies a client may send
    Unencodable,   \* names that str() cannot encode (non-ASCII unicode)
    MaxFaults,     \* bound on store faults (RuntimeError) over a behaviour
    BadType, BadItems, NoBody, NoResponse

VARIABLES
    store,       \* the target cluster node in the store
    faults,      \* store faults raised so far
    pc,          \* request -> "idle" | "exec" | "done"
    body,        \* request -> its body
    cursor,      \* request -> index of the next item of Plan(body)
    succeeded,   \* request -> category -> items recorded as succeeded
    failed,      \* request -> category -> items recorded as failed
    failure,     \* request -> the handler's failure flag
    resp,        \* request -> HTTP status of the answer
    before       \* request -> store when it was received (history)

vars == <<store, faults, pc, body, cursor, succeeded, failed, failure, resp,
          before>>

Malformed == {BadType, BadItems}

Fields == {"addhosts", "addkeyvalues", "removekeyvalues", "removekeys",
           "removehosts", "adddependencies", "removedependencies"}

KVCats == {"keyvalues", "removekeyvalues"}
DepCats == {"adddependencies", "removedependencies"}

\* The outcome of validation when none of its early returns is taken.
Proceed == 0

(***************************************************************************)
(* Validation, lines 181-284.  A non-dict body, a body whose seven fields  *)
(* are all empty, and a field of the wrong shape give 400 before any       *)
(* store call.  removedependencies is never checked to be a list: line 269 *)
(* iterates it, so a JSON number there raises TypeError, a 500.  BadType  *)
(* is a truthy non-list (a non-zero number); a falsy one (0, false) also   *)
(* counts as empty in the test of line 191, which only differs when every *)
(* other field is empty.  Dependency keys are ASCII here: str(key) of a    *)
(* non-ASCII key at line 266 would raise outside any try, another 500.     *)
(***************************************************************************)
ValidationStatus(b) ==
    IF \/ b.shape # "dict"
       \/ \A f \in Fields : b[f] = <<>>
       \/ \E f \in Fields \ {"removedependencies"} : b[f] \in Malformed
       \/ b.removedependencies = BadItems
    THEN 400
    ELSE IF b.removedependencies = BadType THEN 500 ELSE Proceed

\* The store calls of a body, in the order of the loops of lines 293-377;
\* a key with N values is N calls (lines 316-342).
Steps(c, xs) == [i \in 1..Len(xs) |-> [cat |-> c, item |-> xs[i]]]
KVSteps(c, kvs) ==
    FlattenSeq([i \in 1..Len(kvs) |->
        [j \in 1..Len(kvs[i][2]) |-> [cat |-> c, item |-> <<kvs[i][1], kvs[i][2][j]>>]]])
\* Bug variant of Plan (mutation check of StoreReflectsReport): the
\* add-hosts loop placed before the remove-hosts loop.
PlanAddFirst(b) ==
    Steps("addhosts", b.addhosts) \o Steps("removehosts", b.removehosts)
      \o KVSteps("keyvalues", b.addkeyvalues)
      \o KVSteps("removekeyvalues", b.removekeyvalues)
      \o Steps("removekeys", b.removekeys)
      \o Steps("adddependencies", b.adddependencies)
      \o Steps("removedependencies", b.removedependencies)

Plan(b) ==
    Steps("removehosts", b.removehosts) \o Steps("addhosts", b.addhosts)
      \o KVSteps("keyvalues", b.addkeyvalues)
      \o KVSteps("removekeyvalues", b.removekeyvalues)
      \o Steps("removekeys", b.removekeys)
      \o Steps("adddependencies", b.adddependencies)
      \o Steps("removedependencies", b.removedependencies)

\* Plan of every body, computed once.
Planned == [b \in Bodies |-> Plan(b)]

\* The store argument of a recorded item: a dependency is recorded as the
\* request's dict and called with its target.
ArgOf(c, x) == IF c \in DepCats THEN x.target ELSE x

\* The exception, if any, the handler raises itself before the store call:
\* dep['env'] of a dict not spelled in lower case (lines 358, 370), or
\* str() of a non-ASCII name (lines 296-370).
LocalError(s) ==
    IF s.cat \in DepCats /\ s.item.keys = "mixed" THEN "KeyError"
    ELSE IF \E n \in (IF s.cat \in KVCats THEN {s.item[1], s.item[2]}
                      ELSE {ArgOf(s.cat, s.item)}) : n \in Unencodable
         THEN "UnicodeEncodeError"
    ELSE "none"

\* The host and dependency loops catch only RuntimeError; the key/value
\* and removekeys loops have a bare except (lines 301-377).
Caught(c, e) == e = "RuntimeError" \/ c \in KVCats \cup {"removekeys"}

\* Bug variants of NextKey (mutation checks of ReportSound and TypeOK):
\* the failed value is retried, or the index overshoots by one.
NextKeyRetry(p, i) == i
NextKeyPastEnd(p, i) ==
    1 + CHOOSE j \in i+1 .. Len(p)+1 :
            /\ \A m \in i+1 .. j-1 : p[m].cat = p[i].cat /\ p[m].item[1] = p[i].item[1]
            /\ j = Len(p)+1 \/ p[j].cat # p[i].cat \/ p[j].item[1] # p[i].item[1]

\* The key/value try block encloses the loop over a key's values, so an
\* exception abandons the key's remaining values (lines 320-328, 334-342).
NextKey(p, i) ==
    LET Same(j) == p[j].cat = p[i].cat /\ p[j].item[1] = p[i].item[1]
    IN  CHOOSE j \in i+1 .. Len(p)+1 :
            /\ \A m \in i+1 .. j-1 : Same(m)
            /\ j = Len(p)+1 \/ ~Same(j)

Cur(r) == Planned[body[r]][cursor[r]]

Executing(r) == pc[r] = "exec" /\ cursor[r] <= Len(Planned[body[r]])

Record(rep, r, s) == [rep EXCEPT ![r][s.cat] = Append(@, s.item)]
-----------------------------------------------------------------------------
Init ==
    /\ store \in StoreState
    /\ faults = 0
    /\ pc = [r \in Requests |-> "idle"]
    /\ body = [r \in Requests |-> NoBody]
    /\ cursor = [r \in Requests |-> 1]
    /\ succeeded = [r \in Requests |-> [c \in StoreCalls |-> <<>>]]
    /\ failed = [r \in Requests |-> [c \in StoreCalls |-> <<>>]]
    /\ failure = [r \in Requests |-> FALSE]
    /\ resp = [r \in Requests |-> NoResponse]
    /\ before = [r \in Requests |-> store]

\* A request arrives and is validated (lines 181-291).
Receive(r) ==
    /\ pc[r] = "idle"
    /\ \E b \in Bodies :
         /\ body' = [body EXCEPT ![r] = b]
         /\ \/ /\ ValidationStatus(b) = Proceed
               /\ pc' = [pc EXCEPT ![r] = "exec"]
               /\ UNCHANGED resp
            \/ /\ ValidationStatus(b) # Proceed
               /\ pc' = [pc EXCEPT ![r] = "done"]
               /\ resp' = [resp EXCEPT ![r] = ValidationStatus(b)]
    /\ before' = [before EXCEPT ![r] = store]
    /\ UNCHANGED <<store, faults, cursor, succeeded, failed, failure>>

\* The store call of the current item returns TRUE or FALSE.
CallReturns(r) ==
    LET s == Cur(r)
        ok == Succeeds(store, s.cat, ArgOf(s.cat, s.item))
    IN
    /\ Executing(r)
    /\ LocalError(s) = "none"
    /\ store' = Call(store, s.cat, ArgOf(s.cat, s.item))
    /\ \/ /\ ok
          /\ succeeded' = Record(succeeded, r, s)
          /\ UNCHANGED <<failed, failure>>
       \/ /\ ~ok
          /\ failed' = Record(failed, r, s)
          /\ failure' = [failure EXCEPT ![r] = TRUE]
          /\ UNCHANGED succeeded
    /\ cursor' = [cursor EXCEPT ![r] = @ + 1]
    /\ UNCHANGED <<faults, pc, body, resp, before>>

\* Exception e is raised while handling the current item: the loop's
\* except clause records the item as failed, or the exception escapes the
\* handler and the request ends in 500 with the calls made so far applied.
Raise(r, e) ==
    LET s == Cur(r) IN
    \/ /\ Caught(s.cat, e)
       /\ failed' = Record(failed, r, s)
       /\ \/ /\ s.cat \in KVCats
             /\ cursor' = [cursor EXCEPT ![r] = NextKey(Planned[body[r]], @)]
             /\ UNCHANGED failure
          \/ /\ s.cat \notin KVCats
             /\ cursor' = [cursor EXCEPT ![r] = @ + 1]
             /\ failure' = [failure EXCEPT ![r] = TRUE]
       /\ UNCHANGED <<pc, resp>>
    \/ /\ ~Caught(s.cat, e)
       /\ pc' = [pc EXCEPT ![r] = "done"]
       /\ resp' = [resp EXCEPT ![r] = 500]
       /\ UNCHANGED <<cursor, failed, failure>>

\* The store call raises RuntimeError (a store fault).
CallFaults(r) ==
    /\ Executing(r)
    /\ LocalError(Cur(r)) = "none"
    /\ faults < MaxFaults
    /\ faults' = faults + 1
    /\ Raise(r, "RuntimeError")
    /\ UNCHANGED <<store, body, succeeded, before>>

\* The handler raises before reaching the store.
HandlerRaises(r) ==
    /\ Executing(r)
    /\ LocalError(Cur(r)) # "none"
    /\ Raise(r, LocalError(Cur(r)))
    /\ UNCHANGED <<store, faults, body, succeeded, before>>

\* All items done: 409 with the report if the failure flag is set, else
\* True (lines 379-382).
Respond(r) ==
    /\ pc[r] = "exec"
    /\ cursor[r] > Len(Planned[body[r]])
    /\ pc' = [pc EXCEPT ![r] = "done"]
    /\ resp' = [resp EXCEPT ![r] = IF failure[r] THEN 409 ELSE 200]
    /\ UNCHANGED <<store, faults, body, cursor, succeeded, failed, failure,
                   before>>

Next ==
    \E r \in Requests :
        \/ Receive(r)
        \/ CallReturns(r)
        \/ CallFaults(r)
        \/ HandlerRaises(r)
        \/ Respond(r)

Spec == Init /\ [][Next]_vars

-----------------------------------------------------------------------------
(***************************************************************************)
(* Properties                                                              *)
(***************************************************************************)

\* The items recorded under result category c.
ItemsOf(c) ==
    CASE c \in {"removehosts", "addhosts"} -> Hosts
      [] c \in KVCats -> Keys \X Vals
      [] c = "removekeys" -> Keys
      [] c \in DepCats -> [target : Deps, keys : {"lower", "mixed"}]

TypeOK ==
    /\ store \in StoreState
    /\ faults \in 0..MaxFaults
    /\ pc \in [Requests -> {"idle", "exec", "done"}]
    /\ body \in [Requests -> Bodies \cup {NoBody}]
    /\ \A r \in Requests :
         pc[r] = "exec" => cursor[r] \in 1..Len(Planned[body[r]]) + 1
    /\ \A r \in Requests, c \in StoreCalls :
         succeeded[r][c] \in Seq(ItemsOf(c)) /\ failed[r][c] \in Seq(ItemsOf(c))
    /\ failure \in [Requests -> BOOLEAN]
    /\ resp \in [Requests -> {NoResponse, 200, 400, 409, 500}]

\* The items a body asks for under result category c, in request order.
Requested(b, c) ==
    LET sel == SelectSeq(Plan(b), LAMBDA s : s.cat = c)
    IN  [i \in 1..Len(sel) |-> sel[i].item]

Answered(r) == resp[r] \in {200, 409}

Validated(r) == body[r] # NoBody /\ ValidationStatus(body[r]) = Proceed

\* The category order of spec.md section 4.3.
SpecOrder == <<"removehosts", "addhosts", "keyvalues", "removekeyvalues",
               "removekeys", "adddependencies", "removedependencies">>

\* The node obtained by applying, in the specified category order, the
\* items a report lists as succeeded.
Replay(st, rep) ==
    FoldLeft(LAMBDA t, c :
                FoldLeft(LAMBDA u, x : Effect(u, c, ArgOf(c, x)), t, rep[c]),
             st, SpecOrder)

(***************************************************************************)
(* ReportSound: the report of ClusterInfo.post never lists an item the     *)
(* request did not ask for, nor one item more often than it was asked for: *)
(* each store call is recorded once, under succeeded or failed.            *)
(***************************************************************************)
ReportSound ==
    \A r \in Requests : Validated(r) =>
      \A c \in StoreCalls :
        ToBag(succeeded[r][c]) (+) ToBag(failed[r][c])
          \sqsubseteq ToBag(Requested(body[r], c))

(***************************************************************************)
(* StoreReflectsReport: when a batch runs alone and is answered 200 or     *)
(* 409, the cluster node is exactly the node it was received with, with    *)
(* the succeeded items applied in the specified category order            *)
(* (remove-hosts before add-hosts, ...): failed calls left no trace, and   *)
(* a host both removed and re-added ends present (spec.md section 8).      *)
(***************************************************************************)
StoreReflectsReport ==
    \A r \in Requests : Answered(r) =>
        store = Replay(before[r], succeeded[r])

(***************************************************************************)
(* ReportComplete (spec.md sections 3 and 8): when a batch is answered,    *)
(* succeeded and failed together hold every item the request asked for.   *)
(***************************************************************************)
ReportComplete ==
    \A r \in Requests : Answered(r) =>
      \A c \in StoreCalls :
        ToBag(succeeded[r][c]) (+) ToBag(failed[r][c])
          = ToBag(Requested(body[r], c))

(***************************************************************************)
(* FailureReported (spec.md section 4.3): a batch in which some item       *)
(* failed is answered with the 409 report, never with a bare True.         *)
(***************************************************************************)
FailureReported ==
    \A r \in Requests : resp[r] = 200 =>
        \A c \in StoreCalls : failed[r][c] = <<>>

(***************************************************************************)
(* BatchNeverAborts (spec.md section 7): a batch that passed validation is *)
(* never aborted by an item's failure: it is answered 200 or 409.          *)
(***************************************************************************)
BatchNeverAborts ==
    \A r \in Requests :
        (pc[r] = "done" /\ Validated(r)) => Answered(r)
=============================================================================
