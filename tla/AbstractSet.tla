---------------------------- MODULE AbstractSet ----------------------------
(***************************************************************************)
(* What OrderedListSet promises its callers (spec.md 4.4): a set of keys   *)
(* whose contains, insert and remove each take effect atomically, at one   *)
(* instant between invocation and return.  ret[t] is the last operation    *)
(* thread t completed, as <<operation, key, result>>: insert returns TRUE  *)
(* for Ok(()) and FALSE for Err(key), remove TRUE for Ok(data) and FALSE   *)
(* for Err(()).  OrderedListSet refines this specification.                *)
(***************************************************************************)
CONSTANTS Threads, Keys, NoRet

VARIABLES set, ret

absVars == <<set, ret>>

Init ==
    /\ set = {}
    /\ ret = [t \in Threads |-> NoRet]

Contains(t, k) ==
    /\ ret' = [ret EXCEPT ![t] = <<"contains", k, k \in set>>]
    /\ UNCHANGED set

Insert(t, k) ==
    /\ ret' = [ret EXCEPT ![t] = <<"insert", k, k \notin set>>]
    /\ set' = set \cup {k}

Remove(t, k) ==
    /\ ret' = [ret EXCEPT ![t] = <<"remove", k, k \in set>>]
    /\ set' = set \ {k}

Next == \E t \in Threads, k \in Keys : Contains(t, k) \/ Insert(t, k) \/ Remove(t, k)

Spec == Init /\ [][Next]_absVars
=============================================================================
