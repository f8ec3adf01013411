---------------------------- MODULE AbstractCache ----------------------------
(***************************************************************************)
(* What Cache::get_or_insert_with promises (the doc comment of            *)
(* src/homework/src/hello_server/cache.rs), with no locks and no map:     *)
(* each key's value is produced at most once, by one call of some         *)
(* caller's f, and every call of that key either returns that value or,   *)
(* if that f panicked, panics.  A call of a key nobody has computed yet   *)
(* waits until one caller computes it.  A value is named by the caller    *)
(* whose f produced it.                                                   *)
(***************************************************************************)
CONSTANTS
    Threads,    \* the caller threads
    Keys,       \* the keys
    None        \* no value

VARIABLES
    key,        \* key[t]: the key caller t asks for
    value,      \* value[k]: the value cached for k, or None
    failed,     \* failed[k]: the f computing k panicked
    apc,        \* apc[t]: "call" while t is inside the call, then "done" or "panicked"
    aret        \* aret[t]: what t returned, or None

avars == <<key, value, failed, apc, aret>>

(* An empty cache; every caller is about to call with some key. *)
Init ==
    /\ key \in [Threads -> Keys]
    /\ value = [k \in Keys |-> None]
    /\ failed = [k \in Keys |-> FALSE]
    /\ apc = [t \in Threads |-> "call"]
    /\ aret = [t \in Threads |-> None]

(* Nobody has computed t's key: t's f runs, once for the key. *)
Compute(t) ==
    /\ apc[t] = "call"
    /\ value[key[t]] = None /\ ~failed[key[t]]
    /\ value' = [value EXCEPT ![key[t]] = t]
    /\ UNCHANGED <<key, failed, apc, aret>>

(* Nobody has computed t's key and t's f panics: t dies, the key fails. *)
Fail(t) ==
    /\ apc[t] = "call"
    /\ value[key[t]] = None /\ ~failed[key[t]]
    /\ failed' = [failed EXCEPT ![key[t]] = TRUE]
    /\ apc' = [apc EXCEPT ![t] = "panicked"]
    /\ UNCHANGED <<key, value, aret>>

(* The key has its value: t returns it. *)
Return(t) ==
    /\ apc[t] = "call"
    /\ value[key[t]] # None
    /\ aret' = [aret EXCEPT ![t] = value[key[t]]]
    /\ apc' = [apc EXCEPT ![t] = "done"]
    /\ UNCHANGED <<key, value, failed>>

(* The key's f panicked: t panics too. *)
PanicRead(t) ==
    /\ apc[t] = "call"
    /\ failed[key[t]]
    /\ apc' = [apc EXCEPT ![t] = "panicked"]
    /\ UNCHANGED <<key, value, failed, aret>>

Call(t) == Compute(t) \/ Fail(t) \/ Return(t) \/ PanicRead(t)

Next == \E t \in Threads : Call(t)

(* A call in progress always has a next step, so weak fairness per       *)
(* caller says every call ends.                                           *)
Spec == Init /\ [][Next]_avars /\ \A t \in Threads : WF_avars(Call(t))
=============================================================================
