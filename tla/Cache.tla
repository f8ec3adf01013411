-------------------------------- MODULE Cache --------------------------------
(***************************************************************************)
(* Cache::get_or_insert_with of src/homework/src/hello_server/cache.rs.    *)
(*                                                                         *)
(* The cache is a Mutex<HashMap<K, Arc<RwLock<Option<V>>>>>.  Each caller  *)
(* thread makes one call with its own key and its own closure f.  The map  *)
(* mutex is held from lock() to drop(map); under it the caller finds or    *)
(* inserts the key's placeholder and, if it inserted it, write-locks it.   *)
(* f then runs outside the map lock with the write guard held, and every   *)
(* caller finally read-locks the entry and unwraps the value.  f may       *)
(* panic: the write guard is dropped while unwinding, which poisons the    *)
(* RwLock, and later read().unwrap() calls panic on the PoisonError.       *)
(* A value is modelled by the caller whose f produced it.                  *)
(***************************************************************************)
EXTENDS Naturals, FiniteSets

CONSTANTS
    Threads,    \* the caller threads
    Keys,       \* the keys they ask for
    None        \* no thread / no value

VARIABLES
    mapOwner,   \* the thread holding the map mutex, or None
    entries,    \* the keys present in the HashMap
    writer,     \* writer[k]: the thread holding k's write guard, or None
    cell,       \* cell[k]: the Option<V> behind k's RwLock (None or a value)
    poisoned,   \* poisoned[k]: k's RwLock was poisoned by a panic in f
    calls,      \* calls[k]: how many times an f was called for k (ghost)
    pc,         \* where each caller is
    key,        \* key[t]: the key caller t asks for
    inserted,   \* inserted[t]: has_inserted of caller t
    ret         \* ret[t]: the value caller t returned, or None

vars == <<mapOwner, entries, writer, cell, poisoned, calls, pc, key, inserted, ret>>

-----------------------------------------------------------------------------
(* Cache::default(): an empty map; each caller is about to call with a key. *)
Init ==
    /\ mapOwner = None
    /\ entries = {}
    /\ writer = [k \in Keys |-> None]
    /\ cell = [k \in Keys |-> None]
    /\ poisoned = [k \in Keys |-> FALSE]
    /\ calls = [k \in Keys |-> 0]
    /\ pc = [t \in Threads |-> "lock"]
    /\ key \in [Threads -> Keys]
    /\ inserted = [t \in Threads |-> FALSE]
    /\ ret = [t \in Threads |-> None]

(* self.inner.lock().unwrap(): blocks while another caller holds the map. *)
(* The map is never poisoned: nothing under it can panic.                 *)
LockMap(t) ==
    /\ pc[t] = "lock"
    /\ mapOwner = None
    /\ mapOwner' = t
    /\ pc' = [pc EXCEPT ![t] = "entry"]
    /\ UNCHANGED <<entries, writer, cell, poisoned, calls, key, inserted, ret>>

(* Bug variant of Entry: the Occupied arm also reports has_inserted, so a *)
(* caller that finds the entry write-locks it and calls its own f.        *)
EntryOccupiedInserts(t) ==
    /\ pc[t] = "entry"
    /\ writer[key[t]] = None
    /\ entries' = entries \cup {key[t]}
    /\ writer' = [writer EXCEPT ![key[t]] = t]
    /\ inserted' = [inserted EXCEPT ![t] = TRUE]
    /\ pc' = [pc EXCEPT ![t] = "unlock"]
    /\ UNCHANGED <<mapOwner, cell, poisoned, calls, key, ret>>

(* Bug variant of Entry: the placeholder is inserted without its write   *)
(* lock, which is only taken to store f's value after drop(map).          *)
EntryNoWriteLock(t) ==
    /\ pc[t] = "entry"
    /\ entries' = entries \cup {key[t]}
    /\ inserted' = [inserted EXCEPT ![t] = key[t] \notin entries]
    /\ pc' = [pc EXCEPT ![t] = "unlock"]
    /\ UNCHANGED <<mapOwner, writer, cell, poisoned, calls, key, ret>>

(* map.entry(key): Occupied clones the Arc; Vacant inserts a fresh        *)
(* RwLock(None).  If it inserted, found.write().unwrap() takes the fresh  *)
(* lock's write guard while the map is still locked.                      *)
Entry(t) ==
    /\ pc[t] = "entry"
    /\ IF key[t] \in entries
         THEN UNCHANGED <<entries, writer, inserted>>
         ELSE /\ entries' = entries \cup {key[t]}
              /\ writer[key[t]] = None
              /\ writer' = [writer EXCEPT ![key[t]] = t]
              /\ inserted' = [inserted EXCEPT ![t] = TRUE]
    /\ pc' = [pc EXCEPT ![t] = "unlock"]
    /\ UNCHANGED <<mapOwner, cell, poisoned, calls, key, ret>>

(* Bug variant of UnlockMap: the map guard is kept until the end of the  *)
(* call (no drop(map)), so f runs under the map lock.                     *)
UnlockMapLate(t) ==
    /\ pc[t] = "unlock"
    /\ pc' = [pc EXCEPT ![t] = IF inserted[t] THEN "f" ELSE "read"]
    /\ UNCHANGED <<mapOwner, entries, writer, cell, poisoned, calls, key, inserted, ret>>

(* drop(map); the caller that inserted the placeholder goes on to call f. *)
UnlockMap(t) ==
    /\ pc[t] = "unlock"
    /\ mapOwner' = None
    /\ pc' = [pc EXCEPT ![t] = IF inserted[t] THEN "f" ELSE "read"]
    /\ UNCHANGED <<entries, writer, cell, poisoned, calls, key, inserted, ret>>

(* *write_guard = Some(f(key)): f returns, the value is stored and the   *)
(* guard is dropped.                                                       *)
FReturn(t) ==
    /\ pc[t] = "f"
    /\ cell' = [cell EXCEPT ![key[t]] = t]
    /\ writer' = [writer EXCEPT ![key[t]] = None]
    /\ calls' = [calls EXCEPT ![key[t]] = @ + 1]
    /\ pc' = [pc EXCEPT ![t] = "read"]
    /\ UNCHANGED <<mapOwner, entries, poisoned, key, inserted, ret>>

(* Bug variant of FPanic: the panic of f is caught under the write guard *)
(* and f is called again.                                                 *)
FPanicRetried(t) ==
    /\ pc[t] = "f"
    /\ calls' = [calls EXCEPT ![key[t]] = @ + 1]
    /\ UNCHANGED <<mapOwner, entries, writer, cell, poisoned, pc, key, inserted, ret>>

(* f(key) panics: unwinding drops the write guard, poisoning the RwLock, *)
(* and the caller thread dies; the placeholder stays None in the map.     *)
FPanic(t) ==
    /\ pc[t] = "f"
    /\ poisoned' = [poisoned EXCEPT ![key[t]] = TRUE]
    /\ writer' = [writer EXCEPT ![key[t]] = None]
    /\ calls' = [calls EXCEPT ![key[t]] = @ + 1]
    /\ pc' = [pc EXCEPT ![t] = "panicked"]
    /\ UNCHANGED <<mapOwner, entries, cell, key, inserted, ret>>

(* found.read().unwrap().clone().unwrap(): waits for the write guard,    *)
(* panics on a poisoned lock or on a None value, else returns the value. *)
(* The read guard is a temporary dropped in the same statement.           *)
Read(t) ==
    /\ pc[t] = "read"
    /\ writer[key[t]] = None
    /\ IF poisoned[key[t]] \/ cell[key[t]] = None
         THEN /\ pc' = [pc EXCEPT ![t] = "panicked"] /\ UNCHANGED ret
         ELSE /\ ret' = [ret EXCEPT ![t] = cell[key[t]]]
              /\ pc' = [pc EXCEPT ![t] = "done"]
    /\ UNCHANGED <<mapOwner, entries, writer, cell, poisoned, calls, key, inserted>>

(* Every caller has returned or panicked. *)
Terminated ==
    /\ \A t \in Threads : pc[t] \in {"done", "panicked"}
    /\ UNCHANGED vars

Step(t) == LockMap(t) \/ Entry(t) \/ UnlockMap(t) \/ FReturn(t) \/ FPanic(t) \/ Read(t)

Next == (\E t \in Threads : Step(t)) \/ Terminated

(* Each caller is an OS thread; a thread blocked on the map mutex or on  *)
(* an RwLock is disabled until the lock is released.                      *)
Spec == Init /\ [][Next]_vars /\ \A t \in Threads : WF_vars(Step(t))
-----------------------------------------------------------------------------
TypeOK ==
    /\ mapOwner \in Threads \cup {None}
    /\ entries \subseteq Keys
    /\ writer \in [Keys -> Threads \cup {None}]
    /\ cell \in [Keys -> Threads \cup {None}]
    /\ poisoned \in [Keys -> BOOLEAN]
    /\ calls \in [Keys -> 0..Cardinality(Threads)]
    /\ pc \in [Threads -> {"lock", "entry", "unlock", "f", "read", "done", "panicked"}]
    /\ key \in [Threads -> Keys]
    /\ inserted \in [Threads -> BOOLEAN]
    /\ ret \in [Threads -> Threads \cup {None}]

(* "f should be run only once for each key", even for concurrent calls:  *)
(* only the caller that inserted the placeholder calls f.                 *)
FCalledOnce == \A k \in Keys : calls[k] <= 1

(* "An invocation should not block another invocation with a different   *)
(* key": a caller running f holds no lock another caller with a different *)
(* key is waiting for.                                                    *)
WaitsOn(t2, t1) ==
    \/ pc[t2] = "lock" /\ mapOwner = t1
    \/ pc[t2] \in {"read", "entry"} /\ writer[key[t2]] = t1

NoCrossKeyBlocking ==
    \A t1, t2 \in Threads :
        pc[t1] = "f" /\ WaitsOn(t2, t1) => key[t1] = key[t2]

(* The refinement mapping: the value and failure of a key are the       *)
(* RwLock's Option<V> and its poison flag; a caller is in the call until  *)
(* it returns or panics.  Locks, the map and has_inserted are hidden.     *)
AC == INSTANCE AbstractCache WITH
        value <- cell, failed <- poisoned, aret <- ret,
        apc <- [t \in Threads |-> IF pc[t] \in {"done", "panicked"} THEN pc[t] ELSE "call"]

(* get_or_insert_with implements its doc comment: each key's value is    *)
(* stored once, by the caller that inserted the placeholder, before any   *)
(* reader of the key can see the entry unlocked; every caller of the key  *)
(* returns that value, or panics only because that key's f panicked; and *)
(* every call ends, nobody waiting for ever on the map mutex or a RwLock. *)
CacheRefinement == AC!Spec
=============================================================================
