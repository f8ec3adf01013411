# TLA+ models of the cs431 concurrent-programming homework

This directory holds TLA+ models of the concurrent data structures in
`src/homework/src/`, the TLC configurations that check them, and `PROJECT.json`,
which maps every model definition to the source lines it translates and lists
the runs, mutants, findings and hazards.

## 1. Inventory

### Components

| Component | Source | Shared state | Operations |
|---|---|---|---|
| OrderedListSet (lock-coupling set) | `list_set.rs` | `head: Mutex<*mut Node>`; per node `data` and `next: Mutex<*mut Node>` | `find` (hand-over-hand), `contains`, `insert`, `remove`, `iter` + `Iter::next`, `Drop` |
| HazardBag (hazard-pointer registry) | `hazard_pointer/hazard.rs` | `head: AtomicPtr<HazardSlot>`; per slot `active: AtomicBool`, `hazard: AtomicUsize`, immutable `next` | `acquire_slot` (`try_acquire_inactive`, then append with a CAS on head), `all_hazards`, `Drop` (a `todo!()` stub) |
| Shield | `hazard_pointer/hazard.rs` | the slot it owns | `new`, `try_protect`, `protect`, `Drop` (a `todo!()` stub) |
| SplitOrderedList (lock-free map) | `hash_table/split_ordered_list.rs` | Harris `list` of `(ordering key, Option<V>)` nodes, `buckets` (GrowableArray of sentinel pointers), `size`, `count` | `get_top_bit`, `lookup_bucket` (recursive bucket initialisation), `find`, `lookup`, `insert`, `delete`, `assert_valid_key` |
| HarrisList, GrowableArray, crossbeam guard | not under `src/` | list nodes with mark bits; lazily allocated slot array | consumed through `Cursor::find_harris`, `insert`, `delete`, `lookup`, `curr` and `GrowableArray::get` (spec.md 6) |
| ThreadPool | `hello_server/thread_pool.rs` | `job_count: Mutex<usize>` + `empty_condvar`; an unbounded MPMC job channel; worker threads | `new`, `execute`, worker loop (`start_job`, run, `finish_job`), `join` (`wait_empty`), `Drop` |
| Cache | `hello_server/cache.rs` | `Mutex<HashMap<K, Arc<RwLock<Option<V>>>>>` | `get_or_insert_with` |

### How they interact

OrderedListSet, Cache and ThreadPool stand alone. SplitOrderedList is built
on a HarrisList (its only list) and a GrowableArray (its bucket index), and
its nodes are reclaimed through crossbeam's epoch guard, not through the
HazardBag. Shields publish pointers in the HazardBag's slots; the retiring side
(`retire.rs`, which would call `all_hazards`) is not in this repository.
All interaction is through shared memory: atomics with CAS, mutexes, a
condition variable and a channel.

### What is hard

* **OrderedListSet**: interleavings of hand-over-hand traversals with splices
  and unlinks by other threads; a node freed by `remove` while another thread
  holds or waits for its lock; references yielded by `Iter` outliving the lock
  that protected them; lock-order deadlock.
* **HazardBag/Shield**: two threads racing to append a slot (the CAS failure
  path frees a slot), slot recycling by a CAS on `active`, the publish-then-
  validate order in `try_protect` racing a writer of `src`, termination of the
  `all_hazards` walk, the stubbed `Drop`s.
* **SplitOrderedList**: a thread's `size` read going stale before it is used;
  two threads initialising the same bucket; `count` updated before (insert)
  and before-and-regardless-of (delete) the list operation it accounts for;
  `unwrap()` on list operations that fail under contention; word-width
  arithmetic (`reverse_bits`, `count` wrap, `get_top_bit`'s shift loop).
* **ThreadPool**: `job_count` incremented only when a worker starts a job, so
  `join` can return while jobs are queued; a panicking job never calls
  `finish_job`; worker panics are swallowed by `Worker::drop`.
* **Cache**: at most one call of `f` per key while calls for different keys
  run concurrently; a placeholder write lock taken under the map lock.

### Properties that make each component correct

* OrderedListSet: the list stays sorted, acyclic and exactly the live nodes;
  each traversal holds one lock, never a freed node's; `contains`, `insert`,
  `remove` linearize to a sequential set; iteration ascends and misses no key
  that stays in the set; every call returns; yielded references stay valid.
* HazardBag/Shield: a slot is owned by at most one live Shield and is never
  freed while owned; a validated protection is visible to `all_hazards`;
  `all_hazards` terminates; a dropped Shield's hazard disappears and its slot
  is recycled.
* SplitOrderedList: linearizable to a sequential map; ordering keys distinct,
  bucket sentinels precede their items at every size; `size` a power of two
  and non-decreasing; `count` equals the number of items when quiescent;
  no operation panics under contention.
* ThreadPool: `join` returns only when every job executed so far has finished;
  every job runs exactly once; `Drop` joins all workers.
* Cache: `f` runs once per key; every caller gets the value `f` produced.

## 2. Plan

Modules, in the order they were built:

1. `AbstractSet`, `OrderedListSet`, `MCOrderedListSet` (done): the
   lock-coupling set, shown to refine the atomic set.
2. `SplitOrder` (done): the split-order arithmetic of `split_ordered_list.rs`
   as operators.
3. `HazardBag`, `MCHazardBag` (done): slot acquisition, recycling, append,
   `try_protect`/`protect`, `all_hazards` and the `Shield::drop` stub, with a
   writer of `src`, and `HazardBag::drop`. Left: a passing run for the
   properties the code would keep once its three defects are kept out of
   the reachable states.
4. `SplitOrderedList`, `MCSplitOrderedList` (done): the concurrent map over
   a Harris list and a bucket array (both modelled from spec.md), with the
   arithmetic of `SplitOrder`.
5. `ThreadPool`, `MCThreadPool` (done).
6. `Cache`, `MCCache` (done), shown to refine `AbstractCache`, the
   doc comment's contract.

Left: a refinement of an abstract map for `SplitOrderedList` (the action
properties `UpdatesLinearize` and `ResultsLinearizable` state it directly
now), runs with more calls per thread once the state space allows, and the
hazards of `PROJECT.json` that still have no property.

## 3. What is modelled now

Each module keeps the control of the code it models (every lock, CAS,
load, store, early return and error path, in the code's order) and
abstracts data to model values: keys are small naturals, node and slot
addresses are model values an allocator hands out and takes back (a freed
address can be reused), jobs are model values. `PROJECT.json` "map" gives,
for every definition, the lines it translates.

### OrderedListSet (`list_set.rs`): `AbstractSet`, `OrderedListSet`, `MCOrderedListSet`

State: `head`, `next[a]`, `data[a]` for node addresses, `allocated` (live
nodes), `lock[c]` for every mutex-protected cell (`HEAD` or a node's
`next`), and per thread the call (`op`, `key`), the cell its `MutexGuard`
holds (`cur`), and `pc`. One action per step of the code:

* `LockHead` (`self.head.lock()` in `find` and `iter`);
* `FindAdvance` (lock `next`, then drop the old guard) and `FindReturn`
  (`Cursor::find`);
* `ContainsReturn`, `InsertOk`/`InsertErr`, `RemoveOk`/`RemoveErr`. Each
  `RemoveOk` locks the target's `next` before it frees the target;
* `IterNext`/`IterEnd` (`Iter::next`) and `DropSet` (`Drop`).

`Invoke` and `IterUse` stand for callers. Ghost variables: `ret`, the
results for the refinement; `refs`, `yielded` and `stable`, what an
iterator handed out and what it must yield.

* Run `ol_set` (2 threads, keys {1,2}, 3 addresses, 2 calls per thread,
  147,648 states) checks:
  * `ListWellFormed`: sorted, acyclic, and exactly the live nodes.
  * `CursorLocksLive`: one lock per traversal, never a freed node's.
  * `IterationSound`: ascending, missing no key that stayed in the set.
  * `SetRefinement`: the refinement of `AbstractSet` (linearizability of
    `contains`/`insert`/`remove`).
  * `CallsReturn`: every call returns.

  Three addresses with two keys let a node be freed and its address
  reused while another thread still runs. The module has no type
  invariant in this run: no plausible bug of `list_set.rs` takes a
  variable out of its type without first breaking one of the properties
  above (an address or a lock is always a cell, a key always a key).
* Run `ol_set_iterref` finds `NoDanglingIterRef` violated. `Iter::next`
  yields `&data` and moves its lock on, so a `remove` can free the node
  while the caller still holds the reference.

### SplitOrderedList (`split_ordered_list.rs`): `SplitOrder`, `SplitOrderedList`, `MCSplitOrderedList`

`SplitOrder` holds the word arithmetic as operators, in W-bit words:

* `ReverseBits` (recursive), `SentinelKey`, `RegularKey` (`reverse_bits()
  + 1`, wrapping);
* `TopBitLoop`/`GetTopBit` (the shift loop of `get_top_bit`, with its
  wrap-around);
* `ParentBucket`, `ValidKey`, `BucketOf`.

Three facts of the arithmetic alone are `ASSUME`s that TLC checks over all
2^W words whenever the model starts, against reference definitions (`Bit`,
`RefTopBit`): `ReverseBitsCorrect`, `OrderingKeysDistinct` (data keys are
distinct from sentinels and from each other) and `TopBitTerminates`
(`get_top_bit` ends exactly for indices below 2^(W-1)).

`SplitOrderedList` models the map run by concurrent threads. The Harris
list and the `GrowableArray` live outside `src/` and are modelled from
spec.md section 6.

State:

* the list: `nkey`, `nnext` and `nmark` (the tag bit of the next field)
  per node, `used` (nodes are handed out in order and never reused, as
  crossbeam-epoch defers every free past all guards), and `head`;
* `buckets`, the array's slots by bucket index;
* `size` and `count`;
* per thread, the locals of its call in `th[t]`:
  * `pc`, `op`, `key` and `sz` (the size its `find` read);
  * `stack`, the recursion of `lookup_bucket`, as a stack of bucket
    indices;
  * the cursor `prev` (a cell: the head, a bucket slot or a node's next)
    and `curr`, with `pnext`, the value `prev` held when the search passed
    it;
  * `found` and `pcount`, the value `fetch_add` returned.

Actions, one per shared-memory access:

* `Invoke` is `find`'s `size` load and `key % size`.
* `LoadSlot`, `LoadHead`, `BInsert` and `Publish` are `lookup_bucket`:
  * `LoadSlot` is the slot load. It returns a `from_raw` cursor, takes the
    head, or recurses to the parent bucket.
  * `BInsert` is the sentinel's insert CAS. On `Err` it continues the loop.
  * `Publish` is the publishing CAS. If it loses, the sentinel is deleted.
* `Traverse` and `Cleanup` are `find_harris`. `Cleanup` is the unlinking
  CAS, whose failure returns `Err`.
* `Mark` and `Unlink` are `Cursor::delete`.
* `Add`, `Ins` and `Grow` are `insert`:
  * `Add` is the `fetch_add`.
  * `Ins` is the list insert. Its failure is the `unwrap` panic. It then
    runs the load-factor test in W-bit arithmetic.
  * `Grow` is the `size` CAS.
* `Sub` is `delete`'s `fetch_sub`, done before `Mark`.

`find`'s `unwrap` of an `Err` and `insert`'s `unwrap` both make the thread
panic, and both are reached. No property catches these panics:
`CallsEnd` counts a panic as the end of a call and `ResultsLinearizable`
leaves panicked calls out. spec.md section 7 says the map does not panic
on a valid key. A property that said so would be violated, so it would
need a violation run of its own, and every run the project may have is
taken. The hazards at lines 104 and 141 record this. A ghost `seen[t]` records whether `t`'s key
was in the map at each instant of its call.

Run `sol` uses W = 4, two threads with one call each of any operation on
keys {1, 2}, and a map that is either new or prefilled with {1, 3, 5, 7}.
With the prefill, the insert of key 2 doubles `size` from 2 to 4 and
initialises bucket 2 from its parent 0. The run has 36,803 states. It
checks:

* `ListSorted`: the list stays sorted, and only sentinels may repeat a
  key. A duplicate sentinel is reachable when two threads initialise the
  same bucket.
* `BucketsPublished`: a published slot points at a reachable, unmarked
  node with its bucket's sentinel key.
* `UpdatesLinearize` (action): the content changes only at an insert's
  CAS, which adds an absent key, or a delete's mark, which removes a
  present one.
* `ResultsLinearizable` (action): each result is the one the atomic map
  gives at some instant of the call.
* `CallsEnd`: every call returns or panics.
* `SplitOrderSound`: at the current size, a key's bucket sentinel is the
  last sentinel before it.
* `ParentSound`: for each bucket index below the size, the parent's
  sentinel is the last smaller-index sentinel before the bucket's own.
* `SplitOnGrow` (action): doubling `size` splits each bucket into itself
  and `old + size`.
* `LoadFactorKept`: when no call is running, the map holds at most
  `size * LOAD_FACTOR` items. This rests on `insert`'s test
  `prev_count + 1 > size * LOAD_FACTOR`, made in wrapping arithmetic with
  the size its `find` read, and on the doubling CAS.

Run `sol_count` finds `CountMatchesItems` violated. Two deletes of one key
both run `fetch_sub`, only one of them marks the node, and `count` ends
one below the number of items.

### Cache (`hello_server/cache.rs`): `AbstractCache`, `Cache`, `MCCache`

State:

* `mapOwner`, the holder of the map mutex;
* `entries`, the keys in the HashMap;
* per key:
  * `writer`, the holder of the placeholder's write guard;
  * `cell`, the `Option<V>`, where a value is the caller whose `f` made
    it;
  * `poisoned`;
  * a ghost count of `f` calls;
* per caller: `pc`, `key`, `has_inserted` and the returned value.

Actions follow `get_or_insert_with` line by line:

* `LockMap`.
* `Entry`: Occupied clones the entry. Vacant inserts it and write-locks it
  under the map lock.
* `UnlockMap` (`drop(map)`).
* `FReturn` or `FPanic`. A panic poisons the RwLock.
* `Read`: waits for the writer, then panics on poison or `None`.

`AbstractCache` states the doc comment of `get_or_insert_with` with no
locks and no map. Its state is per key a value (or `None`) and a failed
flag, and per caller its key, whether it is in the call, and what it
returned. A caller in the call takes one atomic step:

* `Compute`: its key has no value and has not failed, so its `f` stores
  one;
* `Fail`: as `Compute`, but `f` panics; the caller dies and the key fails;
* `Return`: the key has a value, which the caller returns;
* `PanicRead`: the key failed, so the caller panics.

Weak fairness per caller makes every call end. In `Cache`, the instance
`AC` maps `value` to `cell`, `failed` to `poisoned`, the caller state to
"in the call" until `pc` is `done` or `panicked`, and `aret` to `ret`.
`LockMap`, `Entry` and `UnlockMap` are stuttering steps. `FReturn` is
`Compute`, `FPanic` is `Fail`, and `Read` is `Return` or `PanicRead`.

Run `cache` (3 callers, 2 keys, any assignment of keys) checks:

* `FCalledOnce`;
* `NoCrossKeyBlocking`: a caller running `f` holds nothing that a caller
  of another key waits for;
* `CacheRefinement` (`AC!Spec` as a property). Each key's value is stored
  once. Every caller of the key returns that value, or panics only if
  that key's `f` panicked; a reader never sees the `None` placeholder.
  Every call ends. It replaces three earlier properties (the returned
  value, panics only from `f`, and every call returns), which it implies.
  Its mutant `EntryNoWriteLock` inserts the placeholder without taking its
  write lock under the map lock, and TLC finds a reader that sees `None`.

### HazardBag and Shield (`hazard_pointer/hazard.rs`): `HazardBag`, `MCHazardBag`

State:

* the bag: `head`, and `active`, `hazard` and `snext` per slot address;
* `mem`, the allocated slots;
* `src`, the protected `AtomicPtr`, written by `WriteSrc`;
* per thread: `pc`, its `slot`, the cursor `walk`, the loaded head `seen`,
  the `pointer` (`ptr`) and the set `all_hazards` builds.

Actions:

* `NewShield`;
* `try_acquire_inactive`: `AcquireInactive`, `SkipActive`, `NoInactive`;
* the append loop: `AllocSlot`, `ActivateNew`, `AppendOk`, and
  `AppendRetry`, which frees the current head as line 149 does;
* `protect`/`try_protect`: `ProtectLoad`, `TryStore`, `Validated`,
  `ValidateFailed`;
* the caller's `mem::forget` (`Forget`) or drop (`DropShield`), then
  `DropPanics` for the `todo!()`;
* `all_hazards`: `AllHazards`, then `ScanStep`, which never moves the
  cursor, as in the code, and `ScanEnd`;
* `DropBag`, `Drop for HazardBag`: once every thread has ended, the bag's
  `todo!()` panics and frees no slot.

Each of the three runs (2 threads, 3 addresses, pointer values {1,2}, 2
calls each) checks one property the code breaks:

* `hazard_uaf`: `OwnedSlotsAllocated`. A lost append CAS frees the
  winner's slot.
* `hazard_scan`: `ScanBounded`. `all_hazards` loops for ever.
* `hazard_drop`: `ActiveSlotsOwned`. A dropped Shield's slot stays active
  and is never recycled.

### ThreadPool (`hello_server/thread_pool.rs`): `ThreadPool`, `MCThreadPool`

State:

* the channel `chan` (FIFO) and whether the `sender` is alive;
* `jobCount`;
* per worker: `wpc` and the job it received;
* the client's `cpc`, and `joinIdx`, the worker `Drop` is joining.

Actions:

* `Execute`, including the send failure once every worker has died.
* `join`, which is `wait_empty` over the condition variable:
  * `Join`;
  * `JoinReturn`, when `wait_while` finds the count 0;
  * `JoinWait`, when the count is positive: the client releases the lock
    and sleeps;
  * `SpuriousWakeup`.
* `Drop`, and `JoinWorker` (`Worker::drop`).
* The worker loop: `Recv`, `RecvDisconnected`, `StartJob`, `RunJob` (the
  job returns or panics), `FinishJob` (the decrement under the lock) and
  `Notify`. `notify_all` runs after the lock is released, as in the code.

* Run `pool` (2 workers, 3 jobs, 2 of them free to panic) checks:
  * `JobsConserved`: each job is queued, held or finished exactly once.
  * `JobCountTracksStarted`.
  * `DrainedOnDrop`.
  * `DropReturns`.
  * `JoinReturnsUnlessPanic`: a `join` returns unless some job panicked.
    No `notify_all` is lost, even though it comes after the unlock, and
    no spurious wakeup is relied on.
  * `EveryJobRuns`: a received job finishes unless its worker dies, or
    every worker is dead.

  It says CHECK_DEADLOCK FALSE because a `join` after a panic really
  blocks for ever.
* Violation runs:
  * `pool_join`: `join` returns with a job still queued.
  * `pool_hang`: a panicking job makes `join` wait for ever.
  * `pool_droppanic`: `Drop` swallows a worker's panic.

### Fairness

Threads are OS threads, so each thread's steps are weakly fair: a thread
that can move eventually does. No strong fairness is assumed.
`std::sync::Mutex` is not fair, but every thread makes finitely many calls.
A blocked thread (in `lock`, `recv`, `wait_while` or `join`) is simply
disabled. The ThreadPool client is fair only in finishing a `join` or a
`Drop` it began, never in starting one. A client sleeping on the condvar
is disabled: `SpuriousWakeup` is possible but has no fairness, so `join`
returning never relies on it.

### Bounds

Every bound is a named constant:

| Model | Constants |
|---|---|
| OrderedListSet | `MaxOps`, `Addrs`, `Keys` |
| HazardBag | `MaxRounds`, `MaxWrites`, `MaxScanSteps`, `Addrs`, `Ptrs` |
| ThreadPool | `NWorkers`, `Jobs` |
| SplitOrderedList | `W`, `Threads`, `Keys`, `Ops`, `PreKeys`, `MaxOps`, `MaxNodes` |
| Cache | `Threads`, `Keys` |

The bounds are chosen so that the interesting cases happen:

* an address is freed and reused while another thread runs;
* two appends race;
* a writer moves `src` between `try_protect`'s store and its load;
* two workers take jobs while the client joins and drops;
* every worker panics;
* two threads initialise the same bucket, find the same key, or insert
  into the same gap, while `size` doubles;
* two callers race for one key while a third uses the other.

`SplitOrderedList` is the costliest: one call per thread already gives
36,803 states, and two calls per thread about 2.2 million, which is too
many for a routine run. W = 4 keeps sizes 2, 4 and 8 and gives a key
whose bucket changes on doubling.

### Not modelled

* The parts of the Harris list and `GrowableArray` that `SplitOrderedList`
  does not use (`find_harris_michael`, `find_naive`, lazy segment
  allocation), and epoch reclamation beyond "nodes are never reused".
* Memory orderings: every model is sequentially consistent. The
  Release/Acquire pair in `try_protect` is listed as a hazard that no run
  covers.
* A doubling skipped because `insert` used a stale size needs more than
  `2 * 4` items, more than the 8 valid keys of a 4-bit word. `LoadFactorKept`
  covers the threshold test and the CAS it runs.
* `HazardBag` has no passing run. Each of its runs shows one of the
  code's three defects, and a bound that kept all three out of reach
  would no longer be faithful to the code.
