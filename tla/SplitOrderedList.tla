------------------------- MODULE SplitOrderedList -------------------------
(***************************************************************************)
(* The lock-free map of src/homework/src/hash_table/split_ordered_list.rs: *)
(* lookup_bucket, find, lookup, insert and delete, run by concurrent       *)
(* threads, over the Harris list (lockfree::list) and the GrowableArray of *)
(* bucket pointers they call.  Those two live outside src/ and follow      *)
(* spec.md section 6: a Cursor is a pair (prev, curr) of a cell (the list  *)
(* head, a bucket slot or a node's next field) and the node it points to;  *)
(* find_harris, insert and delete are the Harris-Michael operations with a *)
(* mark bit in each next field.  Nodes are never freed (crossbeam-epoch    *)
(* defers destruction past every guard), so node identities are never     *)
(* reused.                                                                 *)
(*                                                                         *)
(* Every load, store, CAS and fetch-and-op on shared memory is one step.   *)
(* usize arithmetic is W bits wide; the arithmetic itself is SplitOrder.   *)
(***************************************************************************)
EXTENDS Integers, SequencesExt, SplitOrder

CONSTANTS
    Threads,    \* the threads calling the map
    Keys,       \* the keys they call it with (valid keys)
    Ops,        \* the calls they make: subset of {"lookup","insert","delete"}
    PreKeys,    \* keys inserted one after another before the threads start
    MaxOps,     \* calls each thread makes
    MaxNodes,   \* nodes the run may allocate
    NULL,       \* the null pointer
    NoRet       \* no call returned yet

ASSUME /\ Keys \cup PreKeys \subseteq {k \in Word : ValidKey(k)}
       /\ Cardinality(PreKeys) <= 4     \* no growth while prefilling
       /\ MaxOps \in Nat /\ MaxNodes \in Nat

Nodes == 1..MaxNodes

VARIABLES
    nkey,       \* nkey[n]: the ordering key of node n
    nnext,      \* nnext[n]: the pointer in n's next field
    nmark,      \* nmark[n]: the tag (mark) bit of n's next field
    used,       \* nodes allocated so far (nodes 1..used)
    head,       \* list.head
    buckets,    \* buckets: the GrowableArray slots, by bucket index
    size,       \* self.size
    count,      \* self.count
    th,         \* th[t]: the locals of thread t's current call
    seen        \* seen[t]: whether key[t] was in the map, at each instant
                \* of t's current call (ghost)

vars == <<nkey, nnext, nmark, used, head, buckets, size, count, th, seen>>

Buckets == 0..(MaxSize - 1)

(* SplitOrderedList::LOAD_FACTOR: size is doubled when count > size * 2. *)
LOAD_FACTOR == 2

(* A node's value is None exactly for sentinels, whose keys are even. *)
IsSentinel(n) == nkey[n] % 2 = 0

(* Cells a cursor's prev can point to. *)
HeadCell == [c |-> "head", i |-> 0]
SlotCell(i) == [c |-> "slot", i |-> i]
NextCell(n) == [c |-> "next", i |-> n]

(* Atomic::load of a cell, ignoring its tag. *)
Load(c) == CASE c.c = "head" -> head
             [] c.c = "slot" -> buckets[c.i]
             [] OTHER        -> nnext[c.i]

(* compare_exchange(old, _) on a cell succeeds: it holds old, untagged. *)
CasOk(c, old) == Load(c) = old /\ ~(c.c = "next" /\ nmark[c.i])

(* Stores v into cell c, the next fields being nx otherwise. *)
Store(c, v, nx) ==
    /\ head' = IF c.c = "head" THEN v ELSE head
    /\ buckets' = IF c.c = "slot" THEN [buckets EXCEPT ![c.i] = v] ELSE buckets
    /\ nnext' = IF c.c = "next" THEN [nx EXCEPT ![c.i] = v] ELSE nx

RECURSIVE ReachFrom(_, _)
ReachFrom(n, fuel) ==
    IF n = NULL \/ fuel = 0 THEN {} ELSE {n} \cup ReachFrom(nnext[n], fuel - 1)

Reach == ReachFrom(head, MaxNodes)

(* The map's content: the ordering keys of the unmarked reachable data   *)
(* nodes.  A delete takes effect at its mark, an insert at its CAS.       *)
LiveKeys == {nkey[n] : n \in {m \in Reach : ~nmark[m] /\ ~IsSentinel(m)}}

Present(k) == RegularKey(k) \in LiveKeys

-----------------------------------------------------------------------------
(* The list built by inserting PreKeys one by one into a new map (size 2):*)
(* the sentinels of bucket 0 and, if an odd key is in, bucket 1, and the  *)
(* data nodes, sorted; node i holds the i-th ordering key.                *)
PreOrd ==
    SetToSortSeq({SentinelKey(0)}
                 \cup {SentinelKey(1) : k \in {x \in PreKeys : x % 2 = 1}}
                 \cup {RegularKey(k) : k \in PreKeys}, <)

PreNode(x) == CHOOSE i \in 1..Len(PreOrd) : PreOrd[i] = x

Locals == [pc |-> "idle", op |-> "lookup", key |-> 0, nops |-> 0, sz |-> 0,
           stack |-> <<>>, prev |-> HeadCell, curr |-> NULL, pnext |-> NULL,
           found |-> FALSE, pcount |-> 0, ret |-> NoRet]

(* SplitOrderedList::new() (Default: size 2, count 0, empty list and     *)
(* array), or that map after PreKeys were inserted.                      *)
Init ==
    /\ \/ /\ nkey = [n \in Nodes |-> 0]
          /\ nnext = [n \in Nodes |-> NULL]
          /\ used = 0 /\ head = NULL /\ buckets = [i \in Buckets |-> NULL]
          /\ count = 0
       \/ /\ PreKeys # {}
          /\ nkey = [n \in Nodes |-> IF n <= Len(PreOrd) THEN PreOrd[n] ELSE 0]
          /\ nnext = [n \in Nodes |-> IF n < Len(PreOrd) THEN n + 1 ELSE NULL]
          /\ used = Len(PreOrd) /\ head = 1
          /\ buckets = [i \in Buckets |->
                          IF i <= 1 /\ SentinelKey(i) \in Range(PreOrd)
                            THEN PreNode(SentinelKey(i)) ELSE NULL]
          /\ count = Cardinality(PreKeys)
    /\ nmark = [n \in Nodes |-> FALSE]
    /\ size = 2
    /\ th = [t \in Threads |-> Locals]
    /\ seen = [t \in Threads |-> {}]

-----------------------------------------------------------------------------
(* The ordering key find_harris is looking for: the sentinel of the      *)
(* bucket lookup_bucket is initialising, or the data key of find.         *)
Target(l) == IF l.stack = <<>> THEN RegularKey(l.key) ELSE SentinelKey(Head(l.stack))

(* A call returns r; its other locals are dead and are cleared. *)
Return(l, r) == [Locals EXCEPT !.nops = l.nops, !.ret = <<l.op, l.key, r>>]

(* The thread panics and unwinds; it makes no further calls. *)
Panic(l) == [Locals EXCEPT !.nops = l.nops, !.pc = "panicked"]

(* What the caller of find_harris does with Ok(found) (ok) or Err(()):   *)
(* lookup_bucket ignores it and inserts its sentinel (line 77); find      *)
(* unwraps it (line 104); then lookup returns, insert returns Err or      *)
(* goes on to insert, delete returns Err or goes on to delete.            *)
AfterFind(l, f, ok) ==
    IF l.stack # <<>> THEN [l EXCEPT !.pc = "binsert"]
    ELSE IF ~ok THEN Panic(l)
    ELSE CASE l.op = "lookup" -> Return(l, f)
           [] l.op = "insert" -> IF f THEN Return(l, FALSE) ELSE [l EXCEPT !.pc = "add"]
           [] OTHER           -> IF f THEN [l EXCEPT !.pc = "sub"] ELSE Return(l, FALSE)

(* find_harris stops at curr: without marked nodes between prev and curr *)
(* it returns Ok(found) at once, else it first tries the cleanup CAS.     *)
EndFind(l, f) ==
    IF l.pnext = l.curr THEN AfterFind(l, f, TRUE)
    ELSE [l EXCEPT !.found = f, !.pc = "clean"]

(* Cursor::delete's caller after delete returns Err (r FALSE) or Ok:     *)
(* lookup_bucket loops; SplitOrderedList::delete returns.                 *)
AfterDelete(l, r) == IF l.stack # <<>> THEN [l EXCEPT !.pc = "slot"] ELSE Return(l, r)

Shared == <<nkey, nnext, nmark, used, head, buckets, size, count>>

(* A call of lookup, insert or delete with a key: assert_valid_key holds  *)
(* for Keys; find loads size and computes index = key % size, and         *)
(* lookup_bucket(index) starts.                                           *)
Invoke(t) ==
    LET l == th[t] IN
    /\ l.pc = "idle" /\ l.nops < MaxOps
    /\ \E o \in Ops, k \in Keys :
         th' = [th EXCEPT ![t] =
                  IF size = 0 THEN Panic([l EXCEPT !.nops = @ + 1])
                  ELSE [l EXCEPT !.op = o, !.key = k, !.nops = @ + 1, !.sz = size,
                                 !.stack = <<BucketOf(k, size)>>, !.pc = "slot"]]
    /\ UNCHANGED Shared

(* lookup_bucket(index), one loop iteration's first load: buckets.get    *)
(* (index).load().  A published sentinel gives Cursor::from_raw(slot,     *)
(* sentinel) and the call returns to its caller; otherwise index 0 takes  *)
(* the list head and any other index first recurses to its parent.        *)
LoadSlot(t) ==
    LET l == th[t]
        i == Head(l.stack)
        s == buckets[i]
    IN
    /\ l.pc = "slot"
    /\ th' = [th EXCEPT ![t] =
                IF s # NULL
                  THEN [l EXCEPT !.stack = Tail(l.stack), !.prev = SlotCell(i),
                                 !.curr = s, !.pnext = s, !.pc = "find"]
                ELSE IF i = 0 THEN [l EXCEPT !.pc = "head"]
                ELSE [l EXCEPT !.stack = <<ParentBucket(i)>> \o l.stack]]
    /\ UNCHANGED Shared

(* self.list.head(guard): a cursor at the head of the list. *)
LoadHead(t) ==
    LET l == th[t] IN
    /\ l.pc = "head"
    /\ th' = [th EXCEPT ![t] = [l EXCEPT !.prev = HeadCell, !.curr = head, !.pnext = head,
                                         !.pc = "find"]]
    /\ UNCHANGED Shared

(* Bug variant of Traverse: `<=` for `<`, the search passes equal keys. *)
TraverseLe(t) ==
    LET l == th[t]
        n == l.curr
    IN
    /\ l.pc = "find"
    /\ th' = [th EXCEPT ![t] =
                IF n = NULL THEN EndFind(l, FALSE)
                ELSE IF nmark[n] THEN [l EXCEPT !.curr = nnext[n]]
                ELSE IF nkey[n] <= Target(l)
                  THEN [l EXCEPT !.prev = NextCell(n), !.curr = nnext[n], !.pnext = nnext[n]]
                ELSE EndFind(l, FALSE)]
    /\ UNCHANGED Shared

(* Bug variant of Traverse: the mark of curr is not looked at, so a      *)
(* deleted node is still found.                                           *)
TraverseIgnoresMark(t) ==
    LET l == th[t]
        n == l.curr
    IN
    /\ l.pc = "find"
    /\ th' = [th EXCEPT ![t] =
                IF n = NULL THEN EndFind(l, FALSE)
                ELSE IF nkey[n] < Target(l)
                  THEN [l EXCEPT !.prev = NextCell(n), !.curr = nnext[n], !.pnext = nnext[n]]
                ELSE EndFind(l, nkey[n] = Target(l))]
    /\ UNCHANGED Shared

(* Bug variant of Traverse: on a marked curr the loop continues without  *)
(* moving curr on.                                                        *)
TraverseStuck(t) ==
    LET l == th[t]
        n == l.curr
    IN
    /\ l.pc = "find"
    /\ th' = [th EXCEPT ![t] =
                IF n = NULL THEN EndFind(l, FALSE)
                ELSE IF nmark[n] THEN l
                ELSE IF nkey[n] < Target(l)
                  THEN [l EXCEPT !.prev = NextCell(n), !.curr = nnext[n], !.pnext = nnext[n]]
                ELSE EndFind(l, nkey[n] = Target(l))]
    /\ UNCHANGED Shared

(* One iteration of find_harris's loop: load curr's next; a marked curr  *)
(* is skipped, a smaller key moves prev and curr on, and an equal or      *)
(* larger key (or the end) stops the search.                              *)
Traverse(t) ==
    LET l == th[t]
        n == l.curr
    IN
    /\ l.pc = "find"
    /\ th' = [th EXCEPT ![t] =
                IF n = NULL THEN EndFind(l, FALSE)
                ELSE IF nmark[n] THEN [l EXCEPT !.curr = nnext[n]]
                ELSE IF nkey[n] < Target(l)
                  THEN [l EXCEPT !.prev = NextCell(n), !.curr = nnext[n], !.pnext = nnext[n]]
                ELSE EndFind(l, nkey[n] = Target(l))]
    /\ UNCHANGED Shared

(* find_harris's cleanup: prev.compare_exchange(prev_next, curr) unlinks *)
(* the marked nodes in between, or fails and find_harris returns Err.     *)
Cleanup(t) ==
    LET l == th[t] IN
    /\ l.pc = "clean"
    /\ IF CasOk(l.prev, l.pnext)
         THEN /\ Store(l.prev, l.curr, nnext)
              /\ th' = [th EXCEPT ![t] = AfterFind(l, l.found, TRUE)]
         ELSE /\ th' = [th EXCEPT ![t] = AfterFind(l, l.found, FALSE)]
              /\ UNCHANGED <<head, buckets, nnext>>
    /\ UNCHANGED <<nkey, nmark, used, size, count>>

(* lookup_bucket: cursor.insert(new_bucket) links a new sentinel node    *)
(* (key index.reverse_bits(), value None) by prev.compare_exchange(curr,  *)
(* node); on Err the node is dropped and the loop continues.              *)
BInsert(t) ==
    LET l == th[t]
        n == used + 1
    IN
    /\ l.pc = "binsert"
    /\ IF CasOk(l.prev, l.curr)
         THEN /\ used < MaxNodes
                  \* MaxNodes bounds the allocations of a run
              /\ Store(l.prev, n, [nnext EXCEPT ![n] = l.curr])
              /\ nkey' = [nkey EXCEPT ![n] = SentinelKey(Head(l.stack))]
              /\ used' = n
              /\ th' = [th EXCEPT ![t] = [l EXCEPT !.curr = n, !.pc = "publish"]]
         ELSE /\ th' = [th EXCEPT ![t] = [l EXCEPT !.pc = "slot"]]
              /\ UNCHANGED <<head, buckets, nnext, nkey, used>>
    /\ UNCHANGED <<nmark, size, count>>

(* Bug variant of Publish: the Ok and Err arms swapped, so the sentinel  *)
(* just published is deleted.                                             *)
PublishSwapped(t) ==
    LET l == th[t]
        i == Head(l.stack)
    IN
    /\ l.pc = "publish"
    /\ IF buckets[i] = NULL
         THEN /\ buckets' = [buckets EXCEPT ![i] = l.curr]
              /\ th' = [th EXCEPT ![t] = [l EXCEPT !.pc = "mark"]]
         ELSE /\ th' = [th EXCEPT ![t] = [l EXCEPT !.pc = "slot"]]
              /\ UNCHANGED buckets
    /\ UNCHANGED <<nkey, nnext, nmark, used, head, size, count>>

(* sentinel.compare_exchange(null, cursor.curr()): publishes the new     *)
(* sentinel and loops; on Err (another thread published one first) the   *)
(* new sentinel is deleted with cursor.delete.                            *)
Publish(t) ==
    LET l == th[t]
        i == Head(l.stack)
    IN
    /\ l.pc = "publish"
    /\ IF buckets[i] = NULL
         THEN /\ buckets' = [buckets EXCEPT ![i] = l.curr]
              /\ th' = [th EXCEPT ![t] = [l EXCEPT !.pc = "slot"]]
         ELSE /\ th' = [th EXCEPT ![t] = [l EXCEPT !.pc = "mark"]]
              /\ UNCHANGED buckets
    /\ UNCHANGED <<nkey, nnext, nmark, used, head, size, count>>

(* Bug variant of Mark: next is loaded instead of fetch_or(1), so the   *)
(* node is unlinked without being marked.                                 *)
MarkNoTag(t) ==
    LET l == th[t] IN
    /\ l.pc = "mark"
    /\ IF nmark[l.curr]
         THEN th' = [th EXCEPT ![t] = AfterDelete(l, FALSE)]
         ELSE th' = [th EXCEPT ![t] = [l EXCEPT !.pc = "unlink"]]
    /\ UNCHANGED <<nkey, nnext, nmark, used, head, buckets, size, count>>

(* Cursor::delete: curr.next.fetch_or(1) marks curr; if it was marked    *)
(* already, delete returns Err.                                           *)
Mark(t) ==
    LET l == th[t] IN
    /\ l.pc = "mark"
    /\ IF nmark[l.curr]
         THEN /\ th' = [th EXCEPT ![t] = AfterDelete(l, FALSE)]
              /\ UNCHANGED nmark
         ELSE /\ nmark' = [nmark EXCEPT ![l.curr] = TRUE]
              /\ th' = [th EXCEPT ![t] = [l EXCEPT !.pc = "unlink"]]
    /\ UNCHANGED <<nkey, nnext, used, head, buckets, size, count>>

(* Cursor::delete: prev.compare_exchange(curr, next) unlinks the marked  *)
(* node, its failure ignored; delete returns Ok(&value).  For a data node *)
(* the value is Some(v) and SplitOrderedList::delete returns Ok(v).       *)
Unlink(t) ==
    LET l == th[t] IN
    /\ l.pc = "unlink"
    /\ IF CasOk(l.prev, l.curr)
         THEN Store(l.prev, nnext[l.curr], nnext)
         ELSE UNCHANGED <<head, buckets, nnext>>
    /\ th' = [th EXCEPT ![t] = AfterDelete(l, TRUE)]
    /\ UNCHANGED <<nkey, nmark, used, size, count>>

(* insert: prev_count = self.count.fetch_add(1). *)
Add(t) ==
    LET l == th[t] IN
    /\ l.pc = "add"
    /\ count' = (count + 1) % 2^W
    /\ th' = [th EXCEPT ![t] = [l EXCEPT !.pcount = count, !.pc = "ins"]]
    /\ UNCHANGED <<nkey, nnext, nmark, used, head, buckets, size>>

(* Bug variant of Ins: the load-factor test uses prev_count, not        *)
(* prev_count + 1, so the insert that crosses the threshold never grows.  *)
InsNoIncrement(t) ==
    LET l == th[t]
        n == used + 1
    IN
    /\ l.pc = "ins"
    /\ IF CasOk(l.prev, l.curr)
         THEN /\ used < MaxNodes
              /\ Store(l.prev, n, [nnext EXCEPT ![n] = l.curr])
              /\ nkey' = [nkey EXCEPT ![n] = RegularKey(l.key)]
              /\ used' = n
              /\ th' = [th EXCEPT ![t] =
                          IF l.pcount % 2^W > (l.sz * LOAD_FACTOR) % 2^W
                            THEN [l EXCEPT !.pc = "grow"] ELSE Return(l, TRUE)]
         ELSE /\ th' = [th EXCEPT ![t] = Panic(l)]
              /\ UNCHANGED <<head, buckets, nnext, nkey, used>>
    /\ UNCHANGED <<nmark, size, count>>

(* insert: cursor.insert(node with key key.reverse_bits() + 1).unwrap(): *)
(* the CAS links the data node, or fails and the unwrap panics.  Then, if *)
(* prev_count + 1 > size * LOAD_FACTOR (wrapping usize arithmetic), the   *)
(* size is doubled.                                                       *)
Ins(t) ==
    LET l == th[t]
        n == used + 1
    IN
    /\ l.pc = "ins"
    /\ IF CasOk(l.prev, l.curr)
         THEN /\ used < MaxNodes
              /\ Store(l.prev, n, [nnext EXCEPT ![n] = l.curr])
              /\ nkey' = [nkey EXCEPT ![n] = RegularKey(l.key)]
              /\ used' = n
              /\ th' = [th EXCEPT ![t] =
                          IF (l.pcount + 1) % 2^W > (l.sz * LOAD_FACTOR) % 2^W
                            THEN [l EXCEPT !.pc = "grow"] ELSE Return(l, TRUE)]
         ELSE /\ th' = [th EXCEPT ![t] = Panic(l)]
              /\ UNCHANGED <<head, buckets, nnext, nkey, used>>
    /\ UNCHANGED <<nmark, size, count>>

(* insert: self.size.compare_exchange(size, size * 2), failure ignored. *)
Grow(t) ==
    LET l == th[t] IN
    /\ l.pc = "grow"
    /\ size' = IF size = l.sz THEN (l.sz * 2) % 2^W ELSE size
    /\ th' = [th EXCEPT ![t] = Return(l, TRUE)]
    /\ UNCHANGED <<nkey, nnext, nmark, used, head, buckets, count>>

(* delete: self.count.fetch_sub(1), before cursor.delete. *)
Sub(t) ==
    LET l == th[t] IN
    /\ l.pc = "sub"
    /\ count' = (count + 2^W - 1) % 2^W
    /\ th' = [th EXCEPT ![t] = [l EXCEPT !.pc = "mark"]]
    /\ UNCHANGED <<nkey, nnext, nmark, used, head, buckets, size>>

InCall(l) == l.pc \notin {"idle", "panicked"}

(* Every thread has made its calls or has died of a panic. *)
Terminated ==
    /\ \A t \in Threads : th[t].pc = "panicked" \/ (th[t].pc = "idle" /\ th[t].nops = MaxOps)
    /\ UNCHANGED vars

Step(t) ==
    \/ Invoke(t) \/ LoadSlot(t) \/ LoadHead(t) \/ Traverse(t) \/ Cleanup(t)
    \/ BInsert(t) \/ Publish(t) \/ Mark(t) \/ Unlink(t)
    \/ Add(t) \/ Ins(t) \/ Grow(t) \/ Sub(t)

(* The ghost seen records, after every step, whether each calling       *)
(* thread's key is in the map; it is cleared when the call ends.          *)
Observe ==
    seen' = [u \in Threads |->
               IF ~InCall(th'[u]) THEN {}
               ELSE IF InCall(th[u]) THEN seen[u] \cup {RegularKey(th[u].key) \in LiveKeys'}
               ELSE {RegularKey(th'[u].key) \in LiveKeys'}]

Next ==
    \/ \E t \in Threads :
         \/ Invoke(t) /\ Observe
         \/ LoadSlot(t) /\ Observe
         \/ LoadHead(t) /\ Observe
         \/ Traverse(t) /\ Observe
         \/ Cleanup(t) /\ Observe
         \/ BInsert(t) /\ Observe
         \/ Publish(t) /\ Observe
         \/ Mark(t) /\ Observe
         \/ Unlink(t) /\ Observe
         \/ Add(t) /\ Observe
         \/ Ins(t) /\ Observe
         \/ Grow(t) /\ Observe
         \/ Sub(t) /\ Observe
    \/ Terminated

(* Threads are OS threads: each one that can take a step eventually does. *)
Spec == Init /\ [][Next]_vars /\ \A t \in Threads : WF_vars(Step(t) /\ Observe)
-----------------------------------------------------------------------------
TypeOK ==
    /\ nkey \in [Nodes -> Word]
    /\ nnext \in [Nodes -> Nodes \cup {NULL}]
    /\ nmark \in [Nodes -> BOOLEAN]
    /\ used \in 0..MaxNodes
    /\ head \in Nodes \cup {NULL}
    /\ buckets \in [Buckets -> Nodes \cup {NULL}]
    /\ size \in Word /\ count \in Word
    /\ \A t \in Threads :
         /\ th[t].pc \in {"idle", "slot", "head", "find", "clean", "binsert", "publish",
                          "mark", "unlink", "add", "ins", "grow", "sub", "panicked"}
         /\ th[t].op \in Ops \cup {"lookup"} /\ th[t].nops \in 0..MaxOps
         /\ th[t].stack \in Seq(Buckets) /\ th[t].curr \in Nodes \cup {NULL}
    /\ seen \in [Threads -> SUBSET BOOLEAN]

(* The Harris list stays sorted by ordering key, with every data key at  *)
(* most once, whatever the interleaving of finds, cleanups, inserts and   *)
(* unlinks: two nodes may share a key only if both are sentinels (the     *)
(* duplicate a racing lookup_bucket inserts before it deletes it again).  *)
ListSorted ==
    \A n \in Reach :
        nnext[n] # NULL =>
            \/ nkey[n] < nkey[nnext[n]]
            \/ nkey[n] = nkey[nnext[n]] /\ IsSentinel(n)

(* "Bucket sentinels are permanent once published": every bucket slot    *)
(* set by lookup_bucket points to an unmarked node of the list holding    *)
(* that bucket's sentinel key, so every cursor from_raw starts on it.     *)
BucketsPublished ==
    \A i \in Buckets :
        buckets[i] # NULL =>
            /\ buckets[i] \in Reach
            /\ ~nmark[buckets[i]]
            /\ nkey[buckets[i]] = SentinelKey(i)

(* The content of the map changes only at the linearization points of    *)
(* spec.md section 5: an insert's successful CAS adds its absent key and  *)
(* a delete's mark removes its key; nothing else (a cleanup, an unlink,   *)
(* a sentinel insert) adds or removes a key.                              *)
InsertTakesEffect(t) == th[t].pc = "ins" /\ th'[t].pc \in {"grow", "idle"}
DeleteTakesEffect(t) == th[t].pc = "mark" /\ th[t].stack = <<>> /\ th'[t].pc = "unlink"

UpdatesLinearize ==
    [][/\ \A t \in Threads :
            InsertTakesEffect(t) =>
                /\ ~Present(th[t].key)
                /\ LiveKeys' = LiveKeys \cup {RegularKey(th[t].key)}
       /\ \A t \in Threads :
            DeleteTakesEffect(t) =>
                /\ Present(th[t].key)
                /\ LiveKeys' = LiveKeys \ {RegularKey(th[t].key)}
       /\ (\A t \in Threads : ~InsertTakesEffect(t) /\ ~DeleteTakesEffect(t))
             => LiveKeys' = LiveKeys]_vars

(* Each result is one the atomic map gives at some instant of the call:  *)
(* lookup returns Some, delete Ok and insert Err only if the key was in   *)
(* the map at some point during the call, and lookup None, delete Err    *)
(* and insert Ok only if it was absent at some point.                     *)
WasPresent(r) == IF r[1] = "insert" THEN ~r[3] ELSE r[3]

ResultsLinearizable ==
    [][\A t \in Threads :
         InCall(th[t]) /\ th'[t].pc = "idle" => WasPresent(th'[t].ret) \in seen[t]]_vars

(* Every call returns or panics: lookup_bucket's retry loop and           *)
(* find_harris's traversal end once the other threads stop interfering.   *)
CallsEnd == \A t \in Threads : InCall(th[t]) ~> ~InCall(th[t])

(* For the bucket count the map has, every valid key's bucket index      *)
(* (key % size) names the last sentinel before the key in split order, so *)
(* a cursor started at that bucket's sentinel passes no other bucket      *)
(* before reaching the key.                                               *)
SplitOrderSound ==
    \A k \in Word :
        ValidKey(k) =>
            LET b == BucketOf(k, size) IN
            /\ SentinelKey(b) < RegularKey(k)
            /\ \A i \in 0..(size - 1) :
                 SentinelKey(i) < RegularKey(k) => SentinelKey(i) <= SentinelKey(b)

(* For every bucket index below the current size, get_top_bit gives the *)
(* top set bit, and lookup_bucket's parent index - get_top_bit(index) is  *)
(* a smaller bucket whose sentinel is the last one, among smaller          *)
(* indices, before the bucket's own: inserting from it keeps the list     *)
(* sorted.                                                                *)
ParentSound ==
    \A b \in 1..(size - 1) :
        LET p == ParentBucket(b) IN
        /\ GetTopBit(b) = RefTopBit(b)
        /\ p < b
        /\ SentinelKey(p) < SentinelKey(b)
        /\ \A i \in 0..(b - 1) :
             SentinelKey(i) < SentinelKey(b) => SentinelKey(i) <= SentinelKey(p)

(* When the size CAS doubles the bucket count, each key either keeps its *)
(* bucket or moves to the new bucket old + size, and the moved-to bucket's *)
(* parent is the old one: the items of an initialised bucket are split,   *)
(* never rehashed.                                                        *)
SplitOnGrow ==
    [][size' # size =>
         \A k \in Word :
             ValidKey(k) =>
                 LET old == BucketOf(k, size)
                     new == BucketOf(k, size')
                 IN  /\ new \in {old, old + size}
                     /\ new # old => ParentBucket(new) = old]_size

(* "size is doubled when count > size * LOAD_FACTOR": whenever no call   *)
(* is running, the map holds at most size * LOAD_FACTOR items.  It rests  *)
(* on insert's test prev_count + 1 > size * LOAD_FACTOR, made with the    *)
(* size its find read and in wrapping usize arithmetic, and on the size   *)
(* CAS that another thread's doubling may make fail.                       *)
LoadFactorKept ==
    (\A t \in Threads : ~InCall(th[t])) => Cardinality(LiveKeys) <= size * LOAD_FACTOR

(* spec.md 3: "count equals the number of non-sentinel nodes in the list *)
(* (eventually, under quiescence)": once no call is running, count is the *)
(* number of keys in the map.                                             *)
CountMatchesItems ==
    (\A t \in Threads : ~InCall(th[t])) => count = Cardinality(LiveKeys)
=============================================================================
