--------------------------- MODULE OrderedListSet ---------------------------
(***************************************************************************)
(* The lock-coupling sorted set of src/homework/src/list_set.rs.           *)
(*                                                                         *)
(* The heap is a set of node addresses: a node has its data and a next     *)
(* pointer, and each node's next field sits behind its own Mutex.  The     *)
(* head pointer is behind the set's Mutex.  A "cell" is a mutex-protected  *)
(* pointer: HEAD for OrderedListSet.head or the address of a node for its  *)
(* next field.  A Cursor is the MutexGuard on one cell, so cur[t] is the   *)
(* cell whose lock thread t holds.                                         *)
(*                                                                         *)
(* Each thread runs up to MaxOps calls of contains, insert, remove or      *)
(* iter().collect(); after every thread is idle the set may be dropped.    *)
(* Freed addresses go back to the allocator and may be handed out again.   *)
(***************************************************************************)
EXTENDS Naturals, Sequences, FiniteSets, SequencesExt

CONSTANTS
    Threads,    \* the threads sharing the set
    Keys,       \* the values of T a thread may pass (a finite set of naturals)
    Addrs,      \* the node addresses the allocator can return
    MaxOps,     \* the number of calls each thread makes, at most
    NULL,       \* the null pointer
    HEAD,       \* the cell OrderedListSet.head
    NoOne,      \* the owner of an unlocked mutex
    NoRet       \* ret before a thread's first completed call

ASSUME Keys \subseteq Nat /\ Keys # {}
ASSUME MaxOps \in Nat

Ptr   == Addrs \cup {NULL}
Cells == Addrs \cup {HEAD}
SetOps == {"contains", "insert", "remove"}

VARIABLES
    head,       \* *OrderedListSet.head
    next,       \* next[a]: *Node.next of the node at address a
    data,       \* data[a]: Node.data of the node at address a
    allocated,  \* the addresses of live (not freed) nodes
    lock,       \* lock[c]: the thread holding the Mutex of cell c, or NoOne
    pc,         \* where each thread is in its call
    op, key,    \* the call a thread is in and its argument
    cur,        \* the cell whose MutexGuard the thread's cursor holds
    found,      \* the result of the thread's Cursor::find
    ret,        \* the last completed set call of each thread (AbstractSet)
    nops,       \* calls each thread has completed
    refs,       \* the node addresses whose &T an iterating thread holds
    yielded,    \* the keys its iterator has yielded so far
    stable,     \* keys present when the iteration began and not removed since
    dropped     \* OrderedListSet has been dropped

vars == <<head, next, data, allocated, lock, pc, op, key, cur, found, ret,
          nops, refs, yielded, stable, dropped>>

(* The pointer stored in cell c. *)
Val(c) == IF c = HEAD THEN head ELSE next[c]

(* The nodes reached from head, in list order; a cycle shows as a sequence *)
(* longer than the address space.                                          *)
RECURSIVE ChainFrom(_, _)
ChainFrom(p, fuel) ==
    IF p = NULL \/ fuel = 0 THEN <<>> ELSE <<p>> \o ChainFrom(next[p], fuel - 1)

Chain == ChainFrom(head, Cardinality(Addrs) + 1)

(* The keys the set holds: the data along the list. *)
SetKeys == {data[a] : a \in Range(Chain)}

Release(t)  == lock' = [lock EXCEPT ![cur[t]] = NoOne]

Return(t, r) ==
    /\ ret'  = [ret EXCEPT ![t] = <<op[t], key[t], r>>]
    /\ pc'   = [pc EXCEPT ![t] = "idle"]
    /\ nops' = [nops EXCEPT ![t] = @ + 1]

-----------------------------------------------------------------------------
Init ==
    /\ head = NULL
    /\ next = [a \in Addrs |-> NULL]
    /\ data = [a \in Addrs |-> CHOOSE k \in Keys : TRUE]
    /\ allocated = {}
    /\ lock = [c \in Cells |-> NoOne]
    /\ pc = [t \in Threads |-> "idle"]
    /\ op = [t \in Threads |-> "contains"]
    /\ key = [t \in Threads |-> CHOOSE k \in Keys : TRUE]
    /\ cur = [t \in Threads |-> HEAD]
    /\ found = [t \in Threads |-> FALSE]
    /\ ret = [t \in Threads |-> NoRet]
    /\ nops = [t \in Threads |-> 0]
    /\ refs = [t \in Threads |-> {}]
    /\ yielded = [t \in Threads |-> <<>>]
    /\ stable = [t \in Threads |-> {}]
    /\ dropped = FALSE

(* A caller invokes contains(&k), insert(k), remove(&k) or iter(). *)
Invoke(t) ==
    /\ pc[t] = "idle" /\ nops[t] < MaxOps /\ ~dropped
    /\ \/ \E o \in SetOps, k \in Keys : op' = [op EXCEPT ![t] = o] /\ key' = [key EXCEPT ![t] = k]
       \/ op' = [op EXCEPT ![t] = "iter"] /\ UNCHANGED key
    /\ pc' = [pc EXCEPT ![t] = "lockhead"]
    /\ UNCHANGED <<head, next, data, allocated, lock, cur, found, ret, nops,
                   refs, yielded, stable, dropped>>

(* OrderedListSet::find and OrderedListSet::iter: self.head.lock(). *)
LockHead(t) ==
    /\ pc[t] = "lockhead"
    /\ lock[HEAD] = NoOne
    /\ lock' = [lock EXCEPT ![HEAD] = t]
    /\ cur' = [cur EXCEPT ![t] = HEAD]
    /\ IF op[t] = "iter"
         THEN /\ pc' = [pc EXCEPT ![t] = "iter"]
              /\ yielded' = [yielded EXCEPT ![t] = <<>>]
              /\ stable' = [stable EXCEPT ![t] = SetKeys]
         ELSE /\ pc' = [pc EXCEPT ![t] = "find"]
              /\ UNCHANGED <<yielded, stable>>
    /\ UNCHANGED <<head, next, data, allocated, op, key, found, ret, nops,
                   refs, dropped>>

(* Bug variant of FindAdvance: `data <= key` moves past an equal key. *)
FindAdvanceLe(t) ==
    LET p == Val(cur[t]) IN
    /\ pc[t] = "find"
    /\ p # NULL /\ data[p] <= key[t]
    /\ lock[p] = NoOne
    /\ lock' = [lock EXCEPT ![p] = t, ![cur[t]] = NoOne]
    /\ cur' = [cur EXCEPT ![t] = p]
    /\ UNCHANGED <<head, next, data, allocated, pc, op, key, found, ret, nops,
                   refs, yielded, stable, dropped>>

(* Bug variant of FindAdvance: the next lock is taken without waiting for  *)
(* its holder, as if the node's next were read without its Mutex.          *)
FindAdvanceNoWait(t) ==
    LET p == Val(cur[t]) IN
    /\ pc[t] = "find"
    /\ p # NULL /\ data[p] < key[t]
    /\ lock' = [lock EXCEPT ![cur[t]] = NoOne, ![p] = t]
    /\ cur' = [cur EXCEPT ![t] = p]
    /\ UNCHANGED <<head, next, data, allocated, pc, op, key, found, ret, nops,
                   refs, yielded, stable, dropped>>

(* Cursor::find, data < key: lock node_p.next, then drop the old guard. *)
FindAdvance(t) ==
    LET p == Val(cur[t]) IN
    /\ pc[t] = "find"
    /\ p # NULL /\ data[p] < key[t]
    /\ lock[p] = NoOne
    /\ lock' = [lock EXCEPT ![p] = t, ![cur[t]] = NoOne]
    /\ cur' = [cur EXCEPT ![t] = p]
    /\ UNCHANGED <<head, next, data, allocated, pc, op, key, found, ret, nops,
                   refs, yielded, stable, dropped>>

(* Cursor::find returns: null (false), data == key (true), data > key      *)
(* (false); the cursor keeps its lock.                                     *)
FindReturn(t) ==
    LET p == Val(cur[t]) IN
    /\ pc[t] = "find"
    /\ IF p = NULL THEN TRUE ELSE data[p] >= key[t]
    /\ found' = [found EXCEPT ![t] = p # NULL /\ data[p] = key[t]]
    /\ pc' = [pc EXCEPT ![t] = "found"]
    /\ UNCHANGED <<head, next, data, allocated, lock, op, key, cur, ret, nops,
                   refs, yielded, stable, dropped>>

(* Bug variant of ContainsReturn: the cursor's guard is leaked. *)
ContainsReturnNoUnlock(t) ==
    /\ pc[t] = "found" /\ op[t] = "contains"
    /\ Return(t, found[t])
    /\ UNCHANGED <<head, next, data, allocated, lock, op, key, cur, found, refs,
                   yielded, stable, dropped>>

(* contains: the cursor is dropped and found returned. *)
ContainsReturn(t) ==
    /\ pc[t] = "found" /\ op[t] = "contains"
    /\ Release(t)
    /\ Return(t, found[t])
    /\ UNCHANGED <<head, next, data, allocated, op, key, cur, found, refs,
                   yielded, stable, dropped>>

(* insert, key present: Err(key), the guard dropped. *)
InsertErr(t) ==
    /\ pc[t] = "found" /\ op[t] = "insert" /\ found[t]
    /\ Release(t)
    /\ Return(t, FALSE)
    /\ UNCHANGED <<head, next, data, allocated, op, key, cur, found, refs,
                   yielded, stable, dropped>>

(* insert, key absent: Node::new(key, *guard) and *guard = new_node, then  *)
(* the guard is dropped.                                                   *)
InsertOk(t) ==
    /\ pc[t] = "found" /\ op[t] = "insert" /\ ~found[t]
    /\ \E a \in Addrs \ allocated :
         LET linked == [next EXCEPT ![a] = Val(cur[t])] IN
         /\ allocated' = allocated \cup {a}
         /\ data' = [data EXCEPT ![a] = key[t]]
         /\ IF cur[t] = HEAD
              THEN head' = a /\ next' = linked
              ELSE next' = [linked EXCEPT ![cur[t]] = a] /\ UNCHANGED head
         /\ lock' = [lock EXCEPT ![a] = NoOne, ![cur[t]] = NoOne]
    /\ Return(t, TRUE)
    /\ UNCHANGED <<op, key, cur, found, refs, yielded, stable, dropped>>

(* Bug variant of RemoveOk: the target's next is read without its lock. *)
RemoveOkNoLock(t) ==
    LET target == Val(cur[t]) IN
    /\ pc[t] = "found" /\ op[t] = "remove" /\ found[t]
    /\ allocated' = allocated \ {target}
    /\ IF cur[t] = HEAD
         THEN head' = next[target] /\ UNCHANGED next
         ELSE next' = [next EXCEPT ![cur[t]] = next[target]] /\ UNCHANGED head
    /\ Release(t)
    /\ stable' = [u \in Threads |-> stable[u] \ {key[t]}]
    /\ Return(t, TRUE)
    /\ UNCHANGED <<data, op, key, cur, found, refs, yielded, dropped>>

(* remove, key present: lock the target's next to read it, free the       *)
(* target (Box::from_raw(..).data), *guard = next_node, drop the guard.    *)
RemoveOk(t) ==
    LET target == Val(cur[t]) IN
    /\ pc[t] = "found" /\ op[t] = "remove" /\ found[t]
    /\ lock[target] = NoOne
    /\ allocated' = allocated \ {target}
    /\ IF cur[t] = HEAD
         THEN head' = next[target] /\ UNCHANGED next
         ELSE next' = [next EXCEPT ![cur[t]] = next[target]] /\ UNCHANGED head
    /\ Release(t)
    /\ stable' = [u \in Threads |-> stable[u] \ {key[t]}]
    /\ Return(t, TRUE)
    /\ UNCHANGED <<data, op, key, cur, found, refs, yielded, dropped>>

(* remove, key absent: Err(()), the guard dropped. *)
RemoveErr(t) ==
    /\ pc[t] = "found" /\ op[t] = "remove" /\ ~found[t]
    /\ Release(t)
    /\ Return(t, FALSE)
    /\ UNCHANGED <<head, next, data, allocated, op, key, cur, found, refs,
                   yielded, stable, dropped>>

(* Iter::next on a non-null node: take &data, lock node_p.next, drop the  *)
(* old guard, yield the reference.                                         *)
IterNext(t) ==
    LET p == Val(cur[t]) IN
    /\ pc[t] = "iter"
    /\ p # NULL
    /\ lock[p] = NoOne
    /\ lock' = [lock EXCEPT ![p] = t, ![cur[t]] = NoOne]
    /\ cur' = [cur EXCEPT ![t] = p]
    /\ refs' = [refs EXCEPT ![t] = @ \cup {p}]
    /\ yielded' = [yielded EXCEPT ![t] = Append(@, data[p])]
    /\ UNCHANGED <<head, next, data, allocated, pc, op, key, found, ret, nops,
                   stable, dropped>>

(* Iter::next on null returns None; collect() ends and drops the Iter,    *)
(* whose guard is released.                                                *)
IterEnd(t) ==
    /\ pc[t] = "iter"
    /\ Val(cur[t]) = NULL
    /\ Release(t)
    /\ pc' = [pc EXCEPT ![t] = "use"]
    /\ UNCHANGED <<head, next, data, allocated, op, key, cur, found, ret, nops,
                   refs, yielded, stable, dropped>>

(* The caller reads the collected &T and lets them go. *)
IterUse(t) ==
    /\ pc[t] = "use"
    /\ pc' = [pc EXCEPT ![t] = "idle"]
    /\ refs' = [refs EXCEPT ![t] = {}]
    /\ nops' = [nops EXCEPT ![t] = @ + 1]
    /\ UNCHANGED <<head, next, data, allocated, lock, op, key, cur, found, ret,
                   yielded, stable, dropped>>

(* Drop for OrderedListSet: with no call in flight, every node is freed   *)
(* walking the list.                                                       *)
DropSet ==
    /\ ~dropped
    /\ \A t \in Threads : pc[t] = "idle"
    /\ allocated' = allocated \ Range(Chain)
    /\ dropped' = TRUE
    /\ UNCHANGED <<head, next, data, lock, pc, op, key, cur, found, ret, nops,
                   refs, yielded, stable>>

(* The program has ended: the set is gone. *)
Terminated == dropped /\ UNCHANGED vars

Step(t) ==
    \/ LockHead(t) \/ FindAdvance(t) \/ FindReturn(t)
    \/ ContainsReturn(t) \/ InsertErr(t) \/ InsertOk(t)
    \/ RemoveOk(t) \/ RemoveErr(t)
    \/ IterNext(t) \/ IterEnd(t) \/ IterUse(t)

Next ==
    \/ \E t \in Threads : Invoke(t) \/ Step(t)
    \/ DropSet
    \/ Terminated

(* Threads are OS threads: each one that can take a step eventually does. *)
(* std::sync::Mutex is not fair, but every thread makes finitely many     *)
(* calls, so a lock wanted by a waiting thread is eventually free for good.*)
Fairness == \A t \in Threads : WF_vars(Step(t))

Spec == Init /\ [][Next]_vars /\ Fairness

-----------------------------------------------------------------------------
(* The list reached from head ends in null, its data strictly ascend, and *)
(* the live nodes are exactly the nodes on it (none leaked, none freed    *)
(* while linked); after Drop no node is live.  Two writers splicing at    *)
(* neighbouring cells, or a remover and an inserter at the same node,     *)
(* would break it if their locks did not exclude each other.              *)
ListWellFormed ==
    LET c == Chain IN
    /\ Len(c) <= Cardinality(Addrs)
    /\ \A i \in 1..(Len(c) - 1) : data[c[i]] < data[c[i + 1]]
    /\ allocated = IF dropped THEN {} ELSE Range(c)

(* Lock coupling: a held mutex is the head's or a live node's, and it is  *)
(* held by the one thread whose cursor stands on it, so each traversal    *)
(* holds exactly one lock and no thread holds or waits at a freed node.   *)
(* remove() locking the target's next before freeing it is what keeps a   *)
(* traversal parked on the target out of freed memory.                    *)
CursorLocksLive ==
    \A c \in Cells : lock[c] # NoOne =>
        /\ c = HEAD \/ c \in allocated
        /\ cur[lock[c]] = c
        /\ pc[lock[c]] \in {"find", "found", "iter"}

(* Iter yields strictly ascending keys, and by the time it ends it has    *)
(* yielded every key that was in the set when iter() locked the head and  *)
(* was not removed while it ran: writers never cross the iterator.        *)
IterationSound ==
    \A t \in Threads :
        /\ pc[t] \in {"iter", "use"} => IsSorted(yielded[t], <)
        /\ pc[t] = "use" => stable[t] \subseteq Range(yielded[t])

(* contains, insert and remove are linearizable: the list's keys and the  *)
(* results returned are those of AbstractSet executing each call          *)
(* atomically.                                                            *)
Abstract == INSTANCE AbstractSet WITH set <- SetKeys
SetRefinement == Abstract!Spec

(* Every call a thread makes returns: lock coupling takes locks in list   *)
(* order, so no thread waits for another forever.                         *)
CallsReturn == \A t \in Threads : pc[t] # "idle" ~> pc[t] = "idle"

(* The &T an Iter yielded stay valid while the caller holds them (the     *)
(* Iterator's Item is &'l T, 'l the borrow of the set): no yielded node   *)
(* is freed before the caller lets go of the reference.                   *)
NoDanglingIterRef == \A t \in Threads : refs[t] \subseteq allocated
=============================================================================
