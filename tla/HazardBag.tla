------------------------------ MODULE HazardBag ------------------------------
(***************************************************************************)
(* The hazard-pointer registry of src/homework/src/hazard_pointer/hazard.rs:*)
(* HazardBag (a grow-only list of HazardSlots) and Shield.                 *)
(*                                                                         *)
(* A slot lives at an address; the allocator hands out any address not    *)
(* currently allocated, so a freed slot's address can come back.  Each     *)
(* thread repeatedly creates a Shield (acquire_slot), protects the shared  *)
(* AtomicPtr src, and then either leaks the Shield (mem::forget, as the    *)
(* all_hazards_protected test does) or drops it; or it calls all_hazards.  *)
(* A writer stores new pointers into src, as a retiring thread would.      *)
(***************************************************************************)
EXTENDS Integers, FiniteSets, Sequences, SequencesExt

CONSTANTS
    Threads,        \* threads using the bag
    Addrs,          \* slot addresses the allocator can return
    Ptrs,           \* non-null pointer values src can hold (as usize)
    MaxRounds,      \* Shield::new / all_hazards calls per thread, at most
    MaxWrites,      \* stores into src by the writer, at most
    MaxScanSteps,   \* iterations of one all_hazards loop TLC follows
    NULL            \* the null pointer

ASSUME Ptrs \subseteq Nat \ {0}
ASSUME MaxScanSteps > Cardinality(Addrs)

Ptr == Addrs \cup {NULL}
ShieldPcs == {"load", "store", "validate", "protected", "drop"}

VARIABLES
    head,       \* HazardBag.head
    mem,        \* the allocated slot addresses
    active,     \* HazardSlot.active of each address
    hazard,     \* HazardSlot.hazard of each address (0: none)
    snext,      \* HazardSlot.next of each address
    src,        \* the AtomicPtr the Shields protect
    writes,     \* stores into src so far
    pc,         \* where each thread is
    slot,       \* the slot of the thread's Shield (or the one being built)
    walk,       \* curr_p of try_acquire_inactive or all_hazards
    seen,       \* the head acquire_slot loaded before appending
    ptr,        \* the local `pointer` of protect/try_protect
    rounds,     \* calls each thread has made
    leaked,     \* slots of Shields leaked with mem::forget
    found,      \* the set all_hazards is building
    steps,      \* iterations of the current all_hazards loop
    bag         \* "alive", or "panicked" once Drop for HazardBag ran

vars == <<head, mem, active, hazard, snext, src, writes, pc, slot, walk, seen,
          ptr, rounds, leaked, found, steps, bag>>

(* The slots reached from head, in list order (cut at |Addrs| + 1). *)
RECURSIVE SlotsFrom(_, _)
SlotsFrom(p, fuel) ==
    IF p = NULL \/ fuel = 0 THEN <<>> ELSE <<p>> \o SlotsFrom(snext[p], fuel - 1)

Bag == SlotsFrom(head, Cardinality(Addrs) + 1)

(* The slots owned by a Shield that is alive or was leaked. *)
Owned == {slot[t] : t \in {u \in Threads : pc[u] \in ShieldPcs}} \cup leaked

Goto(t, l) == pc' = [pc EXCEPT ![t] = l]

-----------------------------------------------------------------------------
Init ==
    /\ head = NULL
    /\ mem = {}
    /\ active = [a \in Addrs |-> FALSE]
    /\ hazard = [a \in Addrs |-> 0]
    /\ snext = [a \in Addrs |-> NULL]
    /\ src \in Ptrs
    /\ writes = 0
    /\ pc = [t \in Threads |-> "idle"]
    /\ slot = [t \in Threads |-> NULL]
    /\ walk = [t \in Threads |-> NULL]
    /\ seen = [t \in Threads |-> NULL]
    /\ ptr = [t \in Threads |-> CHOOSE p \in Ptrs : TRUE]
    /\ rounds = [t \in Threads |-> 0]
    /\ leaked = {}
    /\ found = [t \in Threads |-> {}]
    /\ steps = [t \in Threads |-> 0]
    /\ bag = "alive"

(* Shield::new -> acquire_slot -> try_acquire_inactive: curr_p = head. *)
NewShield(t) ==
    /\ pc[t] = "idle" /\ rounds[t] < MaxRounds
    /\ walk' = [walk EXCEPT ![t] = head]
    /\ rounds' = [rounds EXCEPT ![t] = @ + 1]
    /\ Goto(t, "inactive")
    /\ UNCHANGED <<head, mem, active, hazard, snext, src, writes, slot, seen,
                   ptr, leaked, found, steps, bag>>

(* try_acquire_inactive: active.compare_exchange(false, true) succeeds;   *)
(* the slot is returned with whatever hazard its last owner left.         *)
AcquireInactive(t) ==
    /\ pc[t] = "inactive" /\ walk[t] # NULL
    /\ ~active[walk[t]]
    /\ active' = [active EXCEPT ![walk[t]] = TRUE]
    /\ slot' = [slot EXCEPT ![t] = walk[t]]
    /\ Goto(t, "load")
    /\ UNCHANGED <<head, mem, hazard, snext, src, writes, walk, seen, ptr,
                   rounds, leaked, found, steps, bag>>

(* try_acquire_inactive: the CAS fails; curr_p = curr.next. *)
SkipActive(t) ==
    /\ pc[t] = "inactive" /\ walk[t] # NULL
    /\ active[walk[t]]
    /\ walk' = [walk EXCEPT ![t] = snext[walk[t]]]
    /\ UNCHANGED <<head, mem, active, hazard, snext, src, writes, pc, slot,
                   seen, ptr, rounds, leaked, found, steps, bag>>

(* try_acquire_inactive returns None at the end of the list. *)
NoInactive(t) ==
    /\ pc[t] = "inactive" /\ walk[t] = NULL
    /\ Goto(t, "alloc")
    /\ UNCHANGED <<head, mem, active, hazard, snext, src, writes, slot, walk,
                   seen, ptr, rounds, leaked, found, steps, bag>>

(* acquire_slot loop: head = self.head.load(); Box::new(HazardSlot::new(  *)
(* head)) writes active = false, hazard = 0, next = head at a fresh (or    *)
(* recycled) address.                                                      *)
AllocSlot(t) ==
    /\ pc[t] = "alloc"
    /\ \E a \in Addrs \ mem :
         /\ mem' = mem \cup {a}
         /\ active' = [active EXCEPT ![a] = FALSE]
         /\ hazard' = [hazard EXCEPT ![a] = 0]
         /\ snext' = [snext EXCEPT ![a] = head]
         /\ slot' = [slot EXCEPT ![t] = a]
    /\ seen' = [seen EXCEPT ![t] = head]
    /\ Goto(t, "activate")
    /\ UNCHANGED <<head, src, writes, walk, ptr, rounds, leaked, found, steps, bag>>

(* new_slot.active.store(true). *)
ActivateNew(t) ==
    /\ pc[t] = "activate"
    /\ active' = [active EXCEPT ![slot[t]] = TRUE]
    /\ Goto(t, "cas")
    /\ UNCHANGED <<head, mem, hazard, snext, src, writes, slot, walk, seen, ptr,
                   rounds, leaked, found, steps, bag>>

(* head.compare_exchange(head, new_slot_raw) succeeds: the slot is returned. *)
AppendOk(t) ==
    /\ pc[t] = "cas"
    /\ head = seen[t]
    /\ head' = slot[t]
    /\ Goto(t, "load")
    /\ UNCHANGED <<mem, active, hazard, snext, src, writes, slot, walk, seen,
                   ptr, rounds, leaked, found, steps, bag>>

(* The CAS fails with Err(e), e the current head, and the code runs       *)
(* drop(Box::from_raw(e)): it frees the slot at head, not the new one,     *)
(* and loops to load head again.                                           *)
AppendRetry(t) ==
    /\ pc[t] = "cas"
    /\ head # seen[t]
    /\ mem' = mem \ {head}
    /\ slot' = [slot EXCEPT ![t] = NULL]
    /\ Goto(t, "alloc")
    /\ UNCHANGED <<head, active, hazard, snext, src, writes, walk, seen, ptr,
                   rounds, leaked, found, steps, bag>>

(* protect: pointer = src.load(Relaxed). *)
ProtectLoad(t) ==
    /\ pc[t] = "load"
    /\ ptr' = [ptr EXCEPT ![t] = src]
    /\ Goto(t, "store")
    /\ UNCHANGED <<head, mem, active, hazard, snext, src, writes, slot, walk,
                   seen, rounds, leaked, found, steps, bag>>

(* try_protect: slot.hazard.store(ptr). *)
TryStore(t) ==
    /\ pc[t] = "store"
    /\ hazard' = [hazard EXCEPT ![slot[t]] = ptr[t]]
    /\ Goto(t, "validate")
    /\ UNCHANGED <<head, mem, active, snext, src, writes, slot, walk, seen, ptr,
                   rounds, leaked, found, steps, bag>>

(* try_protect: src.load() == ptr, true; protect returns ptr. *)
Validated(t) ==
    /\ pc[t] = "validate"
    /\ src = ptr[t]
    /\ Goto(t, "protected")
    /\ UNCHANGED <<head, mem, active, hazard, snext, src, writes, slot, walk,
                   seen, ptr, rounds, leaked, found, steps, bag>>

(* try_protect: src moved; *pointer = loaded, hazard.store(0), false;     *)
(* protect's loop tries again with the new pointer.                        *)
ValidateFailed(t) ==
    /\ pc[t] = "validate"
    /\ src # ptr[t]
    /\ ptr' = [ptr EXCEPT ![t] = src]
    /\ hazard' = [hazard EXCEPT ![slot[t]] = 0]
    /\ Goto(t, "store")
    /\ UNCHANGED <<head, mem, active, snext, src, writes, slot, walk, seen,
                   rounds, leaked, found, steps, bag>>

(* The caller leaks the Shield (mem::forget): its slot stays owned. *)
Forget(t) ==
    /\ pc[t] = "protected"
    /\ leaked' = leaked \cup {slot[t]}
    /\ Goto(t, "idle")
    /\ UNCHANGED <<head, mem, active, hazard, snext, src, writes, slot, walk,
                   seen, ptr, rounds, found, steps, bag>>

(* The caller drops the Shield. *)
DropShield(t) ==
    /\ pc[t] = "protected"
    /\ Goto(t, "drop")
    /\ UNCHANGED <<head, mem, active, hazard, snext, src, writes, slot, walk,
                   seen, ptr, rounds, leaked, found, steps, bag>>

(* Drop for Shield is todo!(): the thread panics, the slot untouched. *)
DropPanics(t) ==
    /\ pc[t] = "drop"
    /\ Goto(t, "panicked")
    /\ UNCHANGED <<head, mem, active, hazard, snext, src, writes, slot, walk,
                   seen, ptr, rounds, leaked, found, steps, bag>>

(* all_hazards: curr_p = head.load(). *)
AllHazards(t) ==
    /\ pc[t] = "idle" /\ rounds[t] < MaxRounds
    /\ walk' = [walk EXCEPT ![t] = head]
    /\ found' = [found EXCEPT ![t] = {}]
    /\ steps' = [steps EXCEPT ![t] = 0]
    /\ rounds' = [rounds EXCEPT ![t] = @ + 1]
    /\ Goto(t, "scan")
    /\ UNCHANGED <<head, mem, active, hazard, snext, src, writes, slot, seen,
                   ptr, leaked, bag>>

(* all_hazards loop body: if curr.active, insert curr.hazard.  The body   *)
(* never assigns curr_p = curr.next, so curr_p stays where it is.         *)
ScanStep(t) ==
    /\ pc[t] = "scan" /\ walk[t] # NULL
    /\ steps[t] < MaxScanSteps
    /\ found' = [found EXCEPT ![t] = IF active[walk[t]] THEN @ \cup {hazard[walk[t]]} ELSE @]
    /\ steps' = [steps EXCEPT ![t] = @ + 1]
    /\ UNCHANGED <<head, mem, active, hazard, snext, src, writes, pc, slot, walk,
                   seen, ptr, rounds, leaked, bag>>

(* all_hazards returns at a null curr_p. *)
ScanEnd(t) ==
    /\ pc[t] = "scan" /\ walk[t] = NULL
    /\ Goto(t, "idle")
    /\ UNCHANGED <<head, mem, active, hazard, snext, src, writes, slot, walk,
                   seen, ptr, rounds, leaked, found, steps, bag>>

(* Another thread stores a new pointer into src. *)
WriteSrc ==
    /\ writes < MaxWrites
    /\ \E p \in Ptrs \ {src} : src' = p
    /\ writes' = writes + 1
    /\ UNCHANGED <<head, mem, active, hazard, snext, pc, slot, walk, seen, ptr,
                   rounds, leaked, found, steps, bag>>

(* The owner drops the bag once every thread using it has ended (the      *)
(* tests join their threads, then drop the Arc or the local bag).  Drop   *)
(* for HazardBag is todo!(): it panics and frees no slot.                 *)
DropBag ==
    /\ bag = "alive"
    /\ \A t \in Threads : pc[t] \in {"idle", "panicked"}
    /\ bag' = "panicked"
    /\ UNCHANGED <<head, mem, active, hazard, snext, src, writes, pc, slot, walk,
                   seen, ptr, rounds, leaked, found, steps>>

Terminated ==
    /\ bag = "panicked"
    /\ UNCHANGED vars

Step(t) ==
    \/ AcquireInactive(t) \/ SkipActive(t) \/ NoInactive(t)
    \/ AllocSlot(t) \/ ActivateNew(t) \/ AppendOk(t) \/ AppendRetry(t)
    \/ ProtectLoad(t) \/ TryStore(t) \/ Validated(t) \/ ValidateFailed(t)
    \/ DropPanics(t) \/ ScanStep(t) \/ ScanEnd(t)

Next ==
    \/ \E t \in Threads :
         NewShield(t) \/ AllHazards(t) \/ Forget(t) \/ DropShield(t) \/ Step(t)
    \/ WriteSrc
    \/ DropBag
    \/ Terminated

(* Every thread keeps running its call once it has begun it. *)
Spec == Init /\ [][Next]_vars /\ \A t \in Threads : WF_vars(Step(t))

-----------------------------------------------------------------------------
TypeOK ==
    /\ head \in Ptr
    /\ mem \subseteq Addrs
    /\ active \in [Addrs -> BOOLEAN]
    /\ hazard \in [Addrs -> Ptrs \cup {0}]
    /\ snext \in [Addrs -> Ptr]
    /\ src \in Ptrs
    /\ writes \in 0..MaxWrites
    /\ pc \in [Threads -> {"idle", "inactive", "alloc", "activate", "cas",
                           "scan", "panicked"} \cup ShieldPcs]
    /\ slot \in [Threads -> Ptr]
    /\ walk \in [Threads -> Ptr]
    /\ seen \in [Threads -> Ptr]
    /\ ptr \in [Threads -> Ptrs]
    /\ rounds \in [Threads -> 0..MaxRounds]
    /\ leaked \subseteq Addrs
    /\ found \in [Threads -> SUBSET (Ptrs \cup {0})]
    /\ steps \in [Threads -> 0..MaxScanSteps]
    /\ bag \in {"alive", "panicked"}

(* A slot owned by a live or leaked Shield is never freed: the Shield     *)
(* keeps storing into it and all_hazards keeps reading it.  The list      *)
(* is grow-only and its slots are meant to live as long as the bag.       *)
OwnedSlotsAllocated == Owned \subseteq mem

(* all_hazards terminates: one call visits each slot of the bag at most   *)
(* once, so its loop runs at most as many times as there are slots.       *)
ScanBounded ==
    \A t \in Threads : pc[t] = "scan" => steps[t] <= Len(Bag)

(* A dropped Shield gives its slot back: no slot is active in the bag     *)
(* unless a live or leaked Shield owns it or acquire_slot is building it, *)
(* so dropping Shields lets later ones recycle their slots.               *)
ActiveSlotsOwned ==
    \A s \in Range(Bag) :
        active[s] => s \in Owned \/ \E t \in Threads : pc[t] \in {"activate", "cas"} /\ slot[t] = s
=============================================================================
