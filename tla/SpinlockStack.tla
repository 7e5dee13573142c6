--------------------------- MODULE SpinlockStack ---------------------------
(***************************************************************************)
(* The thread-safe stack allocator of                                      *)
(* src/allocator/spinlock_stack_allocator.c over the spinlock of           *)
(* src/allocator/rte_spinlock.h: threads call allocate and deallocate on   *)
(* one allocator at the same time.  A step makes one access to the shared  *)
(* structure.  The lock operations have acquire and release semantics, so  *)
(* interleaving is all a correct use of the lock leaves to go wrong.       *)
(***************************************************************************)
EXTENDS Integers, Sequences, FiniteSets

CONSTANTS Threads,
          num_entries,
          NULL,         \* the null pointer
          Foreign       \* ids computed from blocks of some other allocator
                        \* that a caller passes to deallocate by mistake

Entries == 0 .. num_entries - 1

ASSUME SpinlockStackAssumption ==
    /\ num_entries \in Nat
    /\ NULL \notin Int
    /\ Foreign \subseteq Int \ Entries

VARIABLES
    locked,         \* the word of the spinlock, 0 or 1
    free_stack,     \* array of entry ids
    free_stack_top,
    pc, op,         \* per thread: where it is, in which call
    blk,            \* its block: the argument or the result, as an entry id
    top,            \* the value of free_stack_top it read
    owned,          \* blocks in the hands of the callers
    exited          \* error() was called

shared == <<locked, free_stack, free_stack_top>>
vars   == <<shared, pc, op, blk, top, owned, exited>>

Init ==
    /\ locked = 0
    /\ free_stack = [k \in Entries |-> k]
    /\ free_stack_top = num_entries
    /\ pc = [t \in Threads |-> "idle"]
    /\ op = [t \in Threads |-> "none"]
    /\ blk = [t \in Threads |-> NULL]
    /\ top = [t \in Threads |-> 0]
    /\ owned = {}
    /\ exited = FALSE

At(t, label) == ~exited /\ pc[t] = label
Goto(t, label) == pc' = [pc EXCEPT ![t] = label]

\* allocate is called, for a size that fits an entry or for one too big.
CallAllocate(t) ==
    /\ At(t, "idle")
    /\ \E size \in {"allocate", "allocate_big"} : op' = [op EXCEPT ![t] = size]
    /\ Goto(t, "tas")
    /\ UNCHANGED <<shared, blk, top, owned, exited>>

\* deallocate is called with a block some thread was given.
CallDeallocate(t) ==
    /\ At(t, "idle")
    /\ \E b \in owned : owned' = owned \ {b} /\ blk' = [blk EXCEPT ![t] = b]
    /\ op' = [op EXCEPT ![t] = "deallocate"]
    /\ Goto(t, "tas")
    /\ UNCHANGED <<shared, top, exited>>

\* The range test of deallocate.
OutOfRange(entry_id) == entry_id > num_entries \/ entry_id < 0

\* deallocate is called with a block that is not of this allocator.
CallForeign(t) ==
    /\ At(t, "idle")
    /\ \E id \in Foreign, same_size \in BOOLEAN :
           IF ~same_size \/ OutOfRange(id)
           THEN exited' = TRUE /\ UNCHANGED <<pc, op, blk>>
           ELSE /\ blk' = [blk EXCEPT ![t] = id]
                /\ op' = [op EXCEPT ![t] = "deallocate"]
                /\ Goto(t, "tas")
                /\ UNCHANGED exited
    /\ UNCHANGED <<shared, top, owned>>
-----------------------------------------------------------------------------
Start(t) == IF op[t] = "deallocate" THEN "fetch" ELSE "test"

\* mutant: the lock is read and then set
TestAndSet_blind(t) ==
    /\ At(t, "tas")
    /\ locked' = 1
    /\ Goto(t, Start(t))
    /\ UNCHANGED <<free_stack, free_stack_top, op, blk, top, owned, exited>>
\* rte_spinlock_lock: the atomic exchange of the outer loop.
TestAndSet(t) ==
    /\ At(t, "tas")
    /\ locked' = 1
    /\ Goto(t, IF locked = 0 THEN Start(t) ELSE "spin")
    /\ UNCHANGED <<free_stack, free_stack_top, op, blk, top, owned, exited>>

\* The inner loop is left once the lock looks free.
SpinEnds(t) ==
    /\ At(t, "spin")
    /\ locked = 0
    /\ Goto(t, "tas")
    /\ UNCHANGED <<shared, op, blk, top, owned, exited>>

\* mutant: an allocation that fails returns without unlocking
AllocTest_locked(t) ==
    /\ At(t, "test")
    /\ top' = [top EXCEPT ![t] = free_stack_top]
    /\ IF free_stack_top = 0 \/ op[t] = "allocate_big"
       THEN Goto(t, "idle") ELSE Goto(t, "pop")
    /\ UNCHANGED <<shared, op, blk, owned, exited>>
\* allocate: is there an entry, and is it large enough?
AllocTest(t) ==
    /\ At(t, "test")
    /\ top' = [top EXCEPT ![t] = free_stack_top]
    /\ IF free_stack_top = 0 \/ op[t] = "allocate_big"
       THEN Goto(t, "unlock") ELSE Goto(t, "pop")
    /\ UNCHANGED <<shared, op, blk, owned, exited>>

AllocPop(t) ==
    /\ At(t, "pop")
    /\ free_stack_top' = top[t] - 1
    /\ Goto(t, "load")
    /\ UNCHANGED <<locked, free_stack, op, blk, top, owned, exited>>

\* mutant: the entry above the top is read
AllocLoad_above(t) ==
    /\ At(t, "load")
    /\ blk' = [blk EXCEPT ![t] = free_stack[top[t] % num_entries]]
    /\ Goto(t, "unlock")
    /\ UNCHANGED <<shared, op, top, owned, exited>>
AllocLoad(t) ==
    /\ At(t, "load")
    /\ blk' = [blk EXCEPT ![t] = free_stack[top[t] - 1]]
    /\ Goto(t, "unlock")
    /\ UNCHANGED <<shared, op, top, owned, exited>>

\* deallocate: free_stack[free_stack_top++] = entry_id
FreeFetch(t) ==
    /\ At(t, "fetch")
    /\ top' = [top EXCEPT ![t] = free_stack_top]
    /\ Goto(t, "push")
    /\ UNCHANGED <<shared, op, blk, owned, exited>>

FreePush(t) ==
    /\ At(t, "push")
    /\ free_stack_top' = top[t] + 1
    /\ Goto(t, "store")
    /\ UNCHANGED <<locked, free_stack, op, blk, top, owned, exited>>

\* mutant: the entry is stored at the bottom
FreeStore_bottom(t) ==
    /\ At(t, "store")
    /\ free_stack' = [k \in Entries |-> IF k = 0 THEN blk[t]
                        ELSE IF k <= top[t] THEN free_stack[k - 1]
                        ELSE free_stack[k]]
    /\ Goto(t, "unlock")
    /\ UNCHANGED <<locked, free_stack_top, op, blk, top, owned, exited>>
FreeStore(t) ==
    /\ At(t, "store")
    /\ free_stack' = [free_stack EXCEPT ![top[t]] = blk[t]]
    /\ Goto(t, "unlock")
    /\ UNCHANGED <<locked, free_stack_top, op, blk, top, owned, exited>>

\* Unlock and return; a block that was allocated is the caller's now.
Unlock(t) ==
    /\ At(t, "unlock")
    /\ locked' = 0
    /\ owned' = IF op[t] = "deallocate" \/ blk[t] = NULL
                THEN owned ELSE owned \cup {blk[t]}
    /\ blk' = [blk EXCEPT ![t] = NULL]
    /\ op' = [op EXCEPT ![t] = "none"]
    /\ top' = [top EXCEPT ![t] = 0]
    /\ Goto(t, "idle")
    /\ UNCHANGED <<free_stack, free_stack_top, exited>>

Step(t) ==
    \/ TestAndSet(t) \/ SpinEnds(t)
    \/ AllocTest(t) \/ AllocPop(t) \/ AllocLoad(t)
    \/ FreeFetch(t) \/ FreePush(t) \/ FreeStore(t)
    \/ Unlock(t)

Call(t) == CallAllocate(t) \/ CallDeallocate(t) \/ CallForeign(t)

Next == \E t \in Threads : Call(t) \/ Step(t)

\* The operating system runs every thread that is inside a call.
Spec == Init /\ [][Next]_vars /\ \A t \in Threads : WF_vars(Step(t))
-----------------------------------------------------------------------------
AllocLabels == {"test", "pop", "load"}
FreeLabels  == {"fetch", "push", "store"}
Critical(t) == pc[t] \in AllocLabels \cup FreeLabels \cup {"unlock"}

\* The ids on the stack; the top one is not stored yet in step "store".
Storing == \E t \in Threads : pc[t] = "store"
Depth == IF Storing THEN free_stack_top - 1 ELSE free_stack_top

\* What thread t holds: a block taken off the stack and not returned to the
\* caller, or one to be put there.
InHand(t) ==
    IF pc[t] = "load" THEN free_stack[free_stack_top]
    ELSE IF op[t] = "deallocate" /\ pc[t] = "unlock" THEN NULL
    ELSE blk[t]

TypeOK ==
    /\ locked \in {0, 1}
    /\ free_stack \in [Entries -> Entries]
    /\ free_stack_top \in 0 .. num_entries
    /\ pc \in [Threads -> AllocLabels \cup FreeLabels
                            \cup {"idle", "tas", "spin", "unlock"}]
    /\ op \in [Threads -> {"none", "allocate", "allocate_big", "deallocate"}]
    /\ blk \in [Threads -> Entries \cup {NULL}]
    /\ top \in [Threads -> 0 .. num_entries]
    /\ owned \subseteq Entries
    /\ exited \in BOOLEAN

\* The spinlock excludes: at most one thread is between lock and unlock, and
\* the word is 1 exactly while one is.
MutualExclusion ==
    /\ \A t, u \in Threads : Critical(t) /\ Critical(u) => t = u
    /\ locked = 1 <=> \E t \in Threads : Critical(t)

\* "Thread-safe": whatever the interleaving, an entry is on the stack once, or
\* with one thread, or with the callers, and none gets lost.
OnePlace ==
    LET OnStack == {free_stack[k] : k \in 0 .. Depth - 1}
        Holding == {t \in Threads : InHand(t) # NULL}
        InHands == {InHand(t) : t \in Holding}
    IN  /\ \A k, l \in 0 .. Depth - 1 : free_stack[k] = free_stack[l] => k = l
        /\ \A t, u \in Holding : InHand(t) = InHand(u) => t = u
        /\ OnStack \cap InHands = {}
        /\ owned \cap (OnStack \cup InHands) = {}
        /\ OnStack \cup InHands \cup owned = Entries

\* No call leaves the lock behind: while threads wait, one of them or the
\* present holder reaches its unlock.  (Which one is not determined: the lock
\* is not fair.)
LockMoves ==
    \A t \in Threads :
        pc[t] \in {"tas", "spin"} ~> (exited \/ \E u \in Threads : pc[u] = "unlock")

\* The contract: allocate and deallocate are atomic operations of a LIFO stack.
Atomic == INSTANCE AtomicStack WITH
    stack <- [k \in 1 .. Depth |-> free_stack[k - 1]],
    hand <- [t \in Threads |-> InHand(t)]
ImplementsAtomicStack == Atomic!Spec

\* The error message of deallocate: an id that is "outside of stack range" is
\* refused, so the stack only ever holds ids of entries.
RangeChecked ==
    /\ free_stack_top <= num_entries
    /\ \A k \in 0 .. Depth - 1 : free_stack[k] \in Entries
=============================================================================
