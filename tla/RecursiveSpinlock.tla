------------------------- MODULE RecursiveSpinlock -------------------------
(***************************************************************************)
(* The recursive spinlock of src/allocator/rte_spinlock.h: threads call    *)
(* rte_spinlock_recursive_lock, _trylock and _unlock.  A step makes one    *)
(* access to the shared structure; user and count are read by threads that *)
(* do not have the lock.                                                   *)
(***************************************************************************)
EXTENDS Integers

CONSTANTS Tids,         \* the thread ids the kernel hands out
          MaxDepth      \* how deep a caller nests

ASSUME RecursiveSpinlockAssumption == Tids \subseteq Nat /\ MaxDepth \in Nat

VARIABLES
    locked,             \* slr->sl.locked
    user,               \* slr->user, -1 for unused
    count,              \* slr->count
    thread_id,          \* rte_gettid: its variable in each thread
    pc, op,             \* where each thread is, in which call
    tmp,                \* the value of count it read
    depth               \* how many of its calls succeeded and are not undone

vars == <<locked, user, count, thread_id, pc, op, tmp, depth>>

\* A variable of which each thread has its own.
RTE_DEFINE_PER_LCORE(value) == [t \in Tids |-> value]

\* rte_spinlock_recursive_init
Init ==
    /\ locked = 0
    /\ user = -1
    /\ count = 0
    /\ thread_id = RTE_DEFINE_PER_LCORE(-1)
    /\ pc = [t \in Tids |-> "idle"]
    /\ op = [t \in Tids |-> "none"]
    /\ tmp = [t \in Tids |-> 0]
    /\ depth = [t \in Tids |-> 0]

Goto(t, from, to) == pc[t] = from /\ pc' = [pc EXCEPT ![t] = to]

\* The first call of rte_gettid finds the id of the thread, which is kept.
rte_gettid(t) == thread_id' = [thread_id EXCEPT ![t] = IF @ = -1 THEN t ELSE @]

\* rte_spinlock_recursive_lock or _trylock is called.
CallLock(t, call) ==
    /\ depth[t] < MaxDepth
    /\ Goto(t, "idle", "user")
    /\ op' = [op EXCEPT ![t] = call]
    /\ rte_gettid(t)
    /\ UNCHANGED <<locked, user, count, tmp, depth>>

\* if (slr->user != id)
TestUser(t) ==
    /\ Goto(t, "user", IF user = thread_id[t] THEN "load" ELSE "tas")
    /\ UNCHANGED <<locked, user, count, thread_id, op, tmp, depth>>

\* The atomic exchange of rte_spinlock_lock and rte_spinlock_trylock, which
\* returns when the lock was taken.
Exchange(t) ==
    /\ Goto(t, "tas", IF locked = 0 THEN "own"
                      ELSE IF op[t] = "lock" THEN "spin" ELSE "idle")
    /\ locked' = 1
    /\ UNCHANGED <<user, count, thread_id, op, tmp, depth>>

\* rte_spinlock_is_locked: the inner loop of rte_spinlock_lock ends.
SpinEnds(t) ==
    /\ Goto(t, "spin", "tas")
    /\ locked = 0
    /\ UNCHANGED <<locked, user, count, thread_id, op, tmp, depth>>

SetUser(t) ==
    /\ Goto(t, "own", "load")
    /\ user' = thread_id[t]
    /\ UNCHANGED <<locked, count, thread_id, op, tmp, depth>>

\* slr->count++
CountLoad(t) ==
    /\ Goto(t, "load", "store")
    /\ tmp' = [tmp EXCEPT ![t] = count]
    /\ UNCHANGED <<locked, user, count, thread_id, op, depth>>
CountStore(t) ==
    /\ Goto(t, "store", "idle")
    /\ count' = tmp[t] + 1
    /\ depth' = [depth EXCEPT ![t] = @ + 1]
    /\ UNCHANGED <<locked, user, thread_id, op, tmp>>

\* rte_spinlock_recursive_unlock is called by a thread that has the lock:
\* --(slr->count)
CallUnlock(t) ==
    /\ depth[t] > 0
    /\ Goto(t, "idle", "decrement")
    /\ tmp' = [tmp EXCEPT ![t] = count]
    /\ UNCHANGED <<locked, user, count, thread_id, op, depth>>
Decrement(t) ==
    /\ Goto(t, "decrement", IF tmp[t] - 1 = 0 THEN "clear" ELSE "idle")
    /\ count' = tmp[t] - 1
    /\ depth' = [depth EXCEPT ![t] = @ - 1]
    /\ UNCHANGED <<locked, user, thread_id, op, tmp>>

SetField(t, l, u) ==
    /\ locked' = l
    /\ user' = u
    /\ UNCHANGED <<count, thread_id, op, tmp, depth>>
\* mutant: the lock is released before it is marked as unused
ReleaseSteps_swapped(t) ==
    \/ Goto(t, "clear", "release") /\ SetField(t, 0, user)
    \/ Goto(t, "release", "idle") /\ SetField(t, locked, -1)
\* user = -1, then rte_spinlock_unlock
ReleaseSteps(t) ==
    \/ Goto(t, "clear", "release") /\ SetField(t, locked, -1)
    \/ Goto(t, "release", "idle") /\ SetField(t, 0, user)

\* What the two have in common: they differ in what they do about a lock that
\* is taken.
Enter(t) == TestUser(t) \/ Exchange(t) \/ SetUser(t) \/ CountLoad(t) \/ CountStore(t)

rte_spinlock_recursive_lock(t) ==
    CallLock(t, "lock") \/ (op[t] = "lock" /\ Enter(t)) \/ SpinEnds(t)
rte_spinlock_recursive_trylock(t) ==
    CallLock(t, "trylock") \/ (op[t] = "trylock" /\ Enter(t))
rte_spinlock_recursive_unlock(t) == CallUnlock(t) \/ Decrement(t) \/ ReleaseSteps(t)

Next == \E t \in Tids :
    \/ rte_spinlock_recursive_lock(t)
    \/ rte_spinlock_recursive_trylock(t)
    \/ rte_spinlock_recursive_unlock(t)
Spec == Init /\ [][Next]_vars
-----------------------------------------------------------------------------
Labels == {"idle", "user", "tas", "spin", "own", "load", "store", "decrement",
           "clear", "release"}
TypeOK ==
    /\ locked \in {0, 1}
    /\ user \in Tids \cup {-1}
    /\ count \in Nat
    /\ thread_id \in [Tids -> Tids \cup {-1}]
    /\ pc \in [Tids -> Labels]
    /\ op \in [Tids -> {"none", "lock", "trylock"}]
    /\ tmp \in [Tids -> Nat]
    /\ depth \in [Tids -> Nat]

\* A thread has the spinlock: it succeeded once and has not undone it, or it is
\* on its way in or out.
Holds(t) == depth[t] > 0 \/ pc[t] \in {"own", "load", "store", "decrement", "clear", "release"}

\* The lock excludes, through any nesting, and count is the depth of its owner.
MutualExclusion ==
    /\ \A t, u \in Tids : Holds(t) /\ Holds(u) => t = u
    /\ locked = 1 <=> \E t \in Tids : Holds(t)
    /\ \A t \in Tids : Holds(t) => count = depth[t]

\* A thread that has the lock never waits for it: the test of user, which is
\* made without the lock, is not misled by what other threads write.
ReentryNeverWaits == \A t \in Tids : depth[t] > 0 => pc[t] \notin {"tas", "spin"}

\* The spinlock implements a recursive mutex: it is acquired by the exchange,
\* entered again and left by the writes of count, and released by the unlock.
Owner == IF locked = 0 THEN -1 ELSE CHOOSE t \in Tids : Holds(t)
Nesting == IF locked = 0 THEN 0 ELSE IF count = 0 THEN 1 ELSE count
Mutex == INSTANCE RecursiveMutex WITH Threads <- Tids, NONE <- -1, owner <- Owner, nesting <- Nesting
ImplementsMutex == Mutex!Spec
=============================================================================
