-------------------------- MODULE AllocatorProofs ---------------------------
(***************************************************************************)
(* What src/allocator promises: the recursive spinlock, which excludes,    *)
(* lets its owner in again at once and implements a recursive mutex, for   *)
(* any set of threads and any depth; the sequential allocators for every   *)
(* size of memory, of the stack and of a request; and their example.       *)
(***************************************************************************)
EXTENDS RecursiveSpinlock, Allocators, AllocatorExample, TLAPS

-----------------------------------------------------------------------------
\* What a thread knows of the shared fields from where it is: this is what
\* makes the test of user, made without the lock, reliable.
Knows(t) ==
    /\ thread_id[t] \in {-1, t}
    /\ pc[t] # "idle" \/ depth[t] > 0 => thread_id[t] = t
    /\ Holds(t) => locked = 1 /\ count = depth[t]
    /\ depth[t] > 0 \/ pc[t] \in {"load", "store", "decrement", "clear"} => user = t
    /\ pc[t] \in {"own", "release"} => user = -1
    /\ pc[t] \in {"tas", "spin", "own", "clear", "release"} => depth[t] = 0
    /\ pc[t] = "decrement" => depth[t] > 0
    /\ pc[t] \in {"store", "decrement"} => tmp[t] = count

Inv ==
    /\ TypeOK
    /\ \A t \in Tids : Knows(t)
    /\ \A t, u \in Tids : Holds(t) /\ Holds(u) => t = u
    /\ locked = 1 => \E t \in Tids : Holds(t)
    /\ locked = 0 => count = 0 /\ user = -1
    /\ user # -1 => Holds(user)

\* A lock after rte_spinlock_recursive_init satisfies the invariant.
LEMMA InitInv == Init => Inv
  BY RecursiveSpinlockAssumption
  DEF Init, Inv, TypeOK, Labels, Knows, Holds, RTE_DEFINE_PER_LCORE

\* The invariant implies the properties of the lock.
LEMMA InvProperties == Inv => TypeOK /\ MutualExclusion /\ ReentryNeverWaits
  BY RecursiveSpinlockAssumption
  DEF Inv, TypeOK, Labels, Knows, Holds, MutualExclusion, ReentryNeverWaits

\* Every access of a thread to the structure preserves the invariant.
LEMMA NextInv == Inv /\ [Next]_vars => Inv'
<1> SUFFICES ASSUME Inv, [Next]_vars PROVE Inv'
  OBVIOUS
<1> USE RecursiveSpinlockAssumption DEF Inv, TypeOK, Labels, Knows, Holds, Goto
<1>1. CASE UNCHANGED vars
  BY <1>1 DEF vars
<1>2. ASSUME NEW t \in Tids, NEW call \in {"lock", "trylock"}, CallLock(t, call)
      PROVE  Inv'
  BY <1>2 DEF CallLock, rte_gettid
<1>3. ASSUME NEW t \in Tids, TestUser(t) PROVE Inv'
  BY <1>3 DEF TestUser
<1>4. ASSUME NEW t \in Tids, Exchange(t) PROVE Inv'
  BY <1>4 DEF Exchange
<1>5. ASSUME NEW t \in Tids, SpinEnds(t) PROVE Inv'
  BY <1>5 DEF SpinEnds
<1>6. ASSUME NEW t \in Tids, SetUser(t) PROVE Inv'
  BY <1>6 DEF SetUser
<1>7. ASSUME NEW t \in Tids, CountLoad(t) PROVE Inv'
  BY <1>7 DEF CountLoad
<1>8. ASSUME NEW t \in Tids, CountStore(t) PROVE Inv'
  BY <1>8 DEF CountStore
<1>9. ASSUME NEW t \in Tids, CallUnlock(t) PROVE Inv'
  BY <1>9 DEF CallUnlock
<1>10. ASSUME NEW t \in Tids, Decrement(t) PROVE Inv'
  BY <1>10 DEF Decrement
<1>11. ASSUME NEW t \in Tids, ReleaseSteps(t) PROVE Inv'
  BY <1>11 DEF ReleaseSteps, SetField
<1>12. QED
  BY <1>1, <1>2, <1>3, <1>4, <1>5, <1>6, <1>7, <1>8, <1>9, <1>10, <1>11, Zenon
  DEF Next, rte_spinlock_recursive_lock, rte_spinlock_recursive_trylock,
      rte_spinlock_recursive_unlock, Enter

\* The invariant holds whatever the threads call.
LEMMA SpecInv == Spec => []Inv
  BY InitInv, NextInv, PTL DEF Spec

\* The recursive spinlock excludes through any nesting, counts the depth of its
\* owner, and never makes its owner wait (rte_spinlock_recursive_lock and
\* _unlock, whatever the other threads do between any two accesses).
THEOREM RecursiveLockSafe == Spec => [](MutualExclusion /\ ReentryNeverWaits)
  BY SpecInv, InvProperties, PTL

-----------------------------------------------------------------------------
\* The owner of the mutex is the thread that has the lock.
LEMMA OwnerHolds ==
    ASSUME Inv, NEW t \in Tids, Holds(t)
    PROVE  locked = 1 /\ Owner = t
<1>1. locked = 1
  BY DEF Inv, Knows
<1>2. (CHOOSE u \in Tids : Holds(u)) = t
  BY DEF Inv
<1> QED
  BY <1>1, <1>2 DEF Owner

\* A step of a thread that keeps the lock, or keeps clear of it, changes the
\* mutex only through count.
LEMMA OwnerKept ==
    ASSUME Inv, Inv', \A u \in Tids : Holds(u)' <=> Holds(u)
    PROVE  locked' = locked /\ Owner' = Owner
<1>1. locked' = locked
  BY DEF Inv, TypeOK, Knows
<1>2. CASE locked = 0
  BY <1>1, <1>2 DEF Owner
<1>3. CASE locked = 1
  <2>1. PICK t \in Tids : Holds(t)
    BY <1>3 DEF Inv
  <2>2. Holds(t)'
    BY <2>1
  <2>3. Owner = t
    BY <2>1, OwnerHolds
  <2>4. (CHOOSE u \in Tids : Holds(u))' = t
    BY <2>2 DEF Inv
  <2>5. Owner' = t
    BY <2>4, <1>1, <1>3 DEF Owner
  <2> QED
    BY <2>3, <2>5, <1>1
<1> QED
  BY <1>2, <1>3 DEF Inv, TypeOK

\* A lock after rte_spinlock_recursive_init is a free mutex.
LEMMA InitMutex == Init => Mutex!Init
  BY DEF Init, Mutex!Init, Owner, Nesting

\* Every step of the spinlock is a step of the mutex or leaves it alone.
LEMMA NextMutex == Inv /\ Inv' /\ [Next]_vars => [Mutex!Next]_(Mutex!vars)
<1> SUFFICES ASSUME Inv, Inv', [Next]_vars PROVE [Mutex!Next]_(Mutex!vars)
  OBVIOUS
<1> USE RecursiveSpinlockAssumption DEF Goto
<1>a. ASSUME \A u \in Tids : Holds(u)' <=> Holds(u), count' = count
      PROVE  UNCHANGED Mutex!vars
  BY <1>a, OwnerKept, Zenon DEF Mutex!vars, Nesting
<1>1. CASE UNCHANGED vars
  BY <1>1, <1>a DEF vars, Holds
<1>2. ASSUME NEW t \in Tids, NEW call \in {"lock", "trylock"},
             CallLock(t, call) \/ TestUser(t) \/ SpinEnds(t) \/ SetUser(t)
                \/ CountLoad(t) \/ CallUnlock(t)
      PROVE  UNCHANGED Mutex!vars
  <2>1. \A u \in Tids : Holds(u)' <=> Holds(u)
    BY <1>2 DEF CallLock, TestUser, SpinEnds, SetUser, CountLoad, CallUnlock,
                Inv, TypeOK, Knows, Holds
  <2> QED
    BY <1>2, <1>a, <2>1
    DEF CallLock, TestUser, SpinEnds, SetUser, CountLoad, CallUnlock
<1>3. ASSUME NEW t \in Tids, Exchange(t) PROVE [Mutex!Next]_(Mutex!vars)
  <2>1. CASE locked = 0
    <3>1. Owner = -1 /\ Nesting = 0
      BY <2>1 DEF Owner, Nesting
    <3>2. Holds(t)'
      BY <1>3, <2>1 DEF Exchange, Holds, Inv, TypeOK
    <3>3. locked' = 1 /\ count' = 0
      BY <1>3, <2>1 DEF Exchange, Inv
    <3>4. (CHOOSE u \in Tids : Holds(u))' = t
      BY <3>2 DEF Inv
    <3>5. Owner' = t /\ Nesting' = 1
      BY <3>3, <3>4 DEF Owner, Nesting
    <3> QED
      BY <3>1, <3>5 DEF Mutex!Next, Mutex!Acquire
  <2>2. CASE locked = 1
    <3>1. \A u \in Tids : Holds(u)' <=> Holds(u)
      BY <1>3, <2>2 DEF Exchange, Inv, TypeOK, Knows, Holds
    <3> QED
      BY <1>3, <1>a, <3>1 DEF Exchange
  <2> QED
    BY <2>1, <2>2 DEF Inv, TypeOK
<1>4. ASSUME NEW t \in Tids, CountStore(t) \/ Decrement(t)
      PROVE  [Mutex!Next]_(Mutex!vars)
  <2>1. \A u \in Tids : Holds(u)' <=> Holds(u)
    BY <1>4 DEF CountStore, Decrement, Inv, TypeOK, Knows, Holds
  <2>2. Holds(t) /\ locked = 1 /\ locked' = 1 /\ Owner = t /\ Owner' = t
    BY <1>4, <2>1, OwnerHolds, OwnerKept DEF CountStore, Decrement, Holds
  <2>3. count \in Nat /\ count' \in Nat
    BY DEF Inv, TypeOK
  <2>4. CASE count = 0 \/ count' = 0
    <3>1. Nesting' = Nesting
      BY <1>4, <2>2, <2>4 DEF Nesting, CountStore, Decrement, Inv, TypeOK, Knows
    <3> QED
      BY <2>2, <3>1 DEF Mutex!vars
  <2>5. CASE count # 0 /\ count' # 0
    <3>1. \/ Nesting' = Nesting + 1
          \/ Nesting > 1 /\ Nesting' = Nesting - 1
      BY <1>4, <2>2, <2>3, <2>5 DEF Nesting, CountStore, Decrement, Inv, TypeOK, Knows
    <3> QED
      BY <2>2, <3>1 DEF Mutex!Next, Mutex!Reenter, Mutex!Leave
  <2> QED
    BY <2>4, <2>5
<1>5. ASSUME NEW t \in Tids, ReleaseSteps(t) PROVE [Mutex!Next]_(Mutex!vars)
  <2>1. CASE pc[t] = "clear"
    <3>1. \A u \in Tids : Holds(u)' <=> Holds(u)
      BY <1>5, <2>1 DEF ReleaseSteps, SetField, Inv, TypeOK, Holds
    <3> QED
      BY <1>5, <1>a, <3>1 DEF ReleaseSteps, SetField
  <2>2. CASE pc[t] = "release"
    <3>1. Holds(t) /\ count = 0
      BY <2>2 DEF Inv, Knows, Holds
    <3>2. Owner = t /\ Nesting = 1
      BY <3>1, OwnerHolds DEF Nesting
    <3>3. Owner' = -1 /\ Nesting' = 0
      BY <1>5, <2>2 DEF ReleaseSteps, SetField, Owner, Nesting
    <3> QED
      BY <3>2, <3>3 DEF Mutex!Next, Mutex!Release
  <2> QED
    BY <1>5, <2>1, <2>2 DEF ReleaseSteps
<1>6. QED
  BY <1>1, <1>2, <1>3, <1>4, <1>5
  DEF Next, rte_spinlock_recursive_lock, rte_spinlock_recursive_trylock,
      rte_spinlock_recursive_unlock, Enter

\* The recursive spinlock implements the recursive mutex: rte_spinlock_recursive_*
\* behave as one atomic acquire, reenter, leave or release each.
THEOREM RecursiveLockImplementsMutex == Spec => ImplementsMutex
<1>1. Inv /\ Inv' /\ [Next]_vars => [Mutex!Next]_(Mutex!vars)
  BY NextMutex
<1> QED
  BY <1>1, InitMutex, SpecInv, PTL DEF Spec, ImplementsMutex, Mutex!Spec
-----------------------------------------------------------------------------
Entries == 0 .. num_entries - 1
Kinds == {"malloc", "null", "dma"}
Objects == Kinds \cup {"stack", "fallback"}
Blocks == [ptr : Nat, size : Nat]
Memory == [heap : SUBSET Blocks, maps : SUBSET Blocks, objects : SUBSET Objects,
           base : Nat \cup {NULL}, free_stack : Seq(Entries),
           status : {"running", "exited", "crashed"}]

\* The memory of one block lies before that of the other.
Apart(b, c) == b.ptr + b.size <= c.ptr \/ c.ptr + c.size <= b.ptr

\* What malloc and mmap gave out, what the stack took of it, and what a block of
\* the secondary allocator is one of.
Given == mem.heap \cup mem.maps
StackBlk == mem_blk(mem.base, num_entries * entry_size)
Exists == mem.base # NULL
Source(kind) == IF kind = "malloc" THEN mem.heap ELSE IF kind = "dma" THEN mem.maps ELSE {}

ClientTypes ==
    /\ parent \in Parents
    /\ fb \in {"stack", "spinlock"} \X Secondaries
    /\ mem \in Memory
    /\ held \subseteq Blocks
    /\ phase \in {"new", "none", "pair", "work", "freed"}
    /\ held # {} => phase \in {"work", "freed"}
    /\ Exists <=> phase \in {"pair", "work"}

\* malloc and mmap give no memory twice.
GivenApart ==
    /\ \A b \in mem.heap : b.ptr > 0 /\ b.size > 0 /\ b.ptr + b.size <= ARENA + 1
    /\ \A b \in mem.maps : b.ptr = ARENA + 1 /\ b.size > 0
    /\ \A b, c \in mem.heap : b # c => Apart(b, c)
    /\ \A b, c \in mem.maps : b = c

\* The stack knows each free entry once.
KnownOnce == \A i, j \in 1 .. Len(mem.free_stack) : mem.free_stack[i] = mem.free_stack[j] => i = j

\* The stack has its memory from its parent.
StackSound ==
    /\ Exists => StackBlk \in Source(parent)
    /\ ~Exists => mem.free_stack = << >>
    /\ KnownOnce

\* A block is nothing, an entry of the stack that is not free, or a block of the
\* secondary allocator; and what is not with the client is free.
HeldSound ==
    /\ \A b \in held :
        \/ b.ptr = 0 /\ (fb[2] = "null" => b.size = 0) /\ (fb[2] = "dma" => ~Running)
        \/ Exists /\ \E k \in Entries \ Range(mem.free_stack) : b = Entry(k)
        \/ b \in Source(fb[2]) /\ (Exists => b # StackBlk)
    /\ Exists => \A k \in Entries \ Range(mem.free_stack) : Entry(k) \in held
    /\ Running => \A b \in Given : b \in held \/ (Exists /\ b = StackBlk)

ObjectsKnown ==
    \A a \in mem.objects :
        a \in Parts \/ (Exists /\ a = "stack") \/ (phase = "work" /\ a = "fallback")

ClientInv == ClientTypes /\ GivenApart /\ StackSound /\ HeldSound /\ ObjectsKnown
-----------------------------------------------------------------------------
\* The entries lie side by side in the memory of the stack.
LEMMA EntrySpans ==
    ASSUME NEW k \in Entries
    PROVE  /\ k \in Nat /\ k * entry_size \in Nat /\ num_entries * entry_size \in Nat
           /\ k * entry_size + entry_size <= num_entries * entry_size
           /\ (k * entry_size) \div entry_size = k
           /\ num_entries * entry_size > 0
<1> USE AllocatorAssumption
<1>1. k \in Nat /\ k + 1 <= num_entries
  BY DEF Entries
<1>2. k * entry_size \in Nat /\ num_entries * entry_size \in Nat
  BY <1>1
<1>3. (k + 1) * entry_size <= num_entries * entry_size
  BY <1>1
<1>4. (k + 1) * entry_size = k * entry_size + entry_size
  BY <1>1
<1>5. (k * entry_size) \div entry_size = k
  BY <1>1
<1> QED
  BY <1>1, <1>2, <1>3, <1>4, <1>5

\* Two entries do not overlap.
LEMMA EntriesOrdered ==
    ASSUME NEW k \in Entries, NEW j \in Entries, k < j
    PROVE  k * entry_size + entry_size <= j * entry_size
<1> USE AllocatorAssumption
<1>1. k \in Nat /\ j \in Nat /\ k + 1 <= j
  BY DEF Entries
<1>2. (k + 1) * entry_size <= j * entry_size
  BY <1>1
<1>3. (k + 1) * entry_size = k * entry_size + entry_size
  BY <1>1
<1> QED
  BY <1>2, <1>3

\* Blocks that lie apart share no cell.
LEMMA ApartDisjoint ==
    ASSUME NEW b \in Blocks, NEW c \in Blocks, Apart(b, c)
    PROVE  Cells(b) \cap Cells(c) = {}
BY DEF Apart, Cells, Blocks

\* Blocks that share no cell lie apart.
LEMMA DisjointApart ==
    ASSUME NEW b \in Blocks, NEW c \in Blocks, b.ptr > 0, b.size > 0, c.ptr > 0, c.size > 0,
           Cells(b) \cap Cells(c) = {}
    PROVE  Apart(b, c)
<1> SUFFICES ASSUME ~Apart(b, c) PROVE FALSE
  OBVIOUS
<1> DEFINE x == IF b.ptr <= c.ptr THEN c.ptr ELSE b.ptr
<1>1. b.ptr \in Nat /\ b.size \in Nat /\ c.ptr \in Nat /\ c.size \in Nat
  BY DEF Blocks
<1>2. Cells(b) = b.ptr .. b.ptr + b.size - 1 /\ Cells(c) = c.ptr .. c.ptr + c.size - 1
  BY <1>1 DEF Cells
<1>3. c.ptr < b.ptr + b.size /\ b.ptr < c.ptr + c.size
  BY <1>1 DEF Apart
<1>4. x \in Cells(b) /\ x \in Cells(c)
  <2>1. CASE b.ptr <= c.ptr
    BY <1>1, <1>2, <1>3, <2>1
  <2>2. CASE ~(b.ptr <= c.ptr)
    BY <1>1, <1>2, <1>3, <2>2
  <2> QED
    BY <2>1, <2>2
<1> QED
  BY <1>4

\* What malloc and mmap gave out lies apart.
LEMMA GivenLiesApart ==
    ASSUME ClientTypes, GivenApart
    PROVE  /\ \A b \in Given : b \in Blocks /\ b.ptr \in Nat /\ b.size \in Nat /\ b.ptr > 0 /\ b.size > 0
           /\ \A b, c \in Given : b # c => Apart(b, c)
<1>1. mem.heap \subseteq Blocks /\ mem.maps \subseteq Blocks
  BY DEF ClientTypes, Memory
<1>2. \A b \in Given : b \in Blocks /\ b.ptr \in Nat /\ b.size \in Nat /\ b.ptr > 0 /\ b.size > 0
  BY <1>1, AllocatorAssumption DEF GivenApart, Given, Blocks
<1>3. \A b \in mem.heap, c \in mem.maps : Apart(b, c) /\ Apart(c, b)
  BY <1>2 DEF GivenApart, Given, Apart
<1> QED
  BY <1>2, <1>3 DEF GivenApart, Given

\* The entries lie in the memory of the stack and apart from all other blocks.
LEMMA Geometry ==
    ASSUME ClientInv, Exists
    PROVE  /\ mem.base \in Nat /\ mem.base > 0
           /\ StackBlk \in Given /\ StackBlk.ptr = mem.base
           /\ StackBlk.size = num_entries * entry_size
           /\ \A k \in Entries :
                /\ Entry(k) \in Blocks /\ Entry(k).ptr > 0
                /\ mem.base <= Entry(k).ptr
                /\ Entry(k).ptr + entry_size <= mem.base + num_entries * entry_size
                /\ \A b \in Given : b # StackBlk => Apart(Entry(k), b)
                /\ \A j \in Entries : j # k => Apart(Entry(k), Entry(j))
<1> USE AllocatorAssumption
<1>1. StackBlk \in Given
  BY DEF ClientInv, StackSound, Source, Given
<1>2. StackBlk.ptr = mem.base /\ StackBlk.size = num_entries * entry_size
  BY DEF StackBlk, mem_blk
<1>3. mem.base \in Nat /\ mem.base > 0
  BY <1>1, <1>2, GivenLiesApart DEF ClientInv
<1>4. ASSUME NEW k \in Entries
      PROVE  /\ Entry(k) \in Blocks /\ Entry(k).ptr > 0
             /\ Entry(k).ptr = mem.base + k * entry_size /\ Entry(k).size = entry_size
             /\ mem.base <= Entry(k).ptr
             /\ Entry(k).ptr + entry_size <= mem.base + num_entries * entry_size
  <2>1. Entry(k).ptr = mem.base + k * entry_size /\ Entry(k).size = entry_size
    BY DEF Entry, mem_blk
  <2> DEFINE off == k * entry_size
             all == num_entries * entry_size
  <2>2. off \in Nat /\ all \in Nat /\ off + entry_size <= all
    BY EntrySpans
  <2>3. Entry(k).ptr = mem.base + off
    BY <2>1
  <2> HIDE DEF off, all
  <2>4. /\ Entry(k).ptr \in Nat /\ Entry(k).ptr > 0 /\ mem.base <= Entry(k).ptr
        /\ Entry(k).ptr + entry_size <= mem.base + all
    BY <1>3, <2>2, <2>3
  <2>5. Entry(k) \in Blocks
    BY <2>1, <2>4 DEF Entry, mem_blk, Blocks
  <2> QED
    BY <2>1, <2>4, <2>5 DEF all
<1>5. ASSUME NEW k \in Entries, NEW b \in Given, b # StackBlk
      PROVE  Apart(Entry(k), b)
  <2>1. Apart(StackBlk, b) /\ b.ptr \in Nat /\ b.size \in Nat
    BY <1>1, <1>5, GivenLiesApart DEF ClientInv
  <2> DEFINE all == num_entries * entry_size
  <2>2. all \in Nat /\ StackBlk.ptr = mem.base /\ StackBlk.size = all
        /\ Entry(k).ptr + entry_size <= mem.base + all
    BY <1>2, <1>4, EntrySpans
  <2>3. Entry(k).ptr \in Nat /\ mem.base <= Entry(k).ptr /\ Entry(k).size = entry_size
    BY <1>4 DEF Blocks
  <2> HIDE DEF all
  <2> QED
    BY <1>3, <2>1, <2>2, <2>3 DEF Apart
<1>6. ASSUME NEW k \in Entries, NEW j \in Entries, j # k
      PROVE  Apart(Entry(k), Entry(j))
  <2> DEFINE ok == k * entry_size
             oj == j * entry_size
  <2>1. ok \in Nat /\ oj \in Nat /\ (ok + entry_size <= oj \/ oj + entry_size <= ok)
    <3>1. k < j \/ j < k
      BY <1>6 DEF Entries
    <3> QED
      BY <3>1, EntrySpans, EntriesOrdered
  <2>2. /\ Entry(k).ptr = mem.base + ok /\ Entry(k).size = entry_size
        /\ Entry(j).ptr = mem.base + oj /\ Entry(j).size = entry_size
    BY <1>4
  <2> HIDE DEF ok, oj
  <2> QED
    BY <1>3, <2>1, <2>2 DEF Apart
<1> QED
  BY <1>1, <1>2, <1>3, <1>4, <1>5, <1>6

\* Two blocks of the client lie apart.
LEMMA HeldApart ==
    ASSUME ClientInv, NEW b \in held, NEW c \in held, b # c, b.ptr # 0, c.ptr # 0
    PROVE  Apart(b, c)
<1> DEFINE IsEntry(x) == Exists /\ \E k \in Entries : x = Entry(k)
           IsOther(x) == x \in Given /\ (Exists => x # StackBlk)
<1>1. (IsEntry(b) \/ IsOther(b)) /\ (IsEntry(c) \/ IsOther(c))
  BY DEF ClientInv, HeldSound, Source, Given
<1>2. CASE IsEntry(b) /\ IsEntry(c)
  BY <1>2, Geometry
<1>3. CASE IsEntry(b) /\ IsOther(c)
  BY <1>3, Geometry
<1>4. CASE IsOther(b) /\ IsEntry(c)
  <2>1. Apart(c, b)
    BY <1>4, Geometry
  <2> QED
    BY <2>1 DEF Apart
<1>5. CASE IsOther(b) /\ IsOther(c)
  BY <1>5, GivenLiesApart DEF ClientInv
<1> QED
  BY <1>1, <1>2, <1>3, <1>4, <1>5

\* The invariant implies that blocks are disjoint.
LEMMA InvDisjoint == ClientInv => BlocksDisjoint
<1> SUFFICES ASSUME ClientInv PROVE BlocksDisjoint
  OBVIOUS
<1>1. ASSUME NEW b \in held, NEW c \in held, b # c PROVE Cells(b) \cap Cells(c) = {}
  <2>1. CASE b.ptr = 0 \/ c.ptr = 0
    BY <2>1 DEF Cells
  <2>2. CASE b.ptr # 0 /\ c.ptr # 0
    BY <1>1, <2>2, HeldApart, ApartDisjoint DEF ClientInv, ClientTypes
  <2> QED
    BY <2>1, <2>2
<1>2. ASSUME Exists, NEW k \in Entries, Entry(k) \in held PROVE k \notin Range(mem.free_stack)
  <2>1. Entry(k).ptr # 0 /\ Entry(k).ptr \in Nat /\ Entry(k).size = entry_size
    BY <1>2, Geometry DEF Blocks, Entry, mem_blk
  <2>2. CASE \E j \in Entries \ Range(mem.free_stack) : Entry(k) = Entry(j)
    <3> PICK j \in Entries \ Range(mem.free_stack) : Entry(k) = Entry(j)
      BY <2>2
    <3>1. j = k
      <4> SUFFICES ASSUME j # k PROVE FALSE
        OBVIOUS
      <4>1. Apart(Entry(k), Entry(j))
        BY <1>2, Geometry
      <4> QED
        BY <2>1, <4>1, AllocatorAssumption DEF Apart
    <3> QED
      BY <3>1
  <2>3. CASE Entry(k) \in Source(fb[2]) /\ Entry(k) # StackBlk
    <3>1. Entry(k) \in Given
      BY <2>3 DEF Source, Given
    <3>2. Apart(Entry(k), Entry(k))
      BY <1>2, <2>3, <3>1, Geometry
    <3> QED
      BY <2>1, <3>2, AllocatorAssumption DEF Apart
  <2> QED
    BY <1>2, <2>1, <2>2, <2>3 DEF ClientInv, HeldSound
<1>3. ASSUME Exists, NEW k \in Entries, k \notin Range(mem.free_stack) PROVE Entry(k) \in held
  BY <1>3 DEF ClientInv, HeldSound
<1> QED
  BY <1>1, <1>2, <1>3 DEF BlocksDisjoint, Exists, Entries

\* The invariant implies that blocks go home.
LEMMA InvGoHome == ClientInv => BlocksGoHome
<1> SUFFICES ASSUME ClientInv PROVE BlocksGoHome
  OBVIOUS
<1>1. mem.status \notin {"error", "undefined"}
  BY DEF ClientInv, ClientTypes, Memory
<1>2. ASSUME phase = "work", NEW b \in held, b.ptr # 0
      PROVE  fallback_allocator_owns(fb, mem, b)
  <2>1. Exists
    BY <1>2 DEF ClientInv, ClientTypes
  <2>2. CASE \E k \in Entries : b = Entry(k)
    <3> PICK k \in Entries : b = Entry(k)
      BY <2>2
    <3> DEFINE all == num_entries * entry_size
    <3>1. /\ mem.base \in Nat /\ all \in Nat /\ b.ptr \in Nat
          /\ b.ptr >= mem.base /\ b.ptr + entry_size <= mem.base + all
      BY <2>1, Geometry, EntrySpans DEF Blocks
    <3> HIDE DEF all
    <3>2. b.ptr >= mem.base /\ b.ptr < mem.base + all
      BY <3>1, AllocatorAssumption
    <3>3. stack_allocator_owns(mem, b)
      BY <3>2 DEF stack_allocator_owns, all
    <3>4. fb[1] \in {"stack", "spinlock"}
      BY DEF ClientInv, ClientTypes
    <3> QED
      BY <3>3, <3>4, Zenon DEF fallback_allocator_owns, Owns, spinlock_stack_owns
  <2>3. CASE b \in Source(fb[2])
    BY <2>3, Zenon
    DEF Source, fallback_allocator_owns, Owns, mallocator_owns, dma_allocator_owns
  <2> QED
    BY <1>2, <2>2, <2>3 DEF ClientInv, HeldSound
<1> QED
  BY <1>1, <1>2 DEF BlocksGoHome

\* The invariant implies that nothing is left behind.
LEMMA InvNothingLeft == ClientInv => NothingLeft
<1> SUFFICES ASSUME ClientInv, phase \in {"freed", "none"}, Running, held = {},
                    Parts \cap mem.objects = {}
             PROVE  mem = Fresh
  BY DEF NothingLeft
<1>1. ~Exists
  BY DEF ClientInv, ClientTypes
<1>2. mem.free_stack = << >> /\ mem.base = NULL /\ mem.status = "running"
  BY <1>1 DEF ClientInv, StackSound, Exists, Running
<1>3. mem.heap = {} /\ mem.maps = {}
  BY <1>1 DEF ClientInv, HeldSound, Given
<1>4. mem.objects = {}
  BY <1>1 DEF ClientInv, ObjectsKnown
<1> QED
  BY <1>2, <1>3, <1>4 DEF ClientInv, ClientTypes, Memory, Fresh
-----------------------------------------------------------------------------
\* The stack of free entries grows by the entry that comes back...
LEMMA PushFacts ==
    ASSUME NEW S, NEW s \in Seq(S), NEW e \in S, e \notin Range(s),
           \A i, j \in 1 .. Len(s) : s[i] = s[j] => i = j
    PROVE  /\ Append(s, e) \in Seq(S) /\ Range(Append(s, e)) = Range(s) \cup {e}
           /\ \A i, j \in 1 .. Len(Append(s, e)) : Append(s, e)[i] = Append(s, e)[j] => i = j
<1> DEFINE t == Append(s, e)
<1>1. t \in Seq(S) /\ Len(t) = Len(s) + 1 /\ Len(s) \in Nat
  OBVIOUS
<1>2. (\A i \in 1 .. Len(s) : t[i] = s[i]) /\ t[Len(s) + 1] = e
  OBVIOUS
<1>3. Range(s) = {s[i] : i \in 1 .. Len(s)} /\ Range(t) = {t[i] : i \in 1 .. Len(t)}
  BY <1>1 DEF Range
<1> HIDE DEF t
<1>4. Range(t) = Range(s) \cup {e}
  <2>1. ASSUME NEW x \in Range(t) PROVE x \in Range(s) \cup {e}
    <3>1. PICK i \in 1 .. Len(t) : x = t[i]
      BY <1>3
    <3> QED
      BY <1>1, <1>2, <1>3, <3>1
  <2>2. ASSUME NEW x \in Range(s) \cup {e} PROVE x \in Range(t)
    <3>1. \E i \in 1 .. Len(t) : x = t[i]
      BY <1>1, <1>2, <1>3
    <3> QED
      BY <1>3, <3>1
  <2> QED
    BY <2>1, <2>2
<1>5. \A i, j \in 1 .. Len(t) : t[i] = t[j] => i = j
  BY <1>1, <1>2, <1>3
<1> QED
  BY <1>1, <1>4, <1>5 DEF t

\* ... and shrinks by the entry that is taken.
LEMMA PopFacts ==
    ASSUME NEW S, NEW s \in Seq(S), s # << >>,
           \A i, j \in 1 .. Len(s) : s[i] = s[j] => i = j
    PROVE  LET t == SubSeq(s, 1, Len(s) - 1)
           IN  /\ t \in Seq(S) /\ s[Len(s)] \in S /\ s[Len(s)] \in Range(s)
               /\ Range(t) = Range(s) \ {s[Len(s)]}
               /\ \A i, j \in 1 .. Len(t) : t[i] = t[j] => i = j
<1> DEFINE t == SubSeq(s, 1, Len(s) - 1)
           top == Len(s)
<1>1. top \in Nat /\ top > 0
  OBVIOUS
<1>2. t \in Seq(S) /\ Len(t) = top - 1 /\ \A i \in 1 .. top - 1 : t[i] = s[i]
  <2> DEFINE n == top - 1
  <2>1. n \in Int /\ n \in Nat /\ \A i \in 1 .. n : s[i] \in S
    BY <1>1
  <2> HIDE DEF n
  <2>2. /\ SubSeq(s, 1, n) \in Seq(S)
        /\ Len(SubSeq(s, 1, n)) = IF 1 <= n THEN n - 1 + 1 ELSE 0
        /\ \A i \in 1 .. n - 1 + 1 : SubSeq(s, 1, n)[i] = s[1 + i - 1]
    BY <2>1
  <2>3. Len(SubSeq(s, 1, n)) = n /\ \A i \in 1 .. n : SubSeq(s, 1, n)[i] = s[i]
    BY <2>1, <2>2
  <2> QED
    BY <2>2, <2>3 DEF n
<1>3. Range(s) = {s[i] : i \in 1 .. top} /\ Range(t) = {t[i] : i \in 1 .. top - 1}
  <2>1. DOMAIN s = 1 .. top /\ DOMAIN t = 1 .. Len(t)
    BY <1>1, <1>2
  <2> QED
    BY <1>2, <2>1, Zenon DEF Range
<1>4. s[top] \in S /\ s[top] \in Range(s)
  BY <1>1, <1>3
<1>5. \A i, j \in 1 .. top : s[i] = s[j] => i = j
  OBVIOUS
<1> HIDE DEF t, top
<1>6. Range(t) = Range(s) \ {s[top]}
  <2>1. ASSUME NEW x \in Range(t) PROVE x \in Range(s) /\ x # s[top]
    <3>1. PICK i \in 1 .. top - 1 : x = t[i]
      BY <1>3
    <3> QED
      BY <1>1, <1>2, <1>3, <1>5, <3>1
  <2>2. ASSUME NEW x \in Range(s), x # s[top] PROVE x \in Range(t)
    <3>1. PICK i \in 1 .. top : x = s[i]
      BY <1>3
    <3>2. i \in 1 .. top - 1 /\ x = t[i]
      BY <1>1, <1>2, <2>2, <3>1
    <3> QED
      BY <1>3, <3>2
  <2> QED
    BY <2>1, <2>2
<1>7. \A i, j \in 1 .. Len(t) : t[i] = t[j] => i = j
  BY <1>1, <1>2, <1>5
<1> QED
  BY <1>2, <1>4, <1>6, <1>7 DEF t, top

\* Rounding up to huge pages makes a size no smaller.
LEMMA RoundUpFacts == \A size \in Nat \ {0} : RoundUp(size) \in Nat \ {0}
<1> SUFFICES ASSUME NEW size \in Nat \ {0} PROVE RoundUp(size) \in Nat \ {0}
  OBVIOUS
<1> USE AllocatorAssumption
<1>1. (size \div HUGE) + 1 \in Nat \ {0}
  OBVIOUS
<1>2. \A k \in Nat \ {0} : k * HUGE \in Nat \ {0}
  OBVIOUS
<1> QED
  BY <1>1, <1>2 DEF RoundUp

\* What an allocator without memory of its own does for a request: it has nothing
\* to give, or it gives memory that nobody has.
Gives(kind, size, r) ==
    /\ r[1] \in Blocks
    /\ \/ /\ r[1].ptr = 0
          /\ r[2] = mem /\ kind # "dma"
          /\ kind = "null" => r[1].size = 0
       \/ /\ r[1].ptr = 0
          /\ r[2] = Ends(mem, "exited") /\ kind = "dma"
       \/ /\ kind = "malloc"
          /\ r[1].ptr > 0 /\ r[1].size = size /\ r[1].ptr + size <= ARENA + 1
          /\ \A b \in mem.heap : Apart(b, r[1])
          /\ r[2] = [mem EXCEPT !.heap = @ \cup {r[1]}]
       \/ /\ kind = "dma"
          /\ r[1].ptr = ARENA + 1 /\ r[1].size = RoundUp(size) /\ r[1].size > 0
          /\ mem.maps = {}
          /\ r[2] = [mem EXCEPT !.maps = {r[1]}]

\* mallocator, null_allocator and dma_allocator do so.
LEMMA AllocateSound ==
    ASSUME ClientTypes, GivenApart, NEW kind \in Kinds, NEW size \in Nat \ {0},
           NEW r \in Allocate(kind, mem, size)
    PROVE  Gives(kind, size, r)
<1> USE AllocatorAssumption DEF Gives
<1>1. CASE kind = "null"
  BY <1>1 DEF Allocate, null_allocator_allocate, mem_blk, Blocks
<1>2. CASE kind = "dma"
  <2>1. r \in dma_allocator_allocate(mem, size)
    BY <1>2 DEF Allocate
  <2>2. RoundUp(size) \in Nat \ {0}
    BY RoundUpFacts
  <2>3. CASE r = <<mem_blk(0, 0), Ends(mem, "exited")>>
    BY <1>2, <2>3 DEF mem_blk, Blocks
  <2>4. CASE mem.maps = {} /\ r = <<mem_blk(ARENA + 1, RoundUp(size)),
                                   [mem EXCEPT !.maps = {mem_blk(ARENA + 1, RoundUp(size))}]>>
    BY <1>2, <2>2, <2>4 DEF mem_blk, Blocks
  <2> QED
    BY <2>1, <2>3, <2>4 DEF dma_allocator_allocate
<1>3. CASE kind = "malloc"
  <2>1. r \in mallocator_allocate(mem, size)
    BY <1>3 DEF Allocate
  <2>2. CASE r = <<mem_blk(0, size), mem>>
    BY <1>3, <2>2 DEF mem_blk, Blocks
  <2>3. CASE \E p \in 1 .. ARENA - size + 1 :
                /\ Cells(mem_blk(p, size)) \cap UNION {Cells(b) : b \in mem.heap} = {}
                /\ r = <<mem_blk(p, size), [mem EXCEPT !.heap = @ \cup {mem_blk(p, size)}]>>
    <3>1. PICK p \in 1 .. ARENA - size + 1 :
                /\ Cells(mem_blk(p, size)) \cap UNION {Cells(b) : b \in mem.heap} = {}
                /\ r = <<mem_blk(p, size), [mem EXCEPT !.heap = @ \cup {mem_blk(p, size)}]>>
      BY <2>3, Zenon
    <3>2. /\ r[1] = mem_blk(p, size) /\ r[1] \in Blocks /\ r[1].ptr = p /\ r[1].size = size
          /\ p > 0 /\ p + size <= ARENA + 1
      BY <3>1 DEF mem_blk, Blocks
    <3>3. ASSUME NEW b \in mem.heap PROVE Apart(b, r[1])
      <4>1. b \in Blocks /\ b.ptr > 0 /\ b.size > 0
        BY GivenLiesApart DEF Given
      <4>2. Cells(b) \cap Cells(r[1]) = {}
        BY <3>1, <3>2
      <4> QED
        BY <3>2, <4>1, <4>2, DisjointApart
    <3> QED
      BY <1>3, <3>1, <3>2, <3>3
  <2> QED
    BY <2>1, <2>2, <2>3 DEF mallocator_allocate
<1> QED
  BY <1>1, <1>2, <1>3 DEF Kinds
-----------------------------------------------------------------------------
\* The invariant holds at first.
LEMMA ClientInitInv == ClientInit => ClientInv
<1> SUFFICES ASSUME ClientInit PROVE ClientInv
  OBVIOUS
<1> USE AllocatorAssumption DEF ClientInit, Fresh
<1>1. ~Exists /\ Given = {} /\ mem.free_stack = << >> /\ held = {}
  BY DEF Exists, Given
<1>2. ClientTypes
  <2>1. mem \in Memory
    BY DEF Memory
  <2> QED
    BY <1>1, <2>1 DEF ClientTypes
<1>3. GivenApart
  BY DEF GivenApart
<1>4. StackSound /\ HeldSound /\ ObjectsKnown
  BY <1>1 DEF StackSound, KnownOnce, HeldSound, ObjectsKnown
<1> QED
  BY <1>2, <1>3, <1>4 DEF ClientInv

\* Structures come and go without touching a block.
LEMMA SameBlocks ==
    ASSUME ClientInv, UNCHANGED <<parent, fb, held>>,
           mem'.heap = mem.heap, mem'.maps = mem.maps, mem'.base = mem.base,
           mem'.free_stack = mem.free_stack, Running
    PROVE  /\ GivenApart' /\ StackSound' /\ HeldSound'
           /\ Exists' <=> Exists
<1>1. /\ Exists' <=> Exists
      /\ StackBlk' = StackBlk /\ Given' = Given /\ Source(fb[2])' = Source(fb[2])
      /\ Source(parent)' = Source(parent) /\ \A k \in Entries : Entry(k)' = Entry(k)
  BY DEF Exists, StackBlk, Given, Source, Entry
<1>2. GivenApart'
  BY DEF ClientInv, GivenApart
<1>3. StackSound'
  BY <1>1 DEF ClientInv, StackSound, KnownOnce
<1>4. HeldSound'
  BY <1>1 DEF ClientInv, HeldSound
<1> QED
  BY <1>1, <1>2, <1>3, <1>4

\* mallocator_new, null_allocator_new, dma_allocator_new.
LEMMA CreatePartsInv == ASSUME ClientInv, CreateParts PROVE ClientInv'
<1>1. PICK a \in Parts \ mem.objects : mem' \in New(a, mem, NULL)
  BY DEF CreateParts
<1>2. Parts \subseteq Kinds
  BY AllocatorsAssumption, Zenon DEF Parts, Kinds, ClientInv, ClientTypes
<1>3. mem' = [mem EXCEPT !.objects = @ \cup {a}] \/ mem' = [mem EXCEPT !.status = "crashed"]
  BY <1>1, <1>2 DEF Kinds, New, mallocator_new, null_allocator_new, dma_allocator_new, NewObject, Ends
<1>4. mem \in Memory /\ UNCHANGED <<parent, fb, held, phase>> /\ phase = "new" /\ Running
  BY DEF CreateParts, ClientInv, ClientTypes
<1>5. /\ mem' \in Memory
      /\ mem'.heap = mem.heap /\ mem'.maps = mem.maps /\ mem'.base = mem.base
      /\ mem'.free_stack = mem.free_stack /\ mem'.objects \subseteq mem.objects \cup {a}
  <2>1. a \in Objects
    BY <1>2 DEF Objects
  <2> QED
    BY <1>3, <1>4, <2>1 DEF Memory
<1>6. GivenApart' /\ StackSound' /\ HeldSound' /\ (Exists' <=> Exists)
  BY <1>4, <1>5, SameBlocks
<1>7. ClientTypes'
  BY <1>4, <1>5, <1>6 DEF ClientInv, ClientTypes
<1>8. ObjectsKnown'
  BY <1>4, <1>5, <1>6 DEF ClientInv, ObjectsKnown, Parts
<1> QED
  BY <1>6, <1>7, <1>8 DEF ClientInv

\* fallback_allocator_new.
LEMMA CreatePairInv == ASSUME ClientInv, CreatePair PROVE ClientInv'
<1>1. mem' = [mem EXCEPT !.objects = @ \cup {"fallback"}] \/ mem' = [mem EXCEPT !.status = "crashed"]
  BY DEF CreatePair, fallback_allocator_new, NewObject, Ends
<1>2. /\ mem \in Memory /\ UNCHANGED <<parent, fb, held>>
      /\ phase = "pair" /\ phase' = "work" /\ Running
  BY DEF CreatePair, ClientInv, ClientTypes
<1>3. /\ mem' \in Memory
      /\ mem'.heap = mem.heap /\ mem'.maps = mem.maps /\ mem'.base = mem.base
      /\ mem'.free_stack = mem.free_stack /\ mem'.objects \subseteq mem.objects \cup {"fallback"}
  BY <1>1, <1>2 DEF Memory, Objects
<1>4. GivenApart' /\ StackSound' /\ HeldSound' /\ (Exists' <=> Exists)
  BY <1>2, <1>3, SameBlocks
<1>5. ClientTypes'
  BY <1>2, <1>3, <1>4 DEF ClientInv, ClientTypes
<1>6. ObjectsKnown'
  BY <1>2, <1>3, <1>4 DEF ClientInv, ObjectsKnown, Parts
<1> QED
  BY <1>4, <1>5, <1>6 DEF ClientInv

\* mallocator_free, null_allocator_free, dma_allocator_free.
LEMMA DestroyPartsInv == ASSUME ClientInv, DestroyParts PROVE ClientInv'
<1>1. PICK a \in Parts \cap mem.objects : mem' = FreeAllocator(a, mem, NULL)
  BY DEF DestroyParts
<1>2. Parts \subseteq Kinds
  BY AllocatorsAssumption, Zenon DEF Parts, Kinds, ClientInv, ClientTypes
<1>3. mem' = [mem EXCEPT !.objects = @ \ {a}]
  BY <1>1, <1>2 DEF Kinds, FreeAllocator, mallocator_free, null_allocator_free, dma_allocator_free,
                    FreeObject
<1>4. mem \in Memory /\ UNCHANGED <<parent, fb, held, phase>> /\ Running
  BY DEF DestroyParts, ClientInv, ClientTypes
<1>5. /\ mem' \in Memory
      /\ mem'.heap = mem.heap /\ mem'.maps = mem.maps /\ mem'.base = mem.base
      /\ mem'.free_stack = mem.free_stack /\ mem'.objects \subseteq mem.objects
  BY <1>3, <1>4 DEF Memory
<1>6. GivenApart' /\ StackSound' /\ HeldSound' /\ (Exists' <=> Exists)
  BY <1>4, <1>5, SameBlocks
<1>7. ClientTypes'
  BY <1>4, <1>5, <1>6 DEF ClientInv, ClientTypes
<1>8. ObjectsKnown'
  BY <1>4, <1>5, <1>6 DEF ClientInv, ObjectsKnown, Parts
<1> QED
  BY <1>6, <1>7, <1>8 DEF ClientInv

\* stack_allocator_new and spinlock_stack_allocator_new: without memory there is
\* no stack, with memory all entries are free.
LEMMA CreateStackInv == ASSUME ClientInv, CreateStack PROVE ClientInv'
<1> USE AllocatorAssumption
<1> DEFINE all == num_entries * entry_size
           ids == [k \in 1 .. num_entries |-> k - 1]
<1>1. /\ mem \in Memory /\ UNCHANGED <<parent, fb, held>> /\ phase = "new" /\ Running
      /\ parent \in Kinds /\ held = {} /\ ~Exists
  BY AllocatorsAssumption DEF CreateStack, ClientInv, ClientTypes, Kinds
<1>2. mem.heap = {} /\ mem.maps = {} /\ mem.free_stack = << >>
  BY <1>1 DEF ClientInv, HeldSound, StackSound, Given
<1>3. all \in Nat \ {0}
  <2>1. 0 \in Entries
    BY DEF Entries
  <2> QED
    BY <2>1, EntrySpans
<1>4. phase' = IF mem'.base = NULL THEN "none" ELSE "pair"
  BY DEF CreateStack
<1> HIDE DEF all
<1>5. CASE mem' = mem \/ mem' = [mem EXCEPT !.status = "exited"]
  <2>1. /\ mem' \in Memory
        /\ mem'.heap = mem.heap /\ mem'.maps = mem.maps /\ mem'.base = mem.base
        /\ mem'.free_stack = mem.free_stack /\ mem'.objects = mem.objects
    BY <1>1, <1>5 DEF Memory
  <2>2. GivenApart' /\ StackSound' /\ HeldSound' /\ (Exists' <=> Exists)
    BY <1>1, <2>1, SameBlocks
  <2>3. phase' = "none"
    BY <1>1, <1>4, <2>1 DEF Exists
  <2>4. ClientTypes'
    BY <1>1, <2>1, <2>2, <2>3 DEF ClientInv, ClientTypes
  <2>5. ObjectsKnown'
    BY <1>1, <2>1, <2>2, <2>3 DEF ClientInv, ObjectsKnown, Parts
  <2> QED
    BY <2>2, <2>4, <2>5 DEF ClientInv
<1>6. ASSUME NEW got \in Blocks, got.size = all, got.ptr > 0,
             \/ /\ parent = "malloc" /\ got.ptr + all <= ARENA + 1
                /\ mem' = [mem EXCEPT !.heap = {got}, !.base = got.ptr, !.free_stack = ids,
                                      !.objects = @ \cup {"stack"}]
             \/ /\ parent = "dma" /\ got.ptr = ARENA + 1
                /\ mem' = [mem EXCEPT !.maps = {got}, !.base = got.ptr, !.free_stack = ids,
                                      !.objects = @ \cup {"stack"}]
      PROVE  ClientInv'
  <2>1. ids \in Seq(Entries) /\ Len(ids) = num_entries /\ Range(ids) = Entries
    <3>1. ids \in [1 .. num_entries -> Entries]
      BY DEF Entries
    <3>2. ids \in Seq(Entries) /\ Len(ids) = num_entries
      BY <3>1
    <3>3. \A k \in Entries : k + 1 \in 1 .. num_entries /\ ids[k + 1] = k
      BY DEF Entries
    <3> QED
      BY <3>1, <3>2, <3>3, Zenon DEF Range
  <2>2. \A i, j \in 1 .. num_entries : ids[i] = ids[j] => i = j
    OBVIOUS
  <2> HIDE DEF ids
  <2>3. /\ mem' \in Memory /\ mem'.base = got.ptr /\ mem'.free_stack = ids
        /\ mem'.objects = mem.objects \cup {"stack"}
        /\ got.ptr \in Nat
    <3>1. got.ptr \in Nat /\ "stack" \in Objects
      BY DEF Blocks, Objects
    <3>2. CASE mem' = [mem EXCEPT !.heap = {got}, !.base = got.ptr, !.free_stack = ids,
                                  !.objects = @ \cup {"stack"}]
      BY <1>1, <2>1, <3>1, <3>2, Zenon DEF Memory
    <3>3. CASE mem' = [mem EXCEPT !.maps = {got}, !.base = got.ptr, !.free_stack = ids,
                                  !.objects = @ \cup {"stack"}]
      BY <1>1, <2>1, <3>1, <3>3, Zenon DEF Memory
    <3> QED
      BY <1>6, <3>1, <3>2, <3>3
  <2>4. \/ parent = "malloc" /\ mem'.heap = {got} /\ mem'.maps = {}
        \/ parent = "dma" /\ mem'.heap = {} /\ mem'.maps = {got}
    BY <1>1, <1>2, <1>6, Zenon DEF Memory
  <2>5. Exists' /\ phase' = "pair"
    BY <1>4, <2>3 DEF Exists
  <2>6. StackBlk' = got
    BY <1>6, <2>3 DEF StackBlk, mem_blk, Blocks, all
  <2>7. ClientTypes'
    BY <1>1, <2>3, <2>5 DEF ClientInv, ClientTypes
  <2>8. GivenApart'
    BY <1>3, <1>6, <2>4 DEF GivenApart
  <2>9. StackSound'
    BY <1>1, <2>1, <2>2, <2>3, <2>4, <2>5, <2>6 DEF StackSound, KnownOnce, Source
  <2>10. HeldSound'
    BY <1>1, <2>1, <2>3, <2>4, <2>5, <2>6 DEF HeldSound, Given
  <2>11. ObjectsKnown'
    BY <1>1, <2>3, <2>5 DEF ClientInv, ObjectsKnown, Parts
  <2> QED
    BY <2>7, <2>8, <2>9, <2>10, <2>11 DEF ClientInv
<1>7. mem' \in stack_allocator_new(mem, parent)
  BY DEF CreateStack, New, spinlock_stack_allocator_new, ClientInv, ClientTypes
<1>8. CASE mem' # mem
  <2>1. PICK r \in Allocate(parent, mem, all) :
               mem' = IF r[1].ptr = 0 THEN r[2]
                      ELSE [r[2] EXCEPT !.base = r[1].ptr, !.objects = @ \cup {"stack"},
                                        !.free_stack = ids]
    BY <1>7, <1>8, Zenon DEF stack_allocator_new, all
  <2> HIDE DEF ids
  <2>0. Gives(parent, all, r)
    BY <1>1, <1>3, AllocateSound DEF ClientInv
  <2>2. CASE r[1].ptr = 0
    <3>1. r[2] = mem \/ r[2] = Ends(mem, "exited")
      BY <2>0, <2>2 DEF Gives
    <3> QED
      BY <1>5, <2>1, <2>2, <3>1 DEF Ends
  <2>3. CASE r[1].ptr # 0 /\ parent = "malloc"
    <3>1. /\ r[1] \in Blocks /\ r[1].ptr > 0 /\ r[1].size = all /\ r[1].ptr + all <= ARENA + 1
          /\ r[2] = [mem EXCEPT !.heap = @ \cup {r[1]}]
      BY <2>0, <2>3 DEF Gives
    <3>2. mem' = [mem EXCEPT !.heap = {r[1]}, !.base = r[1].ptr, !.free_stack = ids,
                             !.objects = @ \cup {"stack"}]
      BY <1>1, <1>2, <2>1, <2>3, <3>1, Zenon DEF Memory
    <3> QED
      BY <1>6, <2>3, <3>1, <3>2, Zenon
  <2>4. CASE r[1].ptr # 0 /\ parent = "dma"
    <3>1. /\ r[1] \in Blocks /\ r[1].ptr = ARENA + 1 /\ r[1].size = RoundUp(all)
          /\ r[2] = [mem EXCEPT !.maps = {r[1]}]
      BY <2>0, <2>4 DEF Gives
    <3>2. RoundUp(all) = all
      BY <2>4, AllocatorsAssumption DEF ClientInv, ClientTypes, all
    <3>3. mem' = [mem EXCEPT !.maps = {r[1]}, !.base = r[1].ptr, !.free_stack = ids,
                             !.objects = @ \cup {"stack"}]
      BY <1>1, <2>1, <2>4, <3>1, Zenon DEF Memory
    <3> QED
      <4>1. r[1].ptr > 0 /\ r[1].size = all
        BY <3>1, <3>2
      <4> QED
        BY <1>6, <2>4, <3>1, <3>3, <4>1, Zenon
  <2>5. r[1].ptr # 0 => parent \in {"malloc", "dma"}
    BY <1>1, <2>0 DEF Gives, Kinds
  <2> QED
    BY <2>2, <2>3, <2>4, <2>5
<1> QED
  BY <1>5, <1>8
-----------------------------------------------------------------------------
\* fallback_allocator_allocate: an entry while the stack has one that is large
\* enough, else a block of the secondary allocator.
LEMMA AllocateFrom ==
    ASSUME ClientInv, Exists, NEW size \in Nat \ {0},
           NEW r \in fallback_allocator_allocate(fb, mem, size)
    PROVE  \/ /\ mem.free_stack # << >>
              /\ r[1] = Entry(mem.free_stack[Len(mem.free_stack)])
              /\ r[2] = [mem EXCEPT !.free_stack = SubSeq(@, 1, Len(mem.free_stack) - 1)]
           \/ Gives(fb[2], size, r)
<1>1. fb[1] \in {"stack", "spinlock"} /\ fb[2] \in Kinds
  BY AllocatorsAssumption, Zenon DEF ClientInv, ClientTypes, Kinds
<1>2. Allocate(fb[1], mem, size) = stack_allocator_allocate(mem, size)
  BY <1>1 DEF Allocate, spinlock_stack_allocate
<1>3. PICK q \in stack_allocator_allocate(mem, size) :
             r \in IF q[1].ptr # 0 THEN {q} ELSE Allocate(fb[2], q[2], size)
  BY <1>2 DEF fallback_allocator_allocate
<1>4. CASE q = <<mem_blk(0, 0), mem>>
  <2>1. q[1].ptr = 0 /\ q[2] = mem
    BY <1>4 DEF mem_blk
  <2>2. r \in Allocate(fb[2], mem, size)
    BY <1>3, <2>1
  <2> QED
    BY <1>1, <2>2, AllocateSound DEF ClientInv
<1>5. CASE mem.free_stack # << >> /\ q # <<mem_blk(0, 0), mem>>
  <2> DEFINE top == Len(mem.free_stack)
  <2>1. q = <<Entry(mem.free_stack[top]), [mem EXCEPT !.free_stack = SubSeq(@, 1, top - 1)]>>
    BY <1>3, <1>5 DEF stack_allocator_allocate, Entry
  <2>2. mem.free_stack[top] \in Entries
    BY <1>5, PopFacts DEF ClientInv, ClientTypes, Memory, StackSound, KnownOnce
  <2>3. q[1].ptr # 0
    BY <2>1, <2>2, Geometry DEF Blocks
  <2> QED
    BY <1>3, <1>5, <2>1, <2>3
<1>6. mem.free_stack = << >> => q = <<mem_blk(0, 0), mem>>
  BY <1>3 DEF stack_allocator_allocate
<1> QED
  BY <1>4, <1>5, <1>6

\* An entry leaves the stack.
LEMMA TakeEntry ==
    ASSUME ClientInv, Exists, phase = "work", UNCHANGED <<parent, fb, phase>>,
           NEW e \in Entries, e \in Range(mem.free_stack), held' = held \cup {Entry(e)},
           mem' \in Memory, mem'.heap = mem.heap, mem'.maps = mem.maps, mem'.base = mem.base,
           mem'.objects = mem.objects, mem'.status = mem.status,
           Range(mem'.free_stack) = Range(mem.free_stack) \ {e}, KnownOnce'
    PROVE  ClientInv'
<1>1. /\ Exists' /\ Given' = Given /\ StackBlk' = StackBlk /\ Source(fb[2])' = Source(fb[2])
      /\ Source(parent)' = Source(parent) /\ (\A k \in Entries : Entry(k)' = Entry(k))
      /\ Running' <=> Running
  BY DEF Exists, Given, StackBlk, Source, Entry, Running
<1>2. ClientTypes'
  BY <1>1, Geometry DEF ClientInv, ClientTypes
<1>3. GivenApart'
  BY Zenon DEF ClientInv, GivenApart
<1>4. StackSound'
  BY <1>1, Zenon DEF ClientInv, StackSound
<1>5. HeldSound'
  <2>1. \A b \in held' :
           \/ b.ptr = 0 /\ (fb[2] = "null" => b.size = 0) /\ (fb[2] = "dma" => ~Running)
           \/ Exists /\ \E k \in Entries \ Range(mem'.free_stack) : b = Entry(k)
           \/ b \in Source(fb[2]) /\ (Exists => b # StackBlk)
    BY DEF ClientInv, HeldSound
  <2>2. \A k \in Entries \ Range(mem'.free_stack) : Entry(k) \in held'
    BY DEF ClientInv, HeldSound
  <2>3. Running => \A b \in Given : b \in held' \/ (Exists /\ b = StackBlk)
    BY DEF ClientInv, HeldSound
  <2> QED
    BY <1>1, <2>1, <2>2, <2>3 DEF HeldSound
<1>6. ObjectsKnown'
  BY <1>1 DEF ClientInv, ObjectsKnown, Parts
<1> QED
  BY <1>2, <1>3, <1>4, <1>5, <1>6 DEF ClientInv

\* A block comes from the secondary allocator, or an empty one.
LEMMA TakeOther ==
    ASSUME ClientInv, Exists, UNCHANGED <<parent, fb, phase>>, phase = "work",
           NEW size \in Nat \ {0}, NEW r, Gives(fb[2], size, r), Running,
           mem' = r[2], held' = held \cup {r[1]}
    PROVE  ClientInv'
<1> DEFINE got == r[1]
<1>1. mem \in Memory /\ got \in Blocks
  BY DEF ClientInv, ClientTypes, Gives
<1>2. /\ mem' \in Memory /\ mem'.base = mem.base
      /\ mem'.free_stack = mem.free_stack /\ mem'.objects = mem.objects
      /\ mem.heap \subseteq mem'.heap /\ mem.maps \subseteq mem'.maps
  <2>1. CASE mem' = mem \/ mem' = Ends(mem, "exited")
    BY <1>1, <2>1 DEF Ends, Memory
  <2>2. CASE mem' = [mem EXCEPT !.heap = @ \cup {got}]
    <3>1. mem.heap \cup {got} \in SUBSET Blocks
      BY <1>1 DEF Memory
    <3> QED
      BY <1>1, <2>2, <3>1 DEF Memory
  <2>3. CASE mem' = [mem EXCEPT !.maps = {got}] /\ mem.maps = {}
    BY <1>1, <2>3 DEF Memory
  <2> QED
    BY <2>1, <2>2, <2>3 DEF Gives
<1>3. \/ /\ got.ptr = 0 /\ mem'.heap = mem.heap /\ mem'.maps = mem.maps
         /\ fb[2] = "null" => got.size = 0
         /\ fb[2] = "dma" => mem'.status # "running"
      \/ /\ fb[2] = "malloc" /\ mem'.heap = mem.heap \cup {got} /\ mem'.maps = mem.maps
         /\ got.ptr > 0 /\ got.ptr # 0 /\ got.size > 0 /\ got.ptr + got.size <= ARENA + 1
         /\ \A b \in mem.heap : Apart(b, got)
      \/ /\ fb[2] = "dma" /\ mem'.heap = mem.heap /\ mem'.maps = {got} /\ mem.maps = {}
         /\ got.ptr = ARENA + 1 /\ got.size > 0 /\ got.ptr # 0
  BY <1>1, AllocatorAssumption DEF Gives, Ends, Memory
<1>4. held' = held \cup {got} /\ (Running' => Running)
  OBVIOUS
<1> HIDE DEF got
<1>5. /\ Exists' /\ StackBlk' = StackBlk /\ (\A k \in Entries : Entry(k)' = Entry(k))
      /\ Source(fb[2]) \subseteq Source(fb[2])' /\ Source(parent) \subseteq Source(parent)'
      /\ Given' \subseteq Given \cup {got}
  BY <1>2, <1>3 DEF Exists, StackBlk, Entry, Source, Given
<1>6. ClientTypes'
  BY <1>1, <1>2, <1>4, <1>5 DEF ClientInv, ClientTypes
<1>7. GivenApart'
  BY <1>3 DEF ClientInv, GivenApart, Apart
<1>8. StackSound'
  BY <1>2, <1>5, Zenon DEF ClientInv, StackSound, KnownOnce
<1>9. got.ptr # 0 => got \in Source(fb[2])' /\ got # StackBlk
  <2> SUFFICES ASSUME got.ptr # 0 PROVE got \in Source(fb[2])' /\ got # StackBlk
    OBVIOUS
  <2>1. got \in Source(fb[2])'
    BY <1>3 DEF Source
  <2>2. got \notin Given
    BY <1>1, <1>3, AllocatorAssumption DEF Given, Apart, ClientInv, GivenApart, Blocks
  <2> QED
    BY <2>1, <2>2, Geometry
<1>10. HeldSound'
  <2>1. ASSUME NEW b \in held
        PROVE  \/ b.ptr = 0 /\ (fb[2] = "null" => b.size = 0) /\ (fb[2] = "dma" => ~Running')
               \/ \E k \in Entries \ Range(mem.free_stack) : b = Entry(k)
               \/ b \in Source(fb[2])' /\ b # StackBlk
    BY <1>4, <1>5, Zenon DEF ClientInv, HeldSound
  <2>2. \/ got.ptr = 0 /\ (fb[2] = "null" => got.size = 0) /\ (fb[2] = "dma" => ~Running')
        \/ got \in Source(fb[2])' /\ got # StackBlk
    BY <1>3, <1>9, Zenon DEF Running
  <2>3. \A k \in Entries \ Range(mem.free_stack) : Entry(k) \in held'
    BY <1>4, Zenon DEF ClientInv, HeldSound
  <2>4. Running' => \A b \in Given' : b \in held' \/ b = StackBlk
    BY <1>4, <1>5 DEF ClientInv, HeldSound
  <2>5. (\A b \in held :
           \/ b.ptr = 0 /\ (fb[2] = "null" => b.size = 0) /\ (fb[2] = "dma" => ~Running)
           \/ Exists /\ \E k \in Entries \ Range(mem.free_stack) : b = Entry(k)
           \/ b \in Source(fb[2]) /\ (Exists => b # StackBlk))'
    BY <1>2, <1>4, <1>5, <2>1, <2>2
  <2>6. (Exists => \A k \in Entries \ Range(mem.free_stack) : Entry(k) \in held)'
    BY <1>2, <1>5, <2>3, Zenon
  <2>7. (Running => \A b \in Given : b \in held \/ (Exists /\ b = StackBlk))'
    BY <1>5, <2>4
  <2> QED
    BY <2>5, <2>6, <2>7 DEF HeldSound
<1>11. ObjectsKnown'
  BY <1>2, <1>5, Zenon DEF ClientInv, ObjectsKnown, Parts
<1> QED
  BY <1>6, <1>7, <1>8, <1>10, <1>11 DEF ClientInv

\* fallback_allocator_allocate keeps the invariant.
LEMMA ClientAllocateInv == ASSUME ClientInv, ClientAllocate PROVE ClientInv'
<1>1. PICK size \in Requests : \E r \in fallback_allocator_allocate(fb, mem, size) :
             mem' = r[2] /\ held' = held \cup {r[1]}
  BY DEF ClientAllocate
<1>2. PICK r \in fallback_allocator_allocate(fb, mem, size) :
             mem' = r[2] /\ held' = held \cup {r[1]}
  BY <1>1
<1>3. phase = "work" /\ Running /\ UNCHANGED <<parent, fb, phase>> /\ Exists
  BY DEF ClientAllocate, ClientInv, ClientTypes
<1>4. size \in Nat \ {0}
  BY AllocatorsAssumption
<1>5. CASE Gives(fb[2], size, r)
  BY <1>2, <1>3, <1>4, <1>5, TakeOther
<1>6. CASE /\ mem.free_stack # << >>
           /\ r[1] = Entry(mem.free_stack[Len(mem.free_stack)])
           /\ r[2] = [mem EXCEPT !.free_stack = SubSeq(@, 1, Len(mem.free_stack) - 1)]
  <2> DEFINE e == mem.free_stack[Len(mem.free_stack)]
             rest == SubSeq(mem.free_stack, 1, Len(mem.free_stack) - 1)
  <2>1. mem \in Memory /\ mem.free_stack \in Seq(Entries)
    BY DEF ClientInv, ClientTypes, Memory
  <2>2. \A i, j \in 1 .. Len(mem.free_stack) : mem.free_stack[i] = mem.free_stack[j] => i = j
    BY DEF ClientInv, StackSound, KnownOnce
  <2>3. /\ rest \in Seq(Entries) /\ e \in Entries /\ e \in Range(mem.free_stack)
        /\ Range(rest) = Range(mem.free_stack) \ {e}
        /\ \A i, j \in 1 .. Len(rest) : rest[i] = rest[j] => i = j
    BY <1>6, <2>1, <2>2, PopFacts
  <2>4. mem' = [mem EXCEPT !.free_stack = rest] /\ held' = held \cup {Entry(e)}
    BY <1>2, <1>6
  <2> HIDE DEF e, rest
  <2>5. /\ mem' \in Memory /\ mem'.heap = mem.heap /\ mem'.maps = mem.maps
        /\ mem'.base = mem.base /\ mem'.free_stack = rest /\ mem'.objects = mem.objects
        /\ mem'.status = mem.status
    BY <2>1, <2>3, <2>4 DEF Memory
  <2>6. KnownOnce'
    BY <2>3, <2>5 DEF KnownOnce
  <2>7. Range(mem'.free_stack) = Range(mem.free_stack) \ {e}
    BY <2>3, <2>5
  <2> QED
    BY <1>3, <2>3, <2>4, <2>5, <2>6, <2>7, TakeEntry
<1> QED
  BY <1>3, <1>4, <1>5, <1>6, AllocateFrom
-----------------------------------------------------------------------------
\* An entry is known by its place: EntryId finds its number again, and only
\* entries are taken for the stack's own.
LEMMA EntriesKnown ==
    ASSUME ClientInv, Exists
    PROVE  /\ \A k \in Entries :
                /\ EntryId(mem, Entry(k)) = k /\ Entry(k).size = entry_size
                /\ stack_allocator_owns(mem, Entry(k))
                /\ Entry(k) \notin Given \ {StackBlk}
                /\ \A j \in Entries : Entry(j) = Entry(k) => j = k
           /\ \A b \in Given \ {StackBlk} : ~stack_allocator_owns(mem, b)
           /\ \A b \in Blocks : b.ptr = 0 => ~stack_allocator_owns(mem, b)
<1> USE AllocatorAssumption
<1> DEFINE all == num_entries * entry_size
<1>1. mem.base \in Nat /\ mem.base > 0 /\ StackBlk.ptr = mem.base /\ StackBlk.size = all
  BY Geometry
<1>2. all \in Nat
  OBVIOUS
<1>3. \A b : stack_allocator_owns(mem, b) <=> b.ptr >= mem.base /\ b.ptr < mem.base + all
  BY DEF stack_allocator_owns
<1> HIDE DEF all
<1>4. ASSUME NEW k \in Entries
      PROVE  /\ EntryId(mem, Entry(k)) = k /\ Entry(k).size = entry_size
             /\ stack_allocator_owns(mem, Entry(k))
             /\ Entry(k) \notin Given \ {StackBlk}
             /\ \A j \in Entries : Entry(j) = Entry(k) => j = k
  <2> DEFINE off == k * entry_size
  <2>1. off \in Nat /\ off \div entry_size = k /\ off + entry_size <= all
    BY EntrySpans DEF all
  <2>2. Entry(k).ptr = mem.base + off /\ Entry(k).size = entry_size
    BY DEF Entry, mem_blk
  <2> HIDE DEF off
  <2>3. EntryId(mem, Entry(k)) = k
    <3>1. Entry(k).ptr - mem.base = off /\ off >= 0
      BY <1>1, <2>1, <2>2
    <3> QED
      BY <2>1, <3>1 DEF EntryId
  <2>4. stack_allocator_owns(mem, Entry(k))
    BY <1>1, <1>2, <1>3, <2>1, <2>2
  <2>5. ~Apart(Entry(k), Entry(k))
    BY <1>1, <2>1, <2>2 DEF Apart
  <2>6. Entry(k) \notin Given \ {StackBlk}
    BY <2>5, Geometry
  <2>7. \A j \in Entries : Entry(j) = Entry(k) => j = k
    <3> SUFFICES ASSUME NEW j \in Entries, Entry(j) = Entry(k), j # k PROVE FALSE
      OBVIOUS
    <3>1. Apart(Entry(k), Entry(j))
      BY Geometry
    <3> QED
      BY <2>5, <3>1
  <2> QED
    BY <2>2, <2>3, <2>4, <2>6, <2>7
<1>5. ASSUME NEW b \in Given, b # StackBlk PROVE ~stack_allocator_owns(mem, b)
  <2>1. Apart(StackBlk, b) /\ b.ptr \in Nat /\ b.size \in Nat /\ b.size > 0
    BY <1>5, Geometry, GivenLiesApart DEF ClientInv
  <2> QED
    BY <1>1, <1>2, <1>3, <2>1 DEF Apart
<1>6. ASSUME NEW b \in Blocks, b.ptr = 0 PROVE ~stack_allocator_owns(mem, b)
  BY <1>1, <1>3, <1>6
<1> QED
  BY <1>4, <1>5, <1>6

\* An entry comes back to the stack.
LEMMA ReturnEntry ==
    ASSUME ClientInv, Exists, phase = "work", UNCHANGED <<parent, fb, phase>>,
           NEW e \in Entries, e \notin Range(mem.free_stack), held' = held \ {Entry(e)},
           mem' \in Memory, mem'.heap = mem.heap, mem'.maps = mem.maps, mem'.base = mem.base,
           mem'.objects = mem.objects, mem'.status = mem.status,
           Range(mem'.free_stack) = Range(mem.free_stack) \cup {e}, KnownOnce'
    PROVE  ClientInv'
<1>1. /\ Exists' /\ Given' = Given /\ StackBlk' = StackBlk /\ Source(fb[2])' = Source(fb[2])
      /\ Source(parent)' = Source(parent) /\ (\A k \in Entries : Entry(k)' = Entry(k))
      /\ Running' <=> Running
  BY DEF Exists, Given, StackBlk, Source, Entry, Running
<1>2. ClientTypes'
  BY <1>1 DEF ClientInv, ClientTypes
<1>3. GivenApart'
  BY DEF ClientInv, GivenApart
<1>4. StackSound'
  BY <1>1 DEF ClientInv, StackSound
<1>5. HeldSound'
  <2>1. \A b \in held' :
           \/ b.ptr = 0 /\ (fb[2] = "null" => b.size = 0) /\ (fb[2] = "dma" => ~Running)
           \/ Exists /\ \E k \in Entries \ Range(mem'.free_stack) : b = Entry(k)
           \/ b \in Source(fb[2]) /\ (Exists => b # StackBlk)
    BY DEF ClientInv, HeldSound
  <2>2. \A k \in Entries \ Range(mem'.free_stack) : Entry(k) \in held'
    BY EntriesKnown DEF ClientInv, HeldSound
  <2>3. Running => \A b \in Given : b \in held' \/ (Exists /\ b = StackBlk)
    BY EntriesKnown DEF ClientInv, HeldSound
  <2> QED
    BY <1>1, <2>1, <2>2, <2>3 DEF HeldSound
<1>6. ObjectsKnown'
  BY <1>1, Zenon DEF ClientInv, ObjectsKnown, Parts
<1> QED
  BY <1>2, <1>3, <1>4, <1>5, <1>6 DEF ClientInv

\* A block that is no entry goes back to where it came from.
LEMMA ReturnOther ==
    ASSUME ClientInv, Exists, phase = "work", UNCHANGED <<parent, fb, phase>>, Running, Running',
           NEW b \in held, held' = held \ {b}, \A k \in Entries : b # Entry(k), b # StackBlk,
           mem' \in Memory, mem'.heap = mem.heap \ {b}, mem'.maps = mem.maps \ {b},
           mem'.base = mem.base, mem'.objects = mem.objects, mem'.free_stack = mem.free_stack
    PROVE  ClientInv'
<1>1. /\ Exists' /\ Given' = Given \ {b} /\ StackBlk' = StackBlk
      /\ Source(fb[2])' = Source(fb[2]) \ {b} /\ Source(parent)' = Source(parent) \ {b}
      /\ (\A k \in Entries : Entry(k)' = Entry(k))
  BY DEF Exists, Given, StackBlk, Source, Entry
<1>2. ClientTypes'
  BY <1>1 DEF ClientInv, ClientTypes
<1>3. GivenApart'
  BY DEF ClientInv, GivenApart
<1>4. StackSound'
  BY <1>1 DEF ClientInv, StackSound, KnownOnce
<1>5. HeldSound'
  <2>1. \A c \in held' :
           \/ c.ptr = 0 /\ (fb[2] = "null" => c.size = 0) /\ (fb[2] = "dma" => ~Running)
           \/ \E k \in Entries \ Range(mem.free_stack) : c = Entry(k)
           \/ c \in Source(fb[2])' /\ c # StackBlk
    BY <1>1, Zenon DEF ClientInv, HeldSound
  <2>2. \A k \in Entries \ Range(mem.free_stack) : Entry(k) \in held'
    BY Zenon DEF ClientInv, HeldSound
  <2>3. \A c \in Given' : c \in held' \/ c = StackBlk
    BY <1>1, Zenon DEF ClientInv, HeldSound
  <2>4. fb' = fb /\ Exists' /\ Running /\ Running' /\ StackBlk' = StackBlk
        /\ Range(mem'.free_stack) = Range(mem.free_stack) /\ \A k \in Entries : Entry(k)' = Entry(k)
    BY <1>1, Zenon
  <2>5. (\A c \in held :
           \/ c.ptr = 0 /\ (fb[2] = "null" => c.size = 0) /\ (fb[2] = "dma" => ~Running)
           \/ Exists /\ \E k \in Entries \ Range(mem.free_stack) : c = Entry(k)
           \/ c \in Source(fb[2]) /\ (Exists => c # StackBlk))'
    BY <2>1, <2>4
  <2>6. (Exists => \A k \in Entries \ Range(mem.free_stack) : Entry(k) \in held)'
    BY <2>2, <2>4, Zenon
  <2>7. (Running => \A c \in Given : c \in held \/ (Exists /\ c = StackBlk))'
    BY <2>3, <2>4, Zenon
  <2> QED
    BY <2>5, <2>6, <2>7, Zenon DEF HeldSound
<1>6. ObjectsKnown'
  BY <1>1 DEF ClientInv, ObjectsKnown, Parts
<1> QED
  BY <1>2, <1>3, <1>4, <1>5, <1>6 DEF ClientInv

\* fallback_allocator_deallocate tells an entry from all other blocks by its
\* place, and keeps the invariant.
LEMMA ClientDeallocateInv == ASSUME ClientInv, ClientDeallocate PROVE ClientInv'
<1>1. PICK b \in held : mem' = fallback_allocator_deallocate(fb, mem, b) /\ held' = held \ {b}
  BY DEF ClientDeallocate
<1>2. /\ phase = "work" /\ Running /\ UNCHANGED <<parent, fb, phase>> /\ Exists
      /\ mem \in Memory /\ b \in Blocks
      /\ fb[1] \in {"stack", "spinlock"} /\ fb[2] \in Kinds
  BY AllocatorsAssumption, Zenon DEF ClientDeallocate, ClientInv, ClientTypes, Kinds
<1>3. /\ Owns(fb[1], mem, b) <=> stack_allocator_owns(mem, b)
      /\ Deallocate(fb[1], mem, b) = stack_allocator_deallocate(mem, b)
  BY <1>2, Zenon DEF Owns, Deallocate, spinlock_stack_owns, spinlock_stack_deallocate
<1>4. CASE \E k \in Entries \ Range(mem.free_stack) : b = Entry(k)
  <2>1. PICK k \in Entries \ Range(mem.free_stack) : b = Entry(k)
    BY <1>4
  <2>2. EntryId(mem, b) = k /\ b.size = entry_size /\ stack_allocator_owns(mem, b)
    BY <1>2, <2>1, EntriesKnown
  <2>3. k >= 0 /\ ~(k > num_entries) /\ ~(k < 0)
    BY AllocatorAssumption DEF Entries
  <2>4. mem' = [mem EXCEPT !.free_stack = Append(@, k)]
    BY <1>1, <1>3, <2>2, <2>3 DEF fallback_allocator_deallocate, stack_allocator_deallocate
  <2> DEFINE more == Append(mem.free_stack, k)
  <2>5. /\ more \in Seq(Entries) /\ Range(more) = Range(mem.free_stack) \cup {k}
        /\ \A i, j \in 1 .. Len(more) : more[i] = more[j] => i = j
    <3>1. mem.free_stack \in Seq(Entries)
      BY <1>2 DEF Memory
    <3>2. \A i, j \in 1 .. Len(mem.free_stack) : mem.free_stack[i] = mem.free_stack[j] => i = j
      BY DEF ClientInv, StackSound, KnownOnce
    <3> QED
      BY <3>1, <3>2, PushFacts, Zenon
  <2>6. mem' = [mem EXCEPT !.free_stack = more]
    BY <1>2, <2>4
  <2> HIDE DEF more
  <2>7. /\ mem' \in Memory /\ mem'.heap = mem.heap /\ mem'.maps = mem.maps
        /\ mem'.base = mem.base /\ mem'.free_stack = more /\ mem'.objects = mem.objects
        /\ mem'.status = mem.status
    BY <1>2, <2>5, <2>6 DEF Memory
  <2>8. KnownOnce'
    BY <2>5, <2>7 DEF KnownOnce
  <2>9. Range(mem'.free_stack) = Range(mem.free_stack) \cup {k} /\ held' = held \ {Entry(k)}
    BY <1>1, <2>1, <2>5, <2>7
  <2> QED
    BY <1>2, <2>1, <2>7, <2>8, <2>9, ReturnEntry
<1>5. CASE b.ptr = 0 /\ (fb[2] = "null" => b.size = 0) /\ (fb[2] = "dma" => ~Running)
  <2>1. ~stack_allocator_owns(mem, b)
    BY <1>2, <1>5, EntriesKnown
  <2>2. mem' = Deallocate(fb[2], mem, b)
    BY <1>1, <1>3, <2>1 DEF fallback_allocator_deallocate
  <2>3. mem' = mem
    <3>1. CASE fb[2] = "malloc"
      BY <1>5, <2>2, <3>1 DEF Deallocate, mallocator_deallocate
    <3>2. CASE fb[2] = "null"
      <4>1. b = mem_blk(0, 0)
        BY <1>2, <1>5, <3>2 DEF mem_blk, Blocks
      <4> QED
        BY <2>2, <3>2, <4>1 DEF Deallocate, null_allocator_deallocate
    <3> QED
      BY <1>2, <1>5, <3>1, <3>2 DEF Kinds
  <2>4. b \notin Given /\ b # StackBlk
    BY <1>2, <1>5, GivenLiesApart, Geometry DEF ClientInv
  <2>5. \A k \in Entries : b # Entry(k)
    BY <1>2, <2>1, EntriesKnown
  <2>6. mem'.heap = mem.heap \ {b} /\ mem'.maps = mem.maps \ {b}
    BY <2>3, <2>4 DEF Given
  <2>7. Running' /\ mem' \in Memory
    BY <1>2, <2>3 DEF Running
  <2> QED
    BY <1>1, <1>2, <2>3, <2>4, <2>5, <2>6, <2>7, ReturnOther
<1>6. CASE b \in Source(fb[2]) /\ b # StackBlk
  <2>1. b \in Given
    BY <1>6 DEF Source, Given
  <2>2. ~stack_allocator_owns(mem, b) /\ \A k \in Entries : b # Entry(k)
    BY <1>2, <1>6, <2>1, EntriesKnown
  <2>3. mem' = Deallocate(fb[2], mem, b)
    BY <1>1, <1>3, <2>2 DEF fallback_allocator_deallocate
  <2>4. b.ptr # 0
    BY <2>1, GivenLiesApart DEF ClientInv
  <2>5. /\ mem' \in Memory /\ mem'.heap = mem.heap \ {b} /\ mem'.maps = mem.maps \ {b}
        /\ mem'.base = mem.base /\ mem'.objects = mem.objects
        /\ mem'.free_stack = mem.free_stack /\ mem'.status = mem.status
    <3>1. CASE fb[2] = "malloc"
      <4>1. b \in mem.heap /\ b \notin mem.maps
        BY <1>2, <1>6, <2>1, <3>1, AllocatorAssumption DEF Source, ClientInv, GivenApart, Blocks
      <4>2. {c \in mem.heap : c.ptr # b.ptr} = mem.heap \ {b}
        <5>1. ASSUME NEW c \in mem.heap, c # b PROVE c.ptr # b.ptr
          <6>1. Apart(c, b) /\ c.ptr \in Nat /\ c.size \in Nat /\ c.size > 0
                /\ b.ptr \in Nat /\ b.size \in Nat /\ b.size > 0
            BY <4>1, <5>1, GivenLiesApart DEF ClientInv, Given
          <6> QED
            BY <6>1 DEF Apart
        <5> QED
          BY <5>1
      <4>3. mem' = [mem EXCEPT !.heap = {c \in @ : c.ptr # b.ptr}]
        BY <2>3, <2>4, <3>1, <4>1 DEF Deallocate, mallocator_deallocate
      <4>4. mem' = [mem EXCEPT !.heap = mem.heap \ {b}]
        BY <4>2, <4>3
      <4> QED
        BY <1>2, <4>1, <4>4 DEF Memory
    <3>2. CASE fb[2] = "dma"
      <4>1. b \in mem.maps /\ b \notin mem.heap
        BY <1>2, <1>6, <2>1, <3>2, AllocatorAssumption DEF Source, ClientInv, GivenApart, Blocks
      <4>2. mem' = [mem EXCEPT !.maps = @ \ {b}]
        BY <2>3, <3>2, <4>1 DEF Deallocate, dma_allocator_deallocate
      <4> QED
        BY <1>2, <4>1, <4>2 DEF Memory
    <3> QED
      BY <1>2, <1>6, <3>1, <3>2 DEF Kinds, Source
  <2>6. Running'
    BY <1>2, <2>5 DEF Running
  <2> QED
    BY <1>1, <1>2, <1>6, <2>2, <2>5, <2>6, ReturnOther, Zenon
<1> QED
  BY <1>2, <1>4, <1>5, <1>6, Zenon DEF ClientInv, HeldSound

\* stack_allocator_free and spinlock_stack_allocator_free: the parent gets its
\* block back, and blocks of the secondary allocator stay.
LEMMA DestroyInv == ASSUME ClientInv, Destroy PROVE ClientInv'
<1> USE AllocatorAssumption
<1>1. /\ phase = "work" /\ Running /\ UNCHANGED <<parent, fb, held>> /\ phase' = "freed" /\ Exists
      /\ mem \in Memory /\ fb[1] \in {"stack", "spinlock"} /\ parent \in Kinds
      /\ \A b \in held : ~Owns(fb[1], mem, b)
  BY AllocatorsAssumption DEF Destroy, ClientInv, ClientTypes, Kinds
<1>2. \A b \in held : ~stack_allocator_owns(mem, b)
  BY <1>1, Zenon DEF Owns, spinlock_stack_owns
<1> DEFINE m == [mem EXCEPT !.objects = @ \ {"fallback"}]
           n == Deallocate(parent, m, StackBlk)
<1>3. mem' = FreeObject("stack", [n EXCEPT !.base = NULL, !.free_stack = << >>])
  <2>1. /\ mem' = stack_allocator_free(m, parent) /\ m.base = mem.base
    BY <1>1 DEF Destroy, FreeAllocator, spinlock_stack_allocator_free, fallback_allocator_free, FreeObject,
               Memory
  <2> QED
    BY <2>1 DEF stack_allocator_free, StackBlk
<1>4. /\ m \in Memory /\ m.heap = mem.heap /\ m.maps = mem.maps /\ m.status = mem.status
      /\ m.objects = mem.objects \ {"fallback"}
  BY <1>1 DEF Memory
<1> HIDE DEF m
<1>5. StackBlk \in Source(parent) /\ StackBlk \in Given /\ StackBlk.ptr # 0
  <2>1. StackBlk \in Source(parent)
    BY <1>1 DEF ClientInv, StackSound
  <2> QED
    BY <1>1, <2>1, Geometry
<1>6. /\ n \in Memory /\ n.heap = mem.heap \ {StackBlk} /\ n.maps = mem.maps \ {StackBlk}
      /\ n.status = mem.status /\ n.objects = mem.objects \ {"fallback"}
  <2>1. CASE parent = "malloc"
    <3>1. StackBlk \in mem.heap /\ StackBlk \notin mem.maps
      <4>1. StackBlk \in Blocks
        BY <1>5, GivenLiesApart DEF ClientInv
      <4> QED
        BY <1>5, <2>1, <4>1 DEF Source, ClientInv, GivenApart, Blocks
    <3>2. {c \in mem.heap : c.ptr # StackBlk.ptr} = mem.heap \ {StackBlk}
      <4>1. ASSUME NEW c \in mem.heap, c # StackBlk PROVE c.ptr # StackBlk.ptr
        <5>1. Apart(c, StackBlk) /\ c.ptr \in Nat /\ c.size \in Nat /\ c.size > 0
              /\ StackBlk.ptr \in Nat /\ StackBlk.size \in Nat /\ StackBlk.size > 0
          BY <3>1, <4>1, GivenLiesApart DEF ClientInv, Given
        <5> QED
          BY <5>1 DEF Apart
      <4> QED
        BY <4>1
    <3>3. n = [m EXCEPT !.heap = {c \in @ : c.ptr # StackBlk.ptr}]
      BY <1>4, <1>5, <2>1, <3>1 DEF Deallocate, mallocator_deallocate
    <3>4. n = [m EXCEPT !.heap = mem.heap \ {StackBlk}]
      BY <1>4, <3>2, <3>3
    <3>5. mem.heap \ {StackBlk} \in SUBSET Blocks /\ mem.maps \ {StackBlk} = mem.maps
      BY <1>1, <3>1 DEF Memory
    <3> QED
      BY <1>4, <3>4, <3>5 DEF Memory
  <2>2. CASE parent = "dma"
    <3>1. StackBlk \in mem.maps /\ StackBlk \notin mem.heap
      <4>1. StackBlk \in mem.maps /\ StackBlk.ptr = ARENA + 1 /\ StackBlk.size > 0
        BY <1>5, <2>2 DEF Source, ClientInv, GivenApart
      <4>2. StackBlk.size \in Nat
        BY <1>1, <4>1 DEF Memory, Blocks
      <4> QED
        BY <4>1, <4>2 DEF ClientInv, GivenApart
    <3>2. n = [m EXCEPT !.maps = @ \ {StackBlk}]
      BY <1>4, <2>2, <3>1 DEF Deallocate, dma_allocator_deallocate
    <3> QED
      BY <1>4, <3>1, <3>2 DEF Memory
  <2> QED
    BY <1>1, <1>5, <2>1, <2>2, Zenon DEF Kinds, Source
<1> HIDE DEF n
<1>7. /\ mem' \in Memory /\ mem'.heap = mem.heap \ {StackBlk} /\ mem'.maps = mem.maps \ {StackBlk}
      /\ mem'.base = NULL /\ mem'.free_stack = << >> /\ mem'.status = mem.status
      /\ mem'.objects = mem.objects \ {"fallback", "stack"}
  <2>1. << >> \in Seq(Entries)
    OBVIOUS
  <2> QED
    BY <1>3, <1>6, <2>1, Zenon DEF FreeObject, Memory
<1>8. /\ ~Exists' /\ Given' = Given \ {StackBlk} /\ Source(fb[2])' = Source(fb[2]) \ {StackBlk}
      /\ Running'
  BY <1>1, <1>7 DEF Exists, Given, Source, Running
<1>9. ClientTypes'
  BY <1>1, <1>7, <1>8 DEF ClientInv, ClientTypes
<1>10. GivenApart'
  BY <1>7 DEF ClientInv, GivenApart
<1>11. StackSound'
  BY <1>7, <1>8 DEF StackSound, KnownOnce
<1>12. HeldSound'
  <2>1. ASSUME NEW b \in held
        PROVE  \/ b.ptr = 0 /\ (fb[2] = "null" => b.size = 0) /\ (fb[2] = "dma" => ~Running)
               \/ b \in Source(fb[2])'
    BY <1>1, <1>2, <1>8, EntriesKnown DEF ClientInv, HeldSound
  <2>2. \A b \in Given' : b \in held
    BY <1>1, <1>8 DEF ClientInv, HeldSound
  <2> QED
    BY <1>1, <1>8, <2>1, <2>2 DEF HeldSound
<1>13. ObjectsKnown'
  BY <1>1, <1>7, <1>8 DEF ClientInv, ObjectsKnown, Parts
<1> QED
  BY <1>9, <1>10, <1>11, <1>12, <1>13 DEF ClientInv
-----------------------------------------------------------------------------
\* Every step keeps the invariant.
LEMMA ClientNextInv == ClientInv /\ [ClientNext]_clientvars => ClientInv'
<1> SUFFICES ASSUME ClientInv, [ClientNext]_clientvars PROVE ClientInv'
  OBVIOUS
<1>1. CASE ClientNext
  BY <1>1, CreatePartsInv, CreateStackInv, CreatePairInv, ClientAllocateInv, ClientDeallocateInv,
     DestroyInv, DestroyPartsInv DEF ClientNext
<1>2. CASE UNCHANGED clientvars
  BY <1>2, Zenon
  DEF clientvars, ClientInv, ClientTypes, GivenApart, StackSound, KnownOnce, HeldSound, ObjectsKnown,
     Exists, Given, StackBlk, Source, Entry, Running, Parts
<1> QED
  BY <1>1, <1>2

\* The invariant holds throughout.
LEMMA ClientInductive == ClientSpec => []ClientInv
BY ClientInitInv, ClientNextInv, PTL DEF ClientSpec

\* Whatever the sizes of memory, of the stack and of the requests, and whichever
\* allocators are put together, no two blocks of a client overlap, and an entry
\* of the stack is free or with the client (stack_allocator_allocate,
\* fallback_allocator_allocate).
THEOREM ClientBlocksDisjoint == ClientSpec => []BlocksDisjoint
BY ClientInductive, InvDisjoint, PTL

\* fallback_allocator_deallocate sends every block to the allocator it came from:
\* no deallocate reports an error, and malloc is never asked to free what it does
\* not know.
THEOREM ClientBlocksGoHome == ClientSpec => []BlocksGoHome
BY ClientInductive, InvGoHome, PTL

\* After the free functions, or when a new function found no memory, nothing of
\* the allocators is left.
THEOREM ClientLeavesNothing == ClientSpec => []NothingLeft
BY ClientInductive, InvNothingLeft, PTL
-----------------------------------------------------------------------------
\* What main of the example has at each of its lines: no memory at all, a block of
\* malloc or of mmap, or a stack with this many free entries.
CleanLines == {1, 3, num_entries + 9, num_entries + 10, num_entries + 15, num_entries + 17,
               num_entries + 19, num_entries + 21}
DmaLines == {num_entries + 16, num_entries + 18, num_entries + 20}
StackLines == (4 .. num_entries + 8) \cup (num_entries + 11 .. num_entries + 14)
EntryLines == (6 .. num_entries + 5) \cup {num_entries + 12, num_entries + 13}
Left(l) ==
    IF l \in 5 .. num_entries + 5 THEN num_entries + 5 - l
    ELSE IF l = num_entries + 6 THEN 1
    ELSE IF l \in {num_entries + 7, num_entries + 8} THEN 0
    ELSE IF l \in {num_entries + 12, num_entries + 13} THEN num_entries - 1
    ELSE num_entries

WithStack(m, p) ==
    m \in [heap : {{mem_blk(p, num_entries * entry_size)}}, maps : {{}}, objects : {{"stack"}},
          base : {p}, free_stack : Seq(Entries), status : {"running"}]
EntryAt(p, b) == \E k \in Entries : b = mem_blk(p + k * entry_size, entry_size)

ExampleInv ==
    /\ line \in 1 .. num_entries + 21
    /\ state.status # "running" => failed
    /\ state.status = "running" =>
        /\ line \in CleanLines => state = Fresh
        /\ line = 2 => state = [Fresh EXCEPT !.heap = IF blk.ptr = 0 THEN {} ELSE {blk}]
        /\ line \in DmaLines => state = [Fresh EXCEPT !.maps = {blk}]
        /\ line \in StackLines =>
            \E p \in Nat \ {0} :
                /\ WithStack(state, p) /\ Len(state.free_stack) = Left(line)
                /\ line \in EntryLines => EntryAt(p, blk)

\* The lines of two parts of a program, one behind the other.
LEMMA LinesOfBoth ==
    ASSUME NEW S, NEW s \in Seq(S), NEW t \in Seq(S)
    PROVE  /\ s \o t \in Seq(S)
           /\ Len(s \o t) = Len(s) + Len(t)
           /\ \A l \in 1 .. Len(s) + Len(t) : (s \o t)[l] = IF l <= Len(s) THEN s[l] ELSE t[l - Len(s)]
  OBVIOUS

\* The lines of main.
LEMMA Lines ==
    /\ Len(main) = num_entries + 20
    /\ main[1] = <<"allocate", "malloc", entry_size, "any">> /\ main[2] = <<"deallocate", "malloc">>
    /\ main[3] = <<"new", "stack">> /\ main[4] = <<"allocate", "stack", 2 * entry_size, "null">>
    /\ \A l \in 5 .. num_entries + 4 : main[l] = <<"allocate", "stack", entry_size, "some">>
    /\ main[num_entries + 5] = <<"deallocate", "stack">>
    /\ main[num_entries + 6] = <<"allocate", "stack", entry_size, "some">>
    /\ main[num_entries + 7] = <<"allocate", "stack", entry_size, "null">>
    /\ main[num_entries + 8] = <<"free", "stack">>
    /\ main[num_entries + 9] = <<"fallback", entry_size>>
    /\ main[num_entries + 10] = <<"new", "spinlock">>
    /\ main[num_entries + 11] = <<"allocate", "spinlock", entry_size, "some">>
    /\ main[num_entries + 12] = <<"owns", "spinlock">>
    /\ main[num_entries + 13] = <<"deallocate", "spinlock">>
    /\ main[num_entries + 14] = <<"free", "spinlock">>
    /\ main[num_entries + 15] = <<"allocate", "dma", 1, "any">>
    /\ main[num_entries + 16] = <<"deallocate", "dma">>
    /\ main[num_entries + 17] = <<"allocate", "dma", 2 * HUGE, "any">>
    /\ main[num_entries + 18] = <<"deallocate", "dma">>
    /\ main[num_entries + 19] = <<"allocate", "dma", 4 * HUGE, "any">>
    /\ main[num_entries + 20] = <<"deallocate", "dma">>
<1> USE AllocatorAssumption
<1> DEFINE a == <<<<"allocate", "malloc", entry_size, "any">>, <<"deallocate", "malloc">>,
                  <<"new", "stack">>, <<"allocate", "stack", 2 * entry_size, "null">> >>
           call == <<"allocate", "stack", entry_size, "some">>
           b == Repeat(num_entries, call)
           c == <<<<"deallocate", "stack">>,
                  <<"allocate", "stack", entry_size, "some">>,
                  <<"allocate", "stack", entry_size, "null">>,
                  <<"free", "stack">>,
                  <<"fallback", entry_size>>,
                  <<"new", "spinlock">>, <<"allocate", "spinlock", entry_size, "some">>,
                  <<"owns", "spinlock">>, <<"deallocate", "spinlock">>, <<"free", "spinlock">>,
                  <<"allocate", "dma", 1, "any">>, <<"deallocate", "dma">>,
                  <<"allocate", "dma", 2 * HUGE, "any">>, <<"deallocate", "dma">>,
                  <<"allocate", "dma", 4 * HUGE, "any">>, <<"deallocate", "dma">> >>
           S == Range(a) \cup {call} \cup Range(c)
<1>1. main = (a \o b) \o c
  BY DEF main
<1>2. Len(a) = 4 /\ Len(c) = 16 /\ Len(b) = num_entries /\ \A k \in 1 .. num_entries : b[k] = call
  BY DEF Repeat
<1>3. a \in Seq(S) /\ b \in Seq(S) /\ c \in Seq(S)
  <2>1. DOMAIN a = 1 .. 4 /\ DOMAIN c = 1 .. 16
    OBVIOUS
  <2>2. (\A i \in 1 .. 4 : a[i] \in S) /\ (\A i \in 1 .. 16 : c[i] \in S)
    BY <2>1, Zenon DEF Range
  <2>3. b \in [1 .. num_entries -> S]
    BY DEF Repeat
  <2>4. b \in Seq(S)
    <3> HIDE DEF b, S
    <3> QED
      BY <2>3
  <2>5. a \in [1 .. 4 -> S]
    <3>1. a = [i \in 1 .. 4 |-> a[i]]
      BY <2>1
    <3> HIDE DEF a, S
    <3> QED
      BY <2>2, <3>1
  <2>6. c \in [1 .. 16 -> S]
    <3>1. c = [i \in 1 .. 16 |-> c[i]]
      BY <2>1
    <3> HIDE DEF c, S
    <3> QED
      BY <2>2, <3>1
  <2>7. a \in Seq(S) /\ c \in Seq(S)
    <3> HIDE DEF a, c, S
    <3>1. \A n \in Nat : \A f \in [1 .. n -> S] : f \in Seq(S)
      OBVIOUS
    <3>2. 4 \in Nat /\ 16 \in Nat
      OBVIOUS
    <3> QED
      BY <2>5, <2>6, <3>1, <3>2, Zenon
  <2> QED
    BY <2>4, <2>7
<1>4. /\ a[1] = <<"allocate", "malloc", entry_size, "any">> /\ a[2] = <<"deallocate", "malloc">>
      /\ a[3] = <<"new", "stack">> /\ a[4] = <<"allocate", "stack", 2 * entry_size, "null">>
  OBVIOUS
<1>5. /\ c[1] = <<"deallocate", "stack">>
      /\ c[2] = <<"allocate", "stack", entry_size, "some">>
      /\ c[3] = <<"allocate", "stack", entry_size, "null">>
      /\ c[4] = <<"free", "stack">>
      /\ c[5] = <<"fallback", entry_size>>
      /\ c[6] = <<"new", "spinlock">>
      /\ c[7] = <<"allocate", "spinlock", entry_size, "some">>
      /\ c[8] = <<"owns", "spinlock">>
      /\ c[9] = <<"deallocate", "spinlock">>
      /\ c[10] = <<"free", "spinlock">>
      /\ c[11] = <<"allocate", "dma", 1, "any">>
      /\ c[12] = <<"deallocate", "dma">>
      /\ c[13] = <<"allocate", "dma", 2 * HUGE, "any">>
      /\ c[14] = <<"deallocate", "dma">>
      /\ c[15] = <<"allocate", "dma", 4 * HUGE, "any">>
      /\ c[16] = <<"deallocate", "dma">>
  BY Zenon
<1> HIDE DEF a, b, c, S, call
<1>6. /\ a \o b \in Seq(S) /\ Len(a \o b) = num_entries + 4
      /\ \A l \in 1 .. num_entries + 4 : (a \o b)[l] = IF l <= 4 THEN a[l] ELSE b[l - 4]
  <2>1. /\ a \o b \in Seq(S) /\ Len(a \o b) = Len(a) + Len(b)
        /\ \A l \in 1 .. Len(a) + Len(b) : (a \o b)[l] = IF l <= Len(a) THEN a[l] ELSE b[l - Len(a)]
    BY <1>3, LinesOfBoth, Zenon
  <2>2. Len(a) + Len(b) = num_entries + 4 /\ Len(a) = 4
    BY <1>2
  <2> QED
    BY <2>1, <2>2, Zenon
<1> DEFINE d == a \o b
<1>7. /\ d \in Seq(S) /\ Len(d) = num_entries + 4
      /\ \A l \in 1 .. num_entries + 4 : d[l] = IF l <= 4 THEN a[l] ELSE b[l - 4]
  BY <1>6, Zenon
<1>8. main = d \o c
  BY <1>1
<1> HIDE DEF d
<1>9. /\ Len(main) = num_entries + 20
      /\ \A l \in 1 .. num_entries + 20 :
            main[l] = IF l <= num_entries + 4 THEN d[l] ELSE c[l - (num_entries + 4)]
  <2>1. /\ Len(d \o c) = Len(d) + Len(c)
        /\ \A l \in 1 .. Len(d) + Len(c) : (d \o c)[l] = IF l <= Len(d) THEN d[l] ELSE c[l - Len(d)]
    BY <1>3, <1>7, LinesOfBoth, Zenon
  <2>2. Len(d) + Len(c) = num_entries + 20
    BY <1>2, <1>7
  <2> QED
    BY <1>7, <1>8, <2>1, <2>2, Zenon
<1>10. \A k \in 1 .. 16 : main[num_entries + 4 + k] = c[k]
  BY <1>9
<1>11. main[1] = a[1] /\ main[2] = a[2] /\ main[3] = a[3] /\ main[4] = a[4]
  <2>1. \A l \in 1 .. 4 : main[l] = a[l]
    <3> SUFFICES ASSUME NEW l \in 1 .. 4 PROVE main[l] = a[l]
      OBVIOUS
    <3>1. l \in 1 .. num_entries + 4 /\ l \in 1 .. num_entries + 20 /\ l <= 4 /\ l <= num_entries + 4
      OBVIOUS
    <3>2. main[l] = d[l]
      BY <1>9, <3>1
    <3>3. d[l] = a[l]
      BY <1>7, <3>1
    <3> QED
      BY <3>2, <3>3
  <2>2. 1 \in 1 .. 4 /\ 2 \in 1 .. 4 /\ 3 \in 1 .. 4 /\ 4 \in 1 .. 4
    OBVIOUS
  <2> QED
    BY <2>1, <2>2, Zenon
<1>12. \A l \in 5 .. num_entries + 4 : main[l] = call
  <2> SUFFICES ASSUME NEW l \in 5 .. num_entries + 4 PROVE main[l] = call
    OBVIOUS
  <2>1. /\ l \in 1 .. num_entries + 4 /\ l \in 1 .. num_entries + 20 /\ ~(l <= 4)
        /\ l <= num_entries + 4 /\ l - 4 \in 1 .. num_entries
    OBVIOUS
  <2>2. main[l] = b[l - 4]
    BY <1>7, <1>9, <2>1, Zenon
  <2> QED
    BY <1>2, <2>1, <2>2, Zenon
<1>13. /\ num_entries + 4 + 1 = num_entries + 5 /\ num_entries + 4 + 2 = num_entries + 6
       /\ num_entries + 4 + 3 = num_entries + 7 /\ num_entries + 4 + 4 = num_entries + 8
       /\ num_entries + 4 + 5 = num_entries + 9 /\ num_entries + 4 + 6 = num_entries + 10
       /\ num_entries + 4 + 7 = num_entries + 11 /\ num_entries + 4 + 8 = num_entries + 12
       /\ num_entries + 4 + 9 = num_entries + 13 /\ num_entries + 4 + 10 = num_entries + 14
       /\ num_entries + 4 + 11 = num_entries + 15 /\ num_entries + 4 + 12 = num_entries + 16
       /\ num_entries + 4 + 13 = num_entries + 17 /\ num_entries + 4 + 14 = num_entries + 18
       /\ num_entries + 4 + 15 = num_entries + 19 /\ num_entries + 4 + 16 = num_entries + 20
  OBVIOUS
<1>14. /\ main[num_entries + 5] = c[1] /\ main[num_entries + 6] = c[2] /\ main[num_entries + 7] = c[3]
       /\ main[num_entries + 8] = c[4] /\ main[num_entries + 9] = c[5] /\ main[num_entries + 10] = c[6]
       /\ main[num_entries + 11] = c[7] /\ main[num_entries + 12] = c[8] /\ main[num_entries + 13] = c[9]
       /\ main[num_entries + 14] = c[10] /\ main[num_entries + 15] = c[11] /\ main[num_entries + 16] = c[12]
       /\ main[num_entries + 17] = c[13] /\ main[num_entries + 18] = c[14] /\ main[num_entries + 19] = c[15]
       /\ main[num_entries + 20] = c[16]
  BY <1>10, <1>13
<1> QED
  BY <1>4, <1>5, <1>9, <1>11, <1>12, <1>14, Zenon DEF call
\* Memory without blocks does not change when they are removed.
LEMMA FreshAgain == Fresh = [Fresh EXCEPT !.heap = {}]
<1>1. DOMAIN Fresh = {"heap", "maps", "objects", "base", "free_stack", "status"} /\ Fresh.heap = {}
  BY DEF Fresh
<1>2. Fresh = [x \in DOMAIN Fresh |-> Fresh[x]]
  BY Zenon DEF Fresh
<1> QED
  BY <1>1, <1>2

\* malloc with nothing allocated: no memory, or one block.
LEMMA FirstBlock ==
    ASSUME NEW m, m.heap = {}, NEW size \in Nat \ {0}, NEW r \in Allocate("malloc", m, size)
    PROVE  \/ r = <<mem_blk(0, size), m>>
           \/ \E p \in Nat \ {0} : r = <<mem_blk(p, size), [m EXCEPT !.heap = {mem_blk(p, size)}]>>
<1>1. r \in mallocator_allocate(m, size)
  BY DEF Allocate
<1>2. CASE r = <<mem_blk(0, size), m>>
  BY <1>2
<1>3. CASE \E p \in 1 .. ARENA - size + 1 :
             r = <<mem_blk(p, size), [m EXCEPT !.heap = @ \cup {mem_blk(p, size)}]>>
  <2>1. PICK p \in 1 .. ARENA - size + 1 :
             r = <<mem_blk(p, size), [m EXCEPT !.heap = @ \cup {mem_blk(p, size)}]>>
    BY <1>3, Zenon
  <2>2. p \in Nat \ {0}
    OBVIOUS
  <2>3. m.heap \cup {mem_blk(p, size)} = {mem_blk(p, size)}
    OBVIOUS
  <2>4. r = <<mem_blk(p, size), [m EXCEPT !.heap = {mem_blk(p, size)}]>>
    BY <2>1, <2>3
  <2> QED
    BY <2>2, <2>4
<1> QED
  BY <1>1, <1>2, <1>3 DEF mallocator_allocate

\* The only block of malloc goes back.
LEMMA LastBlock ==
    ASSUME NEW m, NEW p \in Nat \ {0}, NEW size, m.heap = {mem_blk(p, size)}
    PROVE  Deallocate("malloc", m, mem_blk(p, size)) = [m EXCEPT !.heap = {}]
<1>1. mem_blk(p, size).ptr = p
  BY DEF mem_blk
<1>2. {b \in m.heap : b.ptr # p} = {}
  BY <1>1
<1>3. \E b \in m.heap : b.ptr = p
  BY <1>1
<1> QED
  BY <1>1, <1>2, <1>3 DEF Deallocate, mallocator_deallocate

\* The example's stack: an entry while there is one and it is large enough.
LEMMA StackGives ==
    ASSUME NEW m, NEW p \in Nat \ {0}, WithStack(m, p), NEW kind \in {"stack", "spinlock"},
           NEW size \in Nat, NEW r \in Allocate(kind, m, size)
    PROVE  /\ Len(m.free_stack) = 0 \/ size > entry_size => r = <<mem_blk(0, 0), m>>
           /\ Len(m.free_stack) > 0 /\ size = entry_size =>
                /\ EntryAt(p, r[1]) /\ r[1].ptr # 0
                /\ WithStack(r[2], p) /\ Len(r[2].free_stack) = Len(m.free_stack) - 1
                /\ r[2].status = "running"
<1> USE AllocatorAssumption
<1> DEFINE f == m.free_stack
           top == Len(f)
           rest == SubSeq(f, 1, top - 1)
<1>1. r \in stack_allocator_allocate(m, size)
  BY DEF Allocate, spinlock_stack_allocate
<1>2. f \in Seq(Entries) /\ m.base = p
  BY DEF WithStack
<1>3. top = 0 <=> f = << >>
  BY <1>2
<1>4. top = 0 \/ size > entry_size => r = <<mem_blk(0, 0), m>>
  BY <1>1, <1>3 DEF stack_allocator_allocate
<1>5. ASSUME top > 0, size = entry_size
      PROVE  /\ EntryAt(p, r[1]) /\ r[1].ptr # 0
             /\ WithStack(r[2], p) /\ Len(r[2].free_stack) = top - 1
             /\ r[2].status = "running"
  <2>1. f # << >> /\ ~(size > entry_size)
    BY <1>5
  <2>2. r = <<mem_blk(p + f[top] * entry_size, entry_size), [m EXCEPT !.free_stack = rest]>>
    BY <1>1, <1>2, <2>1 DEF stack_allocator_allocate
  <2>3. f[top] \in Entries /\ rest \in Seq(Entries) /\ Len(rest) = top - 1
    <3>1. top \in Nat /\ \A i \in 1 .. top : f[i] \in Entries
      BY <1>2
    <3> HIDE DEF f, top, rest
    <3>2. f[top] \in Entries
      BY <1>5, <3>1
    <3> DEFINE n == top - 1
    <3>3. n \in Nat /\ n \in Int /\ \A i \in 1 .. n : f[i] \in Entries
      BY <1>5, <3>1
    <3>4. rest = SubSeq(f, 1, n)
      BY DEF rest
    <3> HIDE DEF n
    <3>5. SubSeq(f, 1, n) \in Seq(Entries) /\ Len(SubSeq(f, 1, n)) = IF 1 <= n THEN n - 1 + 1 ELSE 0
      BY <3>3
    <3>6. Len(SubSeq(f, 1, n)) = n
      BY <3>3, <3>5
    <3> QED
      BY <3>2, <3>4, <3>5, <3>6 DEF n
  <2> HIDE DEF f, top, rest
  <2>4. EntryAt(p, r[1])
    BY <2>2, <2>3 DEF EntryAt
  <2>5. r[1].ptr # 0
    <3>1. f[top] * entry_size \in Nat
      BY <2>3, EntrySpans
    <3> QED
      BY <2>2, <3>1 DEF mem_blk
  <2>6. r[2] = [m EXCEPT !.free_stack = rest]
    BY <2>2
  <2>7. r[2].free_stack = rest /\ WithStack(r[2], p) /\ r[2].status = "running"
    BY <2>3, <2>6, Zenon DEF WithStack
  <2> QED
    BY <2>3, <2>4, <2>5, <2>7
<1> QED
  BY <1>4, <1>5

\* The example's stack takes an entry back and knows it as its own.
LEMMA StackTakes ==
    ASSUME NEW m, NEW p \in Nat \ {0}, WithStack(m, p), NEW kind \in {"stack", "spinlock"},
           NEW b, EntryAt(p, b)
    PROVE  /\ Owns(kind, m, b)
           /\ WithStack(Deallocate(kind, m, b), p)
           /\ Deallocate(kind, m, b).status = "running"
           /\ Len(Deallocate(kind, m, b).free_stack) = Len(m.free_stack) + 1
<1> USE AllocatorAssumption
<1>1. PICK k \in Entries : b = mem_blk(p + k * entry_size, entry_size)
  BY DEF EntryAt
<1> DEFINE off == k * entry_size
           all == num_entries * entry_size
           f == m.free_stack
<1>2. off \in Nat /\ off \div entry_size = k /\ off + entry_size <= all /\ all \in Nat
  BY EntrySpans
<1>3. b.ptr = p + off /\ b.size = entry_size
  BY <1>1 DEF mem_blk
<1>4. m.base = p /\ f \in Seq(Entries)
  BY DEF WithStack
<1>5. Owns(kind, m, b) <=> b.ptr >= p /\ b.ptr < p + all
  BY <1>4, Zenon DEF Owns, spinlock_stack_owns, stack_allocator_owns
<1> HIDE DEF off, all
<1>6. Owns(kind, m, b)
  BY <1>2, <1>3, <1>5
<1>7. EntryId(m, b) = k
  <2>1. b.ptr - p = off /\ off >= 0
    BY <1>2, <1>3
  <2> QED
    BY <1>2, <1>4, <2>1 DEF EntryId
<1>8. ~(k > num_entries) /\ ~(k < 0)
  BY DEF Entries
<1>9. Deallocate(kind, m, b) = [m EXCEPT !.free_stack = Append(@, k)]
  BY <1>3, <1>7, <1>8 DEF Deallocate, spinlock_stack_deallocate, stack_allocator_deallocate
<1>10. Append(f, k) \in Seq(Entries) /\ Len(Append(f, k)) = Len(f) + 1
  BY <1>4
<1>11. Deallocate(kind, m, b) = [m EXCEPT !.free_stack = Append(f, k)]
  BY <1>9
<1> DEFINE n == Deallocate(kind, m, b)
           g == Append(f, k)
<1>12. n = [m EXCEPT !.free_stack = g] /\ g \in Seq(Entries)
  BY <1>10, <1>11
<1> HIDE DEF n, g
<1>13. n.free_stack = g /\ WithStack(n, p) /\ n.status = "running"
  BY <1>12, Zenon DEF WithStack
<1> QED
  BY <1>6, <1>10, <1>13 DEF n, g

\* The example's stack is made of fresh memory...
LEMMA StackMade ==
    ASSUME NEW kind \in {"stack", "spinlock"}, NEW m \in New(kind, Fresh, "malloc"), m.base # NULL
    PROVE  \E p \in Nat \ {0} : WithStack(m, p) /\ Len(m.free_stack) = num_entries
<1> USE AllocatorAssumption
<1> DEFINE all == num_entries * entry_size
           ids == [k \in 1 .. num_entries |-> k - 1]
<1>1. m \in stack_allocator_new(Fresh, "malloc") /\ Fresh.base = NULL /\ Fresh.heap = {}
  BY DEF New, spinlock_stack_allocator_new, Fresh
<1>2. PICK r \in Allocate("malloc", Fresh, all) :
             m = IF r[1].ptr = 0 THEN r[2]
                 ELSE [r[2] EXCEPT !.base = r[1].ptr, !.objects = @ \cup {"stack"},
                                   !.free_stack = ids]
  BY <1>1, Zenon DEF stack_allocator_new
<1>3. all \in Nat \ {0}
  <2>1. 0 \in Entries
    BY DEF Entries
  <2> QED
    BY <2>1, EntrySpans
<1>4. ids \in Seq(Entries) /\ Len(ids) = num_entries
  <2>1. ids \in [1 .. num_entries -> Entries]
    BY DEF Entries
  <2> QED
    BY <2>1
<1> HIDE DEF all, ids
<1>5. r # <<mem_blk(0, all), Fresh>>
  BY <1>1, <1>2 DEF mem_blk
<1>6. PICK p \in Nat \ {0} : r = <<mem_blk(p, all), [Fresh EXCEPT !.heap = {mem_blk(p, all)}]>>
  BY <1>1, <1>3, <1>5, FirstBlock
<1>7. r[1].ptr = p /\ r[2] = [Fresh EXCEPT !.heap = {mem_blk(p, all)}]
  BY <1>6 DEF mem_blk
<1>8. m = [heap |-> {mem_blk(p, all)}, maps |-> {}, objects |-> {"stack"}, base |-> p,
           free_stack |-> ids, status |-> "running"]
  BY <1>2, <1>7, Zenon DEF Fresh
<1> QED
  BY <1>4, <1>8 DEF WithStack, all

\* ... and leaves it so.
LEMMA StackFreed ==
    ASSUME NEW m, NEW p \in Nat \ {0}, WithStack(m, p), NEW kind \in {"stack", "spinlock"}
    PROVE  FreeAllocator(kind, m, "malloc") = Fresh
<1> DEFINE all == num_entries * entry_size
           n == Deallocate("malloc", m, mem_blk(p, all))
<1>1. m.base = p /\ m.heap = {mem_blk(p, all)}
  BY DEF WithStack
<1>2. FreeAllocator(kind, m, "malloc") = FreeObject("stack", [n EXCEPT !.base = NULL, !.free_stack = << >>])
  BY <1>1 DEF FreeAllocator, stack_allocator_free, spinlock_stack_allocator_free
<1> HIDE DEF all
<1>3. n = [m EXCEPT !.heap = {}]
  BY <1>1, LastBlock
<1> HIDE DEF n
<1>4. n = [heap |-> {}, maps |-> {}, objects |-> {"stack"}, base |-> p,
           free_stack |-> m.free_stack, status |-> "running"]
  BY <1>3, Zenon DEF WithStack
<1> QED
  BY <1>2, <1>4, Zenon DEF FreeObject, Fresh
\* What main does at a line, the lines of one kind together.
StackKinds == {"stack", "spinlock"}
Does(l) ==
    \/ l = 1 /\ main[l] = <<"allocate", "malloc", entry_size, "any">>
    \/ l = 2 /\ main[l] = <<"deallocate", "malloc">>
    \/ l \in {3, num_entries + 10} /\ \E a \in StackKinds : main[l] = <<"new", a>>
    \/ l \in {4, num_entries + 7} /\ \E a \in StackKinds, size \in Nat :
          (l = 4 => size > entry_size) /\ main[l] = <<"allocate", a, size, "null">>
    \/ /\ l \in (5 .. num_entries + 4) \cup {num_entries + 6, num_entries + 11}
       /\ \E a \in StackKinds : main[l] = <<"allocate", a, entry_size, "some">>
    \/ l \in {num_entries + 5, num_entries + 13} /\ \E a \in StackKinds : main[l] = <<"deallocate", a>>
    \/ l \in {num_entries + 8, num_entries + 14} /\ \E a \in StackKinds : main[l] = <<"free", a>>
    \/ l = num_entries + 9 /\ main[l] = <<"fallback", entry_size>>
    \/ l = num_entries + 12 /\ \E a \in StackKinds : main[l] = <<"owns", a>>
    \/ l \in {num_entries + 15, num_entries + 17, num_entries + 19}
       /\ \E size \in Nat \ {0} : main[l] = <<"allocate", "dma", size, "any">>
    \/ l \in DmaLines /\ main[l] = <<"deallocate", "dma">>

\* Every line is of one of these kinds.
LEMMA LineDoes == \A l \in 1 .. num_entries + 20 : Does(l)
<1> SUFFICES ASSUME NEW l \in 1 .. num_entries + 20 PROVE Does(l)
  OBVIOUS
<1> USE AllocatorAssumption
<1>1. \/ l = 1 \/ l = 2 \/ l \in {3, num_entries + 10} \/ l = 4 \/ l = num_entries + 7
      \/ l \in 5 .. num_entries + 4 \/ l = num_entries + 6 \/ l = num_entries + 11
      \/ l = num_entries + 5 \/ l = num_entries + 13 \/ l = num_entries + 8 \/ l = num_entries + 14
      \/ l = num_entries + 9 \/ l = num_entries + 12 \/ l \in DmaLines
      \/ l = num_entries + 15 \/ l = num_entries + 17 \/ l = num_entries + 19
  BY DEF DmaLines
<1>2. /\ entry_size \in Nat /\ 2 * entry_size \in Nat /\ 2 * entry_size > entry_size
      /\ 1 \in Nat \ {0} /\ 2 * HUGE \in Nat \ {0} /\ 4 * HUGE \in Nat \ {0}
      /\ num_entries + 7 # 4
  OBVIOUS
<1>3. "stack" \in StackKinds /\ "spinlock" \in StackKinds
  BY DEF StackKinds
<1>4. CASE l = 1 \/ l = 2 \/ l \in {3, num_entries + 10}
  BY <1>3, <1>4, Lines, Zenon DEF Does
<1>5. CASE l = 4 \/ l = num_entries + 7
  <2>1. CASE l = 4
    BY <1>2, <1>3, <2>1, Lines, Zenon DEF Does
  <2>2. CASE l = num_entries + 7
    BY <1>2, <1>3, <2>2, Lines, Zenon DEF Does
  <2> QED
    BY <1>5, <2>1, <2>2
<1>6. CASE l \in 5 .. num_entries + 4 \/ l = num_entries + 6 \/ l = num_entries + 11
  BY <1>3, <1>6, Lines, Zenon DEF Does
<1>7. CASE l = num_entries + 5 \/ l = num_entries + 13 \/ l = num_entries + 8 \/ l = num_entries + 14
  BY <1>3, <1>7, Lines, Zenon DEF Does
<1>8. CASE l = num_entries + 9 \/ l = num_entries + 12 \/ l \in DmaLines
  BY <1>3, <1>8, Lines, Zenon DEF Does, DmaLines
<1>9. CASE l = num_entries + 15 \/ l = num_entries + 17 \/ l = num_entries + 19
  BY <1>2, <1>9, Lines, Zenon DEF Does
<1> QED
  BY <1>1, <1>4, <1>5, <1>6, <1>7, <1>8, <1>9, Zenon

\* What there is at a line is one thing.
LEMMA LinesApart ==
    /\ 2 \notin CleanLines \cup DmaLines \cup StackLines
    /\ CleanLines \cap DmaLines = {} /\ CleanLines \cap StackLines = {} /\ DmaLines \cap StackLines = {}
    /\ CleanLines \subseteq 1 .. num_entries + 21 /\ DmaLines \subseteq 1 .. num_entries + 21
    /\ StackLines \subseteq 1 .. num_entries + 21
BY AllocatorAssumption DEF CleanLines, DmaLines, StackLines

\* A line after which nothing is left.
LEMMA ToClean ==
    ASSUME line' \in CleanLines, state' = Fresh
    PROVE  ExampleInv'
BY LinesApart DEF ExampleInv, Fresh

\* A line after which there is a stack.
LEMMA ToStack ==
    ASSUME line' \in StackLines, NEW p \in Nat \ {0}, WithStack(state', p),
           Len(state'.free_stack) = Left(line'), line' \in EntryLines => EntryAt(p, blk')
    PROVE  ExampleInv'
<1>1. state'.status = "running"
  BY DEF WithStack
<1> QED
  BY <1>1, LinesApart DEF ExampleInv

\* A line that ends the program for want of memory.
LEMMA ToEnd ==
    ASSUME line' \in 1 .. num_entries + 21, state'.status # "running", failed'
    PROVE  ExampleInv'
BY DEF ExampleInv

\* What holds at a line with a stack.
LEMMA AtStack ==
    ASSUME ExampleInv, state.status = "running", line \in StackLines
    PROVE  \E p \in Nat \ {0} :
                /\ WithStack(state, p) /\ Len(state.free_stack) = Left(line)
                /\ line \in EntryLines => EntryAt(p, blk)
BY DEF ExampleInv
\* Every line of main keeps the invariant.
LEMMA ExampleStep == ASSUME ExampleInv, ExampleNext PROVE ExampleInv'
<1> USE AllocatorAssumption
<1>1. line \in 1 .. num_entries + 20 /\ line' = line + 1 /\ state.status = "running"
  <2>1. \E kind : Line(kind)
    BY Zenon
    DEF ExampleNext, AllocateCall, DeallocateCall, NewCall, FreeCall, FallbackCall, OwnsCall
  <2>2. line <= Len(main) /\ line' = line + 1 /\ state.status = "running"
    BY <2>1 DEF Line
  <2>3. Len(main) = num_entries + 20 /\ line \in 1 .. num_entries + 21
    BY Lines DEF ExampleInv
  <2> QED
    BY <2>2, <2>3
<1>2. /\ main[line][1] = "allocate" => AllocateCall
      /\ main[line][1] = "deallocate" => DeallocateCall
      /\ main[line][1] = "new" => NewCall
      /\ main[line][1] = "free" => FreeCall
      /\ main[line][1] = "fallback" => FallbackCall
      /\ main[line][1] = "owns" => OwnsCall
  BY Zenon
  DEF ExampleNext, AllocateCall, DeallocateCall, NewCall, FreeCall, FallbackCall, OwnsCall, Line
<1>3. line' \in 1 .. num_entries + 21
  BY <1>1
<1>4. CASE line = 1 /\ main[line] = <<"allocate", "malloc", entry_size, "any">>
  <2>1. AllocateCall
    BY <1>2, <1>4
  <2>2. PICK r \in Allocate("malloc", state, entry_size) :
               blk' = r[1] /\ state' = r[2]
    BY <1>4, <2>1 DEF AllocateCall, Checked
  <2>3. state = Fresh /\ line' = 2
    BY <1>1, <1>4 DEF ExampleInv, CleanLines
  <2>4. state' = [Fresh EXCEPT !.heap = IF blk'.ptr = 0 THEN {} ELSE {blk'}]
    <3>1. Fresh.heap = {}
      BY DEF Fresh
    <3>2. CASE r = <<mem_blk(0, entry_size), Fresh>>
      <4>1. Fresh = [Fresh EXCEPT !.heap = {}]
        BY FreshAgain
      <4>2. blk'.ptr = 0 /\ state' = Fresh
        BY <2>2, <3>2 DEF mem_blk
      <4> QED
        BY <4>1, <4>2
    <3>3. CASE \E p \in Nat \ {0} : r = <<mem_blk(p, entry_size), [Fresh EXCEPT !.heap = {mem_blk(p, entry_size)}]>>
      BY <2>2, <3>3 DEF mem_blk
    <3> QED
      BY <2>2, <2>3, <3>1, <3>2, <3>3, FirstBlock
  <2>5. state'.status = "running"
    BY <2>4 DEF Fresh
  <2> QED
    BY <1>3, <2>3, <2>4, <2>5, LinesApart DEF ExampleInv
<1>5. CASE line = 2 /\ main[line] = <<"deallocate", "malloc">>
  <2>1. DeallocateCall
    BY <1>2, <1>5
  <2>2. state' = mallocator_deallocate(state, blk)
    BY <1>5, <2>1 DEF DeallocateCall, Deallocate
  <2>3. state = [Fresh EXCEPT !.heap = IF blk.ptr = 0 THEN {} ELSE {blk}]
    BY <1>1, <1>5 DEF ExampleInv
  <2>4. state' = Fresh
    <3>1. CASE blk.ptr = 0
      BY <2>2, <2>3, <3>1, Zenon DEF mallocator_deallocate, Fresh
    <3>2. CASE blk.ptr # 0
      <4>1. state.heap = {blk}
        BY <2>3, <3>2 DEF Fresh
      <4>2. state' = [state EXCEPT !.heap = {b \in @ : b.ptr # blk.ptr}]
        BY <2>2, <3>2, <4>1 DEF mallocator_deallocate
      <4>3. {b \in state.heap : b.ptr # blk.ptr} = {}
        BY <4>1
      <4>4. state' = [state EXCEPT !.heap = {}]
        BY <4>2, <4>3
      <4> QED
        BY <2>3, <4>4, Zenon DEF Fresh
    <3> QED
      BY <3>1, <3>2
  <2>5. line' \in CleanLines
    BY <1>1, <1>5 DEF CleanLines
  <2> QED
    BY <2>4, <2>5, ToClean
<1>6. ASSUME line \in {3, num_entries + 10}, NEW a \in StackKinds, main[line] = <<"new", a>>
      PROVE  ExampleInv'
  <2>1. NewCall
    BY <1>2, <1>6
  <2>2. PICK m \in New(a, state, "malloc") :
               /\ state' = IF m.base = NULL THEN Ends(m, "undefined") ELSE m
               /\ failed' = (failed \/ m.base = NULL)
    BY <1>6, <2>1 DEF NewCall
  <2>3. state = Fresh
    BY <1>1, <1>6 DEF ExampleInv, CleanLines
  <2>4. CASE m.base = NULL
    <3>1. failed'
      BY <2>2, <2>4, Zenon
    <3>2. m \in stack_allocator_new(Fresh, "malloc")
      BY <2>2, <2>3 DEF StackKinds, New, spinlock_stack_allocator_new
    <3>3. "status" \in DOMAIN m
      <4>1. CASE m = Fresh
        BY <4>1, Zenon DEF Fresh
      <4>2. CASE m # Fresh
        <5> DEFINE all == num_entries * entry_size
        <5>1. PICK r \in Allocate("malloc", Fresh, all) :
                 m = IF r[1].ptr = 0 THEN r[2]
                     ELSE [r[2] EXCEPT !.base = r[1].ptr, !.objects = @ \cup {"stack"},
                                       !.free_stack = [k \in 1 .. num_entries |-> k - 1]]
          BY <3>2, <4>2, Zenon DEF stack_allocator_new
        <5>2. all \in Nat \ {0} /\ Fresh.heap = {}
          <6>1. 0 \in Entries
            BY DEF Entries
          <6> QED
            BY <6>1, EntrySpans DEF Fresh
        <5> HIDE DEF all
        <5>3. CASE r = <<mem_blk(0, all), Fresh>>
          BY <4>2, <5>1, <5>3 DEF mem_blk
        <5>4. CASE \E p \in Nat \ {0} : r = <<mem_blk(p, all), [Fresh EXCEPT !.heap = {mem_blk(p, all)}]>>
          BY <5>1, <5>4 DEF mem_blk, Fresh
        <5> QED
          BY <5>2, <5>3, <5>4, FirstBlock
      <4> QED
        BY <4>1, <4>2
    <3>4. state'.status = "undefined"
      BY <2>2, <2>4, <3>3 DEF Ends
    <3> QED
      BY <1>3, <3>1, <3>4, ToEnd
  <2>5. CASE m.base # NULL
    <3>1. PICK p \in Nat \ {0} : WithStack(m, p) /\ Len(m.free_stack) = num_entries
      BY <2>2, <2>3, <2>5, StackMade DEF StackKinds
    <3>2. state' = m
      BY <2>2, <2>5
    <3>3. line' \in StackLines /\ line' \notin EntryLines /\ Left(line') = num_entries
      BY <1>1, <1>6 DEF StackLines, EntryLines, Left
    <3> QED
      BY <3>1, <3>2, <3>3, ToStack
  <2> QED
    BY <2>4, <2>5
<1>7. ASSUME line \in {4, num_entries + 7}, NEW a \in StackKinds, NEW size \in Nat,
             line = 4 => size > entry_size, main[line] = <<"allocate", a, size, "null">>
      PROVE  ExampleInv'
  <2>1. AllocateCall
    BY <1>2, <1>7
  <2>2. PICK r \in Allocate(a, state, size) : Checked(r, "null")
    BY <1>7, <2>1 DEF AllocateCall
  <2>3. line \in StackLines /\ line' \in StackLines /\ line' \notin EntryLines
    BY <1>1, <1>7 DEF StackLines, EntryLines
  <2>4. PICK p \in Nat \ {0} : WithStack(state, p) /\ Len(state.free_stack) = Left(line)
    BY <1>1, <2>3, AtStack
  <2>5. (Left(line) = 0 \/ size > entry_size) /\ Left(line') = Left(line)
    BY <1>1, <1>7 DEF Left
  <2>6. r = <<mem_blk(0, 0), state>>
    BY <2>2, <2>4, <2>5, StackGives DEF StackKinds
  <2>7. state' = state
    BY <2>2, <2>6, Zenon DEF Checked, mem_blk
  <2> QED
    BY <2>3, <2>4, <2>5, <2>7, ToStack
<1>8. ASSUME line \in (5 .. num_entries + 4) \cup {num_entries + 6, num_entries + 11},
             NEW a \in StackKinds, main[line] = <<"allocate", a, entry_size, "some">>
      PROVE  ExampleInv'
  <2>1. AllocateCall
    BY <1>2, <1>8
  <2>2. PICK r \in Allocate(a, state, entry_size) : Checked(r, "some")
    <3>1. main[line][2] = a /\ main[line][3] = entry_size /\ main[line][4] = "some"
      BY <1>8
    <3> QED
      BY <2>1, <3>1, Zenon DEF AllocateCall
  <2>3. line \in StackLines /\ line' \in StackLines
    BY <1>1, <1>8 DEF StackLines
  <2>4. PICK p \in Nat \ {0} : WithStack(state, p) /\ Len(state.free_stack) = Left(line)
    BY <1>1, <2>3, AtStack
  <2>5. Left(line) > 0 /\ Left(line') = Left(line) - 1
    BY <1>1, <1>8 DEF Left
  <2>6. /\ EntryAt(p, r[1]) /\ r[1].ptr # 0
        /\ WithStack(r[2], p) /\ Len(r[2].free_stack) = Len(state.free_stack) - 1
    <3>1. entry_size \in Nat /\ a \in {"stack", "spinlock"} /\ Len(state.free_stack) > 0
      BY <2>4, <2>5 DEF StackKinds
    <3> QED
      BY <2>2, <2>4, <3>1, StackGives, Zenon
  <2>7. state' = r[2] /\ blk' = r[1]
    BY <2>2, <2>6, Zenon DEF Checked
  <2>8. Len(state'.free_stack) = Left(line')
    BY <2>4, <2>5, <2>6, <2>7, Zenon
  <2> QED
    BY <2>3, <2>6, <2>7, <2>8, ToStack, Zenon
<1>9. ASSUME line \in {num_entries + 5, num_entries + 13}, NEW a \in StackKinds,
             main[line] = <<"deallocate", a>>
      PROVE  ExampleInv'
  <2>1. DeallocateCall
    BY <1>2, <1>9
  <2>2. state' = Deallocate(a, state, blk)
    BY <1>9, <2>1 DEF DeallocateCall
  <2>3. line \in StackLines /\ line' \in StackLines /\ line \in EntryLines /\ line' \notin EntryLines
    BY <1>1, <1>9 DEF StackLines, EntryLines
  <2>4. PICK p \in Nat \ {0} :
               WithStack(state, p) /\ Len(state.free_stack) = Left(line) /\ EntryAt(p, blk)
    BY <1>1, <2>3, AtStack
  <2>5. Left(line') = Left(line) + 1
    BY <1>1, <1>9 DEF Left
  <2>6. WithStack(state', p) /\ Len(state'.free_stack) = Len(state.free_stack) + 1
    BY <2>2, <2>4, StackTakes DEF StackKinds
  <2>7. Len(state'.free_stack) = Left(line')
    BY <2>4, <2>5, <2>6
  <2> QED
    BY <2>3, <2>6, <2>7, ToStack
<1>10. ASSUME line \in {num_entries + 8, num_entries + 14}, NEW a \in StackKinds,
              main[line] = <<"free", a>>
       PROVE  ExampleInv'
  <2>1. FreeCall
    BY <1>2, <1>10
  <2>2. state' = FreeAllocator(a, state, "malloc")
    BY <1>10, <2>1 DEF FreeCall
  <2>3. line \in StackLines /\ line' \in CleanLines
    BY <1>1, <1>10 DEF StackLines, CleanLines
  <2>4. PICK p \in Nat \ {0} : WithStack(state, p)
    BY <1>1, <2>3, AtStack
  <2>5. state' = Fresh
    BY <2>2, <2>4, StackFreed DEF StackKinds
  <2> QED
    BY <2>3, <2>5, ToClean
<1>11. CASE line = num_entries + 9 /\ main[line] = <<"fallback", entry_size>>
  <2> DEFINE pair == <<"null", "malloc">>
  <2>1. FallbackCall
    BY <1>2, <1>11
  <2>2. state = Fresh /\ line' \in CleanLines
    BY <1>1, <1>11 DEF ExampleInv, CleanLines
  <2>0. main[line][2] = entry_size
    BY <1>11
  <2>3. PICK m \in fallback_allocator_new(Fresh) :
           \E r \in IF m.status = "running" THEN fallback_allocator_allocate(pair, m, entry_size)
                   ELSE {<<mem_blk(0, 0), m>>} :
            /\ state' = IF r[1].ptr = 0 THEN Ends(r[2], "error")
                      ELSE fallback_allocator_free(fallback_allocator_deallocate(pair, r[2], r[1]))
            /\ failed' = (failed \/ r[1].ptr = 0)
    BY <2>0, <2>1, <2>2, Zenon DEF FallbackCall
  <2>4. PICK r \in IF m.status = "running" THEN fallback_allocator_allocate(pair, m, entry_size)
                   ELSE {<<mem_blk(0, 0), m>>} :
            /\ state' = IF r[1].ptr = 0 THEN Ends(r[2], "error")
                      ELSE fallback_allocator_free(fallback_allocator_deallocate(pair, r[2], r[1]))
            /\ failed' = (failed \/ r[1].ptr = 0)
    BY <2>3
  <2> DEFINE w == [Fresh EXCEPT !.objects = {"fallback"}]
  <2>5. m = w \/ m = [Fresh EXCEPT !.status = "crashed"]
    BY <2>3, Zenon DEF fallback_allocator_new, NewObject, Ends, Fresh
  <2>6. CASE m = [Fresh EXCEPT !.status = "crashed"]
    <3>1. r = <<mem_blk(0, 0), m>>
      BY <2>4, <2>6, Zenon DEF Fresh
    <3>2. state' = Ends(m, "error") /\ failed'
      BY <2>4, <3>1, Zenon DEF mem_blk
    <3>3. state'.status # "running"
      BY <2>6, <3>2 DEF Ends, Fresh
    <3> QED
      BY <1>3, <3>2, <3>3, ToEnd
  <2>7. CASE m = w
    <3>1. m.heap = {} /\ m.status = "running"
      BY <2>7 DEF Fresh
    <3>2. r \in fallback_allocator_allocate(pair, m, entry_size)
      BY <2>4, <3>1, Zenon
    <3>3. r \in Allocate("malloc", m, entry_size)
      <4>1. PICK q \in null_allocator_allocate(m, entry_size) :
                   r \in IF q[1].ptr # 0 THEN {q} ELSE Allocate("malloc", q[2], entry_size)
        BY <3>2 DEF fallback_allocator_allocate, Allocate
      <4>2. q[1].ptr = 0 /\ q[2] = m
        BY <4>1 DEF null_allocator_allocate, mem_blk
      <4> QED
        BY <4>1, <4>2
    <3>4. CASE r = <<mem_blk(0, entry_size), m>>
      <4>1. state' = Ends(m, "error") /\ failed'
        BY <2>4, <3>4, Zenon DEF mem_blk
      <4>2. state'.status # "running"
        BY <2>7, <4>1 DEF Ends, Fresh
      <4> QED
        BY <1>3, <4>1, <4>2, ToEnd
    <3>5. CASE \E p \in Nat \ {0} :
                 r = <<mem_blk(p, entry_size), [m EXCEPT !.heap = {mem_blk(p, entry_size)}]>>
      <4>1. PICK p \in Nat \ {0} :
                 r = <<mem_blk(p, entry_size), [m EXCEPT !.heap = {mem_blk(p, entry_size)}]>>
        BY <3>5, Zenon
      <4>2. r[1] = mem_blk(p, entry_size) /\ r[1].ptr # 0 /\ r[2].heap = {mem_blk(p, entry_size)}
        BY <2>7, <4>1, Zenon DEF mem_blk, Fresh
      <4>3. fallback_allocator_deallocate(pair, r[2], r[1]) = Deallocate("malloc", r[2], r[1])
        BY DEF fallback_allocator_deallocate, Owns, null_allocator_owns
      <4>4. Deallocate("malloc", r[2], r[1]) = [r[2] EXCEPT !.heap = {}]
        <5>1. Deallocate("malloc", r[2], mem_blk(p, entry_size)) = [r[2] EXCEPT !.heap = {}]
          BY <4>2, LastBlock, Zenon
        <5> QED
          BY <4>2, <5>1
      <4>5. state' = fallback_allocator_free([r[2] EXCEPT !.heap = {}])
        BY <2>4, <4>2, <4>3, <4>4
      <4>6. r[2] = [w EXCEPT !.heap = {mem_blk(p, entry_size)}]
        BY <2>7, <4>1
      <4>7. state' = Fresh
        BY <4>5, <4>6, Zenon DEF fallback_allocator_free, FreeObject, Fresh
      <4> QED
        BY <2>2, <4>7, ToClean
    <3> QED
      BY <3>1, <3>3, <3>4, <3>5, FirstBlock
  <2> QED
    BY <2>5, <2>6, <2>7
<1>12. ASSUME line = num_entries + 12, NEW a \in StackKinds, main[line] = <<"owns", a>>
       PROVE  ExampleInv'
  <2>1. OwnsCall
    BY <1>2, <1>12
  <2>2. line \in StackLines /\ line' \in StackLines /\ line \in EntryLines
    BY <1>1, <1>12 DEF StackLines, EntryLines
  <2>3. PICK p \in Nat \ {0} :
               WithStack(state, p) /\ Len(state.free_stack) = Left(line) /\ EntryAt(p, blk)
    BY <1>1, <2>2, AtStack
  <2>4. Owns(a, state, blk)
    BY <2>3, StackTakes DEF StackKinds
  <2>5. state' = state /\ blk' = blk
    BY <1>12, <2>1, <2>4 DEF OwnsCall
  <2>6. Left(line') = Left(line)
    BY <1>1, <1>12 DEF Left
  <2> QED
    BY <2>2, <2>3, <2>5, <2>6, ToStack
<1>13. ASSUME line \in {num_entries + 15, num_entries + 17, num_entries + 19},
              NEW size \in Nat \ {0}, main[line] = <<"allocate", "dma", size, "any">>
       PROVE  ExampleInv'
  <2>1. AllocateCall
    BY <1>2, <1>13
  <2>2. PICK r \in dma_allocator_allocate(state, size) :
               /\ blk' = r[1] /\ state' = r[2]
               /\ failed' = (failed \/ r[1].ptr = 0)
    BY <1>13, <2>1 DEF AllocateCall, Checked, Allocate
  <2>3. state = Fresh /\ line' \in DmaLines
    <3>1. line \in CleanLines /\ line' \in DmaLines
      BY <1>1, <1>13 DEF CleanLines, DmaLines
    <3> QED
      BY <1>1, <3>1 DEF ExampleInv
  <2>4. CASE r = <<mem_blk(0, 0), Ends(Fresh, "exited")>>
    <3>1. failed'
      BY <2>2, <2>4, Zenon DEF mem_blk
    <3>2. state'.status # "running"
      BY <2>2, <2>4 DEF Ends, Fresh
    <3> QED
      BY <1>3, <3>1, <3>2, ToEnd
  <2>5. CASE r = <<mem_blk(ARENA + 1, RoundUp(size)),
                   [Fresh EXCEPT !.maps = {mem_blk(ARENA + 1, RoundUp(size))}]>>
    <3>1. state' = [Fresh EXCEPT !.maps = {blk'}]
      BY <2>2, <2>5
    <3>2. state'.status = "running"
      BY <3>1 DEF Fresh
    <3> QED
      BY <1>3, <2>3, <3>1, <3>2, LinesApart DEF ExampleInv
  <2> QED
    BY <2>2, <2>3, <2>4, <2>5 DEF dma_allocator_allocate
<1>14. CASE line \in DmaLines /\ main[line] = <<"deallocate", "dma">>
  <2>1. DeallocateCall
    BY <1>2, <1>14
  <2>2. state' = dma_allocator_deallocate(state, blk)
    BY <1>14, <2>1 DEF DeallocateCall, Deallocate
  <2>3. state = [Fresh EXCEPT !.maps = {blk}] /\ line' \in CleanLines
    <3>1. line' \in CleanLines
      BY <1>1, <1>14 DEF DmaLines, CleanLines
    <3> QED
      BY <1>1, <1>14, <3>1 DEF ExampleInv
  <2>4. state' = Fresh
    BY <2>2, <2>3, Zenon DEF dma_allocator_deallocate, Fresh
  <2> QED
    BY <2>3, <2>4, ToClean
<1>15. Does(line)
  BY <1>1, LineDoes
<1>16. CASE \/ line \in {3, num_entries + 10} /\ \E a \in StackKinds : main[line] = <<"new", a>>
            \/ line \in {4, num_entries + 7} /\ \E a \in StackKinds, size \in Nat :
                  (line = 4 => size > entry_size) /\ main[line] = <<"allocate", a, size, "null">>
            \/ /\ line \in (5 .. num_entries + 4) \cup {num_entries + 6, num_entries + 11}
               /\ \E a \in StackKinds : main[line] = <<"allocate", a, entry_size, "some">>
  BY <1>6, <1>7, <1>8, <1>16
<1>17. CASE \/ /\ line \in {num_entries + 5, num_entries + 13}
               /\ \E a \in StackKinds : main[line] = <<"deallocate", a>>
            \/ /\ line \in {num_entries + 8, num_entries + 14}
               /\ \E a \in StackKinds : main[line] = <<"free", a>>
            \/ line = num_entries + 12 /\ \E a \in StackKinds : main[line] = <<"owns", a>>
            \/ /\ line \in {num_entries + 15, num_entries + 17, num_entries + 19}
               /\ \E size \in Nat \ {0} : main[line] = <<"allocate", "dma", size, "any">>
  BY <1>9, <1>10, <1>12, <1>13, <1>17
<1> QED
  BY <1>4, <1>5, <1>11, <1>14, <1>15, <1>16, <1>17 DEF Does

\* The example holds no memory at first.
LEMMA ExampleInitInv == ExampleInit => ExampleInv
<1> SUFFICES ASSUME ExampleInit PROVE ExampleInv
  OBVIOUS
<1>1. line = 1 /\ 1 \in CleanLines /\ state = Fresh /\ state.status = "running"
  BY DEF ExampleInit, CleanLines, Fresh
<1> QED
  BY <1>1, LinesApart DEF ExampleInv

\* allocator-example.c ends without a complaint for every number and size of
\* entries, unless malloc or mmap had no memory for it.
THEOREM ExampleChecksPass == ExampleSpec => []ChecksPass
<1>1. ExampleInv /\ [ExampleNext]_examplevars => ExampleInv'
  <2> SUFFICES ASSUME ExampleInv, [ExampleNext]_examplevars PROVE ExampleInv'
    OBVIOUS
  <2>1. CASE UNCHANGED examplevars
    BY <2>1 DEF examplevars, ExampleInv
  <2> QED
    BY <2>1, ExampleStep
<1>2. ExampleInv => ChecksPass
  BY DEF ExampleInv, ChecksPass
<1> QED
  BY <1>1, <1>2, ExampleInitInv, PTL DEF ExampleSpec
=============================================================================
