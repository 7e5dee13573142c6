------------------------ MODULE SpinlockStackProofs ------------------------
(***************************************************************************)
(* The thread-safe stack allocator for any set of threads and any stack.   *)
(* The spinlock excludes: MutualExclusion is inductive once the types of   *)
(* the lock word and of the threads' positions are added to it.  Every     *)
(* entry is in one place, unless somebody returns a foreign block whose id *)
(* is num_entries, which the range test lets through: OnePlace needs what  *)
(* the thread with the lock has read of the stack (InCall), and that the   *)
(* stack has room for an entry that is not on it, a counting argument.     *)
(* From the same invariant every step is one of AtomicStack or none.       *)
(***************************************************************************)
EXTENDS SpinlockStack, TLAPS

Labels == AllocLabels \cup FreeLabels \cup {"idle", "tas", "spin", "unlock"}

LockInv ==
    /\ locked \in {0, 1}
    /\ pc \in [Threads -> Labels]
    /\ MutualExclusion

\* A step that moves one thread within, or outside, the critical section and
\* leaves the lock word alone preserves the invariant.
LEMMA LocalMove ==
    ASSUME LockInv, NEW t \in Threads, NEW label \in Labels,
           Goto(t, label), UNCHANGED locked,
           Critical(t) <=> label \notin {"idle", "tas", "spin"}
    PROVE  LockInv'
<1>1. pc' \in [Threads -> Labels]
  BY DEF LockInv, Goto
<1>2. \A u \in Threads : Critical(u)' <=> Critical(u)
  BY DEF LockInv, Goto, Critical, Labels, AllocLabels, FreeLabels
<1>3. MutualExclusion'
  BY <1>2 DEF LockInv, MutualExclusion
<1> QED
  BY <1>1, <1>3 DEF LockInv

\* The initial state satisfies the invariant: nobody has the lock.
LEMMA InitLockInv == Init => LockInv
BY DEF Init, LockInv, MutualExclusion, Critical, Labels, AllocLabels, FreeLabels

\* Every step preserves the invariant.
LEMMA NextLockInv == LockInv /\ [Next]_vars => LockInv'
<1> SUFFICES ASSUME LockInv, [Next]_vars PROVE LockInv'
  OBVIOUS
<1> USE DEF shared
<1>1. CASE UNCHANGED vars
  BY <1>1 DEF vars, LockInv, MutualExclusion, Critical
<1>2. ASSUME NEW t \in Threads, Call(t) PROVE LockInv'
  <2> USE DEF At, Critical, Labels, AllocLabels, FreeLabels
  <2>1. CASE Goto(t, "tas") /\ pc[t] = "idle" /\ UNCHANGED locked
    BY <2>1, LocalMove
  <2>2. CASE UNCHANGED <<pc, locked>>
    BY <2>2 DEF LockInv, MutualExclusion
  <2> QED
    BY <1>2, <2>1, <2>2 DEF Call, CallAllocate, CallDeallocate, CallForeign
<1>3. ASSUME NEW t \in Threads, TestAndSet(t) PROVE LockInv'
  <2>1. CASE locked = 1
    BY <1>3, <2>1, LocalMove
       DEF TestAndSet, At, Critical, Labels, AllocLabels, FreeLabels
  <2>2. CASE locked = 0
    <3>1. Goto(t, Start(t)) /\ locked' = 1 /\ Start(t) \in {"fetch", "test"}
      BY <1>3, <2>2 DEF TestAndSet, Start
    <3>2. \A u \in Threads : ~Critical(u)
      BY <2>2 DEF LockInv, MutualExclusion
    <3>3. \A u \in Threads : Critical(u)' <=> u = t
      BY <3>1, <3>2 DEF LockInv, Goto, Critical, AllocLabels, FreeLabels
    <3>4. pc' \in [Threads -> Labels]
      BY <3>1 DEF LockInv, Goto, Labels, AllocLabels, FreeLabels
    <3> QED
      BY <3>1, <3>3, <3>4 DEF LockInv, MutualExclusion
  <2> QED
    BY <2>1, <2>2 DEF LockInv
<1>4. ASSUME NEW t \in Threads,
             SpinEnds(t) \/ AllocTest(t) \/ AllocPop(t) \/ AllocLoad(t)
                \/ FreeFetch(t) \/ FreePush(t) \/ FreeStore(t)
      PROVE  LockInv'
  <2>1. PICK label \in Labels :
            /\ Goto(t, label)
            /\ UNCHANGED locked
            /\ Critical(t) <=> label \notin {"idle", "tas", "spin"}
    BY <1>4 DEF SpinEnds, AllocTest, AllocPop, AllocLoad, FreeFetch, FreePush,
                FreeStore, At, Critical, Labels, AllocLabels, FreeLabels
  <2> QED
    BY <2>1, LocalMove
<1>5. ASSUME NEW t \in Threads, Unlock(t) PROVE LockInv'
  <2>1. Critical(t) /\ Goto(t, "idle") /\ locked' = 0
    BY <1>5 DEF Unlock, At, Critical
  <2>2. \A u \in Threads : Critical(u) => u = t
    BY <2>1 DEF LockInv, MutualExclusion
  <2>3. \A u \in Threads : ~Critical(u)'
    BY <2>1, <2>2 DEF LockInv, Goto, Critical, AllocLabels, FreeLabels
  <2>4. pc' \in [Threads -> Labels]
    BY <2>1 DEF LockInv, Goto, Labels
  <2> QED
    BY <2>1, <2>3, <2>4 DEF LockInv, MutualExclusion
<1> QED
  BY <1>1, <1>2, <1>3, <1>4, <1>5 DEF Next, Step

\* At most one thread is between rte_spinlock_lock and rte_spinlock_unlock, and
\* the lock word is 1 exactly while one is.
THEOREM LockExcludes == Spec => []MutualExclusion
<1>1. LockInv => MutualExclusion
  BY DEF LockInv
<1> QED
  BY <1>1, InitLockInv, NextLockInv, PTL DEF Spec
-----------------------------------------------------------------------------
\* What a call has done so far, by the place it is at.
Knows(t) ==
    /\ pc[t] = "idle" => op[t] = "none" /\ blk[t] = NULL
    /\ pc[t] # "idle" => op[t] # "none"
    /\ pc[t] \in AllocLabels \cup {"tas", "spin"} /\ op[t] # "deallocate" => blk[t] = NULL
    /\ pc[t] \in AllocLabels => op[t] # "deallocate"
    /\ pc[t] \in FreeLabels => op[t] = "deallocate"
    /\ op[t] = "deallocate" => blk[t] \in Entries
    /\ pc[t] = "pop" => top[t] = free_stack_top /\ free_stack_top > 0
    /\ pc[t] = "load" => top[t] = free_stack_top + 1 /\ free_stack_top < num_entries
    /\ pc[t] = "push" => top[t] = free_stack_top
    /\ pc[t] = "store" => top[t] = free_stack_top - 1 /\ free_stack_top > 0

InCall == \A t \in Threads : Knows(t)

StackInv == TypeOK /\ LockInv /\ InCall /\ OnePlace

\* The mistake the range test of deallocate misses is not made.
NoMistake == num_entries \notin Foreign

\* An array with a top, as the sequence of its valid part, and one entry less.
LEMMA ArrayPop ==
    ASSUME NEW n \in Nat, NEW S, NEW f, \A k \in 0 .. n : f[k] \in S
    PROVE  LET s == [k \in 1 .. n + 1 |-> f[k - 1]]
           IN  /\ s # << >> /\ Len(s) = n + 1 /\ s[n + 1] = f[n]
               /\ [k \in 1 .. n |-> f[k - 1]] = SubSeq(s, 1, Len(s) - 1)
OBVIOUS

\* The same with one entry more.
LEMMA ArrayPush ==
    ASSUME NEW n \in Nat, NEW S, NEW f, NEW g, NEW b \in S,
           \A k \in 0 .. n - 1 : f[k] \in S /\ g[k] = f[k], g[n] = b
    PROVE  [k \in 1 .. n + 1 |-> g[k - 1]] = Append([k \in 1 .. n |-> f[k - 1]], b)
OBVIOUS

\* OnePlace, and what the atomic stack sees, do not depend on the lock and on
\* where the threads are.
LEMMA SamePlaces ==
    ASSUME TypeOK, OnePlace, Depth' = Depth, owned' = owned,
           \A k \in 0 .. Depth - 1 : free_stack'[k] = free_stack[k],
           \A t \in Threads : InHand(t)' = InHand(t)
    PROVE  OnePlace' /\ UNCHANGED Atomic!vars
<1> DEFINE OnStack == {free_stack[k] : k \in 0 .. Depth - 1}
           Holding == {t \in Threads : InHand(t) # NULL}
           InHands == {InHand(t) : t \in Holding}
<1>1. OnStack' = OnStack /\ Holding' = Holding /\ InHands' = InHands
  OBVIOUS
<1>2. [k \in 1 .. Depth |-> free_stack[k - 1]]' = [k \in 1 .. Depth |-> free_stack[k - 1]]
  <2>1. Depth \in Int
    BY SpinlockStackAssumption DEF Depth, TypeOK
  <2> QED
    BY <2>1
<1>3. [t \in Threads |-> InHand(t)]' = [t \in Threads |-> InHand(t)]
  OBVIOUS
<1> QED
  BY <1>1, <1>2, <1>3, Zenon DEF OnePlace, Atomic!vars

\* While no thread stores its entry all of the stack is valid.
LEMMA DepthFacts ==
    ASSUME TypeOK
    PROVE  /\ (\A t \in Threads : pc[t] # "store") => Depth = free_stack_top
           /\ \A t \in Threads : pc[t] = "store" => Depth = free_stack_top - 1
BY DEF Depth, Storing, TypeOK

\* A thread in the critical section is alone there.
LEMMA Alone ==
    ASSUME StackInv, NEW t \in Threads, Critical(t)
    PROVE  \A u \in Threads : u # t => pc[u] \in {"idle", "tas", "spin"}
BY DEF StackInv, LockInv, MutualExclusion, Critical, Labels

\* What holds of a thread that does not move depends on the stack only inside the
\* critical section.
LEMMA OthersKnow ==
    ASSUME InCall, NEW t \in Threads, Knows(t)',
           \A u \in Threads : u # t =>
               /\ pc'[u] = pc[u] /\ op'[u] = op[u] /\ blk'[u] = blk[u]
               /\ \/ pc[u] \in {"idle", "tas", "spin"}
                  \/ top'[u] = top[u] /\ free_stack_top' = free_stack_top
    PROVE  InCall'
<1> SUFFICES ASSUME NEW u \in Threads, u # t PROVE Knows(u)'
  BY Zenon DEF InCall
<1>1. Knows(u)
  BY DEF InCall
<1> QED
  BY <1>1, Zenon DEF Knows, AllocLabels, FreeLabels

\* Nobody is in the middle of a store before and after a step that is none.
LEMMA SameDepth ==
    ASSUME TypeOK, NEW t \in Threads, NEW label, Goto(t, label), label # "store",
           pc[t] # "store", UNCHANGED free_stack_top
    PROVE  Depth' = Depth
<1>1. \A u \in Threads : pc'[u] = "store" <=> pc[u] = "store"
  BY DEF TypeOK, Goto
<1> QED
  BY <1>1 DEF Depth, Storing

\* The steps that move no entry and leave the stack alone.
LEMMA QuietSteps ==
    ASSUME StackInv, NEW t \in Threads,
           CallAllocate(t) \/ TestAndSet(t) \/ SpinEnds(t) \/ AllocTest(t) \/ FreeFetch(t)
    PROVE  TypeOK' /\ InCall' /\ OnePlace' /\ UNCHANGED Atomic!vars
<1> USE SpinlockStackAssumption DEF shared
<1>0. /\ TypeOK /\ LockInv /\ InCall /\ OnePlace
      /\ UNCHANGED <<free_stack, free_stack_top, blk, owned, exited>>
  BY Zenon DEF StackInv, CallAllocate, TestAndSet, SpinEnds, AllocTest, FreeFetch
<1>1. CASE CallAllocate(t)
  <2>1. /\ pc[t] = "idle" /\ pc' = [pc EXCEPT ![t] = "tas"] /\ UNCHANGED <<locked, top>>
        /\ \E size \in {"allocate", "allocate_big"} : op' = [op EXCEPT ![t] = size]
    BY <1>1, Zenon DEF CallAllocate, At, Goto
  <2>2. TypeOK'
    BY <1>0, <2>1 DEF TypeOK
  <2>3. InCall'
    <3>1. Knows(t)
      BY <1>0 DEF InCall
    <3>2. Knows(t)'
      BY <1>0, <2>1, <3>1, Zenon DEF TypeOK, Knows, AllocLabels, FreeLabels
    <3>3. \A u \in Threads : u # t =>
              /\ pc'[u] = pc[u] /\ op'[u] = op[u] /\ blk'[u] = blk[u]
              /\ top'[u] = top[u] /\ free_stack_top' = free_stack_top
      BY <1>0, <2>1 DEF TypeOK
    <3> QED
      BY <1>0, <3>2, <3>3, OthersKnow, Zenon
  <2>4. \A u \in Threads : InHand(u)' = InHand(u)
    BY <1>0, <2>1 DEF TypeOK, InHand, InCall, Knows
  <2>5. Depth' = Depth
    BY <1>0, <2>1, SameDepth, Zenon DEF Goto
  <2> QED
    BY <1>0, <2>2, <2>3, <2>4, <2>5, SamePlaces
<1>2. CASE TestAndSet(t) \/ SpinEnds(t)
  <2>1. PICK label \in {"fetch", "test", "spin", "tas"} :
            /\ pc[t] \in {"tas", "spin"} /\ pc' = [pc EXCEPT ![t] = label]
            /\ UNCHANGED <<op, top>> /\ locked' \in {0, 1}
            /\ label = "fetch" => op[t] = "deallocate"
            /\ label = "test" => op[t] # "deallocate"
    BY <1>0, <1>2 DEF TestAndSet, SpinEnds, At, Goto, Start, TypeOK
  <2>2. TypeOK'
    BY <1>0, <2>1 DEF TypeOK, AllocLabels, FreeLabels
  <2>3. InCall'
    <3>1. Knows(t)
      BY <1>0 DEF InCall
    <3>2. Knows(t)'
      BY <1>0, <2>1, <3>1, Zenon DEF TypeOK, Knows, AllocLabels, FreeLabels
    <3>3. \A u \in Threads : u # t =>
              /\ pc'[u] = pc[u] /\ op'[u] = op[u] /\ blk'[u] = blk[u]
              /\ top'[u] = top[u] /\ free_stack_top' = free_stack_top
      BY <1>0, <2>1 DEF TypeOK
    <3> QED
      BY <1>0, <3>2, <3>3, OthersKnow, Zenon
  <2>4. \A u \in Threads : InHand(u)' = InHand(u)
    BY <1>0, <2>1 DEF TypeOK, InHand, InCall, Knows
  <2>5. Depth' = Depth
    BY <1>0, <2>1, SameDepth, Zenon DEF Goto
  <2> QED
    BY <1>0, <2>2, <2>3, <2>4, <2>5, SamePlaces
<1>3. CASE AllocTest(t) \/ FreeFetch(t)
  <2>1. PICK label \in {"unlock", "pop", "push"} :
            /\ pc[t] \in {"test", "fetch"} /\ pc' = [pc EXCEPT ![t] = label]
            /\ top' = [top EXCEPT ![t] = free_stack_top] /\ UNCHANGED <<op, locked>>
            /\ label = "push" <=> pc[t] = "fetch"
            /\ label = "pop" => free_stack_top > 0
    BY <1>0, <1>3 DEF AllocTest, FreeFetch, At, Goto, TypeOK
  <2>2. TypeOK'
    BY <1>0, <2>1 DEF TypeOK, AllocLabels, FreeLabels
  <2>3. InCall'
    <3>1. Knows(t)
      BY <1>0 DEF InCall
    <3>2. Knows(t)'
      BY <1>0, <2>1, <3>1, Zenon DEF TypeOK, Knows, AllocLabels, FreeLabels
    <3>3. \A u \in Threads : u # t =>
              /\ pc'[u] = pc[u] /\ op'[u] = op[u] /\ blk'[u] = blk[u]
              /\ top'[u] = top[u] /\ free_stack_top' = free_stack_top
      BY <1>0, <2>1 DEF TypeOK
    <3> QED
      BY <1>0, <3>2, <3>3, OthersKnow, Zenon
  <2>4. \A u \in Threads : InHand(u)' = InHand(u)
    BY <1>0, <2>1, Zenon DEF TypeOK, InHand, InCall, Knows, AllocLabels
  <2>5. Depth' = Depth
    BY <1>0, <2>1, SameDepth, Zenon DEF Goto
  <2> QED
    BY <1>0, <2>2, <2>3, <2>4, <2>5, SamePlaces
<1> QED
  BY <1>1, <1>2, <1>3

\* deallocate is called: an entry passes from the callers to the thread.
LEMMA CallDeallocateStep ==
    ASSUME StackInv, NEW t \in Threads, CallDeallocate(t)
    PROVE  TypeOK' /\ InCall' /\ OnePlace' /\ Atomic!Bring(t)
<1> USE SpinlockStackAssumption DEF shared
<1>0. PICK b \in owned :
      /\ TypeOK /\ InCall /\ OnePlace
      /\ pc[t] = "idle" /\ pc' = [pc EXCEPT ![t] = "tas"]
      /\ op' = [op EXCEPT ![t] = "deallocate"] /\ blk' = [blk EXCEPT ![t] = b]
      /\ owned' = owned \ {b}
      /\ UNCHANGED <<locked, free_stack, free_stack_top, top, exited>>
  BY Zenon DEF StackInv, CallDeallocate, At, Goto
<1>1. b \in Entries /\ b # NULL
  BY <1>0 DEF TypeOK, Entries
<1>2. TypeOK'
  BY <1>0, <1>1 DEF TypeOK
<1>3. InCall'
  <2>1. Knows(t)
    BY <1>0 DEF InCall
  <2>2. Knows(t)'
    BY <1>0, <1>1, <2>1, Zenon DEF TypeOK, Knows, AllocLabels, FreeLabels
  <2>3. \A u \in Threads : u # t =>
            /\ pc'[u] = pc[u] /\ op'[u] = op[u] /\ blk'[u] = blk[u]
            /\ top'[u] = top[u] /\ free_stack_top' = free_stack_top
    BY <1>0, <1>1 DEF TypeOK
  <2> QED
    BY <1>0, <2>2, <2>3, OthersKnow
<1>4. Depth' = Depth
  BY <1>0, SameDepth, Zenon DEF Goto
<1>5. /\ InHand(t) = NULL /\ InHand(t)' = b
      /\ \A u \in Threads : u # t => InHand(u)' = InHand(u)
  BY <1>0, Zenon DEF TypeOK, InHand, InCall, Knows
<1>6. OnePlace'
  <2> DEFINE OnStack == {free_stack[k] : k \in 0 .. Depth - 1}
             Holding == {u \in Threads : InHand(u) # NULL}
             InHands == {InHand(u) : u \in Holding}
  <2>1. OnStack' = OnStack
    BY <1>0, <1>4
  <2>2. Holding' = Holding \cup {t} /\ t \notin Holding
    BY <1>1, <1>5, Zenon
  <2>3. InHands' = InHands \cup {b}
    BY <1>5, <2>2, Zenon
  <2>4. /\ \A k, l \in 0 .. Depth - 1 : free_stack[k] = free_stack[l] => k = l
        /\ \A u, v \in Holding : InHand(u) = InHand(v) => u = v
        /\ OnStack \cap InHands = {} /\ owned \cap (OnStack \cup InHands) = {}
        /\ OnStack \cup InHands \cup owned = Entries
    BY <1>0, Zenon DEF OnePlace
  <2>5. b \notin OnStack /\ b \notin InHands
    BY <2>4, Zenon
  <2>6. \A k, l \in 0 .. Depth' - 1 : free_stack'[k] = free_stack'[l] => k = l
    BY <1>0, <1>4, <2>4, Zenon
  <2>7. \A u, v \in Holding' : InHand(u)' = InHand(v)' => u = v
    BY <1>5, <2>2, <2>4, <2>5, Zenon
  <2>8. /\ OnStack' \cap InHands' = {} /\ owned' \cap (OnStack' \cup InHands') = {}
        /\ OnStack' \cup InHands' \cup owned' = Entries
    <3> HIDE DEF OnStack, InHands
    <3> QED
      BY <1>0, <2>1, <2>3, <2>4, <2>5
  <2> QED
    BY <2>6, <2>7, <2>8, Zenon DEF OnePlace
<1>7. Atomic!Bring(t)
  <2>1. [k \in 1 .. Depth |-> free_stack[k - 1]]' = [k \in 1 .. Depth |-> free_stack[k - 1]]
    BY <1>0, <1>4
  <2>2. [u \in Threads |-> InHand(u)]' = [[u \in Threads |-> InHand(u)] EXCEPT ![t] = b]
    BY <1>5, Zenon
  <2> QED
    BY <1>0, <1>5, <2>1, <2>2, Zenon DEF Atomic!Bring
<1> QED
  BY <1>2, <1>3, <1>6, <1>7

\* allocate lowers the top: the entry above it is the thread's.
LEMMA AllocPopStep ==
    ASSUME StackInv, NEW t \in Threads, AllocPop(t)
    PROVE  TypeOK' /\ InCall' /\ OnePlace' /\ Atomic!Pop(t)
<1> USE SpinlockStackAssumption
<1>0. /\ TypeOK /\ InCall /\ OnePlace /\ pc[t] = "pop" /\ pc' = [pc EXCEPT ![t] = "load"]
      /\ free_stack_top' = top[t] - 1
      /\ UNCHANGED <<locked, free_stack, op, blk, top, owned, exited>>
  BY Zenon DEF StackInv, AllocPop, At, Goto
<1>1. \A u \in Threads : u # t => pc[u] \in {"idle", "tas", "spin"}
  BY <1>0, Alone DEF Critical, AllocLabels
<1>2. /\ top[t] = free_stack_top /\ free_stack_top \in 1 .. num_entries /\ blk[t] = NULL
      /\ op[t] # "deallocate"
  BY <1>0 DEF InCall, Knows, TypeOK, AllocLabels
<1>3. TypeOK'
  BY <1>0, <1>2 DEF TypeOK, AllocLabels
<1>4. InCall'
  <2>1. Knows(t)'
    <3>1. /\ pc'[t] = "load" /\ op'[t] = op[t] /\ blk'[t] = NULL /\ op[t] # "none"
          /\ top'[t] = free_stack_top' + 1 /\ free_stack_top' < num_entries
      BY <1>0, <1>2 DEF TypeOK, InCall, Knows
    <3> QED
      BY <1>2, <3>1, Zenon DEF Knows, AllocLabels, FreeLabels
  <2>2. \A u \in Threads : u # t => pc'[u] = pc[u] /\ op'[u] = op[u] /\ blk'[u] = blk[u]
    BY <1>0 DEF TypeOK
  <2> QED
    BY <1>0, <1>1, <2>1, <2>2, OthersKnow, Zenon
<1>5. Depth = free_stack_top /\ Depth' = free_stack_top - 1
  BY <1>0, <1>1, <1>2 DEF Depth, Storing, TypeOK
<1>6. /\ InHand(t) = NULL /\ InHand(t)' = free_stack[free_stack_top - 1]
      /\ \A u \in Threads : u # t => InHand(u)' = InHand(u)
  BY <1>0, <1>1, <1>2, Zenon DEF TypeOK, InHand
<1> PICK n \in Nat : n = free_stack_top - 1
  BY <1>2
<1>7. OnePlace'
  <2> DEFINE OnStack == {free_stack[k] : k \in 0 .. Depth - 1}
             Holding == {u \in Threads : InHand(u) # NULL}
             InHands == {InHand(u) : u \in Holding}
  <2>1. 0 .. Depth - 1 = 0 .. n /\ 0 .. Depth' - 1 = 0 .. n - 1 /\ n \in Entries
    BY <1>2, <1>5 DEF Entries
  <2>2. InHand(t)' = free_stack[n] /\ free_stack[n] # NULL
    BY <1>0, <1>6, <2>1 DEF TypeOK, Entries
  <2>3. \A k \in 0 .. n : k \in 0 .. n - 1 \/ k = n
    OBVIOUS
  <2>4. n \notin 0 .. n - 1 /\ n \in 0 .. n /\ 0 .. n - 1 \subseteq 0 .. n
    OBVIOUS
  <2>5. OnStack = OnStack' \cup {free_stack[n]}
    BY <1>0, <2>1, <2>3, <2>4, Zenon
  <2>6. t \notin Holding /\ Holding' = Holding \cup {t}
    BY <1>6, <2>2
  <2>7. InHands' = InHands \cup {free_stack[n]}
    BY <1>6, <2>2, <2>6
  <2>8. free_stack[n] \notin OnStack' /\ free_stack[n] \in OnStack
    <3>1. \A k, l \in 0 .. n : free_stack[k] = free_stack[l] => k = l
      BY <1>0, <2>1, Zenon DEF OnePlace
    <3>2. OnStack' = {free_stack[k] : k \in 0 .. n - 1}
      BY <1>0, <2>1, Zenon
    <3>3. free_stack[n] \in OnStack
      BY <2>5
    <3>4. ASSUME NEW k \in 0 .. n - 1 PROVE free_stack[k] # free_stack[n]
      BY <2>4, <3>1
    <3>5. free_stack[n] \notin {free_stack[k] : k \in 0 .. n - 1}
      BY <3>4
    <3> QED
      BY <3>2, <3>3, <3>5
  <2>9. \A k, l \in 0 .. Depth' - 1 : free_stack'[k] = free_stack'[l] => k = l
    BY <1>0, <2>1, <2>4, Zenon DEF OnePlace
  <2>10. /\ \A u, v \in Holding : InHand(u) = InHand(v) => u = v
         /\ OnStack \cap InHands = {} /\ owned \cap (OnStack \cup InHands) = {}
         /\ OnStack \cup InHands \cup owned = Entries
    BY <1>0, Zenon DEF OnePlace
  <2>11. \A u, v \in Holding' : InHand(u)' = InHand(v)' => u = v
    <3>1. \A u \in Holding : u # t /\ InHand(u)' = InHand(u) /\ InHand(u) \in InHands
      BY <1>6, <2>6
    <3>2. \A u \in Holding : InHand(u)' # InHand(t)'
      BY <2>2, <2>8, <2>10, <3>1
    <3> QED
      BY <2>6, <2>10, <3>1, <3>2
  <2>12. /\ OnStack' \cap InHands' = {} /\ owned' \cap (OnStack' \cup InHands') = {}
         /\ OnStack' \cup InHands' \cup owned' = Entries
    <3> HIDE DEF OnStack, InHands
    <3> QED
      BY <1>0, <2>5, <2>7, <2>8, <2>10
  <2> QED
    BY <2>9, <2>11, <2>12, Zenon DEF OnePlace
<1>8. Atomic!Pop(t)
  <2>1. \A k \in 0 .. n : free_stack[k] \in Entries
    BY <1>0, <1>2 DEF TypeOK, Entries
  <2> DEFINE stack == [k \in 1 .. n + 1 |-> free_stack[k - 1]]
  <2>2. /\ stack # << >> /\ Len(stack) = n + 1 /\ stack[n + 1] = free_stack[n]
        /\ [k \in 1 .. n |-> free_stack[k - 1]] = SubSeq(stack, 1, Len(stack) - 1)
    BY <2>1, ArrayPop
  <2>3. [k \in 1 .. Depth |-> free_stack[k - 1]] = stack
    BY <1>2, <1>5
  <2>4. [k \in 1 .. Depth |-> free_stack[k - 1]]' = [k \in 1 .. n |-> free_stack[k - 1]]
    BY <1>0, <1>5
  <2>5. [u \in Threads |-> InHand(u)]'
           = [[u \in Threads |-> InHand(u)] EXCEPT ![t] = free_stack[n]]
    BY <1>6, Zenon
  <2> HIDE DEF stack
  <2> QED
    BY <1>0, <1>6, <2>2, <2>3, <2>4, <2>5, Zenon DEF Atomic!Pop
<1> QED
  BY <1>3, <1>4, <1>7, <1>8

\* allocate loads the entry that is above the top now.
LEMMA AllocLoadStep ==
    ASSUME StackInv, NEW t \in Threads, AllocLoad(t)
    PROVE  TypeOK' /\ InCall' /\ OnePlace' /\ UNCHANGED Atomic!vars
<1> USE SpinlockStackAssumption DEF shared
<1>0. /\ TypeOK /\ InCall /\ OnePlace /\ pc[t] = "load" /\ pc' = [pc EXCEPT ![t] = "unlock"]
      /\ blk' = [blk EXCEPT ![t] = free_stack[top[t] - 1]]
      /\ UNCHANGED <<locked, free_stack, free_stack_top, op, top, owned, exited>>
  BY Zenon DEF StackInv, AllocLoad, At, Goto
<1>1. /\ top[t] - 1 = free_stack_top /\ free_stack_top \in Entries
      /\ op[t] # "deallocate" /\ op[t] # "none"
  <2>1. Knows(t) /\ free_stack_top \in 0 .. num_entries
    BY <1>0 DEF InCall, TypeOK
  <2>2. top[t] = free_stack_top + 1 /\ free_stack_top < num_entries
    BY <1>0, <2>1, Zenon DEF Knows
  <2>3. op[t] # "deallocate" /\ op[t] # "none"
    BY <1>0, <2>1, Zenon DEF Knows, AllocLabels
  <2> QED
    BY <2>1, <2>2, <2>3 DEF Entries
<1>2. TypeOK'
  BY <1>0, <1>1 DEF TypeOK
<1>3. InCall'
  <2>1. Knows(t)
    BY <1>0 DEF InCall
  <2>2. Knows(t)'
    BY <1>0, <1>1, <2>1, Zenon DEF TypeOK, Knows, AllocLabels, FreeLabels
  <2>3. \A u \in Threads : u # t =>
            /\ pc'[u] = pc[u] /\ op'[u] = op[u] /\ blk'[u] = blk[u]
            /\ top'[u] = top[u] /\ free_stack_top' = free_stack_top
    BY <1>0, <1>1, Zenon DEF TypeOK
  <2> QED
    BY <1>0, <2>2, <2>3, OthersKnow, Zenon
<1>4. \A u \in Threads : InHand(u)' = InHand(u)
  BY <1>0, <1>1 DEF TypeOK, InHand
<1>5. Depth' = Depth
  BY <1>0, SameDepth, Zenon DEF Goto
<1> QED
  BY <1>0, <1>2, <1>3, <1>4, <1>5, SamePlaces

\* deallocate raises the top; the entry under it is not stored yet.
LEMMA FreePushStep ==
    ASSUME StackInv, NEW t \in Threads, FreePush(t), free_stack_top < num_entries
    PROVE  TypeOK' /\ InCall' /\ OnePlace' /\ UNCHANGED Atomic!vars
<1> USE SpinlockStackAssumption
<1>0. /\ TypeOK /\ InCall /\ OnePlace /\ pc[t] = "push" /\ pc' = [pc EXCEPT ![t] = "store"]
      /\ free_stack_top' = top[t] + 1
      /\ UNCHANGED <<locked, free_stack, op, blk, top, owned, exited>>
  BY Zenon DEF StackInv, FreePush, At, Goto
<1>1. \A u \in Threads : u # t => pc[u] \in {"idle", "tas", "spin"}
  BY <1>0, Alone DEF Critical, FreeLabels
<1>2. /\ top[t] = free_stack_top /\ free_stack_top \in Nat /\ blk[t] \in Entries
      /\ op[t] = "deallocate"
  BY <1>0 DEF InCall, Knows, TypeOK, FreeLabels
<1>3. Depth = free_stack_top /\ Depth' = free_stack_top
  BY <1>0, <1>1, <1>2 DEF Depth, Storing, TypeOK
<1>4. TypeOK'
  BY <1>0, <1>2 DEF TypeOK, FreeLabels
<1>5. InCall'
  <2>1. Knows(t)'
    BY <1>0, <1>2 DEF TypeOK, Knows, AllocLabels, FreeLabels
  <2>2. \A u \in Threads : u # t => pc'[u] = pc[u] /\ op'[u] = op[u] /\ blk'[u] = blk[u]
    BY <1>0 DEF TypeOK
  <2> QED
    BY <1>0, <1>1, <2>1, <2>2, OthersKnow, Zenon
<1>6. \A u \in Threads : InHand(u)' = InHand(u)
  BY <1>0, <1>1, <1>2, Zenon DEF TypeOK, InHand
<1> QED
  BY <1>0, <1>3, <1>4, <1>5, <1>6, SamePlaces

\* deallocate stores the entry: it passes from the thread to the stack.
LEMMA FreeStoreStep ==
    ASSUME StackInv, NEW t \in Threads, FreeStore(t)
    PROVE  TypeOK' /\ InCall' /\ OnePlace' /\ Atomic!Push(t)
<1> USE SpinlockStackAssumption
<1>0. /\ TypeOK /\ InCall /\ OnePlace /\ pc[t] = "store" /\ pc' = [pc EXCEPT ![t] = "unlock"]
      /\ free_stack' = [free_stack EXCEPT ![top[t]] = blk[t]]
      /\ UNCHANGED <<locked, free_stack_top, op, blk, top, owned, exited>>
  BY Zenon DEF StackInv, FreeStore, At, Goto
<1>1. \A u \in Threads : u # t => pc[u] \in {"idle", "tas", "spin"}
  BY <1>0, Alone, Zenon DEF Critical, FreeLabels
<1> PICK n \in Nat : n = free_stack_top - 1
  BY <1>0 DEF InCall, Knows, TypeOK
<1>2. /\ top[t] = n /\ free_stack_top = n + 1 /\ blk[t] \in Entries
      /\ op[t] = "deallocate" /\ n \in Entries
  BY <1>0 DEF InCall, Knows, TypeOK, FreeLabels, Entries
<1>3. Depth = n /\ Depth' = n + 1
  BY <1>0, <1>1, <1>2 DEF Depth, Storing, TypeOK
<1>4. TypeOK'
  BY <1>0, <1>2 DEF TypeOK
<1>5. InCall'
  <2>1. Knows(t)'
    BY <1>0, <1>2 DEF TypeOK, Knows, AllocLabels, FreeLabels
  <2>2. \A u \in Threads : u # t => pc'[u] = pc[u] /\ op'[u] = op[u] /\ blk'[u] = blk[u]
    BY <1>0 DEF TypeOK
  <2> QED
    BY <1>0, <1>1, <2>1, <2>2, OthersKnow, Zenon
<1>6. /\ InHand(t) = blk[t] /\ InHand(t)' = NULL /\ blk[t] # NULL
      /\ \A u \in Threads : u # t => InHand(u)' = InHand(u)
  BY <1>0, <1>1, <1>2 DEF TypeOK, InHand, Entries
<1>7. OnePlace'
  <2> DEFINE OnStack == {free_stack[k] : k \in 0 .. Depth - 1}
             Holding == {u \in Threads : InHand(u) # NULL}
             InHands == {InHand(u) : u \in Holding}
  <2>1. 0 .. Depth - 1 = 0 .. n - 1 /\ 0 .. Depth' - 1 = 0 .. n
    BY <1>3
  <2>2. free_stack'[n] = blk[t] /\ \A k \in 0 .. n - 1 : free_stack'[k] = free_stack[k]
    BY <1>0, <1>2 DEF TypeOK, Entries
  <2>3. \A k \in 0 .. n : k \in 0 .. n - 1 \/ k = n
    OBVIOUS
  <2>4. n \notin 0 .. n - 1 /\ n \in 0 .. n /\ 0 .. n - 1 \subseteq 0 .. n
    OBVIOUS
  <2>5. OnStack' = OnStack \cup {blk[t]}
    BY <2>1, <2>2, <2>3, <2>4, Zenon
  <2>6. t \in Holding /\ Holding' = Holding \ {t}
    BY <1>6
  <2>7. /\ \A k, l \in 0 .. n - 1 : free_stack[k] = free_stack[l] => k = l
        /\ \A u, v \in Holding : InHand(u) = InHand(v) => u = v
        /\ OnStack \cap InHands = {} /\ owned \cap (OnStack \cup InHands) = {}
        /\ OnStack \cup InHands \cup owned = Entries
    BY <1>0, <2>1, Zenon DEF OnePlace
  <2>8. InHands = InHands' \cup {blk[t]} /\ blk[t] \notin InHands'
    <3>1. InHands' = {InHand(u) : u \in Holding \ {t}}
      BY <1>6, <2>6, Zenon
    <3>2. \A u \in Holding \ {t} : InHand(u) # blk[t]
      BY <1>6, <2>6, <2>7, Zenon
    <3> QED
      BY <1>6, <2>6, <3>1, <3>2, Zenon
  <2>9. blk[t] \notin OnStack
    BY <2>7, <2>8, Zenon
  <2>10. \A k, l \in 0 .. Depth' - 1 : free_stack'[k] = free_stack'[l] => k = l
    <3>1. \A k \in 0 .. n - 1 : free_stack'[k] # blk[t]
      BY <2>1, <2>2, <2>9, Zenon
    <3> SUFFICES ASSUME NEW k \in 0 .. n, NEW l \in 0 .. n, free_stack'[k] = free_stack'[l]
                 PROVE  k = l
      BY <2>1, Zenon
    <3>2. CASE k = n
      BY <2>2, <2>3, <3>1, <3>2
    <3>3. CASE l = n
      BY <2>2, <2>3, <3>1, <3>3
    <3>4. CASE k \in 0 .. n - 1 /\ l \in 0 .. n - 1
      BY <2>2, <2>7, <3>4, Zenon
    <3> QED
      BY <2>3, <3>2, <3>3, <3>4
  <2>11. \A u, v \in Holding' : InHand(u)' = InHand(v)' => u = v
    BY <1>6, <2>6, <2>7, Zenon
  <2>12. /\ OnStack' \cap InHands' = {} /\ owned' \cap (OnStack' \cup InHands') = {}
         /\ OnStack' \cup InHands' \cup owned' = Entries
    <3> HIDE DEF OnStack, InHands
    <3> QED
      BY <1>0, <2>5, <2>7, <2>8, <2>9
  <2> QED
    BY <2>10, <2>11, <2>12, Zenon DEF OnePlace
<1>8. Atomic!Push(t)
  <2>1. /\ \A k \in 0 .. n - 1 : free_stack[k] \in Entries /\ free_stack'[k] = free_stack[k]
        /\ free_stack'[n] = blk[t]
    <3>1. free_stack \in [Entries -> Entries] /\ top[t] = n
      BY <1>0, <1>2 DEF TypeOK
    <3>2. n \in Entries /\ \A k \in 0 .. n - 1 : k \in Entries /\ k # n
      BY <1>2 DEF Entries
    <3> QED
      BY <1>0, <3>1, <3>2, Zenon
  <2>2. [k \in 1 .. n + 1 |-> free_stack'[k - 1]]
           = Append([k \in 1 .. n |-> free_stack[k - 1]], blk[t])
    BY <1>2, <2>1, ArrayPush
  <2>3. [k \in 1 .. Depth |-> free_stack[k - 1]]' = [k \in 1 .. n + 1 |-> free_stack'[k - 1]]
    BY <1>3
  <2>4. [k \in 1 .. Depth |-> free_stack[k - 1]] = [k \in 1 .. n |-> free_stack[k - 1]]
    BY <1>3
  <2>5. [u \in Threads |-> InHand(u)]' = [[u \in Threads |-> InHand(u)] EXCEPT ![t] = NULL]
    BY <1>6, Zenon
  <2> QED
    BY <1>0, <1>6, <2>2, <2>3, <2>4, <2>5, Zenon DEF Atomic!Push
<1> QED
  BY <1>4, <1>5, <1>7, <1>8

\* The call returns: an entry that was allocated passes to the caller.
LEMMA UnlockStep ==
    ASSUME StackInv, NEW t \in Threads, Unlock(t)
    PROVE  /\ TypeOK' /\ InCall' /\ OnePlace'
           /\ Atomic!Deliver(t) \/ UNCHANGED Atomic!vars
<1> USE SpinlockStackAssumption
<1>0. /\ TypeOK /\ InCall /\ OnePlace /\ pc[t] = "unlock" /\ pc' = [pc EXCEPT ![t] = "idle"]
      /\ locked' = 0
      /\ owned' = IF op[t] = "deallocate" \/ blk[t] = NULL THEN owned
                  ELSE owned \cup {blk[t]}
      /\ blk' = [blk EXCEPT ![t] = NULL] /\ op' = [op EXCEPT ![t] = "none"]
      /\ top' = [top EXCEPT ![t] = 0]
      /\ UNCHANGED <<free_stack, free_stack_top, exited>>
  BY DEF StackInv, Unlock, At, Goto
<1>1. \A u \in Threads : u # t => pc[u] \in {"idle", "tas", "spin"}
  BY <1>0, Alone DEF Critical
<1>2. blk[t] \in Entries \cup {NULL}
  BY <1>0 DEF TypeOK
<1>3. TypeOK'
  BY <1>0, <1>2 DEF TypeOK
<1>4. InCall'
  <2>1. Knows(t)'
    BY <1>0 DEF TypeOK, Knows, AllocLabels, FreeLabels
  <2>2. \A u \in Threads : u # t => pc'[u] = pc[u] /\ op'[u] = op[u] /\ blk'[u] = blk[u]
    BY <1>0 DEF TypeOK
  <2> QED
    BY <1>0, <1>1, <2>1, <2>2, OthersKnow
<1>5. Depth' = Depth
  BY <1>0, SameDepth, Zenon DEF Goto
<1>6. /\ InHand(t)' = NULL /\ \A u \in Threads : u # t => InHand(u)' = InHand(u)
      /\ InHand(t) = IF op[t] = "deallocate" THEN NULL ELSE blk[t]
  BY <1>0, <1>1, Zenon DEF TypeOK, InHand
<1>7. OnePlace' /\ (Atomic!Deliver(t) \/ UNCHANGED Atomic!vars)
  <2>1. CASE InHand(t) = NULL
    BY <1>0, <1>5, <1>6, <2>1, SamePlaces
  <2>2. CASE InHand(t) # NULL
    <3>1. owned' = owned \cup {InHand(t)}
      BY <1>0, <1>6, <2>2
    <3> DEFINE OnStack == {free_stack[k] : k \in 0 .. Depth - 1}
               Holding == {u \in Threads : InHand(u) # NULL}
               InHands == {InHand(u) : u \in Holding}
    <3>2. OnStack' = OnStack /\ \A k \in 0 .. Depth' - 1 : free_stack'[k] = free_stack[k]
      BY <1>0, <1>5
    <3>3. t \in Holding /\ Holding' = Holding \ {t}
      BY <1>6, <2>2
    <3>4. /\ \A k, l \in 0 .. Depth - 1 : free_stack[k] = free_stack[l] => k = l
          /\ \A u, v \in Holding : InHand(u) = InHand(v) => u = v
          /\ OnStack \cap InHands = {} /\ owned \cap (OnStack \cup InHands) = {}
          /\ OnStack \cup InHands \cup owned = Entries
      BY <1>0, Zenon DEF OnePlace
    <3>5. InHands' = {InHand(u) : u \in Holding \ {t}}
      BY <1>6, <3>3, Zenon
    <3>6. InHands = InHands' \cup {InHand(t)} /\ InHand(t) \notin InHands'
      <4>1. \A u \in Holding \ {t} : InHand(u) # InHand(t)
        BY <3>3, <3>4, Zenon
      <4>2. InHands = {InHand(u) : u \in Holding \ {t}} \cup {InHand(t)}
        BY <3>3
      <4> HIDE DEF InHands, Holding
      <4> QED
        BY <3>5, <4>1, <4>2
    <3>7. \A u, v \in Holding' : InHand(u)' = InHand(v)' => u = v
      BY <1>6, <3>3, <3>4, Zenon
    <3>8. /\ OnStack' \cap InHands' = {} /\ owned' \cap (OnStack' \cup InHands') = {}
          /\ OnStack' \cup InHands' \cup owned' = Entries
      <4> HIDE DEF OnStack, InHands
      <4> QED
        BY <3>1, <3>2, <3>4, <3>6
    <3>9. \A k, l \in 0 .. Depth' - 1 : free_stack'[k] = free_stack'[l] => k = l
      BY <1>0, <1>5, <3>4, Zenon
    <3>10. OnePlace'
      BY <3>7, <3>8, <3>9, Zenon DEF OnePlace
    <3>11. [k \in 1 .. Depth |-> free_stack[k - 1]]' = [k \in 1 .. Depth |-> free_stack[k - 1]]
      BY <1>0, <1>5
    <3>12. [u \in Threads |-> InHand(u)]' = [[u \in Threads |-> InHand(u)] EXCEPT ![t] = NULL]
      BY <1>6, Zenon
    <3> QED
      BY <2>2, <3>1, <3>10, <3>11, <3>12, Zenon DEF Atomic!Deliver
  <2> QED
    BY <2>1, <2>2
<1> QED
  BY <1>3, <1>4, <1>7

\* A step that moves no thread, or the process that exits.
LEMMA NoMove ==
    ASSUME StackInv, UNCHANGED <<shared, pc, op, blk, top, owned>>, exited' \in BOOLEAN
    PROVE  TypeOK' /\ InCall' /\ OnePlace' /\ UNCHANGED Atomic!vars
<1>1. TypeOK /\ InCall /\ OnePlace /\ UNCHANGED <<locked, free_stack, free_stack_top>>
  BY DEF StackInv, shared
<1>2. TypeOK'
  BY <1>1 DEF TypeOK
<1>3. InCall'
  BY <1>1, Zenon DEF InCall, Knows
<1>4. Depth' = Depth /\ \A t \in Threads : InHand(t)' = InHand(t)
  BY <1>1, Zenon DEF Depth, Storing, InHand
<1> QED
  BY <1>1, <1>2, <1>3, <1>4, SamePlaces

\* A foreign block that is not right behind the stack ends the process.
LEMMA ForeignStep ==
    ASSUME NoMistake, StackInv, NEW t \in Threads, CallForeign(t)
    PROVE  TypeOK' /\ InCall' /\ OnePlace' /\ UNCHANGED Atomic!vars
<1>1. ASSUME NEW id \in Foreign PROVE OutOfRange(id)
  <2>1. id \in Int /\ id \notin Entries /\ id # num_entries /\ num_entries \in Nat
    BY SpinlockStackAssumption DEF NoMistake
  <2> QED
    BY <2>1 DEF OutOfRange, Entries
<1>2. UNCHANGED <<shared, pc, op, blk, top, owned>> /\ exited' \in BOOLEAN
  BY <1>1, Zenon DEF CallForeign
<1> QED
  BY <1>2, NoMove

\* The stack starts full and in order.
LEMMA InitStackInv == Init => StackInv
<1> SUFFICES ASSUME Init PROVE StackInv
  OBVIOUS
<1> USE SpinlockStackAssumption
<1>1. TypeOK /\ InCall
  <2>1. TypeOK
    <3>1. /\ free_stack \in [Entries -> Entries] /\ blk \in [Threads -> Entries \cup {NULL}]
          /\ owned \subseteq Entries /\ exited \in BOOLEAN /\ locked \in {0, 1}
      BY Zenon DEF Init
    <3>2. /\ free_stack_top \in 0 .. num_entries /\ top \in [Threads -> 0 .. num_entries]
      BY DEF Init
    <3> QED
      BY <3>1, <3>2 DEF Init, TypeOK
  <2>2. \A t \in Threads : pc[t] = "idle" /\ op[t] = "none" /\ blk[t] = NULL
    BY DEF Init
  <2>3. InCall
    BY <2>2 DEF InCall, Knows, AllocLabels, FreeLabels
  <2> QED
    BY <2>1, <2>3
<1>2. Depth = num_entries /\ \A t \in Threads : InHand(t) = NULL
  BY DEF Init, Depth, Storing, InHand
<1>3. {free_stack[k] : k \in 0 .. Depth - 1} = Entries /\ 0 .. Depth - 1 = Entries
  BY <1>2 DEF Init, Entries
<1>4. {t \in Threads : InHand(t) # NULL} = {}
  BY <1>2
<1>5. OnePlace
  <2>1. /\ free_stack = [k \in Entries |-> k] /\ owned = {}
    BY DEF Init
  <2>2. \A k, l \in 0 .. Depth - 1 : free_stack[k] = free_stack[l] => k = l
    BY <1>3, <2>1, Zenon
  <2>3. {InHand(t) : t \in {t \in Threads : InHand(t) # NULL}} = {}
    BY <1>4
  <2> QED
    BY <1>3, <1>4, <2>1, <2>2, <2>3 DEF OnePlace
<1> QED
  BY <1>1, <1>5, InitLockInv DEF StackInv

-----------------------------------------------------------------------------
INSTANCE FiniteSetTheorems

\* A stack without the entry a thread wants to push has room for it.
LEMMA RoomToPush ==
    ASSUME StackInv, NEW t \in Threads, FreePush(t)
    PROVE  free_stack_top < num_entries
<1>0. /\ TypeOK /\ OnePlace /\ pc[t] = "push" /\ blk[t] \in Entries
      /\ op[t] = "deallocate" /\ Depth = free_stack_top
  <2>1. TypeOK /\ OnePlace /\ Knows(t) /\ pc[t] = "push"
    BY DEF StackInv, InCall, FreePush, At
  <2>2. \A u \in Threads : u # t => pc[u] # "store"
    BY <2>1, Alone DEF Critical, FreeLabels
  <2> QED
    BY <2>1, <2>2, DepthFacts, Zenon DEF Knows, FreeLabels
<1> DEFINE D == 0 .. free_stack_top - 1
           f == [k \in D |-> free_stack[k]]
           T == Entries \ {blk[t]}
<1>1. InHand(t) = blk[t] /\ InHand(t) # NULL /\ free_stack_top \in Nat
  BY <1>0, SpinlockStackAssumption DEF InHand, Entries, TypeOK
<1>2. \A k \in D : free_stack[k] # blk[t] /\ free_stack[k] \in Entries
  <2>1. D \subseteq Entries
    BY <1>0, <1>1, SpinlockStackAssumption DEF TypeOK, Entries
  <2>2. \A k \in D : free_stack[k] \in Entries
    BY <1>0, <2>1 DEF TypeOK
  <2>3. OnePlace /\ D = 0 .. Depth - 1
    BY <1>0, Zenon
  <2>4. \A k \in D : free_stack[k] # InHand(t)
    <3>1. {free_stack[k] : k \in D}
             \cap {InHand(u) : u \in {u \in Threads : InHand(u) # NULL}} = {}
      BY <2>3, Zenon DEF OnePlace
    <3>2. InHand(t) \in {InHand(u) : u \in {u \in Threads : InHand(u) # NULL}}
      BY <1>1
    <3>3. \A k \in D : free_stack[k] \in {free_stack[l] : l \in D}
      OBVIOUS
    <3> HIDE DEF D
    <3> QED
      BY <3>1, <3>2, <3>3
  <2> QED
    BY <1>1, <2>2, <2>4
<1>3. f \in Injection(D, T)
  <2>1. f \in [D -> T]
    BY <1>2
  <2>2. \A k, l \in D : f[k] = f[l] => k = l
    BY <1>0, Zenon DEF OnePlace
  <2> QED
    BY <2>1, <2>2 DEF Injection, IsInjective
<1>4. IsFiniteSet(Entries) /\ Cardinality(Entries) = num_entries
  BY SpinlockStackAssumption, FS_Interval DEF Entries
<1>5. IsFiniteSet(T) /\ Cardinality(T) = num_entries - 1
  BY <1>0, <1>4, FS_RemoveElement, Zenon
<1>6. Cardinality(D) <= Cardinality(T)
  BY <1>3, <1>5, FS_Injection
<1>7. Cardinality(D) = free_stack_top
  <2>1. free_stack_top - 1 \in Int /\ 0 \in Int
    BY <1>1
  <2>2. Cardinality(D) = IF 0 > free_stack_top - 1 THEN 0 ELSE (free_stack_top - 1) - 0 + 1
    BY <2>1, FS_Interval
  <2> QED
    BY <1>1, <2>2
<1> QED
  BY <1>1, <1>5, <1>6, <1>7, SpinlockStackAssumption

\* Every step preserves the invariant and is a step of the atomic stack, as
\* long as the mistake is not made.
LEMMA NextStackInv ==
    ASSUME NoMistake, StackInv, [Next]_vars
    PROVE  StackInv' /\ [Atomic!Next]_(Atomic!vars)
<1>1. LockInv'
  BY NextLockInv DEF StackInv
<1> USE DEF Atomic!Next
<1>2. CASE UNCHANGED vars
  <2>1. UNCHANGED <<shared, pc, op, blk, top, owned>> /\ exited' \in BOOLEAN
    BY <1>2 DEF vars, StackInv, TypeOK
  <2> QED
    BY <1>1, <2>1, NoMove DEF StackInv
<1>3. ASSUME NEW t \in Threads, CallForeign(t) PROVE StackInv' /\ UNCHANGED Atomic!vars
  BY <1>1, <1>3, ForeignStep DEF StackInv
<1>4. ASSUME NEW t \in Threads, FreePush(t) PROVE StackInv' /\ UNCHANGED Atomic!vars
  BY <1>1, <1>4, RoomToPush, FreePushStep DEF StackInv
<1>5. ASSUME NEW t \in Threads, AllocPop(t) \/ FreeStore(t) \/ CallDeallocate(t)
      PROVE  StackInv' /\ Atomic!Next
  BY <1>1, <1>5, AllocPopStep, FreeStoreStep, CallDeallocateStep DEF StackInv
<1>6. ASSUME NEW t \in Threads, Unlock(t) PROVE StackInv' /\ [Atomic!Next]_(Atomic!vars)
  BY <1>1, <1>6, UnlockStep DEF StackInv
<1>7. ASSUME NEW t \in Threads,
             CallAllocate(t) \/ TestAndSet(t) \/ SpinEnds(t) \/ AllocTest(t)
                \/ FreeFetch(t) \/ AllocLoad(t)
      PROVE  StackInv' /\ UNCHANGED Atomic!vars
  BY <1>1, <1>7, QuietSteps, AllocLoadStep DEF StackInv
<1> QED
  BY <1>2, <1>3, <1>4, <1>5, <1>6, <1>7, Zenon DEF Next, Call, Step

\* "Thread-safe": whatever the interleaving, for any number of threads and
\* entries, no entry is handed out twice or lost, unless a foreign block right
\* behind the stack is returned to it.
THEOREM EntriesInOnePlace == NoMistake => (Spec => []OnePlace)
<1> SUFFICES ASSUME NoMistake PROVE Spec => []OnePlace
  OBVIOUS
<1>1. StackInv => OnePlace
  BY DEF StackInv
<1>2. StackInv /\ [Next]_vars => StackInv'
  BY NextStackInv
<1> QED
  BY <1>1, <1>2, InitStackInv, PTL DEF Spec

\* The contract, under the same condition: allocate and deallocate, whose steps
\* interleave with those of other threads, take effect as atomic operations of
\* a stack, allocate when it lowers free_stack_top and deallocate when it stores
\* the entry.
THEOREM StackIsAtomic == NoMistake => (Spec => ImplementsAtomicStack)
<1> SUFFICES ASSUME NoMistake PROVE Spec => Atomic!Spec
  BY DEF ImplementsAtomicStack
<1>1. Init => Atomic!Init
  <2> SUFFICES ASSUME Init PROVE Atomic!Init
    OBVIOUS
  <2>1. Depth = num_entries /\ \A t \in Threads : InHand(t) = NULL
    BY DEF Init, Depth, Storing, InHand
  <2>2. [k \in 1 .. Depth |-> free_stack[k - 1]] = [k \in 1 .. num_entries |-> k - 1]
    BY <2>1, SpinlockStackAssumption DEF Init, Entries
  <2> QED
    BY <2>1, <2>2 DEF Init, Atomic!Init
<1>2. StackInv /\ [Next]_vars => StackInv' /\ [Atomic!Next]_(Atomic!vars)
  BY NextStackInv
<1> QED
  BY <1>1, <1>2, InitStackInv, PTL DEF Spec, Atomic!Spec
=============================================================================
