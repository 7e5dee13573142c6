---------------------------- MODULE AllocatorOps ----------------------------
(***************************************************************************)
(* The allocators of src/allocator as one thread sees them.  An allocator  *)
(* is a pair of operators on the state of memory: allocate gives the       *)
(* possible pairs of a block and a new state, deallocate the new state.    *)
(***************************************************************************)
EXTENDS HugePages, Sequences, Functions

CONSTANTS ARENA,        \* the cells of memory malloc has, from 1 on
          num_entries, entry_size   \* of the stack

ASSUME AllocatorAssumption ==
    /\ ARENA \in Nat /\ HUGE \in Nat \ {0} /\ NULL \notin Nat
    /\ num_entries \in Nat \ {0} /\ entry_size \in Nat \ {0}

\* struct mem_blk, and the cells it stands for.
mem_blk(ptr, size) == [ptr |-> ptr, size |-> size]
Cells(blk) == IF blk.ptr = 0 THEN {} ELSE blk.ptr .. blk.ptr + blk.size - 1

\* heap and maps are the blocks malloc and mmap gave out, objects the structures
\* malloc holds for allocators; base and free_stack belong to struct
\* stack_allocator; status tells how the process ended.
Fresh == [heap |-> {}, maps |-> {}, objects |-> {}, base |-> NULL, free_stack |-> << >>,
          status |-> "running"]
Ends(m, how) == [m EXCEPT !.status = how]
-----------------------------------------------------------------------------
null_allocator_allocate(m, size) == {<<mem_blk(0, 0), m>>}
null_allocator_deallocate(m, blk) ==
    IF blk = mem_blk(0, 0) THEN m ELSE Ends(m, "error")

\* malloc may fail; the block says size even then.
mallocator_allocate(m, size) ==
    LET Fits == {p \in 1 .. ARENA - size + 1 :
                    Cells(mem_blk(p, size)) \cap UNION {Cells(b) : b \in m.heap} = {}}
    IN  {<<mem_blk(0, size), m>>}
        \cup {<<mem_blk(p, size), [m EXCEPT !.heap = @ \cup {mem_blk(p, size)}]>> : p \in Fits}
mallocator_deallocate(m, blk) ==
    IF blk.ptr = 0 THEN m
    ELSE IF \E b \in m.heap : b.ptr = blk.ptr
    THEN [m EXCEPT !.heap = {b \in @ : b.ptr # blk.ptr}]
    ELSE Ends(m, "undefined")

\* See DmaMemory.  The mappings lie above the cells of malloc.  Bound: there is
\* room for one of them, and a request that finds it taken ends the process.
dma_allocator_allocate(m, size) ==
    LET blk == mem_blk(ARENA + 1, RoundUp(size))
    IN  {<<mem_blk(0, 0), Ends(m, "exited")>>}
        \cup IF m.maps = {} THEN {<<blk, [m EXCEPT !.maps = {blk}]>>} ELSE {}
\* munmap of a mapping of huge pages takes whole pages only.
dma_allocator_deallocate(m, blk) ==
    IF blk \in m.maps THEN [m EXCEPT !.maps = @ \ {blk}] ELSE Ends(m, "error")

-----------------------------------------------------------------------------
\* mutant: the top of the stack is not moved
stack_allocator_allocate_peek(m, size) ==
    IF m.free_stack = << >> \/ size > entry_size THEN {<<mem_blk(0, 0), m>>}
    ELSE {<<mem_blk(m.base + m.free_stack[Len(m.free_stack)] * entry_size, entry_size), m>>}
stack_allocator_allocate(m, size) ==
    IF m.free_stack = << >> \/ size > entry_size
    THEN {<<mem_blk(0, 0), m>>}
    ELSE LET top == Len(m.free_stack)
         IN  {<<mem_blk(m.base + m.free_stack[top] * entry_size, entry_size),
                [m EXCEPT !.free_stack = SubSeq(@, 1, top - 1)]>>}

\* Division rounds towards 0.
EntryId(m, blk) ==
    LET diff == blk.ptr - m.base
    IN  IF diff >= 0 THEN diff \div entry_size ELSE -((-diff) \div entry_size)
stack_allocator_deallocate(m, blk) ==
    IF \/ entry_size # blk.size
       \/ EntryId(m, blk) > num_entries \/ EntryId(m, blk) < 0
    THEN Ends(m, "error")
    ELSE [m EXCEPT !.free_stack = Append(@, EntryId(m, blk))]
\* mutant: the end of the memory counts as owned
stack_allocator_owns_end(m, blk) ==
    blk.ptr >= m.base /\ blk.ptr <= m.base + num_entries * entry_size
stack_allocator_owns(m, blk) ==
    blk.ptr >= m.base /\ blk.ptr < m.base + num_entries * entry_size

\* Without contention the thread-safe stack does the same; see SpinlockStack.
spinlock_stack_allocate(m, size) == stack_allocator_allocate(m, size)
spinlock_stack_deallocate(m, blk) == stack_allocator_deallocate(m, blk)
spinlock_stack_owns(m, blk) == stack_allocator_owns(m, blk)

null_allocator_owns(m, blk) == FALSE
mallocator_owns(m, blk) == TRUE
dma_allocator_owns(m, blk) == TRUE

\* struct allocator: the three functions of each.
Allocate(a, m, size) ==
    CASE a = "null" -> null_allocator_allocate(m, size)
      [] a = "malloc" -> mallocator_allocate(m, size)
      [] a = "dma" -> dma_allocator_allocate(m, size)
      [] a = "stack" -> stack_allocator_allocate(m, size)
      [] a = "spinlock" -> spinlock_stack_allocate(m, size)
Deallocate(a, m, blk) ==
    CASE a = "null" -> null_allocator_deallocate(m, blk)
      [] a = "malloc" -> mallocator_deallocate(m, blk)
      [] a = "dma" -> dma_allocator_deallocate(m, blk)
      [] a = "stack" -> stack_allocator_deallocate(m, blk)
      [] a = "spinlock" -> spinlock_stack_deallocate(m, blk)
Owns(a, m, blk) ==
    CASE a = "null" -> null_allocator_owns(m, blk)
      [] a = "malloc" -> mallocator_owns(m, blk)
      [] a = "dma" -> dma_allocator_owns(m, blk)
      [] a = "stack" -> stack_allocator_owns(m, blk)
      [] a = "spinlock" -> spinlock_stack_owns(m, blk)

\* A structure that malloc has no room for is written to all the same.
NewObject(a, m) == {[m EXCEPT !.objects = @ \cup {a}], Ends(m, "crashed")}
FreeObject(a, m) == [m EXCEPT !.objects = @ \ {a}]
mallocator_new(m) == NewObject("malloc", m)
mallocator_free(m) == FreeObject("malloc", m)
null_allocator_new(m) == NewObject("null", m)
null_allocator_free(m) == FreeObject("null", m)
dma_allocator_new(m) == NewObject("dma", m)
dma_allocator_free(m) == FreeObject("dma", m)

\* mutant: the structure stays behind when the parent has no memory
stack_allocator_new_leaks(m, p) ==
    {m} \cup {IF r[1].ptr = 0 THEN [r[2] EXCEPT !.objects = @ \cup {"stack"}]
              ELSE [r[2] EXCEPT !.base = r[1].ptr, !.objects = @ \cup {"stack"},
                                !.free_stack = [k \in 1 .. num_entries |-> k - 1]] :
                r \in Allocate(p, m, num_entries * entry_size)}
\* NULL if malloc has no room for the structure or the parent has no memory.
stack_allocator_new(m, p) ==
    {m} \cup {IF r[1].ptr = 0 THEN r[2]
              ELSE [r[2] EXCEPT !.base = r[1].ptr, !.objects = @ \cup {"stack"},
                                !.free_stack = [k \in 1 .. num_entries |-> k - 1]] :
                r \in Allocate(p, m, num_entries * entry_size)}
stack_allocator_free(m, p) ==
    FreeObject("stack", [Deallocate(p, m, mem_blk(m.base, num_entries * entry_size)) EXCEPT
                            !.base = NULL, !.free_stack = << >>])

spinlock_stack_allocator_new(m, p) == stack_allocator_new(m, p)
spinlock_stack_allocator_free(m, p) == stack_allocator_free(m, p)

\* The functions that create and free an allocator, p is the parent of a stack.
New(a, m, p) ==
    CASE a = "malloc" -> mallocator_new(m)
      [] a = "null" -> null_allocator_new(m)
      [] a = "dma" -> dma_allocator_new(m)
      [] a = "stack" -> stack_allocator_new(m, p)
      [] a = "spinlock" -> spinlock_stack_allocator_new(m, p)
FreeAllocator(a, m, p) ==
    CASE a = "malloc" -> mallocator_free(m)
      [] a = "null" -> null_allocator_free(m)
      [] a = "dma" -> dma_allocator_free(m)
      [] a = "stack" -> stack_allocator_free(m, p)
      [] a = "spinlock" -> spinlock_stack_allocator_free(m, p)
-----------------------------------------------------------------------------
\* A fallback allocator is a pair of allocators.
fallback_allocator_new(m) == NewObject("fallback", m)
fallback_allocator_free(m) == FreeObject("fallback", m)
fallback_allocator_allocate(fb, m, size) ==
    UNION {IF r[1].ptr # 0 THEN {r} ELSE Allocate(fb[2], r[2], size) :
              r \in Allocate(fb[1], m, size)}
fallback_allocator_deallocate(fb, m, blk) ==
    Deallocate(IF Owns(fb[1], m, blk) THEN fb[1] ELSE fb[2], m, blk)
fallback_allocator_owns(fb, m, blk) == Owns(fb[1], m, blk) \/ Owns(fb[2], m, blk)
=============================================================================
