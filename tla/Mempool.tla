------------------------------ MODULE Mempool ------------------------------
(***************************************************************************)
(* The pool of DMA packet buffers of src/memory.c.  A pool is one block of *)
(* memory cut into NUM_BUFS entries; a stack of entry numbers says which   *)
(* of them are free.  free_stack is the live part of the C array, its      *)
(* length is free_stack_top: the slots above the top are never read.       *)
(***************************************************************************)
EXTENDS Integers, Sequences

CONSTANTS NUM_BUFS,     \* mempool->num_entries
          NULL          \* the null pointer

Bufs == 0 .. NUM_BUFS - 1

ASSUME MempoolAssumption == NUM_BUFS \in Nat \ {0} /\ NULL \notin Bufs

VARIABLE free_stack

\* memory_allocate_mempool: every entry is free, entry 0 at the bottom.
MempoolInit == free_stack = [i \in 1 .. NUM_BUFS |-> i - 1]

\* What pkt_buf_alloc returns: the top of the stack, NULL if there is none.
Top == IF free_stack = << >> THEN NULL ELSE free_stack[Len(free_stack)]

\* The state change of a pkt_buf_alloc that succeeds.
pkt_buf_alloc ==
    /\ free_stack # << >>
    /\ free_stack' = SubSeq(free_stack, 1, Len(free_stack) - 1)

\* pkt_buf_free pushes without looking: neither a full stack nor a buffer
\* that is free already is noticed.
pkt_buf_free(b) == free_stack' = Append(free_stack, b)

\* The free buffers as a set.
Free == {free_stack[k] : k \in 1 .. Len(free_stack)}

\* No buffer is on the stack twice.
FreeOnce ==
    \A k, l \in 1 .. Len(free_stack) : free_stack[k] = free_stack[l] => k = l
=============================================================================
