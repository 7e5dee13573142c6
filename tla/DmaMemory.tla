----------------------------- MODULE DmaMemory -----------------------------
(***************************************************************************)
(* DMA memory in huge pages: memory_allocate_dma of src/memory.c and the   *)
(* DMA allocator of src/allocator/dma_allocator.c, two copies of the same  *)
(* function that differ in what they check at the end.  The threads of a   *)
(* process allocate concurrently; each call makes a file in hugetlbfs,     *)
(* maps it and removes it.  check_err ends the whole process.              *)
(***************************************************************************)
EXTENDS HugePages, Sequences, Functions

CONSTANTS Threads,
          Sizes,        \* what is asked for
          Frames,       \* the physical huge pages, by number
          MaxCalls      \* bound on the allocations

Ids == 0 .. MaxCalls - 1

ASSUME DmaMemoryAssumption == MaxCalls \in Nat /\ NULL \notin Ids

VARIABLES
    source,         \* which of the two copies the program is linked with
    huge_pg_id,
    files,          \* /mnt/huge: the frames of the file of each id, or NULL
    at, request, id,\* in each thread: where it is, its argument, its local id
    mapped,         \* the frames of its mapping
    blocks          \* the memory that was returned and is in use

thread == <<at, request, id, mapped>>
dmavars == <<source, huge_pg_id, files, thread, blocks>>

DmaInit ==
    /\ source \in {"memory.c", "dma_allocator.c"}
    /\ huge_pg_id = 0
    /\ files = [n \in Ids |-> NULL]
    /\ at = [t \in Threads |-> "idle"]
    /\ request = [t \in Threads |-> NULL]
    /\ id = [t \in Threads |-> NULL]
    /\ mapped = [t \in Threads |-> << >>]
    /\ blocks = {}

Used == UNION ({Range(files[n]) : n \in {m \in Ids : files[m] # NULL}}
               \cup {Range(mapped[t]) : t \in Threads}
               \cup {Range(b.frames) : b \in blocks})
Go(t, from, to) == at[t] = from /\ at' = [at EXCEPT ![t] = to]

Pages(t) == RoundUp(request[t]) \div HUGE

Call(t) ==
    /\ Go(t, "idle", "fetch")
    /\ huge_pg_id < MaxCalls
    /\ \E size \in Sizes : request' = [request EXCEPT ![t] = size]
    /\ UNCHANGED <<source, huge_pg_id, files, id, mapped, blocks>>

\* mutant: the id is read and written in two steps
FetchAndAdd_racy(t) ==
    /\ huge_pg_id < MaxCalls
    /\ \/ Go(t, "fetch", "add") /\ id' = [id EXCEPT ![t] = huge_pg_id] /\ UNCHANGED huge_pg_id
       \/ Go(t, "add", "open") /\ huge_pg_id' = id[t] + 1 /\ UNCHANGED id
    /\ UNCHANGED <<source, files, request, mapped, blocks>>
FetchAndAdd(t) ==
    /\ huge_pg_id < MaxCalls
    /\ Go(t, "fetch", "open")
    /\ id' = [id EXCEPT ![t] = huge_pg_id]
    /\ huge_pg_id' = huge_pg_id + 1
    /\ UNCHANGED <<source, files, request, mapped, blocks>>

\* O_CREAT: a file that exists is opened as it is.
Open(t) ==
    /\ Go(t, "open", "ftruncate")
    /\ files' = [files EXCEPT ![id[t]] = IF @ = NULL THEN << >> ELSE @]
    /\ UNCHANGED <<source, huge_pg_id, request, id, mapped, blocks>>

\* The length of the file is the one of the mapping; no page is allocated yet.
Truncate(t) ==
    /\ Go(t, "ftruncate", "mmap")
    /\ UNCHANGED <<source, huge_pg_id, files, request, id, mapped, blocks>>

\* mmap, and mlock, which brings in the pages: whichever frames are free.
Map(t) ==
    /\ Go(t, "mmap", "mlock")
    /\ UNCHANGED <<source, huge_pg_id, files, request, id, mapped, blocks>>
Lock(t) ==
    /\ Go(t, "mlock", "unlink")
    /\ \E new \in Injection(1 .. Pages(t), Frames) :
        /\ IF files[id[t]] = << >> THEN Range(new) \cap Used = {} ELSE new = files[id[t]]
        /\ files' = [files EXCEPT ![id[t]] = new]
        /\ mapped' = [mapped EXCEPT ![t] = new]
    /\ UNCHANGED <<source, huge_pg_id, request, id, blocks>>

\* close and unlink: the frames stay with the mapping.
Unlink(t) ==
    /\ Go(t, "unlink", "translate")
    /\ files' = [files EXCEPT ![id[t]] = NULL]
    /\ UNCHANGED <<source, huge_pg_id, request, id, mapped, blocks>>

\* A call that fails, for want of pages or for reasons of its own: check_err
\* exits, and the mappings of the process go with it.
Exit ==
    /\ \E t \in Threads : at[t] \in {"open", "ftruncate", "mmap", "mlock", "translate"}
    /\ at' = [t \in Threads |-> "exited"]
    /\ mapped' = [t \in Threads |-> << >>]
    /\ blocks' = {}
    /\ UNCHANGED <<source, huge_pg_id, files, request, id>>

\* virt_to_phys finds the frame of a page.
virt_to_phys(frames, page) == frames[page]
dma_virt_to_phys(frames, page) == virt_to_phys(frames, page)
is_phys_continuous(frames) ==
    \A k \in 1 .. Len(frames) :
        dma_virt_to_phys(frames, k) = dma_virt_to_phys(frames, 1) + k - 1

\* The block starts where its first page lies.
Return(t) ==
    /\ Go(t, "translate", "idle")
    /\ blocks' = blocks \cup {[frames |-> mapped[t], phy |-> virt_to_phys(mapped[t], 1),
                               size |-> request[t]]}
    /\ mapped' = [mapped EXCEPT ![t] = << >>]
    /\ request' = [request EXCEPT ![t] = NULL]
    /\ id' = [id EXCEPT ![t] = NULL]
    /\ UNCHANGED <<source, huge_pg_id, files>>

\* The two copies of the function.
NewMapping(t) ==
    Call(t) \/ FetchAndAdd(t) \/ Open(t) \/ Truncate(t) \/ Map(t) \/ Lock(t) \/ Unlink(t)
memory_allocate_dma(t) == source = "memory.c" /\ (NewMapping(t) \/ Return(t))
allocate(t) ==
    /\ source = "dma_allocator.c"
    /\ NewMapping(t) \/ (is_phys_continuous(mapped[t]) /\ Return(t))

\* munmap
deallocate ==
    /\ source = "dma_allocator.c"
    /\ \E t \in Threads : at[t] = "idle"
    /\ \E b \in blocks : blocks' = blocks \ {b}
    /\ UNCHANGED <<source, huge_pg_id, files, thread>>

DmaNext == (\E t \in Threads : memory_allocate_dma(t) \/ allocate(t)) \/ Exit \/ deallocate
DmaSpec == DmaInit /\ [][DmaNext]_dmavars
-----------------------------------------------------------------------------
\* No two threads ever get the same memory, at whatever point of the function
\* they overtake one another: the names of their files differ.
MemoryDisjoint ==
    /\ \A t, u \in Threads :
        t # u => /\ Range(mapped[t]) \cap Range(mapped[u]) = {}
                 /\ id[t] # NULL => id[t] # id[u]
    /\ \A b \in blocks :
        /\ \A c \in blocks : b # c => Range(b.frames) \cap Range(c.frames) = {}
        /\ \A t \in Threads : Range(b.frames) \cap Range(mapped[t]) = {}

\* "memory suitable for DMA access": the frames of a block follow one another
\* from its physical address on, which is all that a device is told of it and all
\* that memory_allocate_mempool computes the addresses of its buffers from.
BlocksContiguous == \A b \in blocks : \A k \in 1 .. Len(b.frames) : b.frames[k] = b.phy + k - 1
=============================================================================
