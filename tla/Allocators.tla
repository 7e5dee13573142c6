----------------------------- MODULE Allocators -----------------------------
(***************************************************************************)
(* A client of the allocators: a stack allocator takes its memory from a   *)
(* parent, a fallback allocator puts the stack before a secondary          *)
(* allocator, and the client gives every block back to the fallback        *)
(* allocator, which finds out where it came from.                          *)
(***************************************************************************)
EXTENDS AllocatorOps

CONSTANTS Requests,             \* what the client asks for
          Parents, Secondaries

\* A stack gives back what it asked for; a DMA parent wants back what it gave.
ASSUME AllocatorsAssumption ==
    /\ Requests \subseteq Nat \ {0}
    /\ Parents \subseteq {"malloc", "null", "dma"}
    /\ Secondaries \subseteq {"malloc", "null", "dma"}
    /\ "dma" \in Parents => RoundUp(num_entries * entry_size) = num_entries * entry_size

VARIABLES parent, fb,   \* which allocators the client put together
          mem,          \* the state of memory
          held,         \* the blocks the client has
          phase

clientvars == <<parent, fb, mem, held, phase>>

\* The allocators the client makes first, of the kinds the others are made of.
Parts == {parent, fb[2]}

ClientInit ==
    /\ parent \in Parents
    /\ fb \in {"stack", "spinlock"} \X Secondaries
    /\ mem = Fresh
    /\ held = {}
    /\ phase = "new"
Running == mem.status = "running"

CreateParts ==
    /\ phase = "new" /\ Running
    /\ \E a \in Parts \ mem.objects : mem' \in New(a, mem, NULL)
    /\ UNCHANGED <<parent, fb, held, phase>>

CreateStack ==
    /\ phase = "new" /\ Running
    /\ Parts \subseteq mem.objects
    /\ \E m \in New(fb[1], mem, parent) :
        /\ mem' = m
        /\ phase' = IF m.base = NULL THEN "none" ELSE "pair"
    /\ UNCHANGED <<parent, fb, held>>

CreatePair ==
    /\ phase = "pair" /\ Running
    /\ mem' \in fallback_allocator_new(mem)
    /\ phase' = "work"
    /\ UNCHANGED <<parent, fb, held>>

\* A block of no memory is not worth keeping, though it may be given back.
ClientAllocate ==
    /\ phase = "work" /\ Running
    /\ \E size \in Requests : \E r \in fallback_allocator_allocate(fb, mem, size) :
        /\ mem' = r[2]
        /\ held' = held \cup {r[1]}
    /\ UNCHANGED <<parent, fb, phase>>

ClientDeallocate ==
    /\ phase = "work" /\ Running
    /\ \E blk \in held :
        /\ mem' = fallback_allocator_deallocate(fb, mem, blk)
        /\ held' = held \ {blk}
    /\ UNCHANGED <<parent, fb, phase>>

\* fallback_allocator_free leaves the two alone.
Destroy ==
    /\ phase = "work" /\ Running
    /\ \A blk \in held : ~Owns(fb[1], mem, blk)
    /\ mem' = FreeAllocator(fb[1], fallback_allocator_free(mem), parent)
    /\ phase' = "freed"
    /\ UNCHANGED <<parent, fb, held>>

DestroyParts ==
    /\ phase \in {"freed", "none"} /\ Running
    /\ \E a \in Parts \cap mem.objects : mem' = FreeAllocator(a, mem, NULL)
    /\ UNCHANGED <<parent, fb, held, phase>>

ClientNext ==
    \/ CreateParts \/ CreateStack \/ CreatePair
    \/ ClientAllocate \/ ClientDeallocate
    \/ Destroy \/ DestroyParts
ClientSpec == ClientInit /\ [][ClientNext]_clientvars
-----------------------------------------------------------------------------
Entry(k) == mem_blk(mem.base + k * entry_size, entry_size)

\* The memory of two blocks never overlaps, nor does it leave the memory of the
\* allocator: an entry of the stack is free or with the client, and not both.
BlocksDisjoint ==
    /\ \A b, c \in held : b # c => Cells(b) \cap Cells(c) = {}
    /\ mem.base # NULL =>
        \A k \in 0 .. num_entries - 1 :
            Entry(k) \in held <=> k \notin Range(mem.free_stack)

\* A client that gives back what it got, in any order, is never turned away and
\* never frees what malloc does not know: each block finds its way home, also
\* one that lies right behind the memory of the stack, and the pair owns it.
BlocksGoHome ==
    /\ mem.status \notin {"error", "undefined"}
    /\ phase = "work" => \A b \in held : b.ptr # 0 => fallback_allocator_owns(fb, mem, b)

\* When all is returned and the allocators are gone, or could not be made for
\* want of memory, nothing is left of them.
NothingLeft ==
    phase \in {"freed", "none"} /\ Running /\ held = {} /\ Parts \cap mem.objects = {} => mem = Fresh
=============================================================================
