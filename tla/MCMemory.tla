------------------------------ MODULE MCMemory ------------------------------
(***************************************************************************)
(* Memory: the two sources of DMA memory, a client that combines the       *)
(* allocators, allocator-example, and the recursive spinlock of the        *)
(* allocators.  The four models share no state; in a behaviour one of      *)
(* them, part, moves.                                                      *)
(***************************************************************************)
EXTENDS DmaMemory, Allocators, AllocatorExample, RecursiveSpinlock

VARIABLE part

allvars == <<part, dmavars, clientvars, examplevars, vars>>

\* A model that does not move starts in one state only.
MemInit ==
    /\ part \in {"dma", "client", "example", "spinlock"}
    /\ DmaInit /\ ClientInit /\ ExampleInit /\ Init
    /\ part # "dma" => source = "memory.c"
    /\ part # "client" => parent = "malloc" /\ fb = <<"stack", "null">>

\* A process that uses memory may end; threads that use the lock go on.
MemNext ==
    \/ part = "dma" /\ DmaNext /\ UNCHANGED <<part, clientvars, examplevars, vars>>
    \/ part = "client" /\ ClientNext /\ UNCHANGED <<part, dmavars, examplevars, vars>>
    \/ part = "example" /\ ExampleNext /\ UNCHANGED <<part, dmavars, clientvars, vars>>
    \/ part = "spinlock" /\ Next /\ UNCHANGED <<part, dmavars, clientvars, examplevars>>
    \/ part # "spinlock" /\ UNCHANGED allvars

MemSpec == MemInit /\ [][MemNext]_allvars
=============================================================================
