---------------------------- MODULE AtomicStack ----------------------------
(***************************************************************************)
(* What the thread-safe stack allocator promises: allocate takes the entry *)
(* on top of a stack in one step, deallocate puts one there in one step.   *)
(***************************************************************************)
EXTENDS Integers, Sequences

CONSTANTS Threads, Entries, num_entries, NULL

VARIABLES stack,    \* the free entries, the last one is the top
          hand,     \* the entry each thread brings or takes away
          owned     \* the entries the callers have

vars == <<stack, hand, owned>>

Init ==
    /\ stack = [k \in 1 .. num_entries |-> k - 1]
    /\ hand = [t \in Threads |-> NULL]
    /\ owned = {}

Pop(t) ==
    /\ hand[t] = NULL
    /\ stack # << >>
    /\ hand' = [hand EXCEPT ![t] = stack[Len(stack)]]
    /\ stack' = SubSeq(stack, 1, Len(stack) - 1)
    /\ UNCHANGED owned

Push(t) ==
    /\ hand[t] # NULL
    /\ stack' = Append(stack, hand[t])
    /\ hand' = [hand EXCEPT ![t] = NULL]
    /\ UNCHANGED owned

\* The caller receives the entry, or hands one over.
Deliver(t) ==
    /\ hand[t] # NULL
    /\ owned' = owned \cup {hand[t]}
    /\ hand' = [hand EXCEPT ![t] = NULL]
    /\ UNCHANGED stack

Bring(t) ==
    /\ hand[t] = NULL
    /\ \E b \in owned :
           owned' = owned \ {b} /\ hand' = [hand EXCEPT ![t] = b]
    /\ UNCHANGED stack

Next == \E t \in Threads : Pop(t) \/ Push(t) \/ Deliver(t) \/ Bring(t)

Spec == Init /\ [][Next]_vars
=============================================================================
