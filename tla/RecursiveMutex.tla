--------------------------- MODULE RecursiveMutex ---------------------------
(***************************************************************************)
(* What a recursive lock promises: one owner, who may take it again at     *)
(* once and has to give it back as often as it took it.                    *)
(***************************************************************************)
EXTENDS Integers

CONSTANTS Threads, NONE

VARIABLES owner,    \* who has the lock, or NONE
          nesting   \* how often

vars == <<owner, nesting>>

Init == owner = NONE /\ nesting = 0

Acquire(t) == owner = NONE /\ owner' = t /\ nesting' = 1
Reenter(t) == owner = t /\ owner' = t /\ nesting' = nesting + 1
Leave(t) == owner = t /\ nesting > 1 /\ owner' = t /\ nesting' = nesting - 1
Release(t) == owner = t /\ nesting = 1 /\ owner' = NONE /\ nesting' = 0

Next == \E t \in Threads : Acquire(t) \/ Reenter(t) \/ Leave(t) \/ Release(t)
Spec == Init /\ [][Next]_vars
=============================================================================
