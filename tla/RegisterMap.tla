---------------------------- MODULE RegisterMap ----------------------------
(***************************************************************************)
(* The address computations of the register macros, checked over all pairs *)
(* of queues the driver accepts.                                           *)
(***************************************************************************)
EXTENDS RegisterSpace, Sequences, Functions

CONSTANT MAX_QUEUES

VARIABLES i, j  \* two queues

Init == i = 0 /\ j = 0
Next ==
    \/ i < MAX_QUEUES - 1 /\ i' = i + 1 /\ UNCHANGED j
    \/ j < MAX_QUEUES - 1 /\ j' = j + 1 /\ UNCHANGED i
Spec == Init /\ [][Next]_<<i, j>>

QueueRegisters(q) == RxRegisters(q) \o TxRegisters(q)

SharedRegisters == GlobalRegisters \cup Counters \cup PacketBuffers

\* The registers of a queue are neither one another nor any other queue's nor
\* shared ones, also where a macro switches from one formula to the next; and no
\* register the driver writes or reads is one it has no business with: a write
\* meant for one queue leaves all others and the rest of the device alone.
NoOverlap ==
    IF i # j
    THEN Range(QueueRegisters(i)) \cap Range(QueueRegisters(j)) = {}
    ELSE /\ IsInjective(QueueRegisters(i))
         /\ Range(QueueRegisters(i)) \cap (SharedRegisters \cup OtherRegisters) = {}
         /\ SharedRegisters \cap OtherRegisters = {}
=============================================================================
