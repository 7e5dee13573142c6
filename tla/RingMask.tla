------------------------------ MODULE RingMask ------------------------------
(***************************************************************************)
(* inc_and_wrap_ring and the test of the ring size bit by bit: an index    *)
(* walks around a ring of each size that start_rx_queue and start_tx_queue *)
(* let pass.                                                               *)
(***************************************************************************)
EXTENDS Ring, Bitwise

CONSTANT MAX_QUEUE_ENTRIES

\* mutant: any size passes
accepted_any(num_entries) == num_entries > 0
\* num_entries & (num_entries - 1) is 0.
accepted(num_entries) == num_entries & (num_entries - 1) = 0

\* The macro, with its cast to uint16_t.
masked(index, ring_size) == ((index + 1) & (ring_size - 1)) % 2^16

VARIABLES size, index

Init == index = 0 /\ size \in {n \in 1 .. MAX_QUEUE_ENTRIES : accepted(n)}
Next == index' = masked(index, size) /\ UNCHANGED size
Spec == Init /\ [][Next]_<<size, index>>

\* "this line is the reason why we require a power of two for the queue size":
\* for the sizes that pass the test the mask is the modulus of module Ring.
MaskIsModulus == masked(index, size) = inc_and_wrap_ring(index, size)
=============================================================================
