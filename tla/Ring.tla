-------------------------------- MODULE Ring --------------------------------
(***************************************************************************)
(* Index arithmetic of the descriptor rings (src/driver/ixgbe.c).  A ring  *)
(* of ring_size slots has the slots 0 .. ring_size - 1.                    *)
(***************************************************************************)
EXTENDS Integers

\* (index + 1) & (ring_size - 1).  The mask is a modulus for the sizes that
\* start_rx_queue and start_tx_queue accept; module RingMask checks it.
inc_and_wrap_ring(index, ring_size) == (index + 1) % ring_size

\* How many steps forward lead from one slot to another.
Distance(from, to, ring_size) ==
    IF from <= to THEN to - from ELSE to - from + ring_size

\* The slots from..to-1, wrapping around: empty when from = to.
Window(from, to, ring_size) ==
    {i \in 0 .. ring_size - 1 :
        Distance(from, i, ring_size) < Distance(from, to, ring_size)}
=============================================================================
