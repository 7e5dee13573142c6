------------------------------- MODULE PktGen -------------------------------
(***************************************************************************)
(* The packet generator, src/app/ixy-pktgen.c: one thread that fills every *)
(* buffer of its pool once and then sends buffers on transmit queue 0 for  *)
(* ever, repeating each call until the queue takes the buffer.  What main  *)
(* passes to the driver are the pointers in its own variables; nothing     *)
(* checks that it may still use them.                                      *)
(***************************************************************************)
EXTENDS TxQueue

\* NUM_BUFS is 2048, the ring has 1024 entries.
ASSUME PktGenAssumption == NUM_BUFS >= NUM_TX_QUEUE_ENTRIES

VARIABLES phase,    \* where main is: in one of the loops of init_mempool,
                    \* "alloc" or "send" before a call, "sending" in
                    \* ixgbe_tx_packet, "crashed" after a use of a null pointer
          bufs,     \* the array of init_mempool
          packet    \* the variable buf of main

main    == <<phase, bufs, packet>>
genvars == <<vars, main>>

GenInit == Init /\ phase = "fill" /\ bufs = << >> /\ packet = NULL

\* pkt_buf_alloc, whose result main uses without a check, and where it goes then.
Take(next) ==
    IF free_stack = << >>
    THEN phase' = "crashed" /\ UNCHANGED vars
    ELSE phase' = next /\ AppAlloc

\* First loop of init_mempool: take every buffer once to fill it.
Fill ==
    /\ phase = "fill"
    /\ Take(IF Len(bufs) + 1 = NUM_BUFS THEN "return" ELSE "fill")
    /\ bufs' = Append(bufs, Top)
    /\ UNCHANGED packet

\* pkt_buf_free, of whatever buffer main has a pointer to.
Release(b) ==
    /\ pkt_buf_free(b)
    /\ held' = held \ {b}
    /\ UNCHANGED <<queue, descriptors, TDT, nic, pc, buf>>

\* Second loop: give all of them back, in the order they were taken.
GiveBack ==
    /\ phase = "return"
    /\ Release(Head(bufs))
    /\ bufs' = Tail(bufs)
    /\ phase' = IF bufs' = << >> THEN "alloc" ELSE "return"
    /\ UNCHANGED packet

\* A new round of the tx loop.
NewBuffer ==
    /\ phase = "alloc"
    /\ Take("send")
    /\ packet' = Top
    /\ UNCHANGED bufs

\* ixgbe_tx_packet is entered with whatever buffer main has a pointer to.
Send ==
    /\ phase = "send"
    /\ phase' = "sending"
    /\ buf' = packet
    /\ pc' = "clean"
    /\ UNCHANGED <<free_stack, queue, descriptors, TDT, nic, held, bufs, packet>>

\* A step of ixgbe_tx_packet; when it returns 1 or 0, main goes where taken or
\* full says.
Sending(taken, full) ==
    /\ phase = "sending"
    /\ TxStep
    /\ phase' = IF pc' # "idle" THEN "sending" ELSE IF pc = "tail" THEN taken ELSE full
    /\ UNCHANGED <<bufs, packet>>
\* mutant: the buffer is recycled, main sends it again after it was taken
Retry_recycles == Sending("send", "send")
\* mutant: the call is not repeated, a buffer that does not fit is forgotten
Retry_gives_up == Sending("alloc", "alloc")
\* The inner loop: the call is repeated until the buffer is taken.
Retry == Sending("alloc", "send")

Main == Fill \/ GiveBack \/ NewBuffer \/ Send \/ Retry

GenNext == Main \/ (Nic /\ UNCHANGED main)

\* main never blocks, the NIC is as fair as in TxQueue.
GenSpec ==
    /\ GenInit /\ [][GenNext]_genvars
    /\ WF_genvars(Main)
    /\ WF_genvars(NicTransmit /\ UNCHANGED main)
    /\ WF_genvars(/\ \E k \in WTHRESH .. NUM_TX_QUEUE_ENTRIES - 1 :
                         NicWriteBack(k)
                  /\ UNCHANGED main)
-----------------------------------------------------------------------------
\* No pkt_buf_alloc of the generator finds the pool empty: with one buffer in
\* hand at most and a slot of the ring unused, one is left.
PoolNeverEmpty == phase # "crashed"

\* The retry loop ends: the queue takes each buffer at last, although the NIC
\* may sit on as many as WTHRESH - 1 sent descriptors.
RetrySucceeds == phase = "send" ~> phase = "alloc"

\* The pointers main passes on are good: it sends and frees only buffers it
\* owns at that moment, however often a call is repeated, as the client of
\* TxQueue does by definition.  So what holds of TxQueue holds of the generator.
KeepsTxRules == Spec
=============================================================================
