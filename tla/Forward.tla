------------------------------ MODULE Forward ------------------------------
(***************************************************************************)
(* The forwarders, src/app/ixy-fwd.c and src/app/ixy-cpp-fwd.cpp: one      *)
(* thread that receives on queue 0 of dev1 and sends on queue 0 of dev2.   *)
(* The receive queue and the transmit queue share the buffers of the pool  *)
(* start_rx_queue allocated.  The two drivers perform the same steps.      *)
(***************************************************************************)
EXTENDS RxQueue

CONSTANTS NUM_TX_QUEUE_ENTRIES, WTHRESH

\* As in TxQueue.
ASSUME ForwardAssumption ==
    /\ NUM_TX_QUEUE_ENTRIES \in Nat
    /\ NUM_TX_QUEUE_ENTRIES >= 2
    /\ \E k \in 1 .. 15 : NUM_TX_QUEUE_ENTRIES = 2^k
    /\ WTHRESH \in 1 .. NUM_TX_QUEUE_ENTRIES - 1

VARIABLES phase,    \* where main is: "poll" in ixgbe_rx_packet, "send" between
                    \* the calls, "sending" in ixgbe_tx_packet
          packet,   \* the buffer main is about to send
          clean_index, tx_index, tx_virtual_addresses, tx_descriptors, TDT, TDH,
          wb_index, wire, tx_pc, tx_buf

main    == <<phase, packet>>
txqueue == <<clean_index, tx_index, tx_virtual_addresses, tx_descriptors, TDT, TDH,
             wb_index, wire, tx_pc, tx_buf>>
rxqueue == <<rx_index, virtual_addresses, descriptors, RXDCTL, RDT, RDH, pc, i,
             locals, got, dma>>
fwdvars == <<vars, main, txqueue>>

\* What the application has in its hands is held, for both queues.  A word of a
\* descriptor stands for what the driver computed from the header of the buffer.
Tx == INSTANCE TxQueue WITH
    virtual_addresses <- tx_virtual_addresses, descriptors <- tx_descriptors,
    pc <- tx_pc, buf <- tx_buf

FwdInit == Init /\ Tx!TxInit /\ phase = "poll" /\ packet = NULL

rx_packet == RxStep
tx_packet == Tx!TxStep

\* ixgbe_init of dev1.
Start == StartStep /\ UNCHANGED <<main, txqueue>>

\* buf = ixgbe_rx_packet(dev1, 0)
Receive ==
    /\ phase = "poll"
    /\ rx_packet
    /\ IF pc = "tail" THEN packet' = buf /\ phase' = "send" ELSE UNCHANGED main
    /\ UNCHANGED txqueue

CallTx ==
    /\ phase = "send"
    /\ Running
    /\ Tx!TxCall(packet)
    /\ phase' = "sending"
    /\ UNCHANGED <<rxqueue, packet>>

\* The clean-up of ixgbe_tx_packet has found a buffer that was sent.
Cleaning == tx_pc = "clean" /\ clean_index # tx_index /\ Tx!DD(clean_index)

\* The clean-up of ixgbe_tx_packet meets a buffer whose header is packet data:
\* pkt_buf_free follows what it takes for a pointer.
FreeClobbered ==
    /\ phase = "sending"
    /\ Running
    /\ Cleaning
    /\ tx_virtual_addresses[clean_index] \in clobbered
    /\ pc' = "undefined"
    /\ UNCHANGED <<free_stack, rx_index, virtual_addresses, descriptors, RXDCTL, RDT,
                   RDH, i, locals, app, dma, main, txqueue>>

\* A step of ixgbe_tx_packet; after it returned main goes where next says.
Sending(next) ==
    /\ phase = "sending"
    /\ Running
    /\ tx_packet
    /\ Cleaning => tx_virtual_addresses[clean_index] \notin clobbered
    /\ phase' = IF tx_pc' = "idle" THEN next ELSE phase
    /\ packet' = IF phase' = "poll" THEN NULL ELSE packet
    /\ UNCHANGED rxqueue
\* mutant: the call is repeated until the buffer is taken, as in ixy-pktgen
Send_retries == Sending(IF tx_pc = "clean" THEN "send" ELSE "poll")
\* ixgbe_tx_packet(dev2, 0, buf): its result is not looked at.
Send == Sending("poll")

Main == Start \/ Receive \/ CallTx \/ FreeClobbered \/ Send
RxNic == Nic /\ UNCHANGED <<main, txqueue>>
TxNic == Tx!Nic /\ UNCHANGED <<rxqueue, main>>

FwdNext == Main \/ RxNic \/ TxNic
\* main never blocks.  The NICs owe nothing but the enable bit.
FwdSpec ==
    /\ FwdInit /\ [][FwdNext]_fwdvars
    /\ WF_fwdvars(Main)
    /\ WF_fwdvars(NicEnable /\ UNCHANGED <<main, txqueue>>)
-----------------------------------------------------------------------------
\* The forwarder comes back to its receive queue, whatever the other NIC does: a
\* full transmit queue does not stop it.
KeepsPolling == []<>(phase = "poll" /\ pc = "idle") \/ <>~Running

\* The comment of main, "transmit function takes care of freeing the packet": a
\* buffer that was received and is not with main goes through the transmit ring.
\* A buffer ixgbe_tx_packet did not take, because the ring is full, does not.
TransmitFrees == held \subseteq {packet}
=============================================================================
