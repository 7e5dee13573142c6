------------------------------ MODULE IxgbeCpp ------------------------------
(***************************************************************************)
(* The initialisation of the C++ driver, src/driver/ixgbe.cpp.  Most of    *)
(* its member functions perform the operations of their counterpart in C   *)
(* one by one, and are defined by it; init_link and the thresholds of the  *)
(* transmit queues differ.                                                 *)
(***************************************************************************)
EXTENDS Ixgbe

cpp_rx_queue(q) == rx_queue(q)
cpp_tx_queue(q) == tx_queue(q)

cpp_get_link_speed == ixgbe_get_link_speed
cpp_set_promisc(enabled) == ixgbe_set_promisc(enabled)
cpp_do_read_stats == ixgbe_read_stats

\* The first call has its arguments in the wrong order: it writes 0 to the
\* address that the value of register 0 and the link mode make up.
cpp_init_link ==
    <<<<"swapped", IXGBE_CTRL, IXGBE_AUTOC_LMS_MASK, IXGBE_AUTOC_LMS_10G_SERIAL>>>>
    \o Tail(init_link)

cpp_start_rx_queue(q) == start_rx_queue(q)
cpp_init_rx(n) == init_rx(n)

cpp_init_tx_queue(i) ==
    TxRingSetup(i) \o <<change_reg32(IXGBE_TXDCTL(i), Bits(\h3F), Bits(32))>>
    \o TxQueueSetup(i)
cpp_init_tx(n) ==
    ConfigureTx \o ForEach(n, cpp_init_tx_queue)
    \o <<set_reg32(IXGBE_DMATXCTL, IXGBE_DMATXCTL_TE)>>

cpp_start_tx_queue(q) == start_tx_queue(q)
cpp_wait_for_link == <<<<"cpp_link">>>>

cpp_reset_and_init(rx, tx) ==
    ResetDevice \o cpp_init_link \o cpp_do_read_stats \o cpp_init_rx(rx)
    \o cpp_init_tx(rx) \o ForEach(rx, cpp_start_rx_queue)
    \o ForEach(tx, cpp_start_tx_queue) \o cpp_set_promisc(TRUE) \o cpp_wait_for_link

cpp_ixgbe(rx, tx) ==
    IF rx > MAX_QUEUES \/ tx > MAX_QUEUES THEN <<<<"abort">>>>
    ELSE cpp_reset_and_init(rx, tx)

SwappedRead ==
    /\ At("swapped")
    /\ latch = NULL
    /\ latch' = regs[Head(prog)[2]]
    /\ UNCHANGED <<prog, regs, enabling, era>>
SwappedWrite ==
    /\ At("swapped")
    /\ latch # NULL
    /\ Write(Number((latch \ Head(prog)[3]) \cup Head(prog)[4]), {})
    /\ Done
    /\ UNCHANGED era
=============================================================================
