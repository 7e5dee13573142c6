------------------------------- MODULE Ixgbe -------------------------------
(***************************************************************************)
(* The initialisation of the C driver, src/driver/ixgbe.c: each function   *)
(* as the sequence of its register accesses and of what it does to memory. *)
(* The memory has two parts, the descriptor rings and the two arrays of    *)
(* queue structures, which are kept as 8-byte words because a structure    *)
(* ends in an array without a length.                                      *)
(***************************************************************************)
EXTENDS Device, SequencesExt

CONSTANTS NUM_RX_QUEUE_ENTRIES, NUM_TX_QUEUE_ENTRIES,
          MAX_RX_QUEUE_ENTRIES, MAX_TX_QUEUE_ENTRIES,
          MEMPOOL_ENTRIES       \* of the pool start_rx_queue allocates

VARIABLES
    rings,      \* the descriptor rings by physical address, NULL before they
                \* are allocated; a descriptor is "FF" or "posted"
    queues,     \* the words of dev->rx_queues and dev->tx_queues
    max_wait    \* of wait_for_link

memory == <<rings, queues, max_wait>>

MAX_QUEUES == 64
max_wait_init == 10000000
poll_interval == 100000

\* struct ixgbe_rx_queue: descriptors, mempool, num_entries with rx_index, and
\* from word 3 on virtual_addresses.
rx_queue(q) == q * 3
\* struct ixgbe_tx_queue: descriptors, num_entries with the two indices, and
\* from word 2 on virtual_addresses.
tx_queue(q) == q * 2

\* Where memory_allocate_dma puts the rings: multiples of 2 MB above 4 GB.  A
\* physical address is the set of its bits, in two registers.
RxRing(q) == {21 + q, 33}
TxRing(q) == {24 + q, 34}
Low(phy) == phy \cap AllBits
High(phy) == {b - 32 : b \in phy \ AllBits}

dma_ring(phy) == <<"ring", phy>>
store(array, word, value) == <<"store", array, word, value>>
ForEach(n, Program(_)) == FlattenSeq([i \in 1 .. n |-> Program(i - 1)])
-----------------------------------------------------------------------------
init_link ==
    <<change_reg32(IXGBE_AUTOC, IXGBE_AUTOC_LMS_MASK, IXGBE_AUTOC_LMS_10G_SERIAL),
      change_reg32(IXGBE_AUTOC, IXGBE_AUTOC_10G_PMA_PMD_MASK, IXGBE_AUTOC_10G_XAUI),
      set_flags32(IXGBE_AUTOC, IXGBE_AUTOC_AN_RESTART)>>

\* mutant: the receiver is enabled before the queue has its buffers
start_rx_queue_early(q) ==
    <<set_flags32(IXGBE_RXDCTL(q), IXGBE_RXDCTL_ENABLE),
      wait_set_reg32(IXGBE_RXDCTL(q), IXGBE_RXDCTL_ENABLE),
      set_reg32(IXGBE_RDH(q), {}), <<"tail", q>>, <<"pool", q>>, <<"post", q, 0>> >>
start_rx_queue(q) ==
    <<<<"pool", q>>, <<"post", q, 0>>,
      set_flags32(IXGBE_RXDCTL(q), IXGBE_RXDCTL_ENABLE),
      wait_set_reg32(IXGBE_RXDCTL(q), IXGBE_RXDCTL_ENABLE),
      set_reg32(IXGBE_RDH(q), {}), <<"tail", q>> >>

start_tx_queue(q) ==
    <<<<"check", q>>,
      set_reg32(IXGBE_TDH(q), {}), set_reg32(IXGBE_TDT(q), {}),
      set_flags32(IXGBE_TXDCTL(q), IXGBE_TXDCTL_ENABLE),
      wait_set_reg32(IXGBE_TXDCTL(q), IXGBE_TXDCTL_ENABLE)>>

init_rx_queue(i) ==
    <<change_reg32(IXGBE_SRRCTL(i), IXGBE_SRRCTL_DESCTYPE_MASK,
                   IXGBE_SRRCTL_DESCTYPE_ADV_ONEBUF),
      set_flags32(IXGBE_SRRCTL(i), IXGBE_SRRCTL_DROP_EN),
      dma_ring(RxRing(i)),
      set_reg32(IXGBE_RDBAL(i), Low(RxRing(i))),
      set_reg32(IXGBE_RDBAH(i), High(RxRing(i))),
      set_reg32(IXGBE_RDLEN(i), Bits(NUM_RX_QUEUE_ENTRIES * 16)),
      set_reg32(IXGBE_RDH(i), {}), set_reg32(IXGBE_RDT(i), {}),
      store("rx", rx_queue(i) + 2, <<"entries", NUM_RX_QUEUE_ENTRIES>>),
      store("rx", rx_queue(i), <<"ring", RxRing(i)>>)>>

DisableRx == <<clear_flags32(IXGBE_RXCTRL, IXGBE_RXCTRL_RXEN)>>
EnableRx == <<set_flags32(IXGBE_RXCTRL, IXGBE_RXCTRL_RXEN)>>
ConfigureRx(n) ==
    <<set_reg32(IXGBE_RXPBSIZE(0), IXGBE_RXPBSIZE_128KB)>>
    \o [i \in 1 .. 7 |-> set_reg32(IXGBE_RXPBSIZE(i), {})]
    \o <<set_flags32(IXGBE_HLREG0, IXGBE_HLREG0_RXCRCSTRP),
         set_flags32(IXGBE_RDRXCTL, IXGBE_RDRXCTL_CRCSTRIP),
         set_flags32(IXGBE_FCTRL, IXGBE_FCTRL_BAM)>>
    \o ForEach(n, init_rx_queue)
    \o <<set_flags32(IXGBE_CTRL_EXT, IXGBE_CTRL_EXT_NS_DIS)>>
    \o [i \in 1 .. n |-> clear_flags32(IXGBE_DCA_RXCTRL(i - 1), {12})]
\* mutant: the receiver is not disabled first
init_rx_running(n) == ConfigureRx(n) \o EnableRx
init_rx(n) == DisableRx \o ConfigureRx(n) \o EnableRx

ConfigureTx ==
    <<set_flags32(IXGBE_HLREG0, IXGBE_HLREG0_TXCRCEN \cup IXGBE_HLREG0_TXPADEN),
      set_reg32(IXGBE_TXPBSIZE(0), IXGBE_TXPBSIZE_40KB)>>
    \o [i \in 1 .. 7 |-> set_reg32(IXGBE_TXPBSIZE(i), {})]
    \o <<set_reg32(IXGBE_DTXMXSZRQ, 0 .. 15),
         clear_flags32(IXGBE_RTTDCS, IXGBE_RTTDCS_ARBDIS)>>

TxRingSetup(i) ==
    <<dma_ring(TxRing(i)),
      set_reg32(IXGBE_TDBAL(i), Low(TxRing(i))),
      set_reg32(IXGBE_TDBAH(i), High(TxRing(i))),
      set_reg32(IXGBE_TDLEN(i), Bits(NUM_TX_QUEUE_ENTRIES * 16))>>
TxQueueSetup(i) ==
    <<store("tx", tx_queue(i) + 1, <<"entries", NUM_TX_QUEUE_ENTRIES>>),
      store("tx", tx_queue(i), <<"ring", TxRing(i)>>)>>
\* PTHRESH 36, HTHRESH 8 and WTHRESH 4
init_tx_queue(i) ==
    TxRingSetup(i)
    \o <<set_flags32(IXGBE_TXDCTL(i), Bits(36) \cup Bits(8 * 2^8) \cup Bits(4 * 2^16))>>
    \o TxQueueSetup(i)
init_tx(n) ==
    ConfigureTx \o ForEach(n, init_tx_queue)
    \o <<set_reg32(IXGBE_DMATXCTL, IXGBE_DMATXCTL_TE)>>

ixgbe_read_stats ==
    <<get_reg32(IXGBE_GPRC), get_reg32(IXGBE_GPTC), get_reg32(IXGBE_GORCL),
      get_reg32(IXGBE_GORCH), get_reg32(IXGBE_GOTCL), get_reg32(IXGBE_GOTCH)>>

ixgbe_set_promisc(enabled) ==
    LET flags == IXGBE_FCTRL_MPE \cup IXGBE_FCTRL_UPE
    IN  IF enabled THEN <<set_flags32(IXGBE_FCTRL, flags)>>
        ELSE <<clear_flags32(IXGBE_FCTRL, flags)>>

\* In Mbit/s, 0 without a link.
ixgbe_get_link_speed ==
    LET links == regs[IXGBE_LINKS]
        speed == links \cap IXGBE_LINKS_SPEED_82599
    IN  CASE ~(IXGBE_LINKS_UP \subseteq links) -> 0
          [] speed = IXGBE_LINKS_SPEED_100_82599 -> 100
          [] speed = IXGBE_LINKS_SPEED_1G_82599 -> 1000
          [] speed = IXGBE_LINKS_SPEED_10G_82599 -> 10000
          [] OTHER -> 0

wait_for_link == <<<<"link">>>>

\* mutant: the wait for the reset comes one write too late
ResetDevice_early ==
    <<set_reg32(IXGBE_EIMC, 0 .. 30), set_reg32(IXGBE_CTRL, IXGBE_CTRL_RST_MASK),
      set_reg32(IXGBE_EIMC, 0 .. 30), wait_clear_reg32(IXGBE_CTRL, IXGBE_CTRL_RST_MASK),
      wait_set_reg32(IXGBE_EEC, IXGBE_EEC_ARD),
      wait_set_reg32(IXGBE_RDRXCTL, IXGBE_RDRXCTL_DMAIDONE)>>
ResetDevice ==
    <<set_reg32(IXGBE_EIMC, 0 .. 30),
      set_reg32(IXGBE_CTRL, IXGBE_CTRL_RST_MASK),
      wait_clear_reg32(IXGBE_CTRL, IXGBE_CTRL_RST_MASK),
      set_reg32(IXGBE_EIMC, 0 .. 30),
      wait_set_reg32(IXGBE_EEC, IXGBE_EEC_ARD),
      wait_set_reg32(IXGBE_RDRXCTL, IXGBE_RDRXCTL_DMAIDONE)>>
\* The transmit queues are set up by the number of receive queues.
reset_and_init(rx, tx) ==
    ResetDevice \o init_link \o ixgbe_read_stats \o init_rx(rx) \o init_tx(rx)
    \o ForEach(rx, start_rx_queue) \o ForEach(tx, start_tx_queue)
    \o ixgbe_set_promisc(TRUE) \o wait_for_link

ixgbe_init(rx, tx) ==
    IF rx > MAX_QUEUES \/ tx > MAX_QUEUES THEN <<<<"abort">>>> ELSE reset_and_init(rx, tx)
=============================================================================
