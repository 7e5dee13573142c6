----------------------------- MODULE DeviceInit -----------------------------
(***************************************************************************)
(* ixgbe_init of the C driver, or the constructor of the C++ driver, from  *)
(* the mapped registers to the return, against a NIC that was left in any  *)
(* state, resets late, grants enable bits late and may have no link.       *)
(***************************************************************************)
EXTENDS IxgbeCpp

CONSTANTS RxQueues, TxQueues    \* the arguments

vars == <<device, memory>>

RxIds == 0 .. RxQueues - 1
TxIds == 0 .. TxQueues - 1
ZERO == <<"zero">>

\* calloc: one structure and one array per receive queue, for both arrays.
calloc(count, words) == [w \in 0 .. count * words - 1 |-> ZERO]
EmptyQueues ==
    [rx |-> calloc(RxQueues, 3 + MAX_RX_QUEUE_ENTRIES),
     tx |-> calloc(RxQueues, 2 + MAX_TX_QUEUE_ENTRIES)]

\* The registers hold anything at first, and no reset is under way.
Init ==
    /\ prog \in {ixgbe_init(RxQueues, TxQueues), cpp_ixgbe(RxQueues, TxQueues)}
    /\ latch = NULL
    /\ \E left \in {{}, AllBits} :
           regs = [r \in RegisterSet |-> IF r = IXGBE_CTRL THEN {} ELSE left]
    /\ enabling = {}
    /\ era = "before"
    /\ rings = [phy \in UNION {{RxRing(q), TxRing(q)} : q \in RxIds \cup TxIds} |-> NULL]
    /\ queues = EmptyQueues
    /\ max_wait = max_wait_init

Fail(how) == prog' = <<<<how>>>> /\ UNCHANGED <<latch, memory>>

\* memory_allocate_dma and the memset to 0xFF
RingStep ==
    /\ At("ring")
    /\ rings' = [rings EXCEPT ![Head(prog)[2]] =
            [k \in 0 .. Max({NUM_RX_QUEUE_ENTRIES, NUM_TX_QUEUE_ENTRIES}) - 1 |-> "FF"]]
    /\ Done
    /\ UNCHANGED <<regs, enabling, era, queues, max_wait>>

StoreStep ==
    /\ At("store")
    /\ LET op == Head(prog)
       IN  IF op[3] \in DOMAIN queues[op[2]]
           THEN /\ queues' = [queues EXCEPT ![op[2]][op[3]] = op[4]]
                /\ Done
                /\ UNCHANGED <<rings, max_wait>>
           ELSE Fail("undefined")
    /\ UNCHANGED <<regs, enabling, era>>

\* queue->num_entries: NULL when another queue's pointer lies over it.
num_entries(array, word) ==
    LET w == queues[array][word]
    IN  IF w[1] = "entries" THEN w[2] ELSE IF w = ZERO THEN 0 ELSE NULL
PowerOfTwo(n) == n = 0 \/ \E k \in 0 .. 15 : n = 2^k

\* start_rx_queue: the pool, and the test of the size
PoolStep ==
    /\ At("pool")
    /\ LET q == Head(prog)[2]
           n == num_entries("rx", rx_queue(q) + 2)
       IN  IF n = NULL THEN Fail("undefined")
           ELSE IF ~PowerOfTwo(n) THEN Fail("abort")
           ELSE /\ queues' = [queues EXCEPT !["rx"][rx_queue(q) + 1] = <<"pool", q>>]
                /\ Done
                /\ UNCHANGED <<rings, max_wait>>
    /\ UNCHANGED <<regs, enabling, era>>

\* start_rx_queue: one round of the loop
PostStep ==
    /\ At("post")
    /\ LET q == Head(prog)[2]
           i == Head(prog)[3]
           n == num_entries("rx", rx_queue(q) + 2)
           ring == queues["rx"][rx_queue(q)]
       IN  IF n = NULL \/ ring[1] # "ring" THEN Fail("undefined")
           ELSE IF i = n THEN Done /\ UNCHANGED memory
           ELSE IF i = MEMPOOL_ENTRIES THEN Fail("abort")
           ELSE IF rx_queue(q) + 3 + i \notin DOMAIN queues["rx"] THEN Fail("undefined")
           ELSE /\ rings' = [rings EXCEPT ![ring[2]][i] = "posted"]
                /\ queues' = [queues EXCEPT !["rx"][rx_queue(q) + 3 + i] = <<"buf", q, i>>]
                /\ prog' = <<<<"post", q, i + 1>>>> \o Tail(prog)
                /\ UNCHANGED <<latch, max_wait>>
    /\ UNCHANGED <<regs, enabling, era>>

\* start_rx_queue: give the NIC all descriptors but one
TailStep ==
    /\ At("tail")
    /\ LET q == Head(prog)[2]
       IN  Write(IXGBE_RDT(q), Bits(num_entries("rx", rx_queue(q) + 2) - 1))
    /\ Done
    /\ UNCHANGED <<era, memory>>

\* start_tx_queue: the test of the size
CheckStep ==
    /\ At("check")
    /\ LET n == num_entries("tx", tx_queue(Head(prog)[2]) + 1)
       IN  IF n = NULL THEN Fail("undefined")
           ELSE IF ~PowerOfTwo(n) THEN Fail("abort")
           ELSE Done /\ UNCHANGED memory
    /\ UNCHANGED <<regs, enabling, era>>

\* The state change of LinkStep for a given time between two polls.
PollLink(op, speed, interval) ==
    /\ At(op)
    /\ IF speed = 0 /\ max_wait > 0
       THEN max_wait' = max_wait - interval /\ UNCHANGED <<prog, latch>>
       ELSE Done /\ UNCHANGED max_wait
    /\ UNCHANGED <<regs, enabling, era, rings, queues>>
\* mutant: the time that passed is not counted
LinkStep_uncounted == PollLink("link", ixgbe_get_link_speed, 0)
\* wait_for_link: one poll
LinkStep == PollLink("link", ixgbe_get_link_speed, poll_interval)
cpp_LinkStep == PollLink("cpp_link", cpp_get_link_speed, poll_interval)

Driver ==
    \/ (RegisterStep \/ SwappedRead \/ SwappedWrite) /\ UNCHANGED memory
    \/ RingStep \/ StoreStep \/ PoolStep \/ PostStep \/ TailStep \/ CheckStep
    \/ LinkStep \/ cpp_LinkStep

Next == Driver \/ (Nic /\ UNCHANGED memory)
-----------------------------------------------------------------------------
Has(reg, flags) == flags \subseteq regs[reg]
Returned == prog = << >>

\* The NIC fetches receive descriptors of a queue, or could send for one.
Receiving(q) ==
    /\ Has(IXGBE_RXCTRL, IXGBE_RXCTRL_RXEN) /\ Has(IXGBE_RXDCTL(q), ENABLE)
    /\ regs[IXGBE_RDH(q)] # regs[IXGBE_RDT(q)]
Sending(q) == Has(IXGBE_DMATXCTL, IXGBE_DMATXCTL_TE) /\ Has(IXGBE_TXDCTL(q), ENABLE)

\* Once it was reset the NIC reaches into no memory but what the driver gave it
\* ("prevent rogue memory accesses on premature DMA activation"): a queue that
\* receives has its own ring, every descriptor before the tail posts a buffer,
\* and it reports in the format ixgbe_rx_packet reads; a queue that may send has
\* its own ring and nothing in it.
DmaOnlyWhenReady ==
    era = "after" =>
        /\ \A q \in RxIds : Receiving(q) =>
              /\ regs[IXGBE_RDBAL(q)] = Low(RxRing(q)) /\ regs[IXGBE_RDBAH(q)] = High(RxRing(q))
              /\ regs[IXGBE_RDLEN(q)] = Bits(16 * NUM_RX_QUEUE_ENTRIES)
              /\ \A k \in 0 .. Number(regs[IXGBE_RDT(q)]) - 1 : rings[RxRing(q)][k] = "posted"
              /\ regs[IXGBE_SRRCTL(q)] \cap IXGBE_SRRCTL_DESCTYPE_MASK
                    = IXGBE_SRRCTL_DESCTYPE_ADV_ONEBUF
        /\ \A q \in TxIds : Sending(q) =>
              /\ regs[IXGBE_TDBAL(q)] = Low(TxRing(q)) /\ regs[IXGBE_TDBAH(q)] = High(TxRing(q))
              /\ regs[IXGBE_TDLEN(q)] = Bits(16 * NUM_TX_QUEUE_ENTRIES)
              /\ regs[IXGBE_TDH(q)] = regs[IXGBE_TDT(q)]

\* However late the reset happens, no setting is lost to it: when the function
\* returns the NIC is configured, every queue is enabled and no interrupt is.
ConfigurationSurvives ==
    Returned =>
        /\ era = "after"
        /\ regs[IXGBE_EIMC] \cap 0 .. 30 = {}
        /\ Has(IXGBE_HLREG0, IXGBE_HLREG0_RXCRCSTRP \cup IXGBE_HLREG0_TXCRCEN
                                \cup IXGBE_HLREG0_TXPADEN)
        /\ Has(IXGBE_RDRXCTL, IXGBE_RDRXCTL_CRCSTRIP \cup IXGBE_RDRXCTL_DMAIDONE)
        /\ Has(IXGBE_FCTRL, IXGBE_FCTRL_BAM \cup IXGBE_FCTRL_MPE \cup IXGBE_FCTRL_UPE)
        /\ regs[IXGBE_RXPBSIZE(0)] = IXGBE_RXPBSIZE_128KB
        /\ regs[IXGBE_TXPBSIZE(0)] = IXGBE_TXPBSIZE_40KB
        /\ \A q \in RxIds : Receiving(q) /\ 12 \notin regs[IXGBE_DCA_RXCTRL(q)]
        /\ \A q \in TxIds : Sending(q)

\* "make sure that rx is disabled while re-configuring it": after the reset the
\* driver changes no setting of the receive path while the receiver runs.
RxSettings == {IXGBE_RDRXCTL} \cup {IXGBE_RXPBSIZE(i) : i \in 0 .. 7}
    \cup UNION {{IXGBE_SRRCTL(q), IXGBE_RDBAL(q), IXGBE_RDBAH(q), IXGBE_RDLEN(q),
                 IXGBE_DCA_RXCTRL(q)} : q \in RxIds}
RxOffWhileConfigured ==
    [][era = "after" /\ prog' # prog /\ Has(IXGBE_RXCTRL, IXGBE_RXCTRL_RXEN)
       => \A r \in RxSettings : regs'[r] = regs[r]]_vars

\* "Support for multiple device queues": every queue the caller asked for has the
\* structure that was set up for it, and none was taken from what another queue
\* keeps there.
QueuesApart ==
    /\ ~At("undefined")
    /\ Returned =>
        /\ \A q \in RxIds : queues["rx"][rx_queue(q)] = <<"ring", RxRing(q)>>
        /\ \A q \in TxIds : queues["tx"][tx_queue(q)] = <<"ring", TxRing(q)>>
=============================================================================
