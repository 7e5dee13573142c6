------------------------------ MODULE RxQueue ------------------------------
(***************************************************************************)
(* One receive queue of the ixgbe driver: start_rx_queue and               *)
(* ixgbe_rx_packet of src/driver/ixgbe.c, run by one thread, against the   *)
(* receive engine of the NIC.  As in TxQueue a driver step makes at most   *)
(* one access to what the NIC shares with it.                              *)
(***************************************************************************)
EXTENDS Mempool, Ring

CONSTANTS NUM_RX_QUEUE_ENTRIES, \* queue->num_entries, below 2^16
          Packets               \* what may arrive, as far as a descriptor
                                \* reports it: a length

ASSUME RxQueueAssumption ==
    /\ NUM_RX_QUEUE_ENTRIES \in Nat
    /\ NUM_RX_QUEUE_ENTRIES >= 2
    /\ \E k \in 1 .. 15 : NUM_RX_QUEUE_ENTRIES = 2^k
    /\ NULL \notin Packets \cup (Bufs \X {"header", "data"})

VARIABLES
    rx_index,           \* next descriptor to look at
    virtual_addresses,  \* the buffer that is returned for each descriptor
    descriptors,        \* the ring in DMA memory
    RXDCTL,             \* enable bit: "off", "set" by the driver, "on"
    RDT,                \* tail register, written by the driver
    RDH,                \* head register, advanced by the NIC
    pc,                 \* where start_rx_queue or ixgbe_rx_packet is;
                        \* "aborted" after error(), "undefined" after a use of
                        \* a buffer header that holds packet data
    i,                  \* loop counter of start_rx_queue
    desc,               \* ixgbe_rx_packet: the packet the descriptor reports,
    buf,                \* the buffer to return
    new_buf,            \* and the one to post
    got,                \* what the last call returned: the packet
    held,               \* the buffers the application was given
    landed,             \* for each slot, the buffer the NIC last wrote to
    clobbered           \* the buffers whose header the NIC overwrote

locals == <<desc, buf, new_buf>>
app    == <<got, held>>
dma    == <<landed, clobbered>>
vars   == <<free_stack, rx_index, virtual_addresses, descriptors, RXDCTL, RDT,
            RDH, pc, i, locals, app, dma>>

Slots == 0 .. NUM_RX_QUEUE_ENTRIES - 1
inc(index) == inc_and_wrap_ring(index, NUM_RX_QUEUE_ENTRIES)

\* A buffer begins with the header of struct pkt_buf; the packet belongs at
\* offset 64, data.
Addresses == Bufs \X {"header", "data"}

\* union ixgbe_adv_rx_desc: two words of 8 bytes, pkt_addr and hdr_addr for the
\* driver, packet information and status for the NIC.  NULL in addr is what no
\* driver wrote: 0xFF or packet information.  stat is 0, the 0xFF of init_rx, or
\* the NIC's report of a packet, or of a part of one without EOP.
Clear   == [DD |-> FALSE, EOP |-> FALSE, length |-> NULL]
AllOnes == [DD |-> TRUE, EOP |-> TRUE, length |-> NULL]
Reports == [DD : {TRUE}, EOP : BOOLEAN, length : Packets]
DD(k) == descriptors[k].stat.DD
-----------------------------------------------------------------------------
\* The queue after init_rx.
RxInit ==
    /\ rx_index = 0
    /\ virtual_addresses = [k \in Slots |-> NULL]
    /\ descriptors = [k \in Slots |-> [addr |-> NULL, stat |-> AllOnes]]
    /\ RXDCTL = "off"
    /\ RDT = 0
    /\ RDH = 0
    /\ pc = "fill"
    /\ i = 0
    /\ desc = NULL /\ buf = NULL /\ new_buf = NULL
    /\ got = NULL /\ held = {}
    /\ landed = [k \in Slots |-> NULL]
    /\ clobbered = {}

\* The state change of StartFill for a given second word.
StartPost(stat) ==
    /\ pc = "fill"
    /\ i < NUM_RX_QUEUE_ENTRIES
    /\ IF free_stack = << >>
       THEN /\ pc' = "aborted"
            /\ UNCHANGED <<free_stack, descriptors, virtual_addresses, i>>
       ELSE /\ pkt_buf_alloc
            /\ descriptors' = [descriptors EXCEPT ![i] =
                    [addr |-> <<Top, "header">>, stat |-> stat]]
            /\ virtual_addresses' = [virtual_addresses EXCEPT ![i] = Top]
            /\ i' = i + 1
            /\ UNCHANGED pc
    /\ UNCHANGED <<rx_index, RXDCTL, RDT, RDH, locals, app, dma>>
\* mutant: hdr_addr is not set
StartFill_dirty == StartPost(AllOnes)
\* One round of the loop of start_rx_queue.  The address posted is the one of
\* the buffer itself, not of its data.
StartFill == StartPost(Clear)

StartEnable ==
    /\ pc = "fill"
    /\ i = NUM_RX_QUEUE_ENTRIES
    /\ RXDCTL' = "set"
    /\ pc' = "wait"
    /\ UNCHANGED <<free_stack, rx_index, virtual_addresses, descriptors, RDT,
                   RDH, i, locals, app, dma>>

\* The wait for the enable bit is over, reset the head.
StartHead ==
    /\ pc = "wait"
    /\ RXDCTL = "on"
    /\ RDH' = 0
    /\ pc' = "start"
    /\ UNCHANGED <<free_stack, rx_index, virtual_addresses, descriptors, RXDCTL,
                   RDT, i, locals, app, dma>>

\* Give the NIC all descriptors but one.
StartTail ==
    /\ pc = "start"
    /\ RDT' = NUM_RX_QUEUE_ENTRIES - 1
    /\ pc' = "idle"
    /\ UNCHANGED <<free_stack, rx_index, virtual_addresses, descriptors, RXDCTL,
                   RDH, i, locals, app, dma>>

StartStep == StartFill \/ StartEnable \/ StartHead \/ StartTail
-----------------------------------------------------------------------------
\* ixgbe_rx_packet is called and finds a packet.  A call that finds none
\* returns NULL and changes nothing.
RxPoll ==
    /\ pc = "idle"
    /\ DD(rx_index)
    /\ pc' = IF descriptors[rx_index].stat.EOP THEN "take" ELSE "aborted"
    /\ UNCHANGED <<free_stack, rx_index, virtual_addresses, descriptors, RXDCTL,
                   RDT, RDH, i, locals, app, dma>>

\* The state change of RxTake for a given tail.
RxFetch(tail) ==
    /\ pc = "take"
    /\ desc' = descriptors[rx_index].stat.length
    /\ buf' = virtual_addresses[rx_index]
    /\ new_buf' = Top
    /\ IF free_stack = << >>
       THEN pc' = "aborted" /\ UNCHANGED free_stack
       ELSE pc' = "pkt_addr" /\ pkt_buf_alloc
    /\ RDT' = tail
    /\ UNCHANGED <<rx_index, virtual_addresses, descriptors, RXDCTL, RDH, i, app,
                   dma>>
\* mutant: the slot is handed to the NIC before it is reset.  (With the tail off
\* by one this would do no harm yet: the NIC stops before the tail.)
RxTake_early == RxFetch(inc(rx_index))
\* Copy the descriptor, look up its buffer, allocate the one to replace it.
RxTake == RxFetch(RDT)

\* The state change of RxPktAddr for a given buffer.
RxPost(b) ==
    /\ pc = "pkt_addr"
    /\ descriptors' = [descriptors EXCEPT ![rx_index].addr = <<b, "data">>]
    /\ pc' = "hdr_addr"
    /\ UNCHANGED <<free_stack, rx_index, virtual_addresses, RXDCTL, RDT, RDH, i,
                   locals, app, dma>>
\* mutant: the buffer that is returned is posted again
RxPktAddr_same == RxPost(buf)
\* Reset the descriptor, the address first.
RxPktAddr == RxPost(new_buf)

\* mutant: the flags of the descriptor are not reset
RxHdrAddr_skipped ==
    /\ pc = "hdr_addr"
    /\ pc' = "tail"
    /\ UNCHANGED <<free_stack, rx_index, virtual_addresses, descriptors, RXDCTL,
                   RDT, RDH, i, locals, app, dma>>
\* hdr_addr = 0 clears the status word that lies over it.
RxHdrAddr ==
    /\ pc = "hdr_addr"
    /\ descriptors' = [descriptors EXCEPT ![rx_index].stat = Clear]
    /\ pc' = "tail"
    /\ UNCHANGED <<free_stack, rx_index, virtual_addresses, RXDCTL, RDT, RDH, i,
                   locals, app, dma>>

\* The state change of RxTail for a given new tail.
RxReturn(tail) ==
    /\ pc = "tail"
    /\ rx_index' = inc(rx_index)
    /\ RDT' = tail
    /\ got' = desc
    /\ held' = held \cup {buf}
    /\ pc' = "idle"
    /\ desc' = NULL /\ buf' = NULL /\ new_buf' = NULL
    /\ UNCHANGED <<free_stack, virtual_addresses, descriptors, RXDCTL, RDH, i,
                   dma>>
\* mutant: the tail is not moved
RxTail_still == RxReturn(RDT)
\* Hand the slot to the NIC, "intentionally off by one", and return the buffer.
RxTail == RxReturn(rx_index)

RxStep == RxPoll \/ RxTake \/ RxPktAddr \/ RxHdrAddr \/ RxTail

\* The application gives a buffer back.  pkt_buf_free finds the pool through
\* the header of the buffer.
AppFree(b) ==
    /\ pc = "idle"
    /\ b \in held
    /\ IF b \in clobbered
       THEN pc' = "undefined" /\ UNCHANGED <<free_stack, held>>
       ELSE pkt_buf_free(b) /\ held' = held \ {b} /\ UNCHANGED pc
    /\ UNCHANGED <<rx_index, virtual_addresses, descriptors, RXDCTL, RDT, RDH, i,
                   locals, got, dma>>
-----------------------------------------------------------------------------
NicEnable ==
    /\ RXDCTL = "set"
    /\ RXDCTL' = "on"
    /\ UNCHANGED <<free_stack, rx_index, virtual_addresses, descriptors, RDT,
                   RDH, pc, i, locals, app, dma>>

\* The NIC owns the descriptors from head to tail, and drops a packet when
\* there is none (DROP_EN).  It writes the packet to the address it finds and
\* reports it in the same descriptor.
NicReceive(p, eop) ==
    LET addr == descriptors[RDH].addr
    IN  /\ RXDCTL = "on"
        /\ RDH # RDT
        /\ descriptors' = [descriptors EXCEPT ![RDH] =
                [addr |-> NULL,
                 stat |-> [DD |-> TRUE, EOP |-> eop, length |-> p]]]
        /\ landed' = [landed EXCEPT ![RDH] = addr[1]]
        /\ clobbered' = IF addr[2] = "header"
                        THEN clobbered \cup {addr[1]} ELSE clobbered
        /\ RDH' = inc(RDH)
        /\ UNCHANGED <<free_stack, rx_index, virtual_addresses, RXDCTL, RDT, pc,
                       i, locals, app>>

Nic == NicEnable \/ \E p \in Packets, eop \in BOOLEAN : NicReceive(p, eop)

Init == MempoolInit /\ RxInit
Next == StartStep \/ RxStep \/ (\E b \in Bufs : AppFree(b)) \/ Nic

\* The application polls the queue for ever and the NIC grants the enable bit;
\* nothing says that packets arrive.
Spec == Init /\ [][Next]_vars /\ WF_vars(StartStep \/ RxStep) /\ WF_vars(NicEnable)
-----------------------------------------------------------------------------
Started == RXDCTL = "on" /\ pc \notin {"wait", "start"}
Running == pc \notin {"aborted", "undefined"}

\* The slots the NIC may use, those it filled, and the one in between.
Posted   == Window(RDH, RDT, NUM_RX_QUEUE_ENTRIES)
Received == Window(rx_index, RDH, NUM_RX_QUEUE_ENTRIES)
Resetting == pc \in {"pkt_addr", "hdr_addr", "tail"}

TypeOK ==
    /\ free_stack \in Seq(Bufs)
    /\ rx_index \in Slots /\ RDT \in Slots /\ RDH \in Slots
    /\ virtual_addresses \in [Slots -> Bufs \cup {NULL}]
    /\ descriptors \in [Slots -> [addr : Addresses \cup {NULL},
                                  stat : Reports \cup {Clear, AllOnes}]]
    /\ RXDCTL \in {"off", "set", "on"}
    /\ pc \in {"fill", "wait", "start", "idle", "take", "pkt_addr", "hdr_addr",
               "tail", "aborted", "undefined"}
    /\ i \in 0 .. NUM_RX_QUEUE_ENTRIES
    /\ desc \in Packets \cup {NULL} /\ got \in Packets \cup {NULL}
    /\ buf \in Bufs \cup {NULL} /\ new_buf \in Bufs \cup {NULL}
    /\ held \subseteq Bufs /\ clobbered \subseteq Bufs
    /\ landed \in [Slots -> Bufs \cup {NULL}]

\* What ixgbe_rx_packet tells from the DD bit is right: the slots the NIC
\* filled have it, the ones the NIC may still use do not, whatever they held a
\* lap earlier; and those name a buffer.  One slot always stays unused.
DDMeansReceived ==
    Started =>
        /\ RDT = (rx_index - 1) % NUM_RX_QUEUE_ENTRIES
        /\ \A k \in Posted : ~DD(k) /\ descriptors[k].addr \in Addresses
        /\ \A k \in Received : \/ descriptors[k].stat \in Reports
                               \/ k = rx_index /\ ~(pc \in {"idle", "take"})

\* The buffers the NIC may write to are in nobody else's hands: none is free,
\* none is with the application or about to go there, no two slots share one.
PostedExclusive ==
    LET Of(k) == descriptors[k].addr[1]
    IN  Started /\ pc # "undefined" =>
            \A k \in Posted :
                /\ Of(k) \notin Free \cup held
                /\ Resetting => Of(k) \notin {buf, new_buf}
                /\ \A l \in Posted : Of(k) = Of(l) => k = l

\* "otherwise we'd set RDT=RDH if we are receiving faster than packets coming
\* in": the driver never moves the tail onto the head, which would tell the
\* NIC that it has no descriptor at all.
TailNeverMeetsHead == [][RDT' # RDT => RDT' # RDH]_vars

\* The driver writes no descriptor that the NIC may be using: from head to
\* tail only the step that advances the head changes one.
DriverKeepsOff ==
    [][RDH' = RDH => \A k \in Posted : descriptors'[k] = descriptors[k]]_vars

\* A NIC that ran out of descriptors gets new ones, unless the process ends.
RingRefilled == (Started /\ RDH = RDT) ~> (RDH # RDT \/ ~Running)

\* The contract: a bounded first-in first-out channel that hands each packet
\* the NIC reported to the caller once.
Channel == INSTANCE RxChannel WITH
    Capacity <- NUM_RX_QUEUE_ENTRIES - 1,
    queue <- [k \in 1 .. Distance(rx_index, RDH, NUM_RX_QUEUE_ENTRIES) |->
                IF k = 1 /\ Resetting THEN desc
                ELSE descriptors[(rx_index + k - 1) % NUM_RX_QUEUE_ENTRIES]
                        .stat.length]
ImplementsChannel == Channel!Spec
-----------------------------------------------------------------------------
\* The comments on virtual_addresses: it maps descriptors back to their mbuf.
\* The buffer that is returned is the one the NIC wrote the packet to.
MapsBack == pc = "tail" => buf = landed[rx_index]

\* The comment of start_rx_queue: the header takes a cache line of a buffer and
\* only the bytes after it are for the device.
HeadersIntact == clobbered = {}
=============================================================================
