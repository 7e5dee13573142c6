--------------------------- MODULE RxQueueProofs ---------------------------
(***************************************************************************)
(* The safety properties of RxQueue for every power-of-two ring size, pool *)
(* size and set of packets.  What DD means and who owns the posted buffers *)
(* rest on the positions of the driver and the NIC (Phases), on what every *)
(* slot holds, whether the NIC filled it or not (Contents, Buffers), and   *)
(* on how far the reset of a slot has come (Reset).  RxInv joins them, and *)
(* from it follows that the ring implements the channel.                   *)
(***************************************************************************)
EXTENDS RxQueue, QueueLemmas

\* The slots start_rx_queue has filled, and those that still have the buffer it
\* put there.
Filled == 0 .. i - 1
Fresh(k) == descriptors[k].addr = <<virtual_addresses[k], "header">>
Unreceived == Filled \ Received

\* How the place in the code, the enable bit and the positions go together.
Phases ==
    /\ RXDCTL = "off" => pc \in {"fill", "aborted"}
    /\ RXDCTL = "set" => pc = "wait"
    /\ pc = "fill" => RXDCTL = "off"
    /\ RXDCTL # "off" => i = NUM_RX_QUEUE_ENTRIES
    /\ Started => RDT = IF rx_index = 0 THEN NUM_RX_QUEUE_ENTRIES - 1 ELSE rx_index - 1
    /\ ~Started => rx_index = 0 /\ RDH = 0 /\ RDT = 0 /\ held = {}
    /\ pc = "take" \/ Resetting => rx_index # RDH

\* Slots the NIC has not filled are clear, slots it has filled report a packet
\* until the driver resets them, and their first buffer was written to.
Contents ==
    /\ \A k \in Unreceived :
        descriptors[k].stat = Clear /\ descriptors[k].addr \in Addresses
    /\ \A k \in Received :
        /\ virtual_addresses[k] \in clobbered
        /\ k # rx_index \/ pc \in {"idle", "take"} => descriptors[k].stat \in Reports

\* The buffers of start_rx_queue are never free again: once the NIC has written
\* to one its header is gone.  The others posted since are in one slot each.
Buffers ==
    /\ FreeOnce
    /\ \A k \in Filled :
        /\ virtual_addresses[k] \in Bufs \ Free
        /\ Fresh(k) \/ virtual_addresses[k] \in clobbered
    /\ \A k, l \in Filled : virtual_addresses[k] = virtual_addresses[l] => k = l
    /\ \A k \in Filled : descriptors[k].addr \in Addresses /\ ~Fresh(k) =>
        /\ descriptors[k].addr[2] = "data" /\ descriptors[k].addr[1] \notin Free
        /\ \A l \in Filled : /\ virtual_addresses[l] # descriptors[k].addr[1]
                             /\ descriptors[l].addr = descriptors[k].addr => k = l
    /\ \A b \in held : \E k \in Filled : virtual_addresses[k] = b /\ ~Fresh(k)

\* What ixgbe_rx_packet has done so far, by the place it is at.
Reset ==
    /\ Resetting => new_buf \in Bufs /\ buf = virtual_addresses[rx_index]
    /\ pc = "pkt_addr" =>
        /\ new_buf \notin Free
        /\ \A k \in Filled : /\ virtual_addresses[k] # new_buf
                             /\ descriptors[k].addr # <<new_buf, "data">>
    /\ pc \in {"hdr_addr", "tail"} => descriptors[rx_index].addr = <<new_buf, "data">>
    /\ pc = "tail" => descriptors[rx_index].stat = Clear

RxInv == TypeOK /\ Phases /\ Contents /\ Buffers /\ Reset
-----------------------------------------------------------------------------
\* The assumptions in the form the proofs use.
LEMMA RxConst ==
    /\ NUM_RX_QUEUE_ENTRIES \in Nat /\ NUM_RX_QUEUE_ENTRIES >= 2
    /\ NULL \notin Bufs /\ NULL \notin Packets
    /\ \A b \in Bufs : NULL # <<b, "header">> /\ NULL # <<b, "data">>
BY RxQueueAssumption, MempoolAssumption

\* inc stays on the ring.
LEMMA RxIncFacts ==
    \A k \in Slots : /\ inc(k) = IF k = NUM_RX_QUEUE_ENTRIES - 1 THEN 0 ELSE k + 1
                     /\ inc(k) \in Slots
BY RxConst, IncByCases DEF inc, Slots

\* The queue after init_rx satisfies the inductive invariant.
LEMMA RxInitInv == Init => RxInv
<1> SUFFICES ASSUME Init PROVE RxInv
  OBVIOUS
<1> USE RxConst
<1>1. free_stack \in Seq(Bufs) /\ FreeOnce
  BY MempoolInitFacts DEF Init
<1>2. TypeOK
  BY <1>1 DEF Init, RxInit, TypeOK, Slots
<1>3. Received = {} /\ Filled = {}
  BY DEF Init, RxInit, Received, Window, Distance, Filled
<1>4. Phases
  BY DEF Init, RxInit, Phases, Started, Resetting
<1>5. Contents /\ Buffers /\ Reset
  BY <1>1, <1>3 DEF Init, RxInit, Contents, Unreceived, Buffers, Reset, Resetting
<1> QED
  BY <1>2, <1>4, <1>5 DEF RxInv

\* Once the queue is started the NIC may use all slots that it has not filled
\* but the last.
LEMMA SlotsSplit ==
    ASSUME TypeOK, Phases, Started
    PROVE  /\ Posted \subseteq Unreceived /\ Filled = Slots
           /\ RDT \in Unreceived /\ RDT \notin Posted
           /\ \A k \in Unreceived : k = RDT \/ k \in Posted
           /\ rx_index # RDH => rx_index \in Received
<1>1. /\ RDT = IF rx_index = 0 THEN NUM_RX_QUEUE_ENTRIES - 1 ELSE rx_index - 1
      /\ rx_index \in Slots /\ RDH \in Slots /\ RDT \in Slots
      /\ Filled = Slots
  BY RxConst DEF TypeOK, Phases, Started, Slots, Filled
<1>2. \A k \in Slots : k \in Posted => k \notin Received
  <2> SUFFICES ASSUME NEW k \in Slots,
                      Distance(RDH, k, NUM_RX_QUEUE_ENTRIES)
                        < Distance(RDH, RDT, NUM_RX_QUEUE_ENTRIES),
                      Distance(rx_index, k, NUM_RX_QUEUE_ENTRIES)
                        < Distance(rx_index, RDH, NUM_RX_QUEUE_ENTRIES)
               PROVE  FALSE
    BY DEF Posted, Received, Window
  <2> USE RxConst DEF Slots, Distance
  <2>1. CASE rx_index = 0
    BY SMTT(60), <1>1, <2>1
  <2>2. CASE rx_index > 0 /\ rx_index <= RDH
    BY SMTT(60), <1>1, <2>2
  <2>3. CASE rx_index > RDH
    BY SMTT(60), <1>1, <2>3
  <2> QED
    BY <1>1, <2>1, <2>2, <2>3
<1>3. \A k \in Slots : k \notin Received => k = RDT \/ k \in Posted
  <2> SUFFICES ASSUME NEW k \in Slots, k # RDT,
                      ~(Distance(rx_index, k, NUM_RX_QUEUE_ENTRIES)
                          < Distance(rx_index, RDH, NUM_RX_QUEUE_ENTRIES))
               PROVE  Distance(RDH, k, NUM_RX_QUEUE_ENTRIES)
                        < Distance(RDH, RDT, NUM_RX_QUEUE_ENTRIES)
    BY DEF Posted, Received, Window, Slots
  <2> USE RxConst DEF Slots, Distance
  <2>1. CASE rx_index = 0
    BY SMTT(60), <1>1, <2>1
  <2>2. CASE rx_index > 0 /\ rx_index <= RDH
    <3>1. RDT = rx_index - 1 /\ RDT < RDH
      BY <1>1, <2>2
    <3>2. k >= RDH \/ k < RDT
      BY <1>1, <2>2, <3>1
    <3> QED
      BY <1>1, <2>2, <3>1, <3>2
  <2>3. CASE rx_index > RDH
    BY SMTT(60), <1>1, <2>3
  <2> QED
    BY <1>1, <2>1, <2>2, <2>3
<1>4. RDT \notin Received /\ RDT \notin Posted
  BY SMTT(60), <1>1, RxConst DEF Slots, Posted, Received, Window, Distance
<1>5. rx_index # RDH => rx_index \in Received
  BY SMTT(60), <1>1, RxConst DEF Slots, Received, Window, Distance
<1>6. Posted \subseteq Slots
  BY DEF Posted, Window, Slots
<1> QED
  BY <1>1, <1>2, <1>3, <1>4, <1>5, <1>6 DEF Unreceived

\* Who has which buffer does not depend on the registers and the place in the
\* code.
LEMMA SameBuffers ==
    ASSUME Buffers, UNCHANGED <<free_stack, virtual_addresses, descriptors, i, held,
                                clobbered>>
    PROVE  Buffers'
<1>1. /\ FreeOnce' = FreeOnce /\ Free' = Free /\ Filled' = Filled
      /\ \A k : Fresh(k)' = Fresh(k)
  BY DEF FreeOnce, Free, Filled, Fresh
<1> QED
  BY <1>1 DEF Buffers

\* An unchanged state satisfies what it satisfied.
LEMMA RxStutterInv == ASSUME RxInv, UNCHANGED vars PROVE RxInv'
<1> USE DEF RxInv, vars, locals, app, dma
<1>1. TypeOK'
  BY DEF TypeOK
<1>2. Phases'
  BY DEF Phases, Started, Resetting
<1>3. Contents'
  BY DEF Contents, Unreceived, Filled, Received
<1>4. Buffers'
  BY SameBuffers
<1>5. Reset'
  BY DEF Reset, Resetting, Free, Filled
<1> QED
  BY <1>1, <1>2, <1>3, <1>4, <1>5

\* A round of the loop of start_rx_queue.
LEMMA StartFillInv == ASSUME RxInv, StartFill PROVE RxInv'
<1> USE RxConst
<1>0. /\ TypeOK /\ Phases /\ Contents /\ Buffers /\ Reset
      /\ pc = "fill" /\ i < NUM_RX_QUEUE_ENTRIES
      /\ UNCHANGED <<rx_index, RXDCTL, RDT, RDH, desc, buf, new_buf, got, held, landed,
                     clobbered>>
  BY DEF RxInv, StartFill, StartPost, locals, app, dma
<1>1. /\ RXDCTL = "off" /\ ~Started /\ ~Started' /\ ~Resetting
      /\ rx_index = 0 /\ RDH = 0 /\ RDT = 0 /\ held = {} /\ i \in Slots
      /\ Received = {} /\ Received' = {}
  BY <1>0 DEF Phases, Started, Resetting, Received, Window, Distance, TypeOK, Slots
<1>2. CASE free_stack = << >>
  <2>1. pc' = "aborted" /\ UNCHANGED <<free_stack, descriptors, virtual_addresses, i>>
    BY <1>2 DEF StartFill, StartPost
  <2>2. TypeOK' /\ Phases' /\ Reset'
    BY <1>0, <1>1, <2>1 DEF TypeOK, Phases, Resetting, Reset
  <2>3. Contents' /\ Buffers'
    BY <1>0, <1>1, <2>1, SameBuffers DEF Contents, Unreceived, Filled
  <2> QED
    BY <2>2, <2>3 DEF RxInv
<1>3. CASE free_stack # << >>
  <2>1. /\ pkt_buf_alloc /\ i' = i + 1 /\ pc' = pc
        /\ descriptors' = [descriptors EXCEPT ![i] =
                            [addr |-> <<Top, "header">>, stat |-> Clear]]
        /\ virtual_addresses' = [virtual_addresses EXCEPT ![i] = Top]
    BY <1>3 DEF StartFill, StartPost
  <2>2. /\ free_stack' \in Seq(Bufs) /\ FreeOnce' /\ Top \in Free /\ Top \in Bufs
        /\ Free' = Free \ {Top}
    BY <1>0, <2>1, AllocFacts DEF TypeOK, Buffers
  <2> PICK n \in Slots : n = i
    BY <1>1
  <2>3. /\ Filled' = Filled \cup {n} /\ n \notin Filled /\ Filled \subseteq Slots
    BY <1>0, <1>1, <2>1 DEF Filled, TypeOK, Slots
  <2>4. /\ virtual_addresses'[n] = Top
        /\ descriptors'[n].addr = <<Top, "header">> /\ descriptors'[n].stat = Clear
        /\ \A k \in Filled : /\ virtual_addresses'[k] = virtual_addresses[k]
                             /\ descriptors'[k] = descriptors[k]
    BY <1>0, <1>1, <2>1, <2>3 DEF TypeOK
  <2>5. TypeOK'
    <3>1. [addr |-> <<Top, "header">>, stat |-> Clear]
            \in [addr : Addresses \cup {NULL}, stat : Reports \cup {Clear, AllOnes}]
      BY <2>2 DEF Addresses
    <3>2. descriptors' \in [Slots -> [addr : Addresses \cup {NULL},
                                      stat : Reports \cup {Clear, AllOnes}]]
      BY <1>0, <1>1, <2>1, <3>1 DEF TypeOK
    <3> QED
      BY <1>0, <1>1, <2>1, <2>2, <3>2 DEF TypeOK
  <2>6. Phases' /\ Reset'
    BY <1>0, <1>1, <2>1 DEF Phases, Resetting, Reset
  <2>7. Contents'
    <3>1. <<Top, "header">> \in Addresses
      BY <2>2 DEF Addresses
    <3>2. \A k \in Filled' : /\ descriptors'[k].stat = Clear
                             /\ descriptors'[k].addr \in Addresses
      BY <1>0, <1>1, <2>3, <2>4, <3>1 DEF Contents, Unreceived
    <3> QED
      BY <1>1, <3>2 DEF Contents, Unreceived
  <2>8. Buffers'
    <3>1. Fresh(n)' /\ \A k \in Filled : Fresh(k)' <=> Fresh(k)
      BY <2>4 DEF Fresh
    <3>2. \A k \in Filled' : /\ virtual_addresses'[k] \in Bufs \ Free'
                             /\ Fresh(k)' \/ virtual_addresses'[k] \in clobbered'
      BY <1>0, <2>2, <2>3, <2>4, <3>1 DEF Buffers
    <3>3. \A k, l \in Filled' : virtual_addresses'[k] = virtual_addresses'[l] => k = l
      BY SMTT(30), <1>0, <2>2, <2>3, <2>4 DEF Buffers
    <3>4. ASSUME NEW k \in Filled', descriptors'[k].addr \in Addresses, ~Fresh(k)'
          PROVE  /\ descriptors'[k].addr[2] = "data"
                 /\ descriptors'[k].addr[1] \notin Free'
                 /\ \A l \in Filled' :
                        /\ virtual_addresses'[l] # descriptors'[k].addr[1]
                        /\ descriptors'[l].addr = descriptors'[k].addr => k = l
      <4>1. k \in Filled /\ ~Fresh(k) /\ descriptors'[k] = descriptors[k]
        BY <2>3, <2>4, <3>1, <3>4
      <4>2. /\ descriptors[k].addr[2] = "data" /\ descriptors[k].addr[1] \notin Free
            /\ \A l \in Filled : /\ virtual_addresses[l] # descriptors[k].addr[1]
                                 /\ descriptors[l].addr = descriptors[k].addr => k = l
        BY <1>0, <3>4, <4>1 DEF Buffers
      <4>3. descriptors'[n].addr[2] = "header"
        BY <2>4
      <4> QED
        BY <2>2, <2>3, <2>4, <4>1, <4>2, <4>3
    <3> QED
      BY <1>0, <1>1, <2>2, <3>2, <3>3, <3>4 DEF Buffers
  <2> QED
    BY <2>5, <2>6, <2>7, <2>8 DEF RxInv
<1> QED
  BY <1>2, <1>3

\* The rest of start_rx_queue and the answer of the NIC to it.
LEMMA StartInv ==
    ASSUME RxInv, StartEnable \/ StartHead \/ StartTail \/ NicEnable
    PROVE  RxInv'
<1> USE RxConst
<1>0. /\ TypeOK /\ Phases /\ Contents /\ Buffers /\ Reset
      /\ UNCHANGED <<free_stack, rx_index, virtual_addresses, descriptors, i, desc, buf,
                     new_buf, got, held, landed, clobbered>>
  BY DEF RxInv, StartEnable, StartHead, StartTail, NicEnable, locals, app, dma
<1>1. /\ ~Started /\ ~Resetting /\ ~Resetting' /\ pc' # "take"
      /\ rx_index = 0 /\ RDH = 0 /\ RDT = 0 /\ held = {} /\ RDH' = 0
      /\ pc \in {"fill", "wait", "start"} /\ i = NUM_RX_QUEUE_ENTRIES
  BY <1>0 DEF Phases, Started, Resetting, StartEnable, StartHead, StartTail, NicEnable
<1>2. TypeOK'
  BY <1>0, <1>1 DEF TypeOK, StartEnable, StartHead, StartTail, NicEnable, Slots
<1>3. Phases'
  <2>1. CASE StartEnable
    BY <1>0, <1>1, <2>1 DEF Phases, Started, StartEnable
  <2>2. CASE StartHead
    BY <1>0, <1>1, <2>2 DEF Phases, Started, StartHead
  <2>3. CASE StartTail
    <3>1. RXDCTL = "on" /\ RXDCTL' = "on"
      BY <1>0, <2>3 DEF Phases, StartTail, TypeOK
    <3> QED
      BY <1>0, <1>1, <2>3, <3>1 DEF Phases, Started, StartTail
  <2>4. CASE NicEnable
    BY <1>0, <1>1, <2>4 DEF Phases, Started, NicEnable
  <2> QED
    BY <2>1, <2>2, <2>3, <2>4
<1>4. Received = {} /\ Received' = {}
  BY <1>0, <1>1 DEF Received, Window, Distance
<1>5. Contents'
  BY <1>0, <1>4 DEF Contents, Unreceived, Filled
<1>6. Buffers'
  BY <1>0, SameBuffers
<1>7. Reset'
  BY <1>1 DEF Reset, Resetting
<1> QED
  BY <1>2, <1>3, <1>5, <1>6, <1>7 DEF RxInv

\* ixgbe_rx_packet looks at a descriptor: DD is only set on one the NIC filled.
LEMMA RxPollInv == ASSUME RxInv, RxPoll PROVE RxInv'
<1> USE RxConst
<1>0. /\ TypeOK /\ Phases /\ Contents /\ Buffers /\ Reset
      /\ pc = "idle" /\ DD(rx_index) /\ pc' \in {"take", "aborted"}
      /\ UNCHANGED <<free_stack, rx_index, virtual_addresses, descriptors, RXDCTL, RDT,
                     RDH, i, desc, buf, new_buf, got, held, landed, clobbered>>
  BY DEF RxInv, RxPoll, locals, app, dma
<1>1. Started /\ Started' /\ ~Resetting /\ ~Resetting'
  BY <1>0 DEF Phases, Started, Resetting, TypeOK
<1>2. rx_index \in Received
  <2>1. rx_index \in Filled
    BY <1>0, <1>1, SlotsSplit DEF TypeOK
  <2>2. rx_index \notin Unreceived
    BY <1>0 DEF Contents, DD, Clear
  <2> QED
    BY <2>1, <2>2 DEF Unreceived
<1>3. rx_index # RDH
  BY <1>0, <1>2 DEF Received, Window, Distance, TypeOK, Slots
<1>4. TypeOK' /\ Phases'
  BY <1>0, <1>1, <1>3 DEF TypeOK, Phases
<1>5. Contents'
  BY <1>0 DEF Contents, Unreceived, Filled, Received
<1>6. Buffers'
  BY <1>0, SameBuffers
<1>7. Reset'
  BY <1>0, <1>1 DEF Reset, Resetting
<1> QED
  BY <1>4, <1>5, <1>6, <1>7 DEF RxInv

\* pkt_buf_free always finds a header that was overwritten, since the buffers the
\* application has are those start_rx_queue posted.
LEMMA RxAppFreeInv == ASSUME RxInv, NEW b \in Bufs, AppFree(b) PROVE RxInv'
<1> USE RxConst
<1>0. /\ TypeOK /\ Phases /\ Contents /\ Buffers /\ Reset
      /\ pc = "idle" /\ b \in held
      /\ UNCHANGED <<rx_index, virtual_addresses, descriptors, RXDCTL, RDT, RDH, i, desc,
                     buf, new_buf, got, landed, clobbered>>
  BY DEF RxInv, AppFree, locals, dma
<1>1. b \in clobbered
  BY <1>0 DEF Buffers
<1>2. pc' = "undefined" /\ UNCHANGED <<free_stack, held>>
  BY <1>1 DEF AppFree
<1>3. Started /\ Started' /\ ~Resetting'
  BY <1>0, <1>2 DEF Phases, Started, Resetting, TypeOK
<1>4. TypeOK' /\ Phases'
  BY <1>0, <1>2, <1>3 DEF TypeOK, Phases
<1>5. Contents'
  BY <1>0, <1>2 DEF Contents, Unreceived, Filled, Received
<1>6. Buffers'
  BY <1>0, <1>2, SameBuffers
<1>7. Reset'
  BY <1>2, <1>3 DEF Reset, Resetting
<1> QED
  BY <1>4, <1>5, <1>6, <1>7 DEF RxInv

\* Copying the descriptor and allocating the buffer that replaces the packet's.
LEMMA RxTakeInv == ASSUME RxInv, RxTake PROVE RxInv'
<1> USE RxConst
<1>0. /\ TypeOK /\ Phases /\ Contents /\ Buffers /\ Reset
      /\ pc = "take" /\ pc' \in {"aborted", "pkt_addr"}
      /\ desc' = descriptors[rx_index].stat.length
      /\ buf' = virtual_addresses[rx_index] /\ new_buf' = Top
      /\ UNCHANGED <<rx_index, virtual_addresses, descriptors, RXDCTL, RDT, RDH, i, got,
                     held, landed, clobbered>>
  BY DEF RxInv, RxTake, RxFetch, app, dma
<1>1. Started /\ Started' /\ rx_index # RDH
  BY <1>0 DEF Phases, Started, TypeOK
<1>2. Phases'
  BY <1>0, <1>1 DEF Phases
<1>3. Contents'
  BY <1>0 DEF Contents, Unreceived, Filled, Received
<1>4. rx_index \in Slots /\ desc' \in Packets \cup {NULL} /\ buf' \in Bufs \cup {NULL}
  <2>1. rx_index \in Slots /\ descriptors[rx_index].stat \in Reports \cup {Clear, AllOnes}
    BY <1>0 DEF TypeOK
  <2>2. \A st \in Reports : st.length \in Packets
    BY DEF Reports
  <2>3. Clear.length = NULL /\ AllOnes.length = NULL
    BY DEF Clear, AllOnes
  <2> QED
    BY <1>0, <2>1, <2>2, <2>3 DEF TypeOK
<1>5. CASE free_stack = << >>
  <2>1. pc' = "aborted" /\ new_buf' = NULL /\ UNCHANGED free_stack
    BY <1>0, <1>5 DEF RxTake, RxFetch, Top
  <2>2. TypeOK' /\ Reset'
    BY <1>0, <1>4, <2>1 DEF TypeOK, Reset, Resetting
  <2>3. Buffers'
    BY <1>0, <2>1, SameBuffers
  <2> QED
    BY <1>2, <1>3, <2>2, <2>3 DEF RxInv
<1>6. CASE free_stack # << >>
  <2>1. pc' = "pkt_addr" /\ pkt_buf_alloc
    BY <1>6 DEF RxTake, RxFetch
  <2>2. /\ free_stack' \in Seq(Bufs) /\ FreeOnce' /\ Top \in Free /\ Top \in Bufs
        /\ Free' = Free \ {Top}
    BY <1>0, <2>1, AllocFacts DEF TypeOK, Buffers
  <2>3. TypeOK'
    BY <1>0, <1>4, <2>1, <2>2 DEF TypeOK
  <2>4. Filled' = Filled /\ \A k : Fresh(k)' = Fresh(k)
    BY <1>0 DEF Filled, Fresh
  <2>5. Buffers'
    BY SMTT(30), <1>0, <2>2, <2>4 DEF Buffers
  <2>6. \A k \in Filled : /\ virtual_addresses[k] # Top
                          /\ descriptors[k].addr # <<Top, "data">>
    <3> SUFFICES ASSUME NEW k \in Filled, descriptors[k].addr = <<Top, "data">>
                 PROVE  FALSE
      BY SMTT(30), <1>0, <2>2 DEF Buffers
    <3>1. descriptors[k].addr \in Addresses /\ ~Fresh(k)
      BY <2>2 DEF Addresses, Fresh
    <3>2. descriptors[k].addr[1] \notin Free
      BY <1>0, <3>1 DEF Buffers
    <3> QED
      BY <2>2, <3>2
  <2>7. Reset'
    BY <1>0, <2>1, <2>2, <2>4, <2>6 DEF Reset, Resetting
  <2> QED
    BY <1>2, <1>3, <2>3, <2>5, <2>7 DEF RxInv
<1> QED
  BY <1>5, <1>6

\* The address of the slot is reset.
LEMMA RxPktAddrInv == ASSUME RxInv, RxPktAddr PROVE RxInv'
<1> USE RxConst
<1>0. /\ TypeOK /\ Phases /\ Contents /\ Buffers /\ Reset
      /\ pc = "pkt_addr" /\ pc' = "hdr_addr"
      /\ descriptors' = [descriptors EXCEPT ![rx_index].addr = <<new_buf, "data">>]
      /\ UNCHANGED <<free_stack, rx_index, virtual_addresses, RXDCTL, RDT, RDH, i, desc,
                     buf, new_buf, got, held, landed, clobbered>>
  BY DEF RxInv, RxPktAddr, RxPost, locals, app, dma
<1> PICK n \in Slots : n = rx_index
  BY <1>0 DEF TypeOK
<1>1. /\ Started /\ Started' /\ Resetting /\ Resetting' /\ rx_index # RDH
      /\ new_buf \in Bufs
  BY <1>0 DEF Phases, Started, Resetting, TypeOK, Reset
<1>2. n \in Received /\ Filled = Slots /\ n \notin Unreceived
  BY <1>0, <1>1, SlotsSplit DEF Unreceived
<1>3. /\ descriptors'[n].addr = <<new_buf, "data">>
      /\ descriptors'[n].stat = descriptors[n].stat
      /\ \A k \in Slots : k # n => descriptors'[k] = descriptors[k]
  BY <1>0 DEF TypeOK
<1>4. TypeOK'
  <2>1. <<new_buf, "data">> \in Addresses
    BY <1>1 DEF Addresses
  <2>2. descriptors' \in [Slots -> [addr : Addresses \cup {NULL},
                                    stat : Reports \cup {Clear, AllOnes}]]
    BY ZenonT(30), <1>0, <2>1 DEF TypeOK
  <2> QED
    BY <1>0, <2>2 DEF TypeOK
<1>5. Phases'
  BY <1>0, <1>1 DEF Phases
<1>6. Received' = Received /\ Filled' = Filled /\ Unreceived' = Unreceived /\ Received \subseteq Slots
  BY <1>0 DEF Received, Filled, Unreceived, Window, Slots
<1>7. Contents'
  BY <1>0, <1>2, <1>3, <1>6 DEF Contents, Unreceived
<1>8. /\ ~Fresh(n)' /\ \A k \in Slots : k # n => (Fresh(k)' <=> Fresh(k))
  BY <1>0, <1>3 DEF Fresh
<1>9. Buffers'
  <2>1. FreeOnce' /\ Free' = Free
    BY <1>0 DEF FreeOnce, Free, Buffers
  <2>2. \A k \in Filled' : /\ virtual_addresses'[k] \in Bufs \ Free'
                           /\ Fresh(k)' \/ virtual_addresses'[k] \in clobbered'
    BY <1>0, <1>2, <1>6, <1>8, <2>1 DEF Buffers, Contents
  <2>3. ASSUME NEW k \in Filled', descriptors'[k].addr \in Addresses, ~Fresh(k)'
        PROVE  /\ descriptors'[k].addr[2] = "data"
               /\ descriptors'[k].addr[1] \notin Free'
               /\ \A l \in Filled' :
                      /\ virtual_addresses'[l] # descriptors'[k].addr[1]
                      /\ descriptors'[l].addr = descriptors'[k].addr => k = l
    <3>1. /\ new_buf \notin Free
          /\ \A l \in Filled : /\ virtual_addresses[l] # new_buf
                               /\ descriptors[l].addr # <<new_buf, "data">>
      BY <1>0 DEF Reset
    <3>2. CASE k = n
      BY <1>0, <1>2, <1>3, <1>6, <2>1, <3>1, <3>2
    <3>3. CASE k # n
      <4>1. ~Fresh(k) /\ descriptors'[k] = descriptors[k] /\ k \in Filled
        BY <1>2, <1>3, <1>6, <1>8, <2>3, <3>3
      <4>2. /\ descriptors[k].addr[2] = "data" /\ descriptors[k].addr[1] \notin Free
            /\ \A l \in Filled : /\ virtual_addresses[l] # descriptors[k].addr[1]
                                 /\ descriptors[l].addr = descriptors[k].addr => k = l
        BY <1>0, <2>3, <4>1, Zenon DEF Buffers
      <4> QED
        BY <1>0, <1>2, <1>3, <1>6, <2>1, <3>1, <4>1, <4>2
    <3> QED
      BY <3>2, <3>3
  <2>4. \A b \in held' : \E k \in Filled' : virtual_addresses'[k] = b /\ ~Fresh(k)'
    BY <1>0, <1>2, <1>6, <1>8 DEF Buffers
  <2>5. \A k, l \in Filled' : virtual_addresses'[k] = virtual_addresses'[l] => k = l
    BY <1>0, <1>6 DEF Buffers
  <2> QED
    BY <2>1, <2>2, <2>3, <2>4, <2>5 DEF Buffers
<1>10. Reset'
  BY <1>0, <1>3 DEF Reset, Resetting
<1> QED
  BY <1>4, <1>5, <1>7, <1>9, <1>10 DEF RxInv

\* The status of the slot is reset.
LEMMA RxHdrAddrInv == ASSUME RxInv, RxHdrAddr PROVE RxInv'
<1> USE RxConst
<1>0. /\ TypeOK /\ Phases /\ Contents /\ Buffers /\ Reset
      /\ pc = "hdr_addr" /\ pc' = "tail"
      /\ descriptors' = [descriptors EXCEPT ![rx_index].stat = Clear]
      /\ UNCHANGED <<free_stack, rx_index, virtual_addresses, RXDCTL, RDT, RDH, i, desc,
                     buf, new_buf, got, held, landed, clobbered>>
  BY DEF RxInv, RxHdrAddr, locals, app, dma
<1> PICK n \in Slots : n = rx_index
  BY <1>0 DEF TypeOK
<1>1. /\ Started /\ Started' /\ Resetting /\ Resetting' /\ rx_index # RDH
  BY <1>0 DEF Phases, Started, Resetting, TypeOK
<1>2. n \in Received /\ Filled = Slots /\ n \notin Unreceived
  BY <1>0, <1>1, SlotsSplit DEF Unreceived
<1>3. /\ descriptors'[n].stat = Clear
      /\ \A k \in Slots : descriptors'[k].addr = descriptors[k].addr
      /\ \A k \in Slots : k # n => descriptors'[k] = descriptors[k]
  BY <1>0 DEF TypeOK
<1>4. TypeOK'
  <2>1. descriptors' \in [Slots -> [addr : Addresses \cup {NULL},
                                    stat : Reports \cup {Clear, AllOnes}]]
    BY <1>0 DEF TypeOK
  <2> QED
    BY <1>0, <2>1 DEF TypeOK
<1>5. Phases'
  BY <1>0, <1>1 DEF Phases
<1>6. /\ Received' = Received /\ Filled' = Filled /\ Unreceived' = Unreceived
      /\ Received \subseteq Slots
  BY <1>0 DEF Received, Filled, Unreceived, Window, Slots
<1>7. Contents'
  BY <1>0, <1>2, <1>3, <1>6 DEF Contents, Unreceived
<1>8. \A k \in Slots : Fresh(k)' <=> Fresh(k)
  BY <1>0, <1>3 DEF Fresh
<1>9. FreeOnce' = FreeOnce /\ Free' = Free
  BY <1>0 DEF FreeOnce, Free
<1>10. Buffers'
  BY <1>0, <1>2, <1>3, <1>6, <1>8, <1>9 DEF Buffers
<1>11. Reset'
  BY <1>0, <1>1, <1>3 DEF Reset
<1> QED
  BY <1>4, <1>5, <1>7, <1>10, <1>11 DEF RxInv

\* The slot goes to the NIC, the buffer to the application.
LEMMA RxTailInv == ASSUME RxInv, RxTail PROVE RxInv'
<1> USE RxConst
<1>0. /\ TypeOK /\ Phases /\ Contents /\ Buffers /\ Reset
      /\ pc = "tail" /\ pc' = "idle"
      /\ rx_index' = inc(rx_index) /\ RDT' = rx_index /\ got' = desc
      /\ held' = held \cup {buf} /\ desc' = NULL /\ buf' = NULL /\ new_buf' = NULL
      /\ UNCHANGED <<free_stack, virtual_addresses, descriptors, RXDCTL, RDH, i, landed,
                     clobbered>>
  BY DEF RxInv, RxTail, RxReturn, dma
<1> PICK n \in Slots : n = rx_index
  BY <1>0 DEF TypeOK
<1>1. /\ Started /\ Started' /\ Resetting /\ ~Resetting' /\ n # RDH /\ RDH \in Slots
      /\ new_buf \in Bufs /\ buf = virtual_addresses[n]
      /\ descriptors[n].addr = <<new_buf, "data">> /\ descriptors[n].stat = Clear
  BY <1>0 DEF Phases, Started, Resetting, TypeOK, Reset
<1>2. n \in Received /\ Filled = Slots
  BY <1>0, <1>1, SlotsSplit
<1>3. Received' = Received \ {n} /\ Filled' = Filled
  BY <1>0, <1>1, WindowShrink DEF Received, inc, Slots, Filled
<1>4. buf \in Bufs
  BY <1>0, <1>1, <1>2 DEF Buffers
<1>5. TypeOK'
  BY <1>0, <1>4, RxIncFacts DEF TypeOK
<1>6. Phases'
  <2>1. RDT' = IF rx_index' = 0 THEN NUM_RX_QUEUE_ENTRIES - 1 ELSE rx_index' - 1
    BY SMTT(30), <1>0, RxIncFacts DEF TypeOK, Slots
  <2> QED
    BY <1>0, <1>1, <2>1 DEF Phases
<1>7. Contents'
  <2>1. <<new_buf, "data">> \in Addresses
    BY <1>1 DEF Addresses
  <2>2. Unreceived' = Unreceived \cup {n}
    BY <1>2, <1>3 DEF Unreceived
  <2> QED
    BY <1>0, <1>1, <1>3, <2>1, <2>2 DEF Contents
<1>8. ~Fresh(n)' /\ \A k : Fresh(k)' = Fresh(k)
  BY <1>0, <1>1 DEF Fresh
<1>9. FreeOnce' = FreeOnce /\ Free' = Free
  BY <1>0 DEF FreeOnce, Free
<1>10. Buffers'
  BY SMTT(30), <1>0, <1>1, <1>2, <1>3, <1>8, <1>9 DEF Buffers
<1>11. Reset'
  BY <1>0, <1>1 DEF Reset
<1> QED
  BY <1>5, <1>6, <1>7, <1>10, <1>11 DEF RxInv

\* The NIC receives a packet.
LEMMA NicReceiveInv ==
    ASSUME RxInv, NEW p \in Packets, NEW eop \in BOOLEAN, NicReceive(p, eop)
    PROVE  RxInv'
<1> USE RxConst
<1> PICK n \in Slots : n = RDH
  BY DEF RxInv, TypeOK
<1> DEFINE addr == descriptors[n].addr
           report == [DD |-> TRUE, EOP |-> eop, length |-> p]
<1>0. /\ TypeOK /\ Phases /\ Contents /\ Buffers /\ Reset
      /\ RXDCTL = "on" /\ n # RDT /\ RDH' = inc(n)
      /\ descriptors' = [descriptors EXCEPT ![n] = [addr |-> NULL, stat |-> report]]
      /\ landed' = [landed EXCEPT ![n] = addr[1]]
      /\ clobbered' = IF addr[2] = "header" THEN clobbered \cup {addr[1]} ELSE clobbered
      /\ UNCHANGED <<free_stack, rx_index, virtual_addresses, RXDCTL, RDT, pc, i, desc,
                     buf, new_buf, got, held>>
  BY DEF RxInv, NicReceive, locals, app
<1>1. Started /\ Started' /\ Resetting' = Resetting
  BY <1>0 DEF Phases, Started, Resetting
<1>2. n \in Unreceived /\ n \in Posted /\ Filled = Slots
  <2>1. n \in Posted
    BY SMTT(30), <1>0 DEF Posted, Window, Distance, TypeOK, Slots
  <2> QED
    BY <1>0, <1>1, <2>1, SlotsSplit
<1>3. addr \in Addresses /\ addr[1] \in Bufs
  <2>1. addr \in Addresses
    BY <1>0, <1>2 DEF Contents
  <2> QED
    BY <2>1 DEF Addresses
<1>4. report \in Reports
  BY DEF Reports
<1>5. /\ descriptors'[n].addr = NULL /\ descriptors'[n].stat = report
      /\ \A k \in Slots : k # n => descriptors'[k] = descriptors[k]
  BY <1>0 DEF TypeOK
<1>6. inc(n) # rx_index /\ inc(n) \in Slots
  BY SMTT(30), <1>0, <1>1, RxIncFacts DEF Phases, TypeOK, Slots
<1>7. Received' = Received \cup {n} /\ Filled' = Filled /\ Received \subseteq Slots
  <2>1. /\ inc_and_wrap_ring(n, NUM_RX_QUEUE_ENTRIES) # rx_index
        /\ rx_index \in Slots /\ RDH = n /\ RDH' = inc(n) /\ rx_index' = rx_index
    BY <1>0, <1>6 DEF TypeOK, inc
  <2>2. Window(rx_index, inc(n), NUM_RX_QUEUE_ENTRIES)
          = Window(rx_index, n, NUM_RX_QUEUE_ENTRIES) \cup {n}
    BY <2>1, RxConst, WindowExtend DEF Slots, inc
  <2>3. Received' = Received \cup {n}
    BY <2>1, <2>2 DEF Received
  <2>4. Filled' = Filled /\ Received \subseteq Slots
    BY <1>0 DEF Filled, Received, Window, Slots
  <2> QED
    BY <2>3, <2>4
<1> HIDE DEF addr, report
<1>8. TypeOK'
  <2>1. [addr |-> NULL, stat |-> report] \in
            [addr : Addresses \cup {NULL}, stat : Reports \cup {Clear, AllOnes}]
    BY <1>4
  <2>2. descriptors' \in [Slots -> [addr : Addresses \cup {NULL},
                                    stat : Reports \cup {Clear, AllOnes}]]
    BY <1>0, <2>1 DEF TypeOK
  <2> QED
    BY <1>0, <1>3, <1>6, <2>2 DEF TypeOK
<1>9. Phases'
  BY <1>0, <1>1, <1>6 DEF Phases
<1>10. clobbered \subseteq clobbered' /\ virtual_addresses[n] \in clobbered'
  <2>1. Fresh(n) \/ virtual_addresses[n] \in clobbered
    BY <1>0, <1>2 DEF Buffers
  <2>2. Fresh(n) => addr[1] = virtual_addresses[n] /\ addr[2] = "header"
    BY DEF Fresh, addr
  <2> QED
    BY <1>0, <2>1, <2>2
<1>11. Contents'
  <2>1. Unreceived' = Unreceived \ {n} /\ Unreceived \subseteq Slots
    BY <1>2, <1>7 DEF Unreceived
  <2>2. \A k \in Received' : k = n \/ (k # n /\ k \in Received /\ k \in Slots)
    BY <1>7
  <2> QED
    BY <1>0, <1>4, <1>5, <1>10, <2>1, <2>2 DEF Contents
<1>12. ~Fresh(n)' /\ \A k \in Slots : k # n => (Fresh(k)' <=> Fresh(k))
  <2>1. virtual_addresses[n] \in Bufs
    BY <1>0, <1>2 DEF Buffers
  <2> QED
    BY <1>0, <1>5, <2>1, Zenon DEF Fresh
<1>13. FreeOnce' = FreeOnce /\ Free' = Free
  BY <1>0 DEF FreeOnce, Free
<1>14. descriptors'[n].addr \notin Addresses
  BY <1>5, RxQueueAssumption DEF Addresses
<1>15. Buffers'
  <2>1. \A k \in Filled' : /\ virtual_addresses'[k] \in Bufs \ Free'
                           /\ Fresh(k)' \/ virtual_addresses'[k] \in clobbered'
    BY <1>0, <1>2, <1>7, <1>10, <1>12, <1>13, Zenon DEF Buffers
  <2>2. ASSUME NEW k \in Filled', descriptors'[k].addr \in Addresses, ~Fresh(k)'
        PROVE  /\ descriptors'[k].addr[2] = "data"
               /\ descriptors'[k].addr[1] \notin Free'
               /\ \A l \in Filled' :
                      /\ virtual_addresses'[l] # descriptors'[k].addr[1]
                      /\ descriptors'[l].addr = descriptors'[k].addr => k = l
    <3>1. k # n /\ ~Fresh(k) /\ descriptors'[k] = descriptors[k] /\ k \in Filled
      BY <1>2, <1>5, <1>7, <1>12, <1>14, <2>2
    <3>2. /\ descriptors[k].addr[2] = "data" /\ descriptors[k].addr[1] \notin Free
          /\ \A l \in Filled : /\ virtual_addresses[l] # descriptors[k].addr[1]
                               /\ descriptors[l].addr = descriptors[k].addr => k = l
      BY <1>0, <2>2, <3>1 DEF Buffers
    <3>3. \A l \in Filled : descriptors'[l].addr = descriptors[k].addr => l # n
      BY <1>14, <2>2, <3>1
    <3> QED
      BY SMTT(30), <1>0, <1>2, <1>5, <1>7, <1>13, <3>1, <3>2, <3>3
  <2>3. \A b \in held' : \E k \in Filled' : virtual_addresses'[k] = b /\ ~Fresh(k)'
    BY <1>0, <1>2, <1>7, <1>12 DEF Buffers
  <2>4. \A k, l \in Filled' : virtual_addresses'[k] = virtual_addresses'[l] => k = l
    BY ZenonT(30), <1>0, <1>7 DEF Buffers
  <2> QED
    BY <1>0, <1>13, <2>1, <2>2, <2>3, <2>4 DEF Buffers
<1>16. Reset'
  <2>1. n # rx_index \/ ~Resetting
    BY <1>0 DEF Phases
  <2>2. rx_index \in Slots /\ \A k \in Slots : descriptors'[k] = descriptors[k] \/ k = n
    BY <1>0, <1>5 DEF TypeOK
  <2>3. pc = "pkt_addr" => \A k \in Filled' : descriptors'[k].addr # <<new_buf, "data">>
    BY <1>0, <1>2, <1>5, <1>7, <2>2, Zenon DEF Reset, Resetting
  <2> QED
    BY <1>0, <1>1, <1>7, <1>13, <2>1, <2>2, <2>3 DEF Reset, Resetting
<1> QED
  BY <1>8, <1>9, <1>11, <1>15, <1>16 DEF RxInv
-----------------------------------------------------------------------------
\* Every step preserves the inductive invariant.
LEMMA RxNextInv == RxInv /\ [Next]_vars => RxInv'
<1> SUFFICES ASSUME RxInv, [Next]_vars PROVE RxInv'
  OBVIOUS
<1>1. CASE UNCHANGED vars
  BY <1>1, RxStutterInv
<1>2. CASE StartStep
  BY <1>2, StartFillInv, StartInv DEF StartStep
<1>3. CASE RxStep
  BY <1>3, RxPollInv, RxTakeInv, RxPktAddrInv, RxHdrAddrInv, RxTailInv DEF RxStep
<1>4. CASE \E b \in Bufs : AppFree(b)
  BY <1>4, RxAppFreeInv
<1>5. CASE Nic
  BY <1>5, StartInv, NicReceiveInv DEF Nic
<1> QED
  BY <1>1, <1>2, <1>3, <1>4, <1>5 DEF Next

\* The inductive invariant holds in every reachable state of RxQueue.
THEOREM RxInductive == Spec => []RxInv
BY RxInitInv, RxNextInv, PTL DEF Spec

\* What the driver concludes from a DD bit follows from the invariant.
LEMMA RxInvGivesDD == RxInv => DDMeansReceived
<1> SUFFICES ASSUME RxInv, Started
             PROVE  /\ RDT = (rx_index - 1) % NUM_RX_QUEUE_ENTRIES
                    /\ \A k \in Posted : ~DD(k) /\ descriptors[k].addr \in Addresses
                    /\ \A k \in Received :
                          \/ descriptors[k].stat \in Reports
                          \/ k = rx_index /\ ~(pc \in {"idle", "take"})
  BY DEF DDMeansReceived
<1>1. TypeOK /\ Phases /\ Contents
  BY DEF RxInv
<1>2. RDT = (rx_index - 1) % NUM_RX_QUEUE_ENTRIES
  <2>1. rx_index \in Slots
    BY <1>1 DEF TypeOK
  <2>2. CASE rx_index = 0
    BY <1>1, <2>2, RxConst DEF Phases
  <2>3. CASE rx_index # 0
    <3>1. rx_index - 1 \in 0 .. NUM_RX_QUEUE_ENTRIES - 1
      BY <2>1, <2>3, RxConst DEF Slots
    <3>2. RDT = rx_index - 1
      BY <1>1, <2>3 DEF Phases
    <3> QED
      BY <3>1, <3>2, RxConst
  <2> QED
    BY <2>2, <2>3
<1>3. \A k \in Posted : ~DD(k) /\ descriptors[k].addr \in Addresses
  BY <1>1, SlotsSplit DEF Contents, DD, Clear
<1> QED
  BY <1>1, <1>2, <1>3 DEF Contents

\* The DD test of ixgbe_rx_packet is right for every ring size, and RDT stays one
\* behind rx_index.
THEOREM RxDDIsReliable == Spec => []DDMeansReceived
BY RxInvGivesDD, RxInductive, PTL

\* No buffer the NIC may write to is free, with the application, on its way there
\* or in a second slot.
THEOREM PostedStaysExclusive == Spec => []PostedExclusive
<1>1. RxInv => PostedExclusive
  <2> SUFFICES ASSUME RxInv, Started, NEW k \in Posted
               PROVE  /\ descriptors[k].addr[1] \notin Free \cup held
                      /\ Resetting => descriptors[k].addr[1] \notin {buf, new_buf}
                      /\ \A l \in Posted :
                            descriptors[k].addr[1] = descriptors[l].addr[1] => k = l
    BY DEF PostedExclusive
  <2>1. TypeOK /\ Phases /\ Contents /\ Buffers /\ Reset
    BY DEF RxInv
  <2>2. \A l \in Posted :
          /\ l \in Filled /\ l \notin Received /\ descriptors[l].addr \in Addresses
          /\ \/ descriptors[l].addr[1] = virtual_addresses[l] /\ Fresh(l)
             \/ /\ ~Fresh(l) /\ descriptors[l].addr[2] = "data"
                /\ descriptors[l].addr = <<descriptors[l].addr[1], "data">>
                /\ \A m \in Filled : virtual_addresses[m] # descriptors[l].addr[1]
    <3> SUFFICES ASSUME NEW l \in Posted
                 PROVE  /\ l \in Filled /\ l \notin Received
                        /\ descriptors[l].addr \in Addresses
                        /\ \/ descriptors[l].addr[1] = virtual_addresses[l] /\ Fresh(l)
                           \/ /\ ~Fresh(l) /\ descriptors[l].addr[2] = "data"
                              /\ descriptors[l].addr = <<descriptors[l].addr[1], "data">>
                              /\ \A m \in Filled :
                                    virtual_addresses[m] # descriptors[l].addr[1]
      OBVIOUS
    <3>1. l \in Filled /\ l \notin Received /\ descriptors[l].addr \in Addresses
      BY <2>1, SlotsSplit DEF Unreceived, Contents
    <3>2. CASE Fresh(l)
      BY <3>1, <3>2 DEF Fresh
    <3>3. CASE ~Fresh(l)
      <4>1. /\ descriptors[l].addr[2] = "data"
            /\ \A m \in Filled : virtual_addresses[m] # descriptors[l].addr[1]
        BY <2>1, <3>1, <3>3 DEF Buffers
      <4> QED
        BY <3>1, <3>3, <4>1 DEF Addresses
    <3> QED
      BY <3>2, <3>3
  <2>3. descriptors[k].addr[1] \notin Free
    BY <2>1, <2>2 DEF Buffers
  <2>4. descriptors[k].addr[1] \notin held
    BY <2>1, <2>2 DEF Buffers
  <2>5. ASSUME Resetting PROVE descriptors[k].addr[1] \notin {buf, new_buf}
    <3>1. /\ rx_index \in Received /\ rx_index \in Filled /\ buf = virtual_addresses[rx_index]
      BY <2>1, <2>5, SlotsSplit DEF Reset, Phases, TypeOK
    <3>2. k # rx_index
      BY <2>2, <3>1
    <3>3. descriptors[k].addr[1] # buf
      BY SMTT(30), <2>1, <2>2, <3>1, <3>2 DEF Buffers
    <3>4. CASE pc = "pkt_addr"
      BY <2>1, <2>2, <3>3, <3>4 DEF Reset
    <3>5. CASE pc \in {"hdr_addr", "tail"}
      <4>1. descriptors[rx_index].addr = <<new_buf, "data">> /\ new_buf \in Bufs
        BY <2>1, <2>5, <3>5 DEF Reset
      <4>2. ~Fresh(rx_index) /\ descriptors[rx_index].addr \in Addresses
        BY <4>1 DEF Fresh, Addresses
      <4>3. /\ \A l \in Filled : virtual_addresses[l] # new_buf
            /\ descriptors[k].addr # <<new_buf, "data">>
        BY SMTT(30), <2>1, <2>2, <3>1, <3>2, <4>1, <4>2 DEF Buffers
      <4> QED
        BY <2>2, <3>3, <4>3
    <3> QED
      BY <2>5, <3>4, <3>5 DEF Resetting
  <2>6. \A l \in Posted : descriptors[k].addr[1] = descriptors[l].addr[1] => k = l
    BY SMTT(30), <2>1, <2>2 DEF Buffers
  <2> QED
    BY <2>3, <2>4, <2>5, <2>6
<1> QED
  BY <1>1, RxInductive, PTL

\* Every variable of the receive queue keeps its type; no index leaves the ring.
THEOREM RxTypeCorrect == Spec => []TypeOK
<1>1. RxInv => TypeOK
  BY DEF RxInv
<1> QED
  BY <1>1, RxInductive, PTL

\* No step of start_rx_queue or ixgbe_rx_packet changes a descriptor between head
\* and tail.
THEOREM DriverStaysOff == Spec => DriverKeepsOff
<1>1. RxInv /\ [Next]_vars =>
        [RDH' = RDH => \A k \in Posted : descriptors'[k] = descriptors[k]]_vars
  <2> SUFFICES ASSUME RxInv, Next, RDH' = RDH, NEW k \in Posted
               PROVE  descriptors'[k] = descriptors[k]
    OBVIOUS
  <2> USE RxConst
  <2>1. TypeOK /\ Phases
    BY DEF RxInv
  <2>2. k \in Slots /\ Started /\ k \notin Received
    <3>1. k \in Slots /\ RDH # RDT
      BY <2>1 DEF Posted, Window, Distance, Slots, TypeOK
    <3> QED
      BY <2>1, <3>1, SlotsSplit DEF Phases, Unreceived
  <2>3. CASE StartStep
    BY <2>1, <2>2, <2>3 DEF StartStep, StartFill, StartPost, StartEnable, StartHead,
       StartTail, Phases, Started
  <2>4. CASE RxStep
    <3>1. Resetting => k # rx_index
      BY <2>1, <2>2, SlotsSplit DEF Phases
    <3> QED
      BY <2>1, <2>2, <2>4, <3>1 DEF RxStep, RxPoll, RxTake, RxFetch, RxPktAddr, RxPost,
         RxHdrAddr, RxTail, RxReturn, Resetting, TypeOK
  <2>5. CASE \E b \in Bufs : AppFree(b)
    BY <2>5 DEF AppFree
  <2>6. CASE Nic
    <3>1. inc(RDH) # RDH
      BY <2>1, RxIncFacts DEF TypeOK, Slots
    <3> QED
      BY <2>6, <3>1 DEF Nic, NicEnable, NicReceive
  <2> QED
    BY <2>3, <2>4, <2>5, <2>6 DEF Next
<1> QED
  BY <1>1, RxInductive, PTL DEF Spec, DriverKeepsOff

\* RDT "intentionally off by one" never tells the NIC that the ring is empty.
THEOREM TailStaysAway == Spec => TailNeverMeetsHead
<1>1. RxInv /\ [Next]_vars => [RDT' # RDT => RDT' # RDH]_vars
  <2> SUFFICES ASSUME RxInv, Next, RDT' # RDT PROVE RDT' # RDH
    OBVIOUS
  <2>1. TypeOK /\ Phases
    BY DEF RxInv
  <2>2. StartTail \/ RxTail
    BY DEF Next, StartStep, StartFill, StartPost, StartEnable, StartHead, RxStep, RxPoll,
       RxTake, RxFetch, RxPktAddr, RxPost, RxHdrAddr, AppFree, Nic, NicEnable, NicReceive
  <2>3. CASE StartTail
    BY <2>1, <2>3, RxConst DEF StartTail, Phases, Started
  <2>4. CASE RxTail
    BY <2>1, <2>4 DEF RxTail, RxReturn, Phases, Resetting
  <2> QED
    BY <2>2, <2>3, <2>4
<1> QED
  BY <1>1, RxInductive, PTL DEF Spec, TailNeverMeetsHead
-----------------------------------------------------------------------------
\* The packet of each slot the NIC filled, as far as the caller is concerned: the
\* slot that is being reset holds none any more, ixgbe_rx_packet has a copy.
View == [k \in Slots |->
            IF k = rx_index /\ Resetting THEN desc ELSE descriptors[k].stat.length]
Waiting == InOrder(View, rx_index, RDH, NUM_RX_QUEUE_ENTRIES)
MayBe == Packets \cup {NULL}

\* The same as RxQueue has it, by the place in the queue.
AsQueue ==
    [k \in 1 .. Distance(rx_index, RDH, NUM_RX_QUEUE_ENTRIES) |->
        IF k = 1 /\ Resetting THEN desc
        ELSE descriptors[(rx_index + k - 1) % NUM_RX_QUEUE_ENTRIES].stat.length]

\* The queue of the channel is what waits in the ring.
LEMMA WaitingFacts ==
    ASSUME TypeOK
    PROVE  /\ View \in [Slots -> MayBe]
           /\ Entries(View, rx_index, RDH, NUM_RX_QUEUE_ENTRIES, MayBe)
           /\ Len(Waiting) = Distance(rx_index, RDH, NUM_RX_QUEUE_ENTRIES)
           /\ Waiting = AsQueue
<1> USE RxConst
<1>1. /\ rx_index \in 0 .. NUM_RX_QUEUE_ENTRIES - 1 /\ RDH \in 0 .. NUM_RX_QUEUE_ENTRIES - 1
      /\ Slots = 0 .. NUM_RX_QUEUE_ENTRIES - 1 /\ desc \in MayBe
  BY DEF TypeOK, Slots, MayBe
<1>2. \A k \in Slots : descriptors[k].stat.length \in MayBe
  <2>1. \A k \in Slots : descriptors[k].stat \in Reports \cup {Clear, AllOnes}
    BY DEF TypeOK
  <2>2. \A s \in Reports : s.length \in MayBe
    BY DEF Reports, MayBe
  <2>3. Clear.length \in MayBe /\ AllOnes.length \in MayBe
    BY DEF Clear, AllOnes, MayBe
  <2> QED
    BY <2>1, <2>2, <2>3, Zenon
<1>3. View \in [Slots -> MayBe]
  BY <1>1, <1>2 DEF View
<1>4. Entries(View, rx_index, RDH, NUM_RX_QUEUE_ENTRIES, MayBe)
  BY <1>1, <1>3 DEF Entries, Window
<1>5. Len(Waiting) = Distance(rx_index, RDH, NUM_RX_QUEUE_ENTRIES)
  BY <1>4, InOrderFacts DEF Waiting
<1>6. ASSUME NEW k \in 1 .. Distance(rx_index, RDH, NUM_RX_QUEUE_ENTRIES)
      PROVE  View[(rx_index + k - 1) % NUM_RX_QUEUE_ENTRIES]
                = IF k = 1 /\ Resetting THEN desc
                  ELSE descriptors[(rx_index + k - 1) % NUM_RX_QUEUE_ENTRIES].stat.length
  <2> DEFINE slot == (rx_index + k - 1) % NUM_RX_QUEUE_ENTRIES
  <2>1. /\ slot = IF rx_index + k - 1 < NUM_RX_QUEUE_ENTRIES THEN rx_index + k - 1
                  ELSE rx_index + k - 1 - NUM_RX_QUEUE_ENTRIES
        /\ slot \in Window(rx_index, RDH, NUM_RX_QUEUE_ENTRIES)
    BY <1>1, SlotInOrder
  <2>2. Distance(rx_index, RDH, NUM_RX_QUEUE_ENTRIES) \in 0 .. NUM_RX_QUEUE_ENTRIES - 1
    BY <1>1, DistanceType
  <2> HIDE DEF slot
  <2>3. slot = rx_index <=> k = 1
    BY <1>1, <2>1, <2>2
  <2>4. slot \in Slots
    BY <1>1, <2>1 DEF Window
  <2>5. View[slot] = IF k = 1 /\ Resetting THEN desc ELSE descriptors[slot].stat.length
    BY <2>3, <2>4 DEF View
  <2> QED
    BY <2>5 DEF slot
<1> QED
  BY <1>3, <1>4, <1>5, <1>6, Zenon DEF Waiting, InOrder, AsQueue

\* The same in the next state.
LEMMA WaitingNext ==
    TypeOK' => /\ Entries(View, rx_index, RDH, NUM_RX_QUEUE_ENTRIES, MayBe)'
               /\ (Waiting = AsQueue)'
<1>1. TypeOK => /\ Entries(View, rx_index, RDH, NUM_RX_QUEUE_ENTRIES, MayBe)
                /\ Waiting = AsQueue
  BY WaitingFacts
<1> QED
  BY <1>1, PTL

\* What waits stays the same as long as the slots the NIC filled do.
LEMMA WaitingSame ==
    ASSUME TypeOK, TypeOK', UNCHANGED <<rx_index, RDH, got>>,
           \A k \in Received : View'[k] = View[k]
    PROVE  UNCHANGED <<AsQueue, got>>
<1>1. Entries(View, rx_index, RDH, NUM_RX_QUEUE_ENTRIES, MayBe) /\ Waiting = AsQueue
  BY WaitingFacts
<1>2. Waiting' = AsQueue'
  BY WaitingNext
<1>3. InOrder(View', rx_index, RDH, NUM_RX_QUEUE_ENTRIES)
        = InOrder(View, rx_index, RDH, NUM_RX_QUEUE_ENTRIES)
  BY <1>1, InOrderSame DEF Received, Entries
<1> QED
  BY <1>1, <1>2, <1>3 DEF Waiting

\* Nothing waits before the queue is started.
LEMMA StartStutters ==
    ASSUME RxInv, RxInv', StartStep
    PROVE  UNCHANGED <<AsQueue, got>>
<1>1. /\ rx_index = 0 /\ RDH = 0 /\ UNCHANGED <<rx_index, RDH, got>>
  BY DEF RxInv, Phases, Started, StartStep, StartFill, StartPost, StartEnable, StartHead,
         StartTail, app
<1>2. Received = {}
  BY <1>1, RxConst DEF Received, Window, Distance
<1> QED
  BY <1>1, <1>2, WaitingSame DEF RxInv

\* ixgbe_rx_packet keeps a copy of what it takes out of a slot.
LEMMA RxStutters ==
    ASSUME RxInv, RxInv', RxPoll \/ RxTake \/ RxPktAddr \/ RxHdrAddr
    PROVE  UNCHANGED <<AsQueue, got>>
<1>1. TypeOK /\ TypeOK' /\ rx_index \in Slots /\ UNCHANGED <<rx_index, RDH, got>>
  BY DEF RxInv, TypeOK, RxPoll, RxTake, RxFetch, RxPktAddr, RxPost, RxHdrAddr, app
<1>2. \A k \in Slots : View'[k] = View[k]
  <2>1. CASE RxPoll
    BY <1>1, <2>1 DEF RxPoll, View, Resetting, locals
  <2>2. CASE RxTake
    BY <1>1, <2>2 DEF RxTake, RxFetch, View, Resetting
  <2>3. CASE RxPktAddr
    BY <1>1, <2>3 DEF RxPktAddr, RxPost, View, Resetting, TypeOK, locals
  <2>4. CASE RxHdrAddr
    BY <1>1, <2>4 DEF RxHdrAddr, View, Resetting, TypeOK, locals
  <2> QED
    BY <2>1, <2>2, <2>3, <2>4
<1> QED
  BY <1>1, <1>2, WaitingSame DEF Received, Window, Slots

\* A buffer that is given back and the enable bit do not concern the channel.
LEMMA OtherStutters ==
    ASSUME RxInv, RxInv', (\E b \in Bufs : AppFree(b)) \/ NicEnable \/ UNCHANGED vars
    PROVE  UNCHANGED <<AsQueue, got>>
<1>1. /\ UNCHANGED <<rx_index, RDH, got, descriptors, desc>> /\ Resetting' = Resetting
  BY DEF AppFree, NicEnable, Resetting, locals, app, vars
<1> QED
  BY <1>1 DEF AsQueue

\* The call returns the packet that waited longest.
LEMMA ReturnStep == ASSUME RxInv, RxInv', RxTail PROVE Channel!Return
<1>1. /\ pc = "tail" /\ pc' = "idle" /\ got' = desc /\ rx_index' = inc(rx_index)
      /\ UNCHANGED <<RDH, descriptors>>
  BY DEF RxTail, RxReturn
<1>2. /\ TypeOK /\ TypeOK' /\ Resetting /\ ~Resetting' /\ rx_index # RDH
      /\ rx_index \in Slots
  BY <1>1 DEF RxInv, Phases, Resetting, TypeOK
<1>3. Entries(View, rx_index, RDH, NUM_RX_QUEUE_ENTRIES, MayBe) /\ Waiting = AsQueue
  BY <1>2, WaitingFacts
<1>4. Waiting' = AsQueue' /\ Entries(View, rx_index, RDH, NUM_RX_QUEUE_ENTRIES, MayBe)'
  BY <1>2, WaitingNext
<1>5. /\ Waiting # << >> /\ Head(Waiting) = View[rx_index]
      /\ InOrder(View, inc(rx_index), RDH, NUM_RX_QUEUE_ENTRIES) = Tail(Waiting)
  BY <1>2, <1>3, InOrderShrink DEF Waiting, inc
<1>6. \A k \in Window(inc(rx_index), RDH, NUM_RX_QUEUE_ENTRIES) : View'[k] = View[k]
  <2>1. Window(inc(rx_index), RDH, NUM_RX_QUEUE_ENTRIES)
            = Window(rx_index, RDH, NUM_RX_QUEUE_ENTRIES) \ {rx_index}
    BY <1>2, RxConst, WindowShrink DEF TypeOK, Slots, inc
  <2>2. \A k \in Slots : k # rx_index => View'[k] = View[k]
    BY <1>1, <1>2 DEF View
  <2> QED
    BY <2>1, <2>2 DEF Window, Slots
<1>7. Waiting' = Tail(Waiting)
  <2>1. InOrder(View', inc(rx_index), RDH, NUM_RX_QUEUE_ENTRIES)
            = InOrder(View, inc(rx_index), RDH, NUM_RX_QUEUE_ENTRIES)
    <3>1. /\ inc(rx_index) \in 0 .. NUM_RX_QUEUE_ENTRIES - 1
          /\ RDH \in 0 .. NUM_RX_QUEUE_ENTRIES - 1
      BY <1>2, RxIncFacts DEF TypeOK, Slots
    <3> QED
      BY <1>6, <3>1, RxConst, InOrderSame
  <2> QED
    BY <1>1, <1>5, <2>1 DEF Waiting
<1>8. got' = Head(Waiting)
  BY <1>1, <1>2, <1>5 DEF View
<1> QED
  BY <1>3, <1>4, <1>5, <1>7, <1>8, Zenon DEF Channel!Return, AsQueue

\* The NIC reports a packet behind those that wait, unless the ring is full.
LEMMA ReceiveStep ==
    ASSUME RxInv, RxInv', NEW p \in Packets, NEW eop \in BOOLEAN, NicReceive(p, eop)
    PROVE  Channel!Receive(p)
<1>1. /\ RXDCTL = "on" /\ RDH # RDT /\ RDH' = inc(RDH)
      /\ UNCHANGED <<rx_index, pc, desc, got>>
  BY DEF NicReceive, locals, app
<1>2. TypeOK /\ TypeOK' /\ Phases /\ rx_index \in Slots /\ RDH \in Slots
  BY DEF RxInv, TypeOK
<1>3. Entries(View, rx_index, RDH, NUM_RX_QUEUE_ENTRIES, MayBe) /\ Waiting = AsQueue
  BY <1>2, WaitingFacts
<1>4. Waiting' = AsQueue'
  BY <1>2, WaitingNext
<1>5. inc(RDH) # rx_index
  <2>1. RDT = IF rx_index = 0 THEN NUM_RX_QUEUE_ENTRIES - 1 ELSE rx_index - 1
    BY <1>1, <1>2 DEF Phases, Started
  <2> QED
    BY <1>1, <1>2, <2>1, RxConst, RxIncFacts DEF Slots
<1>6. View'[RDH] = p /\ \A k \in Slots : k # RDH => View'[k] = View[k]
  <2>1. /\ descriptors'[RDH].stat.length = p
        /\ \A k \in Slots : k # RDH => descriptors'[k] = descriptors[k]
    BY <1>2 DEF NicReceive, TypeOK
  <2>2. (Resetting => rx_index # RDH) /\ Resetting' = Resetting
    BY <1>1, <1>2 DEF Phases, Resetting
  <2>3. UNCHANGED <<rx_index, desc>> /\ RDH \in Slots
    BY <1>1, <1>2
  <2> QED
    BY <2>1, <2>2, <2>3 DEF View
<1>7. \A k \in Window(rx_index, RDH, NUM_RX_QUEUE_ENTRIES) : View'[k] = View[k]
  <2>1. \A k \in Window(rx_index, RDH, NUM_RX_QUEUE_ENTRIES) : k \in Slots /\ k # RDH
    BY <1>2, RxConst DEF Window, Slots, Distance
  <2> QED
    BY <1>6, <2>1
<1>8. /\ InOrder(View', rx_index, inc(RDH), NUM_RX_QUEUE_ENTRIES) = Append(Waiting, p)
      /\ Distance(rx_index, RDH, NUM_RX_QUEUE_ENTRIES) < NUM_RX_QUEUE_ENTRIES - 1
  <2>1. View'[RDH] \in MayBe
    BY <1>6 DEF MayBe
  <2>2. /\ InOrder(View', rx_index, inc_and_wrap_ring(RDH, NUM_RX_QUEUE_ENTRIES),
                  NUM_RX_QUEUE_ENTRIES)
            = Append(InOrder(View, rx_index, RDH, NUM_RX_QUEUE_ENTRIES), View'[RDH])
        /\ Distance(rx_index, RDH, NUM_RX_QUEUE_ENTRIES) < NUM_RX_QUEUE_ENTRIES - 1
    BY <1>3, <1>5, <1>7, <2>1, InOrderExtend DEF inc
  <2> QED
    BY <1>6, <2>2, Zenon DEF Waiting, inc
<1>9. Waiting' = Append(Waiting, p)
  BY <1>1, <1>8 DEF Waiting
<1>10. Len(Waiting) < NUM_RX_QUEUE_ENTRIES - 1
  BY <1>2, <1>8, WaitingFacts
<1> QED
  BY <1>1, <1>3, <1>4, <1>9, <1>10, Zenon DEF Channel!Receive, AsQueue

\* The ring implements the channel, whatever its size: ixgbe_rx_packet returns the
\* packets the NIC reported once each and in order.
THEOREM RingIsRxChannel == Spec => ImplementsChannel
<1>1. Init => Channel!Init
  BY DEF Init, RxInit, Channel!Init, Distance
<1>2. RxInv /\ RxInv' /\ [Next]_vars => [Channel!Next]_<<AsQueue, got>>
  <2> SUFFICES ASSUME RxInv, RxInv', [Next]_vars PROVE [Channel!Next]_<<AsQueue, got>>
    OBVIOUS
  <2>1. CASE StartStep
    BY <2>1, StartStutters
  <2>2. CASE RxPoll \/ RxTake \/ RxPktAddr \/ RxHdrAddr
    BY <2>2, RxStutters
  <2>3. CASE RxTail
    BY <2>3, ReturnStep, Zenon DEF Channel!Next
  <2>4. CASE (\E b \in Bufs : AppFree(b)) \/ NicEnable \/ UNCHANGED vars
    BY <2>4, OtherStutters
  <2>5. CASE \E p \in Packets, eop \in BOOLEAN : NicReceive(p, eop)
    BY <2>5, ReceiveStep, Zenon DEF Channel!Next
  <2> QED
    BY <2>1, <2>2, <2>3, <2>4, <2>5 DEF Next, RxStep, Nic
<1> QED
  BY <1>1, <1>2, RxInductive, PTL DEF Spec, ImplementsChannel, Channel!Spec, AsQueue
=============================================================================
