------------------------- MODULE ApplicationProofs -------------------------
(***************************************************************************)
(* The forwarder for every size of its two rings and of the pool.  What is *)
(* proved of each queue alone (RxInv, QueueInv) is kept by the steps of    *)
(* the other one, although they exchange buffers.                          *)
(***************************************************************************)
EXTENDS Forward, RxQueueProofs

TxP == INSTANCE TxQueueProofs WITH
    virtual_addresses <- tx_virtual_addresses, descriptors <- tx_descriptors,
    pc <- tx_pc, buf <- tx_buf

\* All the buffers main ever sends are those start_rx_queue posted, and the NIC
\* has overwritten the header of each: the clean-up of the transmit queue frees
\* none of them.  While main sends, the receive queue is between two calls.
SendsClobbered ==
    /\ phase # "poll" => pc \in {"idle", "undefined"}
    /\ \A k \in TxP!Slots : tx_virtual_addresses[k] \in clobbered \cup {NULL}

FwdInv == RxInv /\ TxP!QueueInv /\ SendsClobbered
-----------------------------------------------------------------------------
\* The assumptions of TxQueue hold of the forwarder's transmit queue.
LEMMA TxAssumptions == TxP!MempoolAssumption /\ TxP!TxQueueAssumption
<1>1. TxP!MempoolAssumption
  BY MempoolAssumption, Zenon DEF TxP!Bufs, Bufs
<1>2. TxP!TxQueueAssumption
  BY ForwardAssumption, Zenon
<1> QED
  BY <1>1, <1>2, Zenon

\* The steps of the transmit queue of Forward are those TxQueueProofs is about.
LEMMA SameSteps ==
    /\ Tx!TxStep => TxP!TxStep
    /\ Tx!Nic => TxP!Nic
    /\ Tx!TxCall(packet) => TxP!TxCall(packet)
<1> USE DEF Tx!queue, TxP!queue, Tx!nic, TxP!nic, Tx!inc, TxP!inc, Tx!DD, TxP!DD,
            Tx!inc_and_wrap_ring, TxP!inc_and_wrap_ring
<1>1. Tx!TxClean => TxP!TxClean
  BY DEF Tx!TxClean, TxP!TxClean, Tx!pkt_buf_free, TxP!pkt_buf_free
<1>2. Tx!TxFull => TxP!TxFull
  BY DEF Tx!TxFull, TxP!TxFull, Tx!CleanDone, TxP!CleanDone, Tx!Full, TxP!Full
<1>3. Tx!TxEnqueue => TxP!TxEnqueue
  BY DEF Tx!TxEnqueue, TxP!TxEnqueue, Tx!CleanDone, TxP!CleanDone, Tx!Full, TxP!Full
<1>4. Tx!TxWriteDesc => TxP!TxWriteDesc
  BY DEF Tx!TxWriteDesc, TxP!TxWriteDesc, Tx!TxWrite, TxP!TxWrite
<1>5. Tx!TxTail => TxP!TxTail
  BY DEF Tx!TxTail, TxP!TxTail
<1>6. Tx!NicTransmit => TxP!NicTransmit
  BY DEF Tx!NicTransmit, TxP!NicTransmit
<1>7. ASSUME NEW k, Tx!NicWriteBack(k) PROVE TxP!NicWriteBack(k)
  BY <1>7, Zenon DEF Tx!NicWriteBack, TxP!NicWriteBack, Tx!Distance, TxP!Distance, Tx!Slots,
     TxP!Slots, Tx!Done, TxP!Done, Tx!Fields, TxP!Fields
<1>8. Tx!TxCall(packet) => TxP!TxCall(packet)
  BY DEF Tx!TxCall, TxP!TxCall
<1> QED
  BY <1>1, <1>2, <1>3, <1>4, <1>5, <1>6, <1>7, <1>8, Zenon
     DEF Tx!TxStep, TxP!TxStep, Tx!Nic, TxP!Nic

\* What TxQueueProofs shows of the ring, for the forwarder's.
LEMMA TxFacts ==
    /\ TxP!QueueInv /\ (TxP!TxStep \/ TxP!Nic) => TxP!QueueInv'
    /\ \A b \in TxP!Bufs : TxP!QueueInv /\ TxP!TxCall(b) => TxP!QueueInv'
    /\ TxP!Init => TxP!QueueInv
    /\ TxP!QueueInv /\ TxP!TxStep =>
        /\ held' \subseteq held
        /\ \/ free_stack' = free_stack
           \/ /\ tx_pc = "clean" /\ clean_index # tx_index /\ TxP!DD(clean_index)
              /\ tx_virtual_addresses[clean_index] \in TxP!Bufs
        /\ \/ tx_virtual_addresses' = tx_virtual_addresses
           \/ /\ tx_buf \in held
              /\ tx_virtual_addresses' = [tx_virtual_addresses EXCEPT ![tx_index] = tx_buf]
<1>1. TxP!QueueInv /\ (TxP!TxStep \/ TxP!Nic) => TxP!QueueInv'
  BY TxAssumptions, TxP!StepInv, Zenon
<1>2. \A b \in TxP!Bufs : TxP!QueueInv /\ TxP!TxCall(b) => TxP!QueueInv'
  BY TxAssumptions, TxP!TxCallInv, Zenon
<1>3. TxP!Init => TxP!QueueInv
  BY TxAssumptions, TxP!InitIInv, Zenon DEF TxP!IInv
<1>4. TxP!QueueInv /\ TxP!TxStep =>
        /\ held' \subseteq held
        /\ \/ free_stack' = free_stack
           \/ /\ tx_pc = "clean" /\ clean_index # tx_index /\ TxP!DD(clean_index)
              /\ tx_virtual_addresses[clean_index] \in TxP!Bufs
        /\ \/ tx_virtual_addresses' = tx_virtual_addresses
           \/ /\ tx_buf \in held
              /\ tx_virtual_addresses' = [tx_virtual_addresses EXCEPT ![tx_index] = tx_buf]
  BY TxAssumptions, TxP!StepBuffers, Zenon
<1> QED
  BY <1>1, <1>2, <1>3, <1>4, Zenon

\* The transmit queue does not notice what main does with the receive queue.
LEMMA TxUntouched ==
    ASSUME FwdInv, RxInv', held \subseteq held', UNCHANGED txqueue
    PROVE  TxP!QueueInv'
<1>1. free_stack' \in Seq(TxP!Bufs) /\ held' \subseteq TxP!Bufs
  BY DEF RxInv, TypeOK, TxP!Bufs, Bufs
<1>2. UNCHANGED <<TxP!queue, tx_descriptors, TDT, TxP!nic, tx_pc, tx_buf>>
  BY DEF txqueue, TxP!queue, TxP!nic
<1>3. tx_pc = "clean" => tx_buf \in held'
  BY DEF FwdInv, TxP!QueueInv, TxP!CallState
<1> QED
  BY <1>1, <1>2, <1>3, TxAssumptions, TxP!UntouchedInv, Zenon DEF FwdInv

\* The receive queue does not notice what becomes of buffers it has returned.
LEMMA RxUntouched ==
    ASSUME RxInv, UNCHANGED <<free_stack, rxqueue>>, held' \subseteq held PROVE RxInv'
<1> USE DEF RxInv, rxqueue, locals, dma
<1>1. TypeOK'
  BY DEF TypeOK
<1>2. Phases'
  BY DEF Phases, Started, Resetting
<1>3. Contents'
  BY DEF Contents, Unreceived, Filled, Received
<1>4. Buffers'
  <2>1. /\ FreeOnce' = FreeOnce /\ Free' = Free /\ Filled' = Filled
        /\ \A k : Fresh(k)' = Fresh(k)
    BY DEF FreeOnce, Free, Filled, Fresh
  <2> QED
    BY <2>1 DEF Buffers
<1>5. Reset'
  BY DEF Reset, Resetting, Free, Filled
<1> QED
  BY <1>1, <1>2, <1>3, <1>4, <1>5

\* Nor does it matter to it where main ends, between two calls.
LEMMA RxEnds ==
    ASSUME RxInv, pc = "idle", pc' = "undefined",
           UNCHANGED <<free_stack, rx_index, virtual_addresses, descriptors, RXDCTL, RDT,
                       RDH, i, locals, app, dma>>
    PROVE  RxInv'
<1> USE RxConst DEF RxInv, locals, app, dma
<1>1. Started /\ Started' /\ ~Resetting'
  BY DEF Phases, Started, Resetting, TypeOK
<1>2. TypeOK' /\ Phases'
  BY <1>1 DEF TypeOK, Phases
<1>3. Contents'
  BY DEF Contents, Unreceived, Filled, Received
<1>4. Buffers'
  BY SameBuffers
<1>5. Reset'
  BY <1>1 DEF Reset, Resetting
<1> QED
  BY <1>2, <1>3, <1>4, <1>5

\* Steps of the receive queue, by main or by its NIC.
LEMMA RxSide == ASSUME FwdInv, Start \/ Receive \/ RxNic PROVE FwdInv'
<1>1. /\ StartStep \/ RxStep \/ Nic
      /\ UNCHANGED txqueue
  BY Zenon DEF Start, Receive, rx_packet, RxNic
<1>2. RxInv'
  BY <1>1, RxNextInv, Zenon DEF FwdInv, Next
<1>3. held \subseteq held' /\ clobbered \subseteq clobbered'
  <2>1. CASE StartStep
    BY <2>1 DEF StartStep, StartFill, StartPost, StartEnable, StartHead, StartTail, app, dma
  <2>2. CASE RxStep
    BY <2>2 DEF RxStep, RxPoll, RxTake, RxFetch, RxPktAddr, RxPost, RxHdrAddr, RxTail,
                RxReturn, app, dma
  <2>3. CASE Nic
    BY <2>3 DEF Nic, NicEnable, NicReceive, app, dma
  <2> QED
    BY <1>1, <2>1, <2>2, <2>3
<1>4. TxP!QueueInv'
  BY <1>1, <1>2, <1>3, TxUntouched
<1>5. phase' # "poll" => pc' \in {"idle", "undefined"}
  <2>1. CASE Start
    BY <2>1 DEF Start, main, StartStep, StartFill, StartPost, StartEnable, StartHead,
                StartTail, FwdInv, SendsClobbered
  <2>2. CASE Receive
    BY <2>2 DEF Receive, main, rx_packet, RxStep, RxPoll, RxTake, RxFetch, RxPktAddr, RxPost,
                RxHdrAddr, RxTail, RxReturn
  <2>3. CASE RxNic
    BY <2>3 DEF RxNic, main, Nic, NicEnable, NicReceive, FwdInv, SendsClobbered
  <2> QED
    BY <2>1, <2>2, <2>3
<1>6. SendsClobbered'
  BY <1>1, <1>3, <1>5 DEF SendsClobbered, FwdInv, txqueue, TxP!Slots
<1> QED
  BY <1>2, <1>4, <1>6 DEF FwdInv

\* A buffer main has was overwritten.
LEMMA HeldClobbered == RxInv => held \subseteq clobbered
BY DEF RxInv, Buffers

\* Steps of ixgbe_tx_packet.  The clean-up frees nothing: what is in the ring has
\* lost its header.
LEMMA SendInv == ASSUME FwdInv, Send PROVE FwdInv' /\ free_stack' = free_stack
<1>1. /\ Tx!TxStep /\ UNCHANGED rxqueue /\ phase = "sending"
      /\ Cleaning => tx_virtual_addresses[clean_index] \notin clobbered
  BY DEF Send, Sending, tx_packet
<1>2. TxP!TxStep
  BY <1>1, SameSteps
<1>3. TxP!QueueInv'
  BY <1>2, TxFacts DEF FwdInv
<1>4. /\ held' \subseteq held
      /\ \/ free_stack' = free_stack
         \/ /\ tx_pc = "clean" /\ clean_index # tx_index /\ TxP!DD(clean_index)
            /\ tx_virtual_addresses[clean_index] \in TxP!Bufs
      /\ \/ tx_virtual_addresses' = tx_virtual_addresses
         \/ /\ tx_buf \in held
            /\ tx_virtual_addresses' = [tx_virtual_addresses EXCEPT ![tx_index] = tx_buf]
  BY <1>2, TxFacts, Zenon DEF FwdInv
<1>5. free_stack' = free_stack
  <2>1. SUFFICES ASSUME tx_pc = "clean", clean_index # tx_index, TxP!DD(clean_index),
                        tx_virtual_addresses[clean_index] \in TxP!Bufs
                 PROVE  FALSE
    BY <1>4
  <2>2. Cleaning
    BY <2>1 DEF Cleaning, Tx!DD, TxP!DD
  <2>3. tx_virtual_addresses[clean_index] \in clobbered \cup {NULL}
    BY DEF FwdInv, SendsClobbered, TxP!QueueInv, TxP!TypeOK
  <2>4. tx_virtual_addresses[clean_index] # NULL
    BY <2>1, MempoolAssumption DEF TxP!Bufs, Bufs
  <2> QED
    BY <1>1, <2>2, <2>3, <2>4
<1>6. RxInv'
  BY <1>1, <1>4, <1>5, RxUntouched DEF FwdInv
<1>7. SendsClobbered'
  <2>1. pc' = pc /\ clobbered' = clobbered /\ pc \in {"idle", "undefined"}
    BY <1>1 DEF rxqueue, dma, FwdInv, SendsClobbered
  <2>2. tx_buf \in held => tx_buf \in clobbered
    BY HeldClobbered DEF FwdInv
  <2>3. tx_virtual_addresses \in [TxP!Slots -> TxP!Bufs \cup {NULL}]
    BY DEF FwdInv, TxP!QueueInv, TxP!TypeOK
  <2> QED
    BY <1>4, <2>1, <2>2, <2>3, Zenon DEF FwdInv, SendsClobbered, TxP!Slots
<1> QED
  BY <1>3, <1>5, <1>6, <1>7 DEF FwdInv

\* The other steps of main and of the transmit NIC.
LEMMA TxSide == ASSUME FwdInv, CallTx \/ FreeClobbered \/ TxNic PROVE FwdInv'
<1>1. CASE CallTx
  <2>1. /\ Tx!TxCall(packet) /\ UNCHANGED rxqueue /\ phase = "send"
        /\ UNCHANGED <<free_stack, held, tx_virtual_addresses>> /\ packet \in held
    BY <1>1 DEF CallTx, Tx!TxCall, Tx!queue
  <2>2. packet \in TxP!Bufs
    BY <2>1 DEF FwdInv, RxInv, TypeOK, Bufs, TxP!Bufs
  <2>3. TxP!QueueInv'
    BY <2>1, <2>2, SameSteps, TxFacts, Zenon DEF FwdInv
  <2>4. RxInv'
    BY <2>1, RxUntouched DEF FwdInv
  <2>5. SendsClobbered'
    BY <2>1 DEF FwdInv, SendsClobbered, rxqueue, dma, TxP!Slots
  <2> QED
    BY <2>3, <2>4, <2>5 DEF FwdInv
<1>2. CASE FreeClobbered
  <2>1. /\ pc = "idle" /\ pc' = "undefined"
        /\ UNCHANGED <<free_stack, rx_index, virtual_addresses, descriptors, RXDCTL, RDT,
                       RDH, i, locals, app, dma, main, txqueue>>
    BY <1>2 DEF FreeClobbered, Running, FwdInv, SendsClobbered
  <2>2. RxInv'
    BY <2>1, RxEnds DEF FwdInv
  <2>3. TxP!QueueInv'
    BY <2>1, <2>2, TxUntouched DEF app
  <2>4. SendsClobbered'
    BY <2>1 DEF FwdInv, SendsClobbered, main, txqueue, dma, TxP!Slots
  <2> QED
    BY <2>2, <2>3, <2>4 DEF FwdInv
<1>3. CASE TxNic
  <2>1. /\ Tx!Nic /\ UNCHANGED <<rxqueue, main>>
        /\ UNCHANGED <<free_stack, held, tx_virtual_addresses>>
    BY <1>3 DEF TxNic, Tx!Nic, Tx!NicTransmit, Tx!NicWriteBack, Tx!queue
  <2>2. TxP!QueueInv'
    BY <2>1, SameSteps, TxFacts, Zenon DEF FwdInv
  <2>3. RxInv'
    BY <2>1, RxUntouched DEF FwdInv
  <2>4. SendsClobbered'
    BY <2>1 DEF FwdInv, SendsClobbered, rxqueue, main, dma, TxP!Slots
  <2> QED
    BY <2>2, <2>3, <2>4 DEF FwdInv
<1> QED
  BY <1>1, <1>2, <1>3
-----------------------------------------------------------------------------
\* The forwarder starts with both queues empty.
LEMMA FwdInitInv == FwdInit => FwdInv
<1> SUFFICES ASSUME FwdInit PROVE FwdInv
  OBVIOUS
<1>1. RxInv
  BY RxInitInv DEF FwdInit
<1>2. TxP!Init
  BY Zenon DEF FwdInit, Init, MempoolInit, TxP!Init, TxP!MempoolInit, Tx!TxInit, TxP!TxInit,
     Tx!TxStarted, TxP!TxStarted, Tx!Slots, TxP!Slots, Tx!Done, TxP!Done, Tx!Fields, TxP!Fields
<1>3. SendsClobbered
  BY DEF FwdInit, Tx!TxInit, Tx!Slots, TxP!Slots, SendsClobbered
<1> QED
  BY <1>1, <1>2, <1>3, TxFacts DEF FwdInv

\* Every step of the forwarder keeps what is true of both queues.
LEMMA FwdNextInv == FwdInv /\ [FwdNext]_fwdvars => FwdInv'
<1> SUFFICES ASSUME FwdInv, [FwdNext]_fwdvars PROVE FwdInv'
  OBVIOUS
<1>1. CASE UNCHANGED fwdvars
  <2>1. UNCHANGED vars /\ UNCHANGED <<phase, pc, held, clobbered, tx_virtual_addresses>>
        /\ UNCHANGED txqueue
    BY <1>1 DEF fwdvars, vars, main, app, dma, txqueue
  <2>2. RxInv'
    BY <2>1, RxStutterInv DEF FwdInv
  <2>3. TxP!QueueInv'
    BY <2>1, <2>2, TxUntouched
  <2>4. SendsClobbered'
    BY <2>1 DEF FwdInv, SendsClobbered, TxP!Slots
  <2> QED
    BY <2>2, <2>3, <2>4 DEF FwdInv
<1>2. CASE FwdNext
  BY <1>2, RxSide, SendInv, TxSide, Zenon DEF FwdNext, Main
<1> QED
  BY <1>1, <1>2

\* Both queues keep their invariants while main moves buffers between them.
THEOREM FwdInductive == FwdSpec => []FwdInv
BY FwdInitInv, FwdNextInv, PTL DEF FwdSpec

\* The pool only shrinks when the driver posts buffers to the receive queue.
LEMMA PoolShrinks == ASSUME FwdInv, Start \/ Receive PROVE Free' \subseteq Free
<1>1. free_stack \in Seq(Bufs) /\ FreeOnce
  BY DEF FwdInv, RxInv, TypeOK, Buffers
<1>2. pkt_buf_alloc => Free' \subseteq Free
  BY <1>1, AllocFacts
<1>3. free_stack' = free_stack \/ pkt_buf_alloc
  BY DEF Start, StartStep, StartFill, StartPost, StartEnable, StartHead, StartTail,
         Receive, rx_packet, RxStep, RxPoll, RxTake, RxFetch, RxPktAddr, RxPost,
         RxHdrAddr, RxTail, RxReturn
<1>4. free_stack' = free_stack => Free' \subseteq Free
  BY DEF Free
<1> QED
  BY <1>2, <1>3, <1>4

\* A forwarder never gives a buffer back to its pool: start_rx_queue posts every
\* buffer by its header and virtual_addresses keeps naming these, so whatever
\* ixgbe_rx_packet returns, on every lap, has lost the header that pkt_buf_free
\* needs.  The clean-up of ixgbe_tx_packet gets no further than its first one, as
\* far as the outcome of following such a pointer is defined at all.
THEOREM ForwarderFreesNothing == FwdSpec => [][Free' \subseteq Free]_fwdvars
<1>1. ASSUME FwdInv, [FwdNext]_fwdvars PROVE [Free' \subseteq Free]_fwdvars
  <2>1. free_stack' = free_stack => Free' \subseteq Free
    BY DEF Free
  <2>2. Send => free_stack' = free_stack
    BY <1>1, SendInv
  <2>3. CallTx \/ FreeClobbered \/ RxNic \/ TxNic => free_stack' = free_stack
    BY DEF CallTx, Tx!TxCall, Tx!queue, FreeClobbered, RxNic, Nic, NicEnable, NicReceive,
           TxNic, Tx!Nic, Tx!NicTransmit, Tx!NicWriteBack
  <2> QED
    BY <1>1, <2>1, <2>2, <2>3, PoolShrinks, Zenon DEF FwdNext, Main
<1>2. FwdInv /\ [FwdNext]_fwdvars => [Free' \subseteq Free]_fwdvars
  BY <1>1, Zenon
<1> QED
  BY <1>2, FwdInductive, PTL DEF FwdSpec
=============================================================================
