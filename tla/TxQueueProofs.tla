--------------------------- MODULE TxQueueProofs ---------------------------
(***************************************************************************)
(* The safety properties of TxQueue for every power-of-two ring size, pool *)
(* size and write-back threshold.  None of them is inductive by itself:    *)
(* that DD means sent rests on what the three words of each descriptor in  *)
(* the ring hold, this on the order of the positions, and the order on the *)
(* DD test of the clean-up loop.  QueueInv joins them.  It does not depend *)
(* on where the buffers come from; that each has one owner does, and is    *)
(* proved for the application of this model.  From both follows that the   *)
(* ring implements the channel.                                            *)
(***************************************************************************)
EXTENDS TxQueue, QueueLemmas

\* What ixgbe_tx_packet has done so far, by the place it is at.
CallState ==
    /\ pc = "idle" => buf = NULL
    /\ pc = "clean" => buf \in held
    /\ Writing => buf \in Bufs /\ virtual_addresses[tx_index] = buf
    /\ pc \in {"cmd_type_len", "olinfo_status", "tail"} =>
            descriptors[tx_index]["buffer_addr"] = buf
    /\ pc \in {"olinfo_status", "tail"} =>
            descriptors[tx_index]["cmd_type_len"] = buf
    /\ pc = "tail" => descriptors[tx_index]["olinfo_status"] = buf

\* What the descriptors in the ring hold: those the NIC wrote back are done,
\* the others are as the driver wrote them.
RingContents ==
    /\ \A k \in Window(clean_index, wb_index, NUM_TX_QUEUE_ENTRIES) :
           /\ virtual_addresses[k] \in Bufs
           /\ \A f \in Fields : descriptors[k][f] = NULL
    /\ \A k \in Window(wb_index, TDT, NUM_TX_QUEUE_ENTRIES) :
           /\ virtual_addresses[k] \in Bufs
           /\ \A f \in Fields : descriptors[k][f] = virtual_addresses[k]

QueueInv == TypeOK /\ RingOrder /\ CallState /\ RingContents
IInv == QueueInv /\ OneOwner
-----------------------------------------------------------------------------
\* The assumptions in the form the proofs use.
LEMMA ConstFacts ==
    /\ NUM_TX_QUEUE_ENTRIES \in Nat /\ NUM_TX_QUEUE_ENTRIES >= 2
    /\ NULL \notin Bufs
BY TxQueueAssumption, MempoolAssumption

\* inc stays on the ring.
LEMMA IncFacts ==
    \A k \in Slots : /\ inc(k) = IF k = NUM_TX_QUEUE_ENTRIES - 1 THEN 0 ELSE k + 1
                     /\ inc(k) \in Slots
BY ConstFacts, IncByCases DEF inc, Slots

\* NicWriteBack moves by less than a lap.
LEMMA WriteBackFacts ==
    ASSUME wb_index \in Slots, NEW k \in 1 .. NUM_TX_QUEUE_ENTRIES - 1
    PROVE  LET w == (wb_index + k) % NUM_TX_QUEUE_ENTRIES
           IN  /\ w = IF wb_index + k < NUM_TX_QUEUE_ENTRIES THEN wb_index + k
                      ELSE wb_index + k - NUM_TX_QUEUE_ENTRIES
               /\ w \in Slots
<1> DEFINE a == wb_index + k
<1>1. a \in 0 .. 2 * NUM_TX_QUEUE_ENTRIES - 1 /\ NUM_TX_QUEUE_ENTRIES >= 1
  BY ConstFacts DEF Slots
<1> HIDE DEF a
<1>2. a % NUM_TX_QUEUE_ENTRIES =
        IF a < NUM_TX_QUEUE_ENTRIES THEN a ELSE a - NUM_TX_QUEUE_ENTRIES
  BY <1>1, ConstFacts, ModByCases, Zenon
<1> QED
  BY <1>1, <1>2, ConstFacts DEF a, Slots

\* The initial state satisfies the inductive invariant.
LEMMA InitIInv == Init => IInv
<1> SUFFICES ASSUME Init PROVE IInv
  OBVIOUS
<1> USE ConstFacts
<1>1. /\ free_stack \in Seq(Bufs) /\ FreeOnce /\ Free = Bufs
  BY MempoolInitFacts DEF Init
<1>2. TypeOK
  BY <1>1 DEF Init, TxInit, TxStarted, TypeOK, Slots, Done
<1>3. \A k : k \notin Window(0, 0, NUM_TX_QUEUE_ENTRIES)
  BY DEF Window, Distance
<1>4. RingOrder
  BY DEF Init, TxInit, TxStarted, RingOrder, Distance, Writing, Fields
<1>5. CallState
  BY DEF Init, TxInit, TxStarted, CallState, Writing, Fields
<1>6. RingContents
  BY <1>3 DEF Init, TxInit, TxStarted, RingContents
<1>7. InRing = {} /\ Filling = {}
  BY <1>3 DEF Init, TxInit, InRing, Filling, Writing, Fields
<1>8. OneOwner
  BY <1>1, <1>7 DEF OneOwner, Init, TxInit
<1> QED
  BY <1>2, <1>4, <1>5, <1>6, <1>8 DEF IInv, QueueInv
-----------------------------------------------------------------------------
\* The slot the driver fills next is not in the ring.
LEMMA TailSlotIsFree ==
    ASSUME TypeOK, RingOrder
    PROVE  /\ tx_index \notin Window(clean_index, wb_index, NUM_TX_QUEUE_ENTRIES)
           /\ tx_index \notin Window(wb_index, TDT, NUM_TX_QUEUE_ENTRIES)
           /\ tx_index \notin InRing
BY ConstFacts DEF TypeOK, RingOrder, Slots, InRing, Window, Distance

\* The ring consists of what was written back and what was not.
LEMMA RingParts ==
    ASSUME TypeOK, RingOrder
    PROVE  InRing = Window(clean_index, wb_index, NUM_TX_QUEUE_ENTRIES)
                    \cup Window(wb_index, TDT, NUM_TX_QUEUE_ENTRIES)
<1>1. \A k \in Slots :
         k \in InRing <=>
            \/ k \in Window(clean_index, wb_index, NUM_TX_QUEUE_ENTRIES)
            \/ k \in Window(wb_index, TDT, NUM_TX_QUEUE_ENTRIES)
  BY ConstFacts DEF TypeOK, RingOrder, Slots, InRing, Window, Distance
<1> QED
  BY <1>1 DEF InRing, Window, Slots

\* DD tells in the ring which descriptors the NIC wrote back.
LEMMA ContentsGiveDD ==
    ASSUME TypeOK, RingOrder, RingContents
    PROVE  /\ DDMeansSent
           /\ \A k \in InRing : virtual_addresses[k] \in Bufs
<1>1. \A k \in Window(clean_index, wb_index, NUM_TX_QUEUE_ENTRIES) : DD(k)
  BY DEF RingContents, DD, Done, Fields
<1>2. \A k \in Window(wb_index, TDT, NUM_TX_QUEUE_ENTRIES) : ~DD(k)
  BY ConstFacts DEF RingContents, DD, Fields
<1> QED
  BY <1>1, <1>2, RingParts DEF DDMeansSent, RingContents

\* Ownership does not depend on whether a slot is being filled or is in the
\* ring already.
LEMMA SameOwners ==
    ASSUME OneOwner, UNCHANGED <<free_stack, virtual_addresses, held>>,
           InRing' \cup Filling' = InRing \cup Filling
    PROVE  OneOwner'
<1> DEFINE sent == InRing \cup Filling
<1>1. Free' = Free /\ (FreeOnce' <=> FreeOnce)
  BY DEF Free, FreeOnce
<1>2. {virtual_addresses'[k] : k \in sent'} = {virtual_addresses[k] : k \in sent}
  OBVIOUS
<1>3. \A k, l \in sent' : virtual_addresses'[k] = virtual_addresses'[l] => k = l
  BY DEF OneOwner
<1> QED
  BY <1>1, <1>2, <1>3 DEF OneOwner

\* What is true of the ring stays true while nobody touches it, whatever happens
\* to buffers that are elsewhere.
LEMMA UntouchedInv ==
    ASSUME QueueInv, UNCHANGED <<queue, descriptors, TDT, nic, pc, buf>>,
           free_stack' \in Seq(Bufs), held' \subseteq Bufs, pc = "clean" => buf \in held'
    PROVE  QueueInv'
<1> USE DEF queue, nic, QueueInv
<1>1. TypeOK'
  BY DEF TypeOK
<1>2. RingOrder'
  BY DEF RingOrder, Writing
<1>3. CallState'
  BY DEF CallState, Writing
<1>4. RingContents'
  BY DEF RingContents
<1> QED
  BY <1>1, <1>2, <1>3, <1>4

\* An unchanged state satisfies what it satisfied.
LEMMA StutterIInv == ASSUME IInv, UNCHANGED vars PROVE IInv'
<1> USE DEF vars, txvars, queue, nic
<1>1. QueueInv'
  BY UntouchedInv DEF IInv, QueueInv, TypeOK, CallState
<1>2. OneOwner'
  BY SameOwners DEF IInv, InRing, Filling, Writing
<1> QED
  BY <1>1, <1>2 DEF IInv

\* Calling ixgbe_tx_packet.
LEMMA TxCallInv ==
    ASSUME QueueInv, NEW b \in Bufs, TxCall(b)
    PROVE  QueueInv' /\ (OneOwner => OneOwner')
<1> USE DEF QueueInv, TxCall, queue, nic
<1>1. TypeOK'
  BY DEF TypeOK
<1>2. RingOrder'
  BY DEF RingOrder, Writing, Fields
<1>3. CallState'
  BY DEF CallState, Writing, Fields
<1>4. RingContents'
  BY DEF RingContents
<1>5. ASSUME OneOwner PROVE OneOwner'
  <2>1. Filling' = Filling /\ InRing' = InRing
    BY DEF Filling, Writing, Fields, InRing
  <2> QED
    BY <1>5, <2>1, SameOwners
<1> QED
  BY <1>1, <1>2, <1>3, <1>4, <1>5

\* Reclaiming a descriptor.
LEMMA TxCleanInv ==
    ASSUME QueueInv, TxClean
    PROVE  QueueInv' /\ (OneOwner => OneOwner')
<1> USE ConstFacts
<1>0. /\ TypeOK /\ RingOrder /\ CallState /\ RingContents
      /\ pc = "clean" /\ clean_index # tx_index /\ DD(clean_index)
      /\ clean_index' = inc(clean_index)
      /\ UNCHANGED <<tx_index, virtual_addresses, descriptors, TDT, TDH, wb_index,
                     wire, pc, buf, held>>
  BY DEF QueueInv, TxClean, nic
<1> DEFINE b == virtual_addresses[clean_index]
<1>1. clean_index \in InRing /\ InRing' = InRing \ {clean_index}
  BY <1>0, WindowShrink DEF TypeOK, Slots, InRing, inc
<1>2. b \in Bufs /\ clean_index # wb_index
  <2>1. clean_index \in Window(clean_index, wb_index, NUM_TX_QUEUE_ENTRIES)
    BY <1>0, <1>1, ContentsGiveDD DEF DDMeansSent
  <2> QED
    BY <1>0, <1>1, <2>1, ContentsGiveDD DEF Window, Distance, TypeOK, Slots
<1>3. Window(clean_index, wb_index, NUM_TX_QUEUE_ENTRIES)'
        \subseteq Window(clean_index, wb_index, NUM_TX_QUEUE_ENTRIES)
  BY <1>0, <1>2, WindowShrink DEF TypeOK, Slots, inc
<1>4. /\ free_stack' \in Seq(Bufs) /\ Free' = Free \cup {b}
      /\ FreeOnce /\ b \notin Free => FreeOnce'
  BY <1>0, <1>2, FreeFacts DEF TypeOK, TxClean
<1>5. TypeOK'
  BY <1>0, <1>4, IncFacts DEF TypeOK
<1>6. RingOrder'
  <2>1. clean_index' = IF clean_index = NUM_TX_QUEUE_ENTRIES - 1 THEN 0
                       ELSE clean_index + 1
    BY <1>0, IncFacts DEF TypeOK
  <2>2. ~Writing'
    BY <1>0 DEF Writing, Fields
  <2> QED
    BY <1>0, <1>2, <2>1, <2>2 DEF TypeOK, RingOrder, Slots, Distance
<1>7. CallState'
  BY <1>0 DEF CallState, Writing
<1>8. RingContents'
  BY <1>0, <1>3 DEF RingContents
<1>9. ASSUME OneOwner PROVE OneOwner'
  <2>1. Filling = {} /\ Filling' = {}
    BY <1>0 DEF Filling, Writing, Fields
  <2>2. \A k \in InRing' : virtual_addresses[k] # b
    BY <1>0, <1>1, <1>9 DEF OneOwner
  <2> QED
    BY <1>0, <1>1, <1>4, <1>9, <2>1, <2>2 DEF OneOwner
<1> QED
  BY <1>5, <1>6, <1>7, <1>8, <1>9 DEF QueueInv

\* Returning 0 from a full queue.
LEMMA TxFullInv ==
    ASSUME QueueInv, TxFull
    PROVE  QueueInv' /\ (OneOwner => OneOwner')
<1> USE DEF QueueInv, TxFull, CleanDone, queue, nic
<1>1. TypeOK'
  BY DEF TypeOK
<1>2. RingOrder'
  BY DEF RingOrder, Writing, Fields
<1>3. CallState'
  BY DEF CallState, Writing, Fields
<1>4. RingContents'
  BY DEF RingContents
<1>5. ASSUME OneOwner PROVE OneOwner'
  <2>1. Filling' = Filling /\ InRing' = InRing
    BY DEF Filling, Writing, Fields, InRing
  <2> QED
    BY <1>5, <2>1, SameOwners
<1> QED
  BY <1>1, <1>2, <1>3, <1>4, <1>5

\* Taking over the buffer.
LEMMA TxEnqueueInv ==
    ASSUME QueueInv, TxEnqueue
    PROVE  QueueInv' /\ (OneOwner => OneOwner')
<1> USE ConstFacts
<1>0. /\ TypeOK /\ RingOrder /\ CallState /\ RingContents
      /\ pc = "clean" /\ clean_index # inc(tx_index)
      /\ virtual_addresses' = [virtual_addresses EXCEPT ![tx_index] = buf]
      /\ held' = held \ {buf} /\ pc' = "buffer_addr"
      /\ UNCHANGED <<free_stack, clean_index, tx_index, descriptors, TDT, TDH,
                     wb_index, wire, buf>>
  BY DEF QueueInv, TxEnqueue, CleanDone, Full, nic
<1>1. buf \in held /\ buf \in Bufs /\ tx_index \in Slots
  BY <1>0 DEF CallState, TypeOK
<1>2. /\ virtual_addresses'[tx_index] = buf
      /\ \A k \in Slots : k # tx_index =>
             virtual_addresses'[k] = virtual_addresses[k]
  BY <1>0, <1>1 DEF TypeOK
<1>3. TypeOK'
  BY <1>0, <1>1 DEF TypeOK, Fields
<1>4. RingOrder'
  <2>1. inc(tx_index) = IF tx_index = NUM_TX_QUEUE_ENTRIES - 1 THEN 0
                        ELSE tx_index + 1
    BY <1>1, IncFacts
  <2>2. Distance(clean_index, tx_index, NUM_TX_QUEUE_ENTRIES)
            < NUM_TX_QUEUE_ENTRIES - 1
    BY <1>0, <2>1 DEF TypeOK, Slots, Distance
  <2> QED
    BY <1>0, <2>2 DEF RingOrder
<1>5. CallState'
  BY <1>0, <1>1, <1>2 DEF CallState, Writing, Fields
<1>6. RingContents'
  <2>1. /\ Window(clean_index, wb_index, NUM_TX_QUEUE_ENTRIES) \subseteq Slots
        /\ Window(wb_index, TDT, NUM_TX_QUEUE_ENTRIES) \subseteq Slots
    BY DEF Window, Slots
  <2> QED
    BY <1>0, <1>2, <2>1, TailSlotIsFree DEF RingContents
<1>7. ASSUME OneOwner PROVE OneOwner'
  <2>1. Filling = {} /\ Filling' = {tx_index}
    BY <1>0 DEF Filling, Writing, Fields
  <2>2. InRing' = InRing /\ InRing \subseteq Slots /\ tx_index \notin InRing
    BY <1>0, TailSlotIsFree DEF InRing, Window, Slots
  <2>3. \A k \in InRing : /\ virtual_addresses'[k] = virtual_addresses[k]
                          /\ virtual_addresses[k] # buf
    BY <1>0, <1>1, <1>2, <1>7, <2>1, <2>2 DEF OneOwner
  <2>4. FreeOnce' /\ Free' = Free /\ buf \notin Free
    BY <1>0, <1>1, <1>7 DEF OneOwner, FreeOnce, Free
  <2>5. {virtual_addresses'[k] : k \in InRing' \cup Filling'} =
            {virtual_addresses[k] : k \in InRing \cup Filling} \cup {buf}
    BY <1>2, <2>1, <2>2, <2>3
  <2>6. \A k, l \in InRing' \cup Filling' :
            virtual_addresses'[k] = virtual_addresses'[l] => k = l
    BY <1>0, <1>2, <1>7, <2>1, <2>2, <2>3 DEF OneOwner
  <2> DEFINE old == {virtual_addresses[k] : k \in InRing \cup Filling}
             new == {virtual_addresses'[k] : k \in InRing' \cup Filling'}
  <2>7. /\ Free \cap held = {} /\ Free \cap old = {} /\ held \cap old = {}
        /\ Free \cup held \cup old = Bufs
    BY <1>7 DEF OneOwner
  <2>8. new = old \cup {buf}
    BY <2>5
  <2>9. /\ Free' \cap held' = {} /\ Free' \cap new = {} /\ held' \cap new = {}
        /\ Free' \cup held' \cup new = Bufs
    <3> HIDE DEF old, new
    <3> QED
      BY <1>0, <1>1, <2>4, <2>7, <2>8
  <2> QED
    BY <2>4, <2>6, <2>9 DEF OneOwner
<1> QED
  BY <1>3, <1>4, <1>5, <1>6, <1>7 DEF QueueInv

\* Writing one word of the descriptor.
LEMMA TxWriteInv ==
    ASSUME QueueInv,
           \/ TxWrite("buffer_addr", "cmd_type_len")
           \/ TxWrite("cmd_type_len", "olinfo_status")
           \/ TxWrite("olinfo_status", "tail")
    PROVE  QueueInv' /\ (OneOwner => OneOwner')
<1> USE ConstFacts
<1>0. /\ TypeOK /\ RingOrder /\ CallState /\ RingContents
      /\ pc \in Fields
      /\ descriptors' = [descriptors EXCEPT ![tx_index][pc] = buf]
      /\ UNCHANGED <<free_stack, clean_index, tx_index, virtual_addresses, TDT,
                     TDH, wb_index, wire, buf, held>>
  BY DEF QueueInv, TxWrite, Fields, nic, queue
<1>1. \/ pc = "buffer_addr" /\ pc' = "cmd_type_len"
      \/ pc = "cmd_type_len" /\ pc' = "olinfo_status"
      \/ pc = "olinfo_status" /\ pc' = "tail"
  BY DEF TxWrite
<1>2. Writing /\ Writing' /\ tx_index \in Slots /\ buf \in Bufs
  BY <1>0, <1>1 DEF Writing, CallState, Fields, TypeOK
<1>3. /\ descriptors'[tx_index] = [descriptors[tx_index] EXCEPT ![pc] = buf]
      /\ \A k \in Slots : k # tx_index => descriptors'[k] = descriptors[k]
  BY <1>0, <1>2 DEF TypeOK
<1>4. TypeOK'
  BY <1>0, <1>1, <1>2 DEF TypeOK, Fields
<1>5. RingOrder'
  BY <1>0, <1>2 DEF RingOrder
<1>6. CallState'
  <2>1. descriptors[tx_index] \in [Fields -> Bufs \cup {NULL}]
    BY <1>0, <1>2 DEF TypeOK
  <2>2. \A f \in Fields :
           descriptors'[tx_index][f] = IF f = pc THEN buf
                                       ELSE descriptors[tx_index][f]
    BY <1>0, <1>3, <2>1
  <2> QED
    BY <1>0, <1>1, <1>2, <2>2 DEF CallState, Fields
<1>7. RingContents'
  <2>1. /\ Window(clean_index, wb_index, NUM_TX_QUEUE_ENTRIES) \subseteq Slots
        /\ Window(wb_index, TDT, NUM_TX_QUEUE_ENTRIES) \subseteq Slots
    BY DEF Window, Slots
  <2> QED
    BY <1>0, <1>3, <2>1, TailSlotIsFree DEF RingContents
<1>8. ASSUME OneOwner PROVE OneOwner'
  <2>1. Filling' = Filling /\ InRing' = InRing
    BY <1>0, <1>2 DEF Filling, InRing
  <2> QED
    BY <1>0, <1>8, <2>1, SameOwners
<1> QED
  BY <1>4, <1>5, <1>6, <1>7, <1>8 DEF QueueInv

\* Publishing the descriptor.
LEMMA TxTailInv ==
    ASSUME QueueInv, TxTail
    PROVE  QueueInv' /\ (OneOwner => OneOwner')
<1> USE ConstFacts
<1>0. /\ TypeOK /\ RingOrder /\ CallState /\ RingContents
      /\ pc = "tail" /\ pc' = "idle" /\ buf' = NULL
      /\ tx_index' = inc(tx_index) /\ TDT' = inc(tx_index)
      /\ UNCHANGED <<free_stack, clean_index, virtual_addresses, descriptors, TDH,
                     wb_index, wire, held>>
  BY DEF QueueInv, TxTail, nic
<1>1. Writing /\ ~Writing' /\ tx_index \in Slots /\ TDT = tx_index
  BY <1>0 DEF Writing, Fields, TypeOK, RingOrder
<1>2. inc(tx_index) = IF tx_index = NUM_TX_QUEUE_ENTRIES - 1 THEN 0
                      ELSE tx_index + 1
  BY <1>1, IncFacts
<1>3. inc(tx_index) # clean_index /\ inc(tx_index) # wb_index
  BY <1>0, <1>1, <1>2 DEF TypeOK, RingOrder, Slots, Distance
<1>4. Window(wb_index, TDT, NUM_TX_QUEUE_ENTRIES)' =
        Window(wb_index, TDT, NUM_TX_QUEUE_ENTRIES) \cup {tx_index}
  BY <1>0, <1>1, <1>3, WindowExtend DEF inc, TypeOK, Slots
<1>5. InRing' = InRing \cup {tx_index}
  BY <1>0, <1>1, <1>3, WindowExtend DEF inc, TypeOK, Slots, InRing
<1>6. TypeOK'
  BY <1>0, <1>1, IncFacts DEF TypeOK
<1>7. RingOrder'
  BY <1>0, <1>1, <1>2, <1>3 DEF TypeOK, RingOrder, Slots, Distance
<1>8. CallState'
  BY <1>0, <1>1 DEF CallState
<1>9. RingContents'
  <2>1. \A f \in Fields : descriptors[tx_index][f] = buf
    BY <1>0 DEF CallState, Fields
  <2>2. virtual_addresses[tx_index] = buf /\ buf \in Bufs
    BY <1>0, <1>1 DEF CallState
  <2> QED
    BY <1>0, <1>4, <2>1, <2>2 DEF RingContents
<1>10. ASSUME OneOwner PROVE OneOwner'
  <2>1. InRing' \cup Filling' = InRing \cup Filling
    BY <1>1, <1>5 DEF Filling
  <2> QED
    BY <1>0, <1>10, <2>1, SameOwners
<1> QED
  BY <1>6, <1>7, <1>8, <1>9, <1>10 DEF QueueInv

\* The NIC sends a buffer.
LEMMA NicTransmitInv ==
    ASSUME QueueInv, NicTransmit
    PROVE  QueueInv' /\ (OneOwner => OneOwner')
<1> USE ConstFacts
<1>0. /\ TypeOK /\ RingOrder /\ CallState /\ RingContents
      /\ TDH # TDT /\ TDH' = inc(TDH) /\ wire' = descriptors[TDH]["buffer_addr"]
      /\ UNCHANGED <<free_stack, clean_index, tx_index, virtual_addresses,
                     descriptors, TDT, wb_index, pc, buf, held>>
  BY DEF QueueInv, NicTransmit, queue
<1>1. inc(TDH) = (IF TDH = NUM_TX_QUEUE_ENTRIES - 1 THEN 0 ELSE TDH + 1)
      /\ inc(TDH) \in Slots
  BY <1>0, IncFacts DEF TypeOK
<1>2. TypeOK'
  BY <1>0, <1>1 DEF TypeOK, Fields
<1>3. Writing' = Writing
  BY <1>0 DEF Writing
<1>4. RingOrder'
  BY <1>0, <1>1, <1>3 DEF TypeOK, RingOrder, Slots, Distance
<1>5. CallState'
  BY <1>0, <1>3 DEF CallState
<1>6. RingContents'
  BY <1>0 DEF RingContents
<1>7. ASSUME OneOwner PROVE OneOwner'
  BY <1>0, <1>3, <1>7, SameOwners DEF InRing, Filling
<1> QED
  BY <1>2, <1>4, <1>5, <1>6, <1>7 DEF QueueInv

\* The NIC reports descriptors as done.
LEMMA NicWriteBackInv ==
    ASSUME QueueInv, NEW n \in 1 .. NUM_TX_QUEUE_ENTRIES - 1, NicWriteBack(n)
    PROVE  QueueInv' /\ (OneOwner => OneOwner')
<1> USE ConstFacts
<1>0. /\ TypeOK /\ RingOrder /\ CallState /\ RingContents
      /\ n <= Distance(wb_index, TDH, NUM_TX_QUEUE_ENTRIES)
      /\ wb_index' = (wb_index + n) % NUM_TX_QUEUE_ENTRIES
      /\ UNCHANGED <<free_stack, clean_index, tx_index, virtual_addresses, TDT,
                     TDH, wire, pc, buf, held>>
  BY DEF QueueInv, NicWriteBack, queue
<1>1. /\ wb_index' = IF wb_index + n < NUM_TX_QUEUE_ENTRIES THEN wb_index + n
                     ELSE wb_index + n - NUM_TX_QUEUE_ENTRIES
      /\ wb_index' \in Slots
  BY <1>0, WriteBackFacts DEF TypeOK
<1> DEFINE reported == Window(wb_index, wb_index', NUM_TX_QUEUE_ENTRIES)
<1>2. \A k \in Slots :
        k \in reported <=> Distance(wb_index, k, NUM_TX_QUEUE_ENTRIES) < n
  BY <1>0, <1>1 DEF TypeOK, RingOrder, Slots, Window, Distance
<1>3. /\ \A k \in Slots, f \in Fields :
            descriptors'[k][f] = IF k \in reported THEN NULL ELSE descriptors[k][f]
      /\ descriptors' \in [Slots -> [Fields -> Bufs \cup {NULL}]]
  BY <1>0, <1>2 DEF NicWriteBack, Done, TypeOK
<1>4. /\ reported \subseteq Window(wb_index, TDT, NUM_TX_QUEUE_ENTRIES)
      /\ reported \subseteq Slots
      /\ Window(clean_index, wb_index, NUM_TX_QUEUE_ENTRIES)' =
            Window(clean_index, wb_index, NUM_TX_QUEUE_ENTRIES) \cup reported
      /\ Window(wb_index, TDT, NUM_TX_QUEUE_ENTRIES)' =
            Window(wb_index, TDT, NUM_TX_QUEUE_ENTRIES) \ reported
  <2>1. \A k \in Slots :
          /\ k \in reported => k \in Window(wb_index, TDT, NUM_TX_QUEUE_ENTRIES)
          /\ k \in Window(clean_index, wb_index', NUM_TX_QUEUE_ENTRIES) <=>
                \/ k \in Window(clean_index, wb_index, NUM_TX_QUEUE_ENTRIES)
                \/ k \in reported
    BY <1>0, <1>1 DEF TypeOK, RingOrder, Slots, Window, Distance
  <2>2. \A k \in Slots :
          k \in Window(wb_index', TDT, NUM_TX_QUEUE_ENTRIES) <=>
                /\ k \in Window(wb_index, TDT, NUM_TX_QUEUE_ENTRIES)
                /\ k \notin reported
    BY <1>0, <1>1 DEF TypeOK, RingOrder, Slots, Window, Distance
  <2>3. \A a, b : Window(a, b, NUM_TX_QUEUE_ENTRIES) \subseteq Slots
    BY DEF Window, Slots
  <2> QED
    BY <1>0, <2>1, <2>2, <2>3
<1> HIDE DEF reported
<1>5. TypeOK'
  BY <1>0, <1>1, <1>3 DEF TypeOK
<1>6. Writing' = Writing
  BY <1>0 DEF Writing
<1>7. RingOrder'
  BY <1>0, <1>1, <1>6 DEF TypeOK, RingOrder, Slots, Distance
<1>8. CallState'
  <2>1. tx_index \notin reported /\ tx_index \in Slots
    BY <1>0, <1>4, TailSlotIsFree DEF TypeOK
  <2>2. \A f \in Fields : descriptors'[tx_index][f] = descriptors[tx_index][f]
    BY <1>3, <2>1
  <2> QED
    BY <1>0, <1>6, <2>2 DEF CallState, Fields
<1>9. RingContents'
  <2>1. \A a, b : Window(a, b, NUM_TX_QUEUE_ENTRIES) \subseteq Slots
    BY DEF Window, Slots
  <2>2. \A k \in Window(clean_index, wb_index, NUM_TX_QUEUE_ENTRIES) \cup reported :
            /\ virtual_addresses[k] \in Bufs
            /\ \A f \in Fields : descriptors'[k][f] = NULL
    BY <1>0, <1>3, <1>4, <2>1 DEF RingContents
  <2>3. \A k \in Window(wb_index, TDT, NUM_TX_QUEUE_ENTRIES) \ reported :
            /\ virtual_addresses[k] \in Bufs
            /\ \A f \in Fields : descriptors'[k][f] = virtual_addresses[k]
    BY <1>0, <1>3, <2>1 DEF RingContents
  <2> QED
    BY <1>0, <1>4, <2>2, <2>3 DEF RingContents
<1>10. ASSUME OneOwner PROVE OneOwner'
  BY <1>0, <1>6, <1>10, SameOwners DEF InRing, Filling
<1> QED
  BY <1>5, <1>7, <1>8, <1>9, <1>10 DEF QueueInv

\* The application takes a buffer.
LEMMA AppAllocIInv == ASSUME IInv, AppAlloc PROVE IInv'
<1>0. /\ TypeOK /\ RingOrder /\ CallState /\ RingContents /\ OneOwner
      /\ pkt_buf_alloc /\ held' = held \cup {Top} /\ pc = "idle"
      /\ UNCHANGED <<clean_index, tx_index, virtual_addresses, descriptors, TDT,
                     TDH, wb_index, wire, pc, buf>>
  BY DEF IInv, QueueInv, AppAlloc, queue, nic
<1>1. /\ free_stack' \in Seq(Bufs) /\ FreeOnce' /\ Top \in Free /\ Top \in Bufs
      /\ Free' = Free \ {Top}
  BY <1>0, AllocFacts DEF TypeOK, OneOwner
<1>2. TypeOK'
  BY <1>0, <1>1 DEF TypeOK
<1>3. ~Writing /\ ~Writing'
  BY <1>0 DEF Writing, Fields
<1>4. RingOrder'
  BY <1>0, <1>3 DEF RingOrder
<1>5. CallState'
  BY <1>0, <1>3 DEF CallState
<1>6. RingContents'
  BY <1>0 DEF RingContents
<1>7. OneOwner'
  <2>1. InRing' = InRing /\ Filling' = Filling
    BY <1>0, <1>3 DEF InRing, Filling
  <2> QED
    BY <1>0, <1>1, <2>1 DEF OneOwner
<1> QED
  BY <1>2, <1>4, <1>5, <1>6, <1>7 DEF IInv, QueueInv

\* The application gives a buffer back.
LEMMA AppFreeIInv == ASSUME IInv, NEW b \in Bufs, AppFree(b) PROVE IInv'
<1>0. /\ TypeOK /\ RingOrder /\ CallState /\ RingContents /\ OneOwner
      /\ b \in held /\ pkt_buf_free(b) /\ held' = held \ {b} /\ pc = "idle"
      /\ UNCHANGED <<clean_index, tx_index, virtual_addresses, descriptors, TDT,
                     TDH, wb_index, wire, pc, buf>>
  BY DEF IInv, QueueInv, AppFree, queue, nic
<1>1. b \notin Free
  BY <1>0 DEF OneOwner
<1>2. free_stack' \in Seq(Bufs) /\ Free' = Free \cup {b} /\ FreeOnce'
  BY <1>0, <1>1, FreeFacts DEF TypeOK, OneOwner
<1>3. TypeOK'
  BY <1>0, <1>2 DEF TypeOK
<1>4. ~Writing /\ ~Writing'
  BY <1>0 DEF Writing, Fields
<1>5. RingOrder'
  BY <1>0, <1>4 DEF RingOrder
<1>6. CallState'
  BY <1>0, <1>4 DEF CallState
<1>7. RingContents'
  BY <1>0 DEF RingContents
<1>8. OneOwner'
  <2>1. InRing' = InRing /\ Filling' = Filling
    BY <1>0, <1>4 DEF InRing, Filling
  <2> QED
    BY <1>0, <1>2, <2>1 DEF OneOwner
<1> QED
  BY <1>3, <1>5, <1>6, <1>7, <1>8 DEF IInv, QueueInv
-----------------------------------------------------------------------------
\* The steps of ixgbe_tx_packet and of the NIC keep the ring as it should be,
\* wherever its buffers come from.
LEMMA StepInv ==
    QueueInv /\ (TxStep \/ Nic) => QueueInv' /\ (OneOwner => OneOwner')
<1> SUFFICES ASSUME QueueInv, TxStep \/ Nic PROVE QueueInv' /\ (OneOwner => OneOwner')
  OBVIOUS
<1>1. CASE TxStep
  BY <1>1, TxCleanInv, TxFullInv, TxEnqueueInv, TxWriteInv, TxTailInv, Zenon
     DEF TxStep, TxWriteDesc
<1>2. CASE Nic
  BY <1>2, NicTransmitInv, NicWriteBackInv, Zenon DEF Nic
<1> QED
  BY <1>1, <1>2

\* What the steps of ixgbe_tx_packet do to the buffers.
LEMMA StepBuffers ==
    ASSUME QueueInv, TxStep
    PROVE  /\ held' \subseteq held
           /\ \/ free_stack' = free_stack
              \/ /\ pc = "clean" /\ clean_index # tx_index /\ DD(clean_index)
                 /\ virtual_addresses[clean_index] \in Bufs
           /\ \/ virtual_addresses' = virtual_addresses
              \/ /\ buf \in held
                 /\ virtual_addresses' = [virtual_addresses EXCEPT ![tx_index] = buf]
<1>1. CASE TxClean
  <2>1. clean_index \in InRing
    BY <1>1, ConstFacts DEF TxClean, QueueInv, TypeOK, RingOrder, InRing, Window, Distance, Slots
  <2>2. virtual_addresses[clean_index] \in Bufs
    BY <2>1, ContentsGiveDD DEF QueueInv
  <2>3. pc = "clean" /\ clean_index # tx_index /\ DD(clean_index)
    BY <1>1, Zenon DEF TxClean
  <2>4. UNCHANGED <<virtual_addresses, held>>
    BY <1>1 DEF TxClean
  <2> QED
    BY <2>2, <2>3, <2>4
<1>2. CASE TxFull \/ TxWriteDesc \/ TxTail
  <2>1. UNCHANGED <<free_stack, virtual_addresses, held>>
    BY <1>2 DEF TxFull, TxWriteDesc, TxWrite, TxTail, queue
  <2> QED
    BY <2>1
<1>3. CASE TxEnqueue
  BY <1>3 DEF TxEnqueue, CleanDone, QueueInv, CallState
<1> QED
  BY <1>1, <1>2, <1>3 DEF TxStep

\* Every step preserves the inductive invariant.
LEMMA NextIInv == IInv /\ [Next]_vars => IInv'
<1> SUFFICES ASSUME IInv, [Next]_vars PROVE IInv'
  OBVIOUS
<1>1. CASE UNCHANGED vars
  BY <1>1, StutterIInv
<1>2. CASE \E b \in Bufs : TxCall(b)
  BY <1>2, TxCallInv DEF IInv
<1>3. CASE TxStep \/ Nic
  BY <1>3, StepInv DEF IInv
<1>4. CASE AppAlloc
  BY <1>4, AppAllocIInv
<1>5. CASE \E b \in Bufs : AppFree(b)
  BY <1>5, AppFreeIInv
<1> QED
  BY <1>1, <1>2, <1>3, <1>4, <1>5 DEF Next

\* The inductive invariant holds in every reachable state of TxQueue.
THEOREM Inductive == Spec => []IInv
BY InitIInv, NextIInv, PTL DEF Spec

\* Every variable of the transmit queue keeps its type; no index leaves the
\* ring.
THEOREM TypeCorrect == Spec => []TypeOK
<1>1. IInv => TypeOK
  BY DEF IInv, QueueInv
<1> QED
  BY <1>1, Inductive, PTL

\* The driver reclaims only what the NIC reported, the NIC reports only what it
\* sent and sends only what the driver published, for every ring size.
THEOREM RingStaysOrdered == Spec => []RingOrder
<1>1. IInv => RingOrder
  BY DEF IInv, QueueInv
<1> QED
  BY <1>1, Inductive, PTL

\* The NIC never fetches a half-written or stale descriptor.
THEOREM NicSeesWholeDescriptors == Spec => []PublishedComplete
<1>1. IInv => PublishedComplete
  <2> SUFFICES ASSUME IInv,
                      NEW k \in Window(TDH, TDT, NUM_TX_QUEUE_ENTRIES)
               PROVE  /\ virtual_addresses[k] \in Bufs
                      /\ descriptors[k] = [f \in Fields |-> virtual_addresses[k]]
    BY Zenon DEF PublishedComplete
  <2>1. k \in Slots /\ k \in Window(wb_index, TDT, NUM_TX_QUEUE_ENTRIES)
    BY ConstFacts DEF IInv, QueueInv, TypeOK, RingOrder, Slots, Window, Distance
  <2>2. /\ virtual_addresses[k] \in Bufs
        /\ \A f \in Fields : descriptors[k][f] = virtual_addresses[k]
    BY <2>1 DEF IInv, QueueInv, RingContents
  <2>3. descriptors[k] \in [Fields -> Bufs \cup {NULL}]
    BY <2>1 DEF IInv, QueueInv, TypeOK
  <2> QED
    BY <2>2, <2>3
<1> QED
  BY <1>1, Inductive, PTL

\* The clean-up loop frees no buffer that the NIC may still read.
THEOREM DDIsReliable == Spec => []DDMeansSent
<1>1. IInv => DDMeansSent
  BY ContentsGiveDD DEF IInv, QueueInv
<1> QED
  BY <1>1, Inductive, PTL

\* No buffer is freed twice, sent while free, or leaked.
THEOREM BuffersHaveOneOwner == Spec => []OneOwner
<1>1. IInv => OneOwner
  BY DEF IInv, QueueInv
<1> QED
  BY <1>1, Inductive, PTL
-----------------------------------------------------------------------------
\* What the ring means to the caller: the buffers in it, how many of them were
\* sent, and the buffers that are not in it.
Content == InOrder(virtual_addresses, clean_index, TDT, NUM_TX_QUEUE_ENTRIES)
SentCount == Distance(clean_index, TDH, NUM_TX_QUEUE_ENTRIES)
Outside == Free \cup held \cup (IF Writing THEN {buf} ELSE {})

\* The ring as a sequence: a buffer for each slot, in the order of the slots.
LEMMA ContentFacts ==
    ASSUME QueueInv
    PROVE  /\ Entries(virtual_addresses, clean_index, TDT, NUM_TX_QUEUE_ENTRIES, Bufs)
           /\ Len(Content) = Distance(clean_index, TDT, NUM_TX_QUEUE_ENTRIES)
           /\ \A k \in InRing :
                 Content[Distance(clean_index, k, NUM_TX_QUEUE_ENTRIES) + 1]
                    = virtual_addresses[k]
<1>1. InRing = Window(clean_index, TDT, NUM_TX_QUEUE_ENTRIES)
  BY DEF QueueInv, RingOrder, InRing
<1>2. Entries(virtual_addresses, clean_index, TDT, NUM_TX_QUEUE_ENTRIES, Bufs)
  BY <1>1, ConstFacts, ContentsGiveDD DEF QueueInv, TypeOK, Slots, Entries
<1> QED
  BY <1>1, <1>2, InOrderFacts DEF Content

\* A step that leaves all of this alone is no step of the channel.
LEMMA SameChannel ==
    ASSUME Content' = Content, SentCount' = SentCount, wire' = wire,
           Outside' = Outside
    PROVE  UNCHANGED Channel!vars
BY DEF Channel!vars, Content, SentCount, Outside, InOrder

\* Steps that neither touch the ring nor move a buffer out of or into it.
LEMMA ElsewhereStep ==
    ASSUME UNCHANGED <<clean_index, virtual_addresses, TDT, TDH, wire>>,
           Outside' = Outside
    PROVE  UNCHANGED Channel!vars
BY SameChannel DEF Content, SentCount, InOrder

\* The steps of ixgbe_tx_packet that only look, and the writes to a descriptor.
LEMMA QuietStep ==
    ASSUME IInv,
           \/ \E b \in Bufs : TxCall(b)
           \/ TxFull
           \/ TxWriteDesc
           \/ \E k \in 1 .. NUM_TX_QUEUE_ENTRIES - 1 : NicWriteBack(k)
           \/ UNCHANGED vars
    PROVE  UNCHANGED Channel!vars
<1>1. /\ UNCHANGED <<free_stack, clean_index, virtual_addresses, TDT, TDH, wire, held>>
      /\ Writing' = Writing /\ (Writing => buf' = buf)
  BY DEF TxCall, TxFull, CleanDone, TxWriteDesc, TxWrite, NicWriteBack, vars, txvars,
         queue, nic, Writing, Fields
<1>2. Outside' = Outside
  BY <1>1 DEF Outside, Free
<1> QED
  BY <1>1, <1>2, ElsewhereStep

\* A buffer that the driver takes over is still outside: the tail has not moved.
LEMMA EnqueueStep == ASSUME IInv, TxEnqueue PROVE UNCHANGED Channel!vars
<1>1. /\ pc = "clean" /\ tx_index \in Slots /\ buf \in held
      /\ virtual_addresses' = [virtual_addresses EXCEPT ![tx_index] = buf]
      /\ held' = held \ {buf} /\ pc' = "buffer_addr"
      /\ UNCHANGED <<free_stack, clean_index, tx_index, TDT, TDH, wire, buf>>
  BY DEF IInv, QueueInv, TypeOK, CallState, TxEnqueue, CleanDone, nic
<1>2. ~Writing /\ Writing'
  BY <1>1 DEF Writing, Fields
<1>3. Outside' = Outside
  BY <1>1, <1>2 DEF Outside, Free
<1>4. /\ clean_index \in 0 .. NUM_TX_QUEUE_ENTRIES - 1
      /\ TDT \in 0 .. NUM_TX_QUEUE_ENTRIES - 1 /\ tx_index \in 0 .. NUM_TX_QUEUE_ENTRIES - 1
      /\ TDT = tx_index
  BY DEF IInv, QueueInv, TypeOK, RingOrder, Slots
<1>5. \A k \in Window(clean_index, TDT, NUM_TX_QUEUE_ENTRIES) :
            virtual_addresses'[k] = virtual_addresses[k]
  <2>1. \A k \in Window(clean_index, TDT, NUM_TX_QUEUE_ENTRIES) :
            k \in Slots /\ k # tx_index
    BY <1>4, ConstFacts DEF Window, Distance, Slots
  <2> QED
    BY <1>1, <2>1 DEF IInv, QueueInv, TypeOK
<1>6. InOrder(virtual_addresses', clean_index, TDT, NUM_TX_QUEUE_ENTRIES)
        = InOrder(virtual_addresses, clean_index, TDT, NUM_TX_QUEUE_ENTRIES)
  BY <1>4, <1>5, ConstFacts, InOrderSame
<1>7. Content' = Content /\ SentCount' = SentCount
  BY <1>1, <1>6 DEF Content, SentCount
<1> QED
  BY <1>1, <1>3, <1>7, SameChannel

\* Moving the tail: the channel accepts the buffer.
LEMMA TailStep == ASSUME IInv, TxTail PROVE \E b \in Bufs : Channel!Accept(b)
<1>1. /\ pc = "tail" /\ pc' = "idle" /\ TDT' = inc(TDT) /\ TDT = tx_index
      /\ UNCHANGED <<free_stack, clean_index, virtual_addresses, TDH, wire, held>>
  BY DEF IInv, QueueInv, RingOrder, TxTail, nic
<1>2. Writing /\ ~Writing' /\ buf \in Bufs /\ virtual_addresses[TDT] = buf
  BY <1>1 DEF IInv, QueueInv, CallState, Writing, Fields
<1>3. /\ clean_index \in 0 .. NUM_TX_QUEUE_ENTRIES - 1
      /\ TDT \in 0 .. NUM_TX_QUEUE_ENTRIES - 1
      /\ Distance(clean_index, TDT, NUM_TX_QUEUE_ENTRIES) < NUM_TX_QUEUE_ENTRIES - 1
  BY <1>1, <1>2 DEF IInv, QueueInv, TypeOK, RingOrder, Slots
<1>4. inc_and_wrap_ring(TDT, NUM_TX_QUEUE_ENTRIES) # clean_index
  BY <1>3, ConstFacts, IncByCases DEF Distance
<1>5. /\ Entries(virtual_addresses, clean_index, TDT, NUM_TX_QUEUE_ENTRIES, Bufs)
      /\ Len(Content) = Distance(clean_index, TDT, NUM_TX_QUEUE_ENTRIES)
  BY ContentFacts DEF IInv
<1>6. Content' = Append(Content, buf)
  <2>1. InOrder(virtual_addresses, clean_index, inc_and_wrap_ring(TDT, NUM_TX_QUEUE_ENTRIES),
                NUM_TX_QUEUE_ENTRIES)
          = Append(InOrder(virtual_addresses, clean_index, TDT, NUM_TX_QUEUE_ENTRIES),
                   virtual_addresses[TDT])
    BY <1>2, <1>4, <1>5, InOrderExtend
  <2> QED
    BY <1>1, <1>2, <2>1 DEF Content, inc
<1>7. Len(Content) < NUM_TX_QUEUE_ENTRIES - 1
  BY <1>3, <1>5
<1>8. buf \in Outside /\ Outside' = Outside \ {buf} /\ SentCount' = SentCount
  <2>1. buf \notin Free \cup held
    <3>1. tx_index \in Filling
      BY <1>2 DEF Filling
    <3> QED
      BY <1>1, <1>2, <3>1 DEF IInv, OneOwner
  <2>2. Outside = Free \cup held \cup {buf} /\ Outside' = Free \cup held
    BY <1>1, <1>2 DEF Outside, Free
  <2> QED
    BY <1>1, <2>1, <2>2 DEF SentCount
<1>9. ASSUME NEW b \in Bufs, b = buf PROVE Channel!Accept(b)
  BY <1>1, <1>6, <1>7, <1>8, <1>9, Zenon
     DEF Channel!Accept, Content, Outside, SentCount, InOrder
<1> QED
  BY <1>2, <1>9, Zenon

\* The NIC sends the oldest buffer that was not sent.
LEMMA TransmitStep == ASSUME IInv, NicTransmit PROVE Channel!Transmit
<1>1. /\ TDH # TDT /\ TDH' = inc(TDH) /\ wire' = descriptors[TDH]["buffer_addr"]
      /\ UNCHANGED <<free_stack, clean_index, virtual_addresses, TDT, pc, buf, held>>
  BY DEF NicTransmit, queue
<1>2. /\ clean_index \in 0 .. NUM_TX_QUEUE_ENTRIES - 1
      /\ TDT \in 0 .. NUM_TX_QUEUE_ENTRIES - 1 /\ TDH \in 0 .. NUM_TX_QUEUE_ENTRIES - 1
      /\ wb_index \in 0 .. NUM_TX_QUEUE_ENTRIES - 1 /\ TDT = tx_index
      /\ Distance(clean_index, wb_index, NUM_TX_QUEUE_ENTRIES)
            <= Distance(clean_index, TDH, NUM_TX_QUEUE_ENTRIES)
      /\ Distance(clean_index, TDH, NUM_TX_QUEUE_ENTRIES)
            <= Distance(clean_index, TDT, NUM_TX_QUEUE_ENTRIES)
  BY DEF IInv, QueueInv, TypeOK, RingOrder, Slots
<1>3. /\ TDH \in Window(wb_index, TDT, NUM_TX_QUEUE_ENTRIES)
      /\ TDH \in Window(clean_index, TDT, NUM_TX_QUEUE_ENTRIES)
  BY <1>1, <1>2, ConstFacts DEF Window, Distance
<1>4. wire' = virtual_addresses[TDH]
  BY <1>1, <1>3 DEF IInv, QueueInv, RingContents, Fields
<1>5. /\ SentCount < Len(Content) /\ Content[SentCount + 1] = virtual_addresses[TDH]
  BY <1>2, <1>3, ContentFacts DEF IInv, SentCount, InRing, Window
<1>6. SentCount' = SentCount + 1
  <2>1. TDH' = IF TDH = NUM_TX_QUEUE_ENTRIES - 1 THEN 0 ELSE TDH + 1
    BY <1>1, <1>2, ConstFacts, IncByCases DEF inc
  <2>2. Distance(clean_index, TDH, NUM_TX_QUEUE_ENTRIES) < NUM_TX_QUEUE_ENTRIES - 1
    <3>1. /\ Distance(clean_index, TDT, NUM_TX_QUEUE_ENTRIES) \in 0 .. NUM_TX_QUEUE_ENTRIES - 1
          /\ Distance(clean_index, TDH, NUM_TX_QUEUE_ENTRIES) \in 0 .. NUM_TX_QUEUE_ENTRIES - 1
      BY <1>2, ConstFacts, DistanceType
    <3>2. Distance(clean_index, TDH, NUM_TX_QUEUE_ENTRIES)
            < Distance(clean_index, TDT, NUM_TX_QUEUE_ENTRIES)
      BY <1>3 DEF Window
    <3> QED
      BY <3>1, <3>2, ConstFacts
  <2>3. /\ clean_index \in 0 .. NUM_TX_QUEUE_ENTRIES - 1
        /\ TDH \in 0 .. NUM_TX_QUEUE_ENTRIES - 1 /\ clean_index' = clean_index
    BY <1>1, <1>2
  <2> QED
    BY <2>1, <2>2, <2>3, ConstFacts DEF SentCount, Distance
<1>7. Content' = Content /\ Outside' = Outside
  BY <1>1 DEF Content, Outside, Free, Writing
<1> QED
  BY <1>4, <1>5, <1>6, <1>7, Zenon DEF Channel!Transmit, Content, Outside, SentCount, InOrder

\* The clean-up loop gives the oldest buffer back, and it was sent.
LEMMA ReclaimStep == ASSUME IInv, TxClean PROVE Channel!Reclaim
<1>1. /\ pc = "clean" /\ clean_index # tx_index /\ DD(clean_index)
      /\ clean_index' = inc(clean_index)
      /\ UNCHANGED <<tx_index, virtual_addresses, TDT, TDH, wire, pc, buf, held>>
  BY DEF TxClean, nic
<1>2. /\ clean_index \in 0 .. NUM_TX_QUEUE_ENTRIES - 1
      /\ TDT \in 0 .. NUM_TX_QUEUE_ENTRIES - 1 /\ TDH \in 0 .. NUM_TX_QUEUE_ENTRIES - 1
      /\ wb_index \in 0 .. NUM_TX_QUEUE_ENTRIES - 1 /\ TDT = tx_index
      /\ Distance(clean_index, wb_index, NUM_TX_QUEUE_ENTRIES)
            <= Distance(clean_index, TDH, NUM_TX_QUEUE_ENTRIES)
  BY DEF IInv, QueueInv, TypeOK, RingOrder, Slots
<1>3. clean_index \in InRing
  BY <1>1, <1>2, ConstFacts, WindowShrink DEF InRing
<1>4. clean_index # TDH
  <2>1. clean_index \in Window(clean_index, wb_index, NUM_TX_QUEUE_ENTRIES)
    BY <1>1, <1>3, ContentsGiveDD DEF IInv, QueueInv, DDMeansSent
  <2> QED
    BY <1>2, <2>1, ConstFacts DEF Window, Distance
<1>5. /\ SentCount > 0 /\ SentCount' = SentCount - 1
  <2>1. clean_index' = IF clean_index = NUM_TX_QUEUE_ENTRIES - 1 THEN 0 ELSE clean_index + 1
    BY <1>1, <1>2, ConstFacts, IncByCases DEF inc
  <2> QED
    BY <1>1, <1>2, <1>4, <2>1, ConstFacts DEF SentCount, Distance
<1>6. Entries(virtual_addresses, clean_index, TDT, NUM_TX_QUEUE_ENTRIES, Bufs)
  BY ContentFacts DEF IInv
<1>7. Content' = Tail(Content) /\ Head(Content) = virtual_addresses[clean_index]
  <2>1. /\ Head(InOrder(virtual_addresses, clean_index, TDT, NUM_TX_QUEUE_ENTRIES))
            = virtual_addresses[clean_index]
        /\ InOrder(virtual_addresses, inc_and_wrap_ring(clean_index, NUM_TX_QUEUE_ENTRIES),
                   TDT, NUM_TX_QUEUE_ENTRIES)
            = Tail(InOrder(virtual_addresses, clean_index, TDT, NUM_TX_QUEUE_ENTRIES))
    BY <1>1, <1>2, <1>6, InOrderShrink
  <2> QED
    BY <1>1, <2>1 DEF Content, inc
<1>8. Outside' = Outside \cup {virtual_addresses[clean_index]}
  <2>1. Free' = Free \cup {virtual_addresses[clean_index]}
    <3>1. virtual_addresses[clean_index] \in Bufs
      BY <1>3, ContentsGiveDD DEF IInv, QueueInv
    <3> QED
      BY <3>1, FreeFacts DEF IInv, QueueInv, TypeOK, TxClean
  <2> QED
    BY <1>1, <2>1 DEF Outside, Writing, Fields
<1> QED
  BY <1>1, <1>5, <1>7, <1>8, Zenon DEF Channel!Reclaim, Content, Outside, SentCount, InOrder

\* The application takes from what is outside and puts back what is.
LEMMA AppStep ==
    ASSUME IInv, AppAlloc \/ \E b \in Bufs : AppFree(b)
    PROVE  UNCHANGED Channel!vars
<1>1. /\ pc = "idle"
      /\ UNCHANGED <<clean_index, virtual_addresses, TDT, TDH, wire, pc, buf>>
  BY DEF AppAlloc, AppFree, queue, nic
<1>2. free_stack \in Seq(Bufs) /\ FreeOnce
  BY DEF IInv, QueueInv, TypeOK, OneOwner
<1>3. Free' \cup held' = Free \cup held
  <2>1. CASE AppAlloc
    BY <1>2, <2>1, AllocFacts DEF AppAlloc
  <2>2. CASE \E b \in Bufs : AppFree(b)
    <3>1. PICK b \in Bufs : AppFree(b)
      BY <2>2
    <3> QED
      BY <1>2, <3>1, FreeFacts DEF AppFree
  <2> QED
    BY <2>1, <2>2
<1>4. Outside' = Outside
  BY <1>1, <1>3 DEF Outside, Writing, Fields
<1> QED
  BY <1>1, <1>4, ElsewhereStep

\* The ring implements the channel, whatever its size: ixgbe_tx_packet and the
\* NIC send the buffers once each, in the order of the calls, and the driver
\* gives back only what was sent.
THEOREM RingIsChannel == Spec => ImplementsChannel
<1>1. Init => Channel!Init
  <2> SUFFICES ASSUME Init PROVE Channel!Init
    OBVIOUS
  <2>1. Free = Bufs /\ ~Writing
    BY MempoolInitFacts DEF Init, TxInit, Writing, Fields
  <2>2. clean_index = 0 /\ TDT = 0 /\ TDH = 0 /\ wire = NULL /\ held = {}
    BY DEF Init, TxInit, TxStarted
  <2>3. Distance(0, 0, NUM_TX_QUEUE_ENTRIES) = 0
    BY DEF Distance
  <2> QED
    BY <2>1, <2>2, <2>3 DEF Channel!Init
<1>2. IInv /\ [Next]_vars => [Channel!Next]_(Channel!vars)
  <2> SUFFICES ASSUME IInv, [Next]_vars PROVE [Channel!Next]_(Channel!vars)
    OBVIOUS
  <2>1. CASE TxClean
    BY <2>1, ReclaimStep, Zenon DEF Channel!Next
  <2>2. CASE TxTail
    BY <2>2, TailStep, Zenon DEF Channel!Next
  <2>3. CASE NicTransmit
    BY <2>3, TransmitStep, Zenon DEF Channel!Next
  <2>4. CASE TxEnqueue
    BY <2>4, EnqueueStep
  <2>5. CASE AppAlloc \/ \E b \in Bufs : AppFree(b)
    BY <2>5, AppStep
  <2>6. CASE \/ \E b \in Bufs : TxCall(b)
             \/ TxFull
             \/ TxWriteDesc
             \/ \E k \in 1 .. NUM_TX_QUEUE_ENTRIES - 1 : NicWriteBack(k)
             \/ UNCHANGED vars
    BY <2>6, QuietStep
  <2> QED
    BY <2>1, <2>2, <2>3, <2>4, <2>5, <2>6 DEF Next, TxStep, Nic
<1> QED
  BY <1>1, <1>2, Inductive, PTL DEF Spec, ImplementsChannel, Channel!Spec
=============================================================================
