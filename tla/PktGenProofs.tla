---------------------------- MODULE PktGenProofs ----------------------------
(***************************************************************************)
(* That the packet generator passes only buffers it owns to the driver,    *)
(* and that its unchecked pkt_buf_alloc never returns NULL, for every pool *)
(* that is at least as large as the ring.  MainInv says what main owns at  *)
(* each point: the array while it fills the pool, later the one buffer it  *)
(* is sending, until the driver takes it.  Every step of main is then one  *)
(* of TxQueue's client, and what is proved of TxQueue holds: by OneOwner   *)
(* an empty pool with no buffer in hand would need a buffer in every slot  *)
(* of the ring, while one slot is always unused.                           *)
(***************************************************************************)
EXTENDS PktGen, TxQueueProofs, FiniteSetTheorems

\* The ring cannot hold the whole pool: with no call under way and no buffer in
\* the application's hands one is free.
LEMMA PoolOutlastsRing ==
    ASSUME IInv, pc = "idle", held = {}
    PROVE  free_stack # << >>
<1> SUFFICES ASSUME free_stack = << >> PROVE FALSE
  OBVIOUS
<1> DEFINE InSlots == {virtual_addresses[k] : k \in InRing}
<1>1. TypeOK /\ RingOrder /\ OneOwner
  BY DEF IInv, QueueInv
<1>2. Free = {} /\ Filling = {}
  BY DEF Free, Filling, Writing, Fields
<1>3. InSlots = Bufs
  <2>1. InRing \cup Filling = InRing
    BY <1>2
  <2> QED
    BY <1>1, <1>2, <2>1 DEF OneOwner
<1>4. InRing \subseteq Slots \ {tx_index} /\ tx_index \in Slots
  BY <1>1, TailSlotIsFree DEF InRing, Window, Slots, TypeOK
<1>5. IsFiniteSet(Slots) /\ Cardinality(Slots) = NUM_TX_QUEUE_ENTRIES
  BY ConstFacts, FS_Interval DEF Slots
<1>6. /\ IsFiniteSet(Slots \ {tx_index})
      /\ Cardinality(Slots \ {tx_index}) = NUM_TX_QUEUE_ENTRIES - 1
  BY <1>4, <1>5, FS_RemoveElement
<1>7. IsFiniteSet(InRing) /\ Cardinality(InRing) <= NUM_TX_QUEUE_ENTRIES - 1
  BY <1>4, <1>6, FS_Subset
<1>8. Cardinality(Bufs) <= Cardinality(InRing)
  <2> DEFINE f == [k \in InRing |-> virtual_addresses[k]]
  <2>1. f \in Surjection(InRing, Bufs)
    BY <1>3 DEF Surjection
  <2> QED
    BY <1>7, <2>1, FS_Surjection
<1>9. Cardinality(Bufs) = NUM_BUFS
  BY MempoolAssumption, FS_Interval DEF Bufs
<1>10. Cardinality(InRing) \in Nat
  BY <1>7, FS_CardinalityType
<1> QED
  BY <1>7, <1>8, <1>9, <1>10, PktGenAssumption, ConstFacts, MempoolAssumption

\* What main owns, by where it is: the buffers in its array, each once; none;
\* the one it is about to send; that one until ixgbe_tx_packet has taken it.
MainInv ==
    /\ phase \in {"fill", "return", "alloc", "send", "sending"}
    /\ phase \in {"fill", "return"} =>
        /\ pc = "idle"
        /\ bufs \in Seq(Bufs)
        /\ held = {bufs[k] : k \in 1 .. Len(bufs)}
        /\ \A k, l \in 1 .. Len(bufs) : bufs[k] = bufs[l] => k = l
    /\ phase = "fill" => Len(bufs) + Len(free_stack) = NUM_BUFS /\ Len(bufs) < NUM_BUFS
    /\ phase = "return" => bufs # << >>
    /\ phase = "alloc" => pc = "idle" /\ held = {}
    /\ phase = "send" => pc = "idle" /\ held = {packet}
    /\ phase = "sending" => pc # "idle"
    /\ phase = "sending" /\ pc = "clean" => buf = packet /\ held = {packet}
    /\ phase = "sending" /\ pc # "clean" => held = {}
-----------------------------------------------------------------------------
\* The loop that fills the pool: the buffer it takes is not in the array yet.
LEMMA FillStep ==
    ASSUME IInv, MainInv, Fill
    PROVE  Next /\ MainInv'
<1>1. /\ phase = "fill" /\ pc = "idle" /\ bufs \in Seq(Bufs) /\ free_stack \in Seq(Bufs)
      /\ held = {bufs[k] : k \in 1 .. Len(bufs)}
      /\ \A k, l \in 1 .. Len(bufs) : bufs[k] = bufs[l] => k = l
      /\ Len(bufs) + Len(free_stack) = NUM_BUFS /\ Len(bufs) < NUM_BUFS
      /\ Free \cap held = {}
  BY DEF Fill, MainInv, IInv, QueueInv, TypeOK, OneOwner
<1>2. free_stack # << >>
  BY <1>1
<1>3. AppAlloc /\ phase' = IF Len(bufs) + 1 = NUM_BUFS THEN "return" ELSE "fill"
  BY <1>2 DEF Fill, Take
<1>4. Top \in Bufs /\ Top \notin held
  BY <1>1, <1>3, AllocFacts DEF AppAlloc, IInv, QueueInv, OneOwner
<1>5. /\ bufs' = Append(bufs, Top) /\ held' = held \cup {Top} /\ pc' = "idle"
      /\ free_stack' = SubSeq(free_stack, 1, Len(free_stack) - 1)
  BY <1>1, <1>3 DEF Fill, AppAlloc, pkt_buf_alloc
<1>6. /\ bufs' \in Seq(Bufs) /\ Len(bufs') = Len(bufs) + 1 /\ bufs' # << >>
      /\ \A k \in 1 .. Len(bufs) : bufs'[k] = bufs[k]
      /\ bufs'[Len(bufs) + 1] = Top
  BY <1>1, <1>4, <1>5
<1>7. Len(free_stack') = Len(free_stack) - 1
  <2> DEFINE n == Len(free_stack) - 1
  <2>1. n \in Nat /\ \A k \in 1 .. n : free_stack[k] \in Bufs
    BY <1>1, <1>2
  <2>2. free_stack' = SubSeq(free_stack, 1, n)
    BY <1>5
  <2> HIDE DEF n
  <2>3. Len(SubSeq(free_stack, 1, n)) = IF 1 <= n THEN n - 1 + 1 ELSE 0
    BY <2>1, SubSeqProperties
  <2>4. Len(free_stack') = n
    BY <2>1, <2>2, <2>3
  <2> QED
    BY <2>4 DEF n
<1>8. held' = {bufs'[k] : k \in 1 .. Len(bufs')}
  BY <1>1, <1>5, <1>6
<1>9. \A k, l \in 1 .. Len(bufs') : bufs'[k] = bufs'[l] => k = l
  <2>1. \A k \in 1 .. Len(bufs) : bufs'[k] # Top
    BY <1>1, <1>4, <1>6
  <2>2. \A k \in 1 .. Len(bufs') : k \in 1 .. Len(bufs) \/ k = Len(bufs) + 1
    BY <1>1, <1>6
  <2> QED
    BY <1>1, <1>6, <2>1, <2>2
<1>10. /\ phase' \in {"fill", "return"}
       /\ phase' = "fill" => Len(bufs') + Len(free_stack') = NUM_BUFS /\ Len(bufs') < NUM_BUFS
  <2> DEFINE n == Len(bufs)
             m == Len(free_stack)
  <2>1. n \in Nat /\ m \in Nat /\ NUM_BUFS \in Nat /\ n + m = NUM_BUFS /\ n < NUM_BUFS
    BY <1>1, MempoolAssumption
  <2>2. phase' = IF n + 1 = NUM_BUFS THEN "return" ELSE "fill"
    BY <1>3
  <2>3. Len(bufs') = n + 1 /\ Len(free_stack') = m - 1
    BY <1>6, <1>7
  <2> HIDE DEF n, m
  <2> QED
    BY <2>1, <2>2, <2>3
<1>11. MainInv'
  BY <1>5, <1>6, <1>8, <1>9, <1>10 DEF MainInv
<1> QED
  BY <1>3, <1>11 DEF Next

\* The loop that gives the buffers back frees each of them once.
LEMMA GiveBackStep ==
    ASSUME IInv, MainInv, GiveBack
    PROVE  Next /\ MainInv'
<1>1. /\ phase = "return" /\ pc = "idle" /\ bufs \in Seq(Bufs) /\ bufs # << >>
      /\ held = {bufs[k] : k \in 1 .. Len(bufs)}
      /\ \A k, l \in 1 .. Len(bufs) : bufs[k] = bufs[l] => k = l
  BY DEF GiveBack, MainInv
<1>2. /\ Len(bufs) > 0 /\ Head(bufs) = bufs[1] /\ bufs[1] \in Bufs /\ bufs[1] \in held
  BY <1>1
<1>3. /\ bufs' = Tail(bufs) /\ held' = held \ {bufs[1]} /\ pc' = "idle"
      /\ phase' = IF bufs' = << >> THEN "alloc" ELSE "return"
      /\ AppFree(bufs[1])
  BY <1>1, <1>2 DEF GiveBack, Release, AppFree
<1>4. /\ bufs' \in Seq(Bufs) /\ Len(bufs') = Len(bufs) - 1
      /\ \A k \in 1 .. Len(bufs') : bufs'[k] = bufs[k + 1]
  BY <1>1, <1>2, <1>3
<1>5. held' = {bufs'[k] : k \in 1 .. Len(bufs')}
  <2>1. \A k \in 1 .. Len(bufs') : bufs'[k] \in held'
    BY <1>1, <1>2, <1>3, <1>4
  <2>2. ASSUME NEW b \in held' PROVE \E k \in 1 .. Len(bufs') : b = bufs'[k]
    <3>1. PICK k \in 1 .. Len(bufs) : b = bufs[k] /\ k # 1
      BY <1>1, <1>2, <1>3
    <3>2. k - 1 \in 1 .. Len(bufs') /\ bufs'[k - 1] = bufs[k]
      BY <1>1, <1>4, <3>1
    <3> QED
      BY <3>1, <3>2
  <2> QED
    BY <2>1, <2>2
<1>6. \A k, l \in 1 .. Len(bufs') : bufs'[k] = bufs'[l] => k = l
  BY <1>1, <1>2, <1>4
<1>7. bufs' = << >> => held' = {}
  <2> SUFFICES ASSUME bufs' = << >> PROVE held' = {}
    OBVIOUS
  <2>1. Len(bufs') = 0
    OBVIOUS
  <2> QED
    BY <1>5, <2>1
<1>8. Next
  BY <1>2, <1>3 DEF Next
<1> QED
  BY <1>3, <1>4, <1>5, <1>6, <1>7, <1>8 DEF MainInv

\* The tx loop, between the calls of the driver and in them.
LEMMA LoopStep ==
    ASSUME IInv, MainInv, NewBuffer \/ Send \/ Retry
    PROVE  Next /\ MainInv'
<1>1. CASE NewBuffer
  <2>1. pc = "idle" /\ held = {} /\ phase = "alloc"
    BY <1>1 DEF NewBuffer, MainInv
  <2>2. free_stack # << >>
    BY <2>1, PoolOutlastsRing
  <2>3. AppAlloc /\ phase' = "send" /\ packet' = Top
    BY <1>1, <2>2 DEF NewBuffer, Take
  <2>4. pc' = "idle" /\ held' = {packet'}
    BY <2>1, <2>3 DEF AppAlloc
  <2> QED
    BY <2>3, <2>4 DEF MainInv, Next
<1>2. CASE Send
  <2>1. pc = "idle" /\ held = {packet} /\ phase = "send"
    BY <1>2 DEF Send, MainInv
  <2>2. packet \in Bufs
    BY <2>1 DEF IInv, QueueInv, TypeOK
  <2>3. TxCall(packet)
    BY <1>2, <2>1 DEF Send, TxCall
  <2>4. phase' = "sending" /\ pc' = "clean" /\ buf' = packet' /\ held' = {packet'}
    BY <1>2, <2>1 DEF Send
  <2> QED
    BY <2>2, <2>3, <2>4 DEF MainInv, Next
<1>3. CASE Retry
  <2>1. /\ phase = "sending" /\ TxStep /\ UNCHANGED <<bufs, packet>>
        /\ phase' = IF pc' # "idle" THEN "sending" ELSE IF pc = "tail" THEN "alloc" ELSE "send"
    BY <1>3 DEF Retry, Sending
  <2>2. /\ pc = "clean" => buf = packet /\ held = {packet}
        /\ pc # "clean" => held = {}
    BY <2>1 DEF MainInv
  <2>3. CASE TxClean
    <3>1. pc = "clean" /\ UNCHANGED <<pc, buf, held>>
      BY <2>3 DEF TxClean
    <3> QED
      BY <2>1, <2>2, <3>1 DEF MainInv, Next
  <2>4. CASE TxFull
    <3>1. pc = "clean" /\ pc' = "idle" /\ UNCHANGED held
      BY <2>4 DEF TxFull, CleanDone
    <3> QED
      BY <2>1, <2>2, <3>1 DEF MainInv, Next
  <2>5. CASE TxEnqueue
    <3>1. pc = "clean" /\ pc' = "buffer_addr" /\ held' = held \ {buf}
      BY <2>5 DEF TxEnqueue, CleanDone
    <3> QED
      BY <2>1, <2>2, <3>1 DEF MainInv, Next
  <2>6. CASE TxWriteDesc
    <3>1. pc # "clean" /\ pc' \notin {"idle", "clean"} /\ UNCHANGED held
      BY <2>6 DEF TxWriteDesc, TxWrite
    <3> QED
      BY <2>1, <2>2, <3>1 DEF MainInv, Next
  <2>7. CASE TxTail
    <3>1. pc = "tail" /\ pc' = "idle" /\ UNCHANGED held
      BY <2>7 DEF TxTail
    <3> QED
      BY <2>1, <2>2, <3>1 DEF MainInv, Next
  <2> QED
    BY <2>1, <2>3, <2>4, <2>5, <2>6, <2>7 DEF TxStep
<1> QED
  BY <1>1, <1>2, <1>3

\* Every step of the generator is one of TxQueue and keeps MainInv.
LEMMA GenStep ==
    ASSUME IInv, MainInv, [GenNext]_genvars
    PROVE  [Next]_vars /\ MainInv'
<1>1. CASE UNCHANGED genvars
  <2>1. UNCHANGED <<vars, phase, bufs, packet, pc, buf, held, free_stack>>
    BY <1>1 DEF genvars, main, vars, txvars
  <2> QED
    BY <2>1 DEF MainInv
<1>2. CASE Nic /\ UNCHANGED main
  <2>1. UNCHANGED <<phase, bufs, packet, pc, buf, held, free_stack>>
    BY <1>2 DEF Nic, NicTransmit, NicWriteBack, main
  <2>2. MainInv'
    BY <2>1 DEF MainInv
  <2> QED
    BY <1>2, <2>2 DEF Next
<1> QED
  BY <1>1, <1>2, FillStep, GiveBackStep, LoopStep DEF GenNext, Main

\* The generator keeps the invariant of the queue and its own.
LEMMA GenInductive == GenSpec => [](IInv /\ MainInv)
<1>1. GenInit => IInv /\ MainInv
  <2> SUFFICES ASSUME GenInit PROVE IInv /\ MainInv
    OBVIOUS
  <2>1. IInv
    BY InitIInv DEF GenInit
  <2>2. phase = "fill" /\ pc = "idle" /\ bufs = << >> /\ held = {}
    BY DEF GenInit, Init, TxInit
  <2>3. Len(free_stack) = NUM_BUFS
    BY MempoolAssumption DEF GenInit, Init, MempoolInit
  <2> QED
    BY <2>1, <2>2, <2>3, MempoolAssumption DEF MainInv
<1>2. IInv /\ MainInv /\ [GenNext]_genvars => (IInv /\ MainInv)'
  BY GenStep, NextIInv
<1> QED
  BY <1>1, <1>2, PTL DEF GenSpec

\* The unchecked pkt_buf_alloc of init_mempool and of the tx loop finds a buffer,
\* for every ring and every pool at least as large.
THEOREM GeneratorNeverRunsDry == GenSpec => []PoolNeverEmpty
<1>1. MainInv => PoolNeverEmpty
  BY DEF MainInv, PoolNeverEmpty
<1> QED
  BY <1>1, GenInductive, PTL

\* main checks no pointer, and needs to check none: each buffer it sends, sends
\* again or frees is its own at that moment.  Every behaviour of the generator is
\* one of the transmit queue with a client that keeps to what it owns.
THEOREM GeneratorKeepsTxRules == GenSpec => KeepsTxRules
<1>1. GenInit => Init
  BY DEF GenInit
<1>2. IInv /\ MainInv /\ [GenNext]_genvars => [Next]_vars
  BY GenStep
<1> QED
  BY <1>1, <1>2, GenInductive, PTL DEF GenSpec, KeepsTxRules, Spec
=============================================================================
