------------------------------ MODULE TxQueue ------------------------------
(***************************************************************************)
(* One transmit queue of the ixgbe driver: ixgbe_tx_packet of              *)
(* src/driver/ixgbe.c, run by one application thread, against the transmit *)
(* engine of the NIC, which works on the same descriptor ring at any time. *)
(*                                                                         *)
(* A driver step makes at most one access to what the NIC shares with it   *)
(* (the descriptors in DMA memory, the register TDT); accesses to the      *)
(* queue's private fields are grouped with it.                             *)
(***************************************************************************)
EXTENDS Mempool, Ring

CONSTANTS NUM_TX_QUEUE_ENTRIES, \* queue->num_entries, below 2^16
          WTHRESH               \* the NIC may wait for this many descriptors
                                \* before it reports them as done

ASSUME TxQueueAssumption ==
    /\ NUM_TX_QUEUE_ENTRIES \in Nat
    /\ NUM_TX_QUEUE_ENTRIES >= 2
    /\ \E k \in 1 .. 15 : NUM_TX_QUEUE_ENTRIES = 2^k
    /\ WTHRESH \in 1 .. NUM_TX_QUEUE_ENTRIES - 1

VARIABLES
    clean_index,        \* next descriptor to reclaim
    tx_index,           \* next descriptor to fill
    virtual_addresses,  \* the buffer each descriptor was filled from
    descriptors,        \* the ring in DMA memory
    TDT,                \* tail register, written by the driver
    TDH,                \* head register, advanced by the NIC
    wb_index,           \* next descriptor the NIC will report as done
    wire,               \* the buffer the NIC sent last
    pc,                 \* where ixgbe_tx_packet is
    buf,                \* its argument
    held                \* the buffers the application owns

nic    == <<TDH, wb_index, wire>>
queue  == <<clean_index, tx_index, virtual_addresses>>
txvars == <<queue, descriptors, TDT, nic, pc, buf, held>>
vars   == <<free_stack, txvars>>

Slots == 0 .. NUM_TX_QUEUE_ENTRIES - 1
inc(index) == inc_and_wrap_ring(index, NUM_TX_QUEUE_ENTRIES)

\* union ixgbe_adv_tx_desc.  A word the driver wrote for buffer b is b.  NULL
\* stands for what else the words hold: the 0xFF of the initial memset, and
\* what the NIC writes back.  Both set DD, a payload length clears it: the
\* status word of the write-back format is the olinfo_status of the other.
Fields == {"buffer_addr", "cmd_type_len", "olinfo_status"}
Done == [f \in Fields |-> NULL]
\* mutant: the status word is not looked at
DD_ignored(i) == i \in Slots
DD(i) == descriptors[i]["olinfo_status"] = NULL
-----------------------------------------------------------------------------
\* start_tx_queue: the transmit queue starts out empty.
TxStarted == TDH = 0 /\ TDT = 0

\* The queue after init_tx and start_tx_queue.
TxInit ==
    /\ clean_index = 0
    /\ tx_index = 0
    /\ virtual_addresses = [i \in Slots |-> NULL]
    /\ descriptors = [i \in Slots |-> Done]
    /\ TxStarted
    /\ wb_index = 0
    /\ wire = NULL
    /\ pc = "idle"
    /\ buf = NULL
    /\ held = {}

\* The application calls ixgbe_tx_packet with a buffer it owns.
TxCall(b) ==
    /\ pc = "idle"
    /\ b \in held
    /\ buf' = b
    /\ pc' = "clean"
    /\ UNCHANGED <<free_stack, queue, descriptors, TDT, nic, held>>

\* Step 1, an iteration that finds a descriptor done: its buffer goes back to
\* the pool.
TxClean ==
    /\ pc = "clean"
    /\ clean_index # tx_index
    /\ DD(clean_index)
    /\ pkt_buf_free(virtual_addresses[clean_index])
    /\ clean_index' = inc(clean_index)
    /\ UNCHANGED <<tx_index, virtual_addresses, descriptors, TDT, nic, pc, buf,
                   held>>

\* mutant: no break at an unsent descriptor, the loop waits for it
CleanDone_waits == pc = "clean" /\ clean_index = tx_index
\* The loop of step 1 is over: nothing is left, or it met an unsent descriptor.
CleanDone == pc = "clean" /\ (clean_index = tx_index \/ ~DD(clean_index))

\* mutant: no slot is kept free
Full_never == FALSE
\* mutant: two slots are kept free
Full_early == clean_index \in {inc(tx_index), inc(inc(tx_index))}
\* The next index is the one the driver is trying to reclaim.
Full == clean_index = inc(tx_index)

\* mutant: a buffer that does not fit is forgotten
TxFull_drops ==
    /\ CleanDone
    /\ Full
    /\ pc' = "idle"
    /\ buf' = NULL
    /\ held' = held \ {buf}
    /\ UNCHANGED <<free_stack, queue, descriptors, TDT, nic>>
\* Step 2, the ring is full: return 0, the buffer stays with the caller.
TxFull ==
    /\ CleanDone
    /\ Full
    /\ pc' = "idle"
    /\ buf' = NULL
    /\ UNCHANGED <<free_stack, queue, descriptors, TDT, nic, held>>

\* Step 2, there is room: remember the buffer for the clean-up.
TxEnqueue ==
    /\ CleanDone
    /\ ~Full
    /\ virtual_addresses' = [virtual_addresses EXCEPT ![tx_index] = buf]
    /\ held' = held \ {buf}
    /\ pc' = "buffer_addr"
    /\ UNCHANGED <<free_stack, clean_index, tx_index, descriptors, TDT, nic,
                   buf>>

\* One volatile store to a word of the descriptor.
TxWrite(field, next) ==
    /\ pc = field
    /\ descriptors' = [descriptors EXCEPT ![tx_index][field] = buf]
    /\ pc' = next
    /\ UNCHANGED <<free_stack, queue, TDT, nic, buf, held>>

\* mutant: the command word is not written
TxWriteDesc_no_cmd ==
    \/ TxWrite("buffer_addr", "olinfo_status")
    \/ TxWrite("olinfo_status", "tail")
\* mutant: the payload length, and with it DD, is not written
TxWriteDesc_no_olinfo ==
    \/ TxWrite("buffer_addr", "cmd_type_len")
    \/ TxWrite("cmd_type_len", "tail")
TxWriteDesc ==
    \/ TxWrite("buffer_addr", "cmd_type_len")
    \/ TxWrite("cmd_type_len", "olinfo_status")
    \/ TxWrite("olinfo_status", "tail")

\* Advance the tail past the descriptor and return 1.  (The code stores
\* tx_index before it writes the descriptor; only this thread reads it.)
TxTail ==
    /\ pc = "tail"
    /\ tx_index' = inc(tx_index)
    /\ TDT' = inc(tx_index)
    /\ pc' = "idle"
    /\ buf' = NULL
    /\ UNCHANGED <<free_stack, clean_index, virtual_addresses, descriptors, nic,
                   held>>

TxStep == TxClean \/ TxFull \/ TxEnqueue \/ TxWriteDesc \/ TxTail
-----------------------------------------------------------------------------
\* The NIC owns the descriptors from head to tail: it fetches the one at the
\* head, reads the buffer it names and sends it.
NicTransmit ==
    /\ TDH # TDT
    /\ wire' = descriptors[TDH]["buffer_addr"]
    /\ TDH' = inc(TDH)
    /\ UNCHANGED <<free_stack, queue, descriptors, TDT, wb_index, pc, buf, held>>

\* The NIC reports the next k sent descriptors as done.
NicWriteBack(k) ==
    /\ k <= Distance(wb_index, TDH, NUM_TX_QUEUE_ENTRIES)
    /\ descriptors' = [i \in Slots |->
            IF Distance(wb_index, i, NUM_TX_QUEUE_ENTRIES) < k
            THEN Done ELSE descriptors[i]]
    /\ wb_index' = (wb_index + k) % NUM_TX_QUEUE_ENTRIES
    /\ UNCHANGED <<free_stack, queue, TDT, TDH, wire, pc, buf, held>>
-----------------------------------------------------------------------------
\* The application between two calls: it takes buffers from the pool and may
\* give them back unsent.
AppAlloc ==
    /\ pc = "idle"
    /\ pkt_buf_alloc
    /\ held' = held \cup {Top}
    /\ UNCHANGED <<queue, descriptors, TDT, nic, pc, buf>>

AppFree(b) ==
    /\ pc = "idle"
    /\ b \in held
    /\ pkt_buf_free(b)
    /\ held' = held \ {b}
    /\ UNCHANGED <<queue, descriptors, TDT, nic, pc, buf>>

Nic == NicTransmit \/ \E k \in 1 .. NUM_TX_QUEUE_ENTRIES - 1 : NicWriteBack(k)

Init == MempoolInit /\ TxInit
Next ==
    \/ \E b \in Bufs : TxCall(b)
    \/ TxStep
    \/ Nic
    \/ AppAlloc
    \/ \E b \in Bufs : AppFree(b)

Spec == Init /\ [][Next]_vars

\* The thread keeps running while it is inside ixgbe_tx_packet.  The NIC keeps
\* sending, but it owes a write-back only for WTHRESH sent descriptors.
TxFairness ==
    /\ WF_vars(TxStep)
    /\ WF_vars(NicTransmit)
    /\ WF_vars(\E k \in WTHRESH .. NUM_TX_QUEUE_ENTRIES - 1 : NicWriteBack(k))

FairSpec == Spec /\ TxFairness
-----------------------------------------------------------------------------
\* The slots whose descriptors were handed to the NIC and not reclaimed yet.
InRing == Window(clean_index, tx_index, NUM_TX_QUEUE_ENTRIES)

\* The slot ixgbe_tx_packet is filling, once it holds the buffer.
Writing == pc \in Fields \cup {"tail"}
Filling == IF Writing THEN {tx_index} ELSE {}

TypeOK ==
    /\ free_stack \in Seq(Bufs)
    /\ clean_index \in Slots /\ tx_index \in Slots
    /\ virtual_addresses \in [Slots -> Bufs \cup {NULL}]
    /\ descriptors \in [Slots -> [Fields -> Bufs \cup {NULL}]]
    /\ TDT \in Slots /\ TDH \in Slots /\ wb_index \in Slots
    /\ wire \in Bufs \cup {NULL}
    /\ pc \in Fields \cup {"idle", "clean", "tail"}
    /\ buf \in Bufs \cup {NULL}
    /\ held \subseteq Bufs

\* The four positions never overtake one another: the driver reclaims only
\* what the NIC reported, the NIC reports only what it sent and sends only
\* what the driver published; a slot always stays unused, so that a full ring
\* does not look empty (the test of ixgbe_tx_packet for a full queue).
RingOrder ==
    LET From(i) == Distance(clean_index, i, NUM_TX_QUEUE_ENTRIES)
    IN  /\ TDT = tx_index
        /\ From(wb_index) <= From(TDH)
        /\ From(TDH) <= From(TDT)
        /\ Writing => From(tx_index) < NUM_TX_QUEUE_ENTRIES - 1

\* The NIC never fetches a half-written or a stale descriptor: each one between
\* head and tail was written in full, for the buffer that will be freed when
\* the NIC reports it, and its DD bit is clear.
PublishedComplete ==
    \A i \in Window(TDH, TDT, NUM_TX_QUEUE_ENTRIES) :
        /\ virtual_addresses[i] \in Bufs
        /\ descriptors[i] = [f \in Fields |-> virtual_addresses[i]]

\* DD means that the NIC is done with the buffer: among the descriptors in the
\* ring exactly those the NIC wrote back have it, so the clean-up loop frees no
\* buffer the NIC may still read, whatever the slot held one lap earlier.
DDMeansSent ==
    \A i \in InRing : DD(i) <=> i \in Window(clean_index, wb_index,
                                             NUM_TX_QUEUE_ENTRIES)

\* A buffer has one owner at a time, the pool, the application or one slot of
\* the ring, and always has one: none is freed twice, reused while the NIC may
\* read it, or leaked when the queue is full.
OneOwner ==
    LET Sent == InRing \cup Filling
        InSlots == {virtual_addresses[i] : i \in Sent}
    IN  /\ FreeOnce
        /\ \A i, j \in Sent :
               virtual_addresses[i] = virtual_addresses[j] => i = j
        /\ Free \cap held = {} /\ Free \cap InSlots = {} /\ held \cap InSlots = {}
        /\ Free \cup held \cup InSlots = Bufs

\* ixgbe_tx_packet does not block: the clean-up loop ends however fast the NIC
\* reports descriptors ("will not block when the queue is full").
CallReturns == pc # "idle" ~> pc = "idle"

\* The contract: a bounded first-in first-out channel to the wire that takes
\* over a buffer when the tail moves and hands it back once it was sent.
Channel == INSTANCE TxChannel WITH
    Capacity <- NUM_TX_QUEUE_ENTRIES - 1,
    queue <- [k \in 1 .. Distance(clean_index, TDT, NUM_TX_QUEUE_ENTRIES) |->
                virtual_addresses[(clean_index + k - 1) % NUM_TX_QUEUE_ENTRIES]],
    sent <- Distance(clean_index, TDH, NUM_TX_QUEUE_ENTRIES),
    owned <- Free \cup held \cup (IF Writing THEN {buf} ELSE {})
ImplementsChannel == Channel!Spec
=============================================================================
