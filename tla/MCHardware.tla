----------------------------- MODULE MCHardware -----------------------------
(***************************************************************************)
(* Driver and device: how the driver starts the device, and what its       *)
(* header files say of registers, descriptor words and ring indices.  The  *)
(* four models share no state; in a behaviour one of them, part, moves.    *)
(***************************************************************************)
EXTENDS Startup, Descriptors

VARIABLES part,
          i, j, ring_size, ring_index

\* Lengths up to the 1984 bytes of a buffer: the short ones, the longest, and
\* the neighbours of every power of two.
MCLengths ==
    0 .. 20 \cup 1964 .. 1984 \cup UNION {2 ^ k - 1 .. 2 ^ k + 1 : k \in 5 .. 10}

MCData == {{7, 21, 35, 40}}

Map  == INSTANCE RegisterMap WITH MAX_QUEUES <- 64
Mask == INSTANCE RingMask WITH MAX_QUEUE_ENTRIES <- 4096, size <- ring_size,
                               index <- ring_index

mapvars  == <<i, j>>
maskvars == <<ring_size, ring_index>>
allvars  == <<part, startvars, mapvars, maskvars, slotvars>>

\* The registers that so many queues have.
MCRegisterSet ==
    GlobalRegisters \cup Counters \cup PacketBuffers
    \cup UNION {ToSet(RxRegisters(q)) : q \in RxIds \cup TxIds}
    \cup UNION {ToSet(TxRegisters(q)) : q \in RxIds \cup TxIds}

\* A model that does not move starts in one state only.
HwInit ==
    /\ part \in {"startup", "registers", "index", "words"}
    /\ StartInit /\ Map!Init /\ Mask!Init /\ SlotInit
    /\ part # "startup" =>
        /\ prog = ixgbe_init(RxQueues, TxQueues)
        /\ bound
        /\ command = {MEMORY}
        /\ regs[IXGBE_EEC] = AllBits
    /\ part # "index" => ring_size = 1
    /\ part # "words" => slot_pc = "tx"

HwNext ==
    \/ part = "startup" /\ StartNext /\ UNCHANGED <<part, mapvars, maskvars, slotvars>>
    \/ part = "registers" /\ Map!Next /\ UNCHANGED <<part, startvars, maskvars, slotvars>>
    \/ part = "index" /\ Mask!Next /\ UNCHANGED <<part, startvars, mapvars, slotvars>>
    \/ part = "words" /\ SlotNext /\ UNCHANGED <<part, startvars, mapvars, maskvars>>

\* The fairness of Startup.  The NIC of a model that does not move has nothing
\* to do.
HwSpec ==
    /\ HwInit /\ [][HwNext]_allvars
    /\ WF_pcivars(part = "startup" /\ pci_map_resource(self))
    /\ WF_vars(part = "startup" /\ Initialise)
    /\ NicFairness
-----------------------------------------------------------------------------
\* ixgbe_init ends.
StartupEnds == part = "startup" => InitReturns

\* The registers of the queues are distinct.
NoOverlap == part = "registers" => Map!NoOverlap

\* The mask of inc_and_wrap_ring is a modulus.
MaskIsModulus == part = "index" => Mask!MaskIsModulus
=============================================================================
