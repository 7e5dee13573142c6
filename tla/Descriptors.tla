---------------------------- MODULE Descriptors ----------------------------
(***************************************************************************)
(* The 16 bytes of a descriptor, bit by bit: two formats of a union lie    *)
(* over one another, one that the driver writes and one that the NIC       *)
(* writes back.  TxQueue and RxQueue take it for granted that a descriptor *)
(* the driver wrote does not look done, and that lengths and flags arrive  *)
(* as they were meant.  Here this is computed, on one slot of either ring  *)
(* that is used lap after lap.                                             *)
(***************************************************************************)
EXTENDS Registers

CONSTANTS Lengths,  \* lengths of packets
          Data      \* physical addresses of packet data, as sets of bits

\* A length is a number of 16 bits, an address has 64.
ASSUME DescriptorsAssumption ==
    /\ \A n \in Lengths : Bits(n) \subseteq 0 .. 15 /\ Number(Bits(n)) = n
    /\ \A addr \in Data : addr \subseteq 0 .. 63

\* A field of a union: its first byte and how many bytes it has.
ixgbe_adv_tx_desc ==
    [buffer_addr |-> <<0, 8>>, cmd_type_len |-> <<8, 4>>, olinfo_status |-> <<12, 4>>,
     rsvd |-> <<0, 8>>, nxtseq_seed |-> <<8, 4>>, status |-> <<12, 4>>]
ixgbe_adv_rx_desc ==
    [pkt_addr |-> <<0, 8>>, hdr_addr |-> <<8, 8>>,
     lo_dword |-> <<0, 4>>, hi_dword |-> <<4, 4>>,
     status_error |-> <<8, 4>>, length |-> <<12, 2>>, vlan |-> <<14, 2>>]

Span(field) == 8 * field[1] .. 8 * (field[1] + field[2]) - 1
Load(d, field) == {b - 8 * field[1] : b \in d \cap Span(field)}
Store(d, field, bits) ==
    (d \ Span(field)) \cup ({b + 8 * field[1] : b \in bits} \cap Span(field))

IXGBE_TXD_CMD_EOP  == {24}
IXGBE_TXD_CMD_IFCS == {25}
IXGBE_TXD_CMD_RS   == {27}
IXGBE_TXD_CMD_DEXT == {29}
IXGBE_TXD_STAT_DD  == {0}
IXGBE_RXD_STAT_DD  == {0}
IXGBE_RXD_STAT_EOP == {1}
IXGBE_ADVTXD_DTALEN_MASK == 0 .. 15
IXGBE_ADVTXD_DTYP_MASK   == 20 .. 23
IXGBE_ADVTXD_DTYP_DATA == {20, 21}
\* mutant: the length is not shifted into place
IXGBE_ADVTXD_PAYLEN_SHIFT_none == 0
IXGBE_ADVTXD_PAYLEN_SHIFT == 14

VARIABLES desc,    \* the bits of the descriptor that are 1
          length,  \* of the packet it holds, 0 when there is none
          eop,     \* and whether that packet ends in this descriptor
          slot_pc

slotvars == <<desc, length, eop, slot_pc>>

\* init_rx and init_tx: memset(mem.virt, -1, ...).
SlotInit == desc = 0 .. 127 /\ length = 0 /\ eop = TRUE /\ slot_pc \in {"tx", "rx"}
-----------------------------------------------------------------------------
\* The three stores of ixgbe_tx_packet.
TxBufferAddr(addr, s) ==
    /\ slot_pc = "tx"
    /\ desc' = Store(desc, ixgbe_adv_tx_desc.buffer_addr, addr)
    /\ length' = s
    /\ slot_pc' = "cmd_type_len"
    /\ UNCHANGED eop

TxCmdTypeLen ==
    /\ slot_pc = "cmd_type_len"
    /\ desc' = Store(desc, ixgbe_adv_tx_desc.cmd_type_len,
                     UNION {IXGBE_TXD_CMD_EOP, IXGBE_TXD_CMD_RS, IXGBE_TXD_CMD_IFCS,
                            IXGBE_TXD_CMD_DEXT, IXGBE_ADVTXD_DTYP_DATA, Bits(length)})
    /\ slot_pc' = "olinfo_status"
    /\ UNCHANGED <<length, eop>>

TxOlinfoStatus ==
    /\ slot_pc = "olinfo_status"
    /\ desc' = Store(desc, ixgbe_adv_tx_desc.olinfo_status,
                     {b + IXGBE_ADVTXD_PAYLEN_SHIFT : b \in Bits(length)})
    /\ slot_pc' = "tx_published"
    /\ UNCHANGED <<length, eop>>

\* The NIC reports the descriptor: DD, and any of the bits it may also set.
NicWriteBack(others) ==
    /\ slot_pc = "tx_published"
    /\ desc' = Store(Store(Store(desc, ixgbe_adv_tx_desc.rsvd, {}),
                           ixgbe_adv_tx_desc.nxtseq_seed, {}),
                     ixgbe_adv_tx_desc.status, IXGBE_TXD_STAT_DD \cup others)
    /\ slot_pc' = "tx"
    /\ length' = 0
    /\ UNCHANGED eop

\* start_rx_queue and ixgbe_rx_packet: the address, then the flags.
RxPktAddr(addr) ==
    /\ slot_pc = "rx"
    /\ desc' = Store(desc, ixgbe_adv_rx_desc.pkt_addr, addr)
    /\ slot_pc' = "hdr_addr"
    /\ length' = 0
    /\ eop' = TRUE

RxHdrAddr ==
    /\ slot_pc = "hdr_addr"
    /\ desc' = Store(desc, ixgbe_adv_rx_desc.hdr_addr, {})
    /\ slot_pc' = "rx_posted"
    /\ UNCHANGED <<length, eop>>

\* The NIC reports a packet, with packet type and VLAN tag if it likes.
NicReceive(s, end, others) ==
    /\ slot_pc = "rx_posted"
    /\ desc' = Store(Store(Store(Store(desc, ixgbe_adv_rx_desc.lo_dword, others),
                                 ixgbe_adv_rx_desc.status_error,
                                 IXGBE_RXD_STAT_DD \cup (IF end THEN IXGBE_RXD_STAT_EOP ELSE {})),
                           ixgbe_adv_rx_desc.length, Bits(s)),
                     ixgbe_adv_rx_desc.vlan, others)
    /\ length' = s
    /\ eop' = end
    /\ slot_pc' = "rx"

SlotNext ==
    \/ \E addr \in Data, s \in Lengths : TxBufferAddr(addr, s)
    \/ TxCmdTypeLen
    \/ TxOlinfoStatus
    \/ \E others \in SUBSET {1, 2, 3} : NicWriteBack(others)
    \/ \E addr \in Data : RxPktAddr(addr)
    \/ RxHdrAddr
    \/ \E s \in Lengths, end \in BOOLEAN, others \in {{}, 0 .. 15} : NicReceive(s, end, others)

SlotSpec == SlotInit /\ [][SlotNext]_slotvars
-----------------------------------------------------------------------------
\* What ixgbe_tx_packet and ixgbe_rx_packet read of a descriptor.
tx_done == Load(desc, ixgbe_adv_tx_desc.status) \cap IXGBE_TXD_STAT_DD # {}
rx_done == Load(desc, ixgbe_adv_rx_desc.status_error) \cap IXGBE_RXD_STAT_DD # {}
rx_end  == Load(desc, ixgbe_adv_rx_desc.status_error) \cap IXGBE_RXD_STAT_EOP # {}
\* mutant: the length is taken from the other half of the word
rx_size_vlan == Number(Load(desc, ixgbe_adv_rx_desc.vlan))
rx_size == Number(Load(desc, ixgbe_adv_rx_desc.length))

\* What the driver hands over never looks done, for any length of a packet and
\* whatever was in the slot: the payload length lies over DD, and stays clear of
\* it; "hdr_addr = 0 ... resets the flags" of the last packet.
DDTells ==
    /\ slot_pc = "tx_published" => ~tx_done
    /\ slot_pc = "tx" => tx_done
    /\ slot_pc = "rx_posted" => ~rx_done /\ ~rx_end
    /\ slot_pc = "rx" => rx_done

\* Each side reads what the other meant.  "always the same flags: one buffer
\* (EOP), advanced data descriptor, CRC offload, data length": lengths and flags
\* share words without touching one another, the NIC finds the address, both
\* lengths and the type as ixgbe_tx_packet meant and no offload requested; and
\* ixgbe_rx_packet gets the length and the end of packet the NIC reported,
\* whatever else the NIC wrote around them.
WordsMeant ==
    LET cmd == Load(desc, ixgbe_adv_tx_desc.cmd_type_len)
        olinfo == Load(desc, ixgbe_adv_tx_desc.olinfo_status)
    IN  /\ slot_pc = "tx_published" =>
            /\ Load(desc, ixgbe_adv_tx_desc.buffer_addr) \in Data
            /\ Number(cmd \cap IXGBE_ADVTXD_DTALEN_MASK) = length
            /\ cmd \cap IXGBE_ADVTXD_DTYP_MASK = {20, 21}
            /\ cmd \ (IXGBE_ADVTXD_DTALEN_MASK \cup IXGBE_ADVTXD_DTYP_MASK) = {24, 25, 27, 29}
            /\ Number({b - 14 : b \in olinfo}) = length /\ \A b \in olinfo : b >= 14
        /\ slot_pc = "rx" /\ desc # 0 .. 127 => rx_size = length /\ rx_end = eop
=============================================================================
