----------------------------- MODULE Registers -----------------------------
(***************************************************************************)
(* The registers of the 82599 and their bits, as far as the driver uses    *)
(* them: the macros of src/driver/ixgbe_type.h.  An address is a number,   *)
(* the value of a register the set of its bits that are 1.                 *)
(***************************************************************************)
EXTENDS Integers, FiniteSetsExt

\* The bits of a number and the number of a set of bits.
Bits(n) == {b \in 0 .. 30 : (n \div 2^b) % 2 = 1}
Number(bits) == MapThenSumSet(LAMBDA b : 2^b, bits)
AllBits == 0 .. 31

IXGBE_CTRL == \h0
IXGBE_CTRL_EXT == \h18
IXGBE_EEC == \h10010
IXGBE_EIMC == \h888

\* A register that each receive queue has; the second half of the queues lies
\* elsewhere.
RxRegister(offset, i) ==
    IF i < 64 THEN \h1000 + offset + i * \h40 ELSE \hD000 + offset + (i - 64) * \h40
\* mutant: the stride of a register that exists once
IXGBE_RDBAL_dense(i) == \h1000 + i * 4
IXGBE_RDBAL(i) == RxRegister(\h0, i)
IXGBE_RDBAH(i) == RxRegister(\h4, i)
IXGBE_RDLEN(i) == RxRegister(\h8, i)
IXGBE_RDH(i) == RxRegister(\h10, i)
IXGBE_RDT(i) == RxRegister(\h18, i)
IXGBE_RXDCTL(i) == RxRegister(\h28, i)
\* The first 16 queues have these two in another place.
IXGBE_SRRCTL(i) == IF i <= 15 THEN \h2100 + i * 4 ELSE RxRegister(\h14, i)
IXGBE_DCA_RXCTRL(i) == IF i <= 15 THEN \h2200 + i * 4 ELSE RxRegister(\hC, i)
IXGBE_RDRXCTL == \h2F00
IXGBE_RXPBSIZE(i) == \h3C00 + i * 4
IXGBE_RXCTRL == \h3000
IXGBE_FCTRL == \h5080

IXGBE_TDBAL(i) == \h6000 + i * \h40
IXGBE_TDBAH(i) == \h6004 + i * \h40
IXGBE_TDLEN(i) == \h6008 + i * \h40
IXGBE_TDH(i) == \h6010 + i * \h40
IXGBE_TDT(i) == \h6018 + i * \h40
IXGBE_TXDCTL(i) == \h6028 + i * \h40
IXGBE_DMATXCTL == \h4A80
IXGBE_DTXMXSZRQ == \h8100
IXGBE_DMATXCTL_TE == {0}
IXGBE_TXPBSIZE(i) == \hCC00 + i * 4
IXGBE_RTTDCS == \h4900
IXGBE_RTTDCS_ARBDIS == {6}

IXGBE_GPRC == \h4074
IXGBE_GPTC == \h4080
IXGBE_GORCL == \h4088
IXGBE_GORCH == \h408C
IXGBE_GOTCL == \h4090
IXGBE_GOTCH == \h4094
IXGBE_HLREG0 == \h4240
IXGBE_AUTOC == \h42A0
IXGBE_LINKS == \h42A4

IXGBE_RDRXCTL_CRCSTRIP == {1}
IXGBE_RDRXCTL_DMAIDONE == {3}
IXGBE_CTRL_LNK_RST == {3}
IXGBE_CTRL_RST == {26}
IXGBE_CTRL_RST_MASK == IXGBE_CTRL_LNK_RST \cup IXGBE_CTRL_RST
IXGBE_CTRL_EXT_NS_DIS == {16}
IXGBE_TXPBSIZE_40KB == {13, 15}
IXGBE_RXPBSIZE_128KB == {17}
IXGBE_HLREG0_TXCRCEN == {0}
IXGBE_HLREG0_RXCRCSTRP == {1}
IXGBE_HLREG0_TXPADEN == {10}
IXGBE_AUTOC_AN_RESTART == {12}
IXGBE_AUTOC_LMS_10G_SERIAL == {13, 14}
IXGBE_AUTOC_LMS_MASK == {13, 14, 15}
IXGBE_AUTOC_10G_PMA_PMD_MASK == {7, 8}
IXGBE_AUTOC_10G_XAUI == {}
IXGBE_LINKS_UP == {30}
IXGBE_LINKS_SPEED_82599 == {28, 29}
IXGBE_LINKS_SPEED_10G_82599 == {28, 29}
IXGBE_LINKS_SPEED_1G_82599 == {29}
IXGBE_LINKS_SPEED_100_82599 == {28}
IXGBE_EEC_ARD == {9}
IXGBE_TXDCTL_ENABLE == {25}
IXGBE_RXCTRL_RXEN == {0}
IXGBE_RXDCTL_ENABLE == {25}
IXGBE_FCTRL_MPE == {8}
IXGBE_FCTRL_UPE == {9}
IXGBE_FCTRL_BAM == {10}
IXGBE_SRRCTL_DROP_EN == {28}
IXGBE_SRRCTL_DESCTYPE_ADV_ONEBUF == {25}
IXGBE_SRRCTL_DESCTYPE_MASK == {25, 26, 27}
-----------------------------------------------------------------------------
\* The registers a driver for so many queues touches.
GlobalRegisters ==
    {IXGBE_CTRL, IXGBE_CTRL_EXT, IXGBE_EEC, IXGBE_EIMC, IXGBE_RDRXCTL,
     IXGBE_RXCTRL, IXGBE_FCTRL, IXGBE_DMATXCTL, IXGBE_DTXMXSZRQ, IXGBE_RTTDCS,
     IXGBE_HLREG0, IXGBE_AUTOC, IXGBE_LINKS}
Counters ==
    {IXGBE_GPRC, IXGBE_GPTC, IXGBE_GORCL, IXGBE_GORCH, IXGBE_GOTCL, IXGBE_GOTCH}
PacketBuffers == UNION {{IXGBE_RXPBSIZE(i), IXGBE_TXPBSIZE(i)} : i \in 0 .. 7}
RxRegisters(i) ==
    <<IXGBE_RDBAL(i), IXGBE_RDBAH(i), IXGBE_RDLEN(i), IXGBE_RDH(i), IXGBE_RDT(i),
      IXGBE_RXDCTL(i), IXGBE_SRRCTL(i), IXGBE_DCA_RXCTRL(i)>>
TxRegisters(i) ==
    <<IXGBE_TDBAL(i), IXGBE_TDBAH(i), IXGBE_TDLEN(i), IXGBE_TDH(i), IXGBE_TDT(i),
      IXGBE_TXDCTL(i)>>
=============================================================================
