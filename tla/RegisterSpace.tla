--------------------------- MODULE RegisterSpace ---------------------------
(***************************************************************************)
(* The neighbours of the driver's registers: the addresses of the other    *)
(* registers in the groups of src/driver/ixgbe_type.h that the driver      *)
(* takes one from.  The driver never means to touch one of these, and most *)
(* change what the device does when written, or lose a count when read.    *)
(* An array has the number of registers its comment gives, else as many as *)
(* there are queues, pools or filters it is indexed by.                    *)
(***************************************************************************)
EXTENDS Registers

\* n registers, one after the other or a stride apart.
Every(first, stride, n) == {first + i * stride : i \in 0 .. n - 1}
Words(first, n) == Every(first, 4, n)

GeneralRegisters ==
    {\h8, \h20, \h28, \h30, \h48, \h4C, \h200, \h600, \h5078, \h15F5C} \cup Words(\h100, 3)

NvmRegisters ==
    Words(\h10014, 3) \cup Words(\h10110, 5)
    \cup {\h1013C, \h10200, \h10210, \h10218, \h15FF8, \h15F68, \h15F64, \h15F6C}

\* Without the MSI-X table and its pending bits, which another BAR maps.
IXGBE_EITR(i) == IF i <= 23 THEN \h820 + i * 4 ELSE \h12300 + (i - 24) * 4
IXGBE_PBACL(i) == IF i = 0 THEN \h11068 ELSE \h110C0 + i * 4
InterruptRegisters ==
    {\h800, \h808, \h810, \h880, \h890, \h894, \h898, \hA00}
    \cup Words(\hA90, 4) \cup Words(\hAA0, 4) \cup Words(\hAB0, 4) \cup Words(\hAD0, 4)
    \cup {IXGBE_EITR(i) : i \in 0 .. 128} \cup Words(\h900, 64)
    \cup {IXGBE_PBACL(i) : i \in 0 .. 7}

IXGBE_RSCCTL(i) == RxRegister(\h2C, i)
RxDmaRegisters ==
    {IXGBE_RSCCTL(i) : i \in 0 .. 127} \cup {\h3028, \h2F20, \h3190, \h3024}

IXGBE_RAL(i) == IF i <= 15 THEN \h5400 + i * 8 ELSE \hA200 + i * 8
IXGBE_RAH(i) == IXGBE_RAL(i) + 4
IXGBE_PSRTYPE(i) == IF i <= 15 THEN \h5480 + i * 4 ELSE \hEA00 + i * 4
IXGBE_VFTAVIND(j, i) == \hA200 + j * \h200 + i * 4

\* Addresses and VLANs to accept, and the queue or pool a frame goes to.
ReceiveRegisters ==
    {\h5000, \h5008, \h2F08, \h2F8C, \h5088, \h5090, \h5818, \hEC30, \hEC70, \h8120,
     \h50B0, \h50B4, \h51B0, \h2F04, \h2FA8, \h8108, \h2FA4, \h8124, \h51B8, \hEC90,
     \h5AC0, \h581C}
    \cup Words(\h5200, 128) \cup {IXGBE_RAL(i) : i \in 0 .. 127} \cup {IXGBE_RAH(i) : i \in 0 .. 127}
    \cup Every(\hA600, 8, 128) \cup Every(\hA604, 8, 128) \cup {IXGBE_PSRTYPE(i) : i \in 0 .. 63}
    \cup Words(\hA000, 128) \cup {IXGBE_VFTAVIND(j, i) : j \in 0 .. 3, i \in 0 .. 127}
    \cup Words(\hE000, 128) \cup Words(\hE200, 128) \cup Words(\hE400, 128) \cup Words(\hE600, 128)
    \cup Words(\h5128, 8) \cup Words(\hEC00, 8) \cup Words(\hF100, 64) \cup Words(\hF200, 128)
    \cup Words(\h8000, 64) \cup Words(\h4B00, 64) \cup Words(\h13000, 64 * 16)
    \cup Words(\h710, 4) \cup Words(\h720, 4) \cup Words(\h51E0, 2) \cup Words(\h8110, 2)
    \cup Words(\h8790, 2) \cup Words(\h5180, 2) \cup Words(\hF000, 64) \cup Words(\hF400, 128)
    \cup Words(\hF600, 4) \cup Words(\hF610, 8) \cup Words(\hF630, 8)
    \cup Words(\h2FB0, 4) \cup Words(\h8130, 4) \cup Words(\hE800, 128)
    \cup Words(\h5A80, 8) \cup Words(\h5AA0, 8) \cup Words(\h5C00, 32) \cup Words(\hEE80, 96)
    \cup Words(\h5C80, 10)

\* Head write back, and limits shared by the transmit queues.
TxDmaRegisters ==
    Every(\h6038, \h40, 128) \cup Every(\h603C, \h40, 128)
    \cup {\h7E00, \h8220, \h4A88, \h4A8C, \hCA00} \cup Words(\h8200, 8) \cup Words(\h4950, 8)
IXGBE_DCA_TXCTRL_82599(i) == \h600C + i * \h40

DcbRegisters ==
    {\h2430, \hCD00, \h3020, \hC800, \h4904, \h4908, \h490C, \h4990, \h4984, \h4980, \h4988,
     \h4A90, \h5150, \h498C}
    \cup Words(\h2140, 8) \cup Words(\h82E0, 4) \cup Words(\h2160, 8) \cup Words(\h4910, 8)
    \cup Words(\h4930, 8) \cup Words(\hCD20, 8) \cup Words(\hCD40, 8) \cup Words(\h8B00, 6)

IXGBE_TQSMR(i) == IF i <= 7 THEN \h7300 + i * 4 ELSE \h8600 + i * 4

\* Counters that reading clears, and the queues they count for.
StatsRegisters ==
    Words(\h4000, 3) \cup {\h4010, \h4034, \h4038, \h4040, \h3F60, \hCF60, \h3F68, \hCF68,
     \h41A4, \h41A8, \h4078, \h407C, \hCF90, \h40C0, \h40C4, \h4120, \h8780}
    \cup Words(\h3FA0, 8) \cup Words(\h4140, 8) \cup Words(\h4160, 8) \cup Words(\h3240, 8)
    \cup Words(\h3F00, 8) \cup Words(\hCF00, 8) \cup Words(\h3F20, 8) \cup Words(\hCF20, 8)
    \cup Words(\h405C, 6) \cup Words(\h3FC0, 8) \cup Words(\h40A4, 6) \cup Words(\h40D0, 10)
    \cup Words(\h2300, 32) \cup {IXGBE_TQSMR(i) : i \in 0 .. 31} \cup Words(\h8600, 32)
    \cup Every(\h1030, \h40, 16) \cup Every(\h6030, \h40, 16) \cup Every(\h1034, \h40, 16)
    \cup Every(\h6034, \h40, 16) \cup Every(\h1038, \h40, 16) \cup Every(\h1430, \h40, 16)
    \cup Every(\h8700, 8, 16) \cup Every(\h8704, 8, 16)
    \cup {\h5118, \h241C, \h2424, \h2428, \h242C, \h8784, \h8788, \h41C4, \h87B0, \h41C0, \h2F90}
    \cup Words(\h4180, 8) \cup Words(\h41E0, 3)

MacRegisters ==
    {\h4200, \h4244, \h4248, \h4324, \h4330, \h4800, \h42A8, \h42AC, \h42B0, \h42B4, \h42D0,
     \h42D4, \h42D8, \h14F10, \h4318, \h4314}
    \cup Words(\h4208, 8) \cup Words(\h424C, 9) \cup Words(\h4288, 6) \cup Words(\h42E0, 4)

OtherRegisters ==
    UNION {GeneralRegisters, NvmRegisters, InterruptRegisters, RxDmaRegisters, ReceiveRegisters,
           TxDmaRegisters, {IXGBE_DCA_TXCTRL_82599(i) : i \in 0 .. 127}, DcbRegisters,
           StatsRegisters, MacRegisters}
=============================================================================
