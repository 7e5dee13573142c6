------------------------------- MODULE Device -------------------------------
(***************************************************************************)
(* Register access: the functions of src/driver/device.h and the NIC that  *)
(* answers.  A driver function is a sequence of operations, and the driver *)
(* thread executes the first of the ones it still has to do; one that      *)
(* reads a register and writes it back takes two steps, and the NIC may    *)
(* act in between.                                                         *)
(***************************************************************************)
EXTENDS Registers, Sequences

CONSTANTS RegisterSet,  \* the addresses of the registers
          NULL

VARIABLES
    prog,       \* the operations the driver thread still has to do
    latch,      \* the value it read and has not written back yet
    regs,       \* the registers
    enabling,   \* the queues' control registers whose enable bit was set and
                \* is not granted yet
    era         \* "before" or "after" the reset

device == <<prog, latch, regs, enabling, era>>

\* struct ixy_device: addr is the base of the register file.
Device == /\ regs \in [RegisterSet -> SUBSET AllBits]
          /\ latch \in {NULL} \cup SUBSET AllBits

\* The operations.  The last four name a register, the bits that are cleared or
\* looked at, and the bits that are set or waited for.
set_reg32(reg, value) == <<"set", reg, {}, value>>
get_reg32(reg) == <<"get", reg, {}, {}>>
change_reg32(reg, mask, value) == <<"change", reg, mask, value>>
set_flags32(reg, flags) == <<"change", reg, {}, flags>>
clear_flags32(reg, flags) == <<"change", reg, flags, {}>>
wait_clear_reg32(reg, mask) == <<"wait", reg, mask, {}>>
wait_set_reg32(reg, mask) == <<"wait", reg, mask, mask>>

At(kind) == prog # << >> /\ Head(prog)[1] = kind
Done == prog' = Tail(prog) /\ latch' = NULL

QueueControl == {IXGBE_RXDCTL(q) : q \in 0 .. 63} \cup {IXGBE_TXDCTL(q) : q \in 0 .. 63}
ENABLE == IXGBE_RXDCTL_ENABLE
\* How the NIC takes a write.  Writing EIMC disables the interrupts named; the
\* register stands for the ones that are enabled.  A queue's enable bit reads as
\* 1 only once the NIC granted it.  An address that is none of these registers
\* is none of the model's business.
Write(reg, value) ==
    /\ regs' = [r \in RegisterSet |->
            CASE r # reg -> regs[r]
              [] r = IXGBE_EIMC -> regs[r] \ value
              [] r \in QueueControl -> value \ (ENABLE \ regs[r])
              [] OTHER -> value]
    /\ enabling' = IF reg \in QueueControl /\ ENABLE \subseteq value \ regs[reg]
                   THEN enabling \cup {reg} ELSE enabling

SetStep ==
    /\ At("set")
    /\ Write(Head(prog)[2], Head(prog)[4])
    /\ Done
    /\ UNCHANGED era

\* The statistics are the only registers that change when they are read.
GetStep ==
    /\ At("get")
    /\ regs' = [regs EXCEPT ![Head(prog)[2]] = {}]
    /\ Done
    /\ UNCHANGED <<enabling, era>>

ChangeRead ==
    /\ At("change")
    /\ latch = NULL
    /\ latch' = regs[Head(prog)[2]]
    /\ UNCHANGED <<prog, regs, enabling, era>>

ChangeWrite ==
    /\ At("change")
    /\ latch # NULL
    /\ Write(Head(prog)[2], (latch \ Head(prog)[3]) \cup Head(prog)[4])
    /\ Done
    /\ UNCHANGED era

\* The two loops end at the first read that shows the bits waited for.
WaitStep ==
    /\ At("wait")
    /\ regs[Head(prog)[2]] \cap Head(prog)[3] = Head(prog)[4]
    /\ Done
    /\ UNCHANGED <<regs, enabling, era>>

RegisterStep == SetStep \/ GetStep \/ ChangeRead \/ ChangeWrite \/ WaitStep
-----------------------------------------------------------------------------
\* Some time after the driver asked for it the reset happens.  It takes all
\* registers back to their defaults.  Interrupts, the receiver and the reserved
\* bit of DCA_RXCTRL may be on afterwards: the driver turns them off itself.
NicReset ==
    /\ regs[IXGBE_CTRL] \cap IXGBE_CTRL_RST_MASK # {}
    /\ \E on \in {{}, AllBits} :
           regs' = [r \in RegisterSet |->
                IF \/ r \in {IXGBE_EIMC, IXGBE_RXCTRL}
                   \/ \E q \in 0 .. 63 : r = IXGBE_DCA_RXCTRL(q)
                THEN on ELSE {}]
    /\ enabling' = {}
    /\ era' = "after"
    /\ UNCHANGED <<prog, latch>>

\* The NIC turns a bit on by itself.
NicSets(reg, flags) ==
    /\ regs[IXGBE_CTRL] \cap IXGBE_CTRL_RST_MASK = {}
    /\ ~(flags \subseteq regs[reg])
    /\ regs' = [regs EXCEPT ![reg] = @ \cup flags]
    /\ UNCHANGED <<prog, latch, era>>

NicEepromRead == NicSets(IXGBE_EEC, IXGBE_EEC_ARD) /\ UNCHANGED enabling
NicDmaInit == NicSets(IXGBE_RDRXCTL, IXGBE_RDRXCTL_DMAIDONE) /\ UNCHANGED enabling
NicEnable ==
    \E reg \in enabling : NicSets(reg, ENABLE) /\ enabling' = enabling \ {reg}

\* The link comes up with some speed or goes down.  Only the driver's wait for
\* it reads LINKS: what happened to the link earlier it finds there.
NicLink ==
    /\ era = "after"
    /\ At("link") \/ At("cpp_link")
    /\ \E links \in {{}} \cup {IXGBE_LINKS_UP \cup speed :
                                 speed \in SUBSET IXGBE_LINKS_SPEED_82599} :
           regs' = [regs EXCEPT ![IXGBE_LINKS] = links]
    /\ UNCHANGED <<prog, latch, enabling, era>>

Nic == NicReset \/ NicEepromRead \/ NicDmaInit \/ NicEnable \/ NicLink

\* The NIC does what the driver waits for.  Nothing says that the link comes up.
NicFairness ==
    /\ WF_device(NicReset) /\ WF_device(NicEepromRead)
    /\ WF_device(NicDmaInit) /\ WF_device(NicEnable)
=============================================================================
