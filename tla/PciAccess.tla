----------------------------- MODULE PciAccess -----------------------------
(***************************************************************************)
(* pci_map_resource of src/pci.c, run by several processes on one device:  *)
(* the kernel's driver is unbound, bus mastering is enabled by a read and  *)
(* a write of the PCI command register, and the registers are mapped.      *)
(***************************************************************************)
EXTENDS Integers

CONSTANTS Processes

VARIABLES
    bound,      \* the kernel's driver holds the device
    command,    \* the bits of the PCI command register
    dma,        \* enable_dma: each process's copy of it
    pc          \* where each process is in pci_map_resource

pcivars == <<bound, command, dma, pc>>

MEMORY == 1     \* the device answers to its registers
MASTER == 2     \* the device may use DMA

PciInit ==
    /\ bound \in BOOLEAN
    /\ command \in {{MEMORY}, {MEMORY, MASTER}}
    /\ dma = [p \in Processes |-> {}]
    /\ pc = [p \in Processes |-> "driver"]

Goto(p, l) == pc' = [pc EXCEPT ![p] = l]

\* remove_driver: the file exists while a driver is bound.
OpenUnbind(p) ==
    /\ pc[p] = "driver"
    /\ Goto(p, IF bound THEN "unbind" ELSE "read")
    /\ UNCHANGED <<bound, command, dma>>

\* The write makes the driver let go, which turns bus mastering off.  When
\* somebody else was faster it fails, which is a warning only.
Unbind(p) ==
    /\ pc[p] = "unbind"
    /\ Goto(p, "read")
    /\ bound' = FALSE
    /\ command' = IF bound THEN command \ {MASTER} ELSE command
    /\ UNCHANGED dma

\* enable_dma: read the register.  Failing to open the file ends the process.
ReadCommand(p) ==
    /\ pc[p] = "read"
    /\ \/ Goto(p, "write") /\ dma' = [dma EXCEPT ![p] = command]
       \/ Goto(p, "exit") /\ UNCHANGED dma
    /\ UNCHANGED <<bound, command>>

\* The state change of WriteCommand for a given value.
PutCommand(p, value) ==
    /\ pc[p] = "write"
    /\ command' = value
    /\ Goto(p, "resource")
    /\ UNCHANGED <<bound, dma>>
\* mutant: the other bits are overwritten
WriteCommand_only(p) == PutCommand(p, {MASTER})
\* enable_dma: write it back with the bit for bus mastering
WriteCommand(p) == PutCommand(p, dma[p] \cup {MASTER})

\* Open, measure and map resource0.  The lock on the file is commented out.
MapResource(p) ==
    /\ pc[p] = "resource"
    /\ Goto(p, "mapped") \/ Goto(p, "exit")
    /\ UNCHANGED <<bound, command, dma>>

remove_driver(p) == OpenUnbind(p) \/ Unbind(p)
enable_dma(p) == ReadCommand(p) \/ WriteCommand(p)

pci_map_resource(p) == remove_driver(p) \/ enable_dma(p) \/ MapResource(p)

PciNext == \E p \in Processes : pci_map_resource(p)
PciSpec == PciInit /\ [][PciNext]_pcivars
-----------------------------------------------------------------------------
\* A process that has the registers has a device that answers and may use DMA,
\* whoever else unbinds drivers or rewrites the command register meanwhile.
MappedDeviceWorks ==
    \A p \in Processes : pc[p] = "mapped" => ~bound /\ {MEMORY, MASTER} \subseteq command
=============================================================================
