------------------------------ MODULE Startup ------------------------------
(***************************************************************************)
(* The driver takes a device over: ixgbe_init maps the registers with      *)
(* pci_map_resource and then initialises the device, while other processes *)
(* call pci_map_resource for the same device and go no further.            *)
(***************************************************************************)
EXTENDS DeviceInit, PciAccess

CONSTANT self   \* the process of the driver

startvars == <<vars, pcivars>>

StartInit == Init /\ PciInit

MapDevice == PciNext /\ UNCHANGED vars
Initialise == pc[self] = "mapped" /\ Driver /\ UNCHANGED pcivars
NicStep == Nic /\ UNCHANGED <<memory, pcivars>>

StartNext == MapDevice \/ Initialise \/ NicStep

\* The driver's process is scheduled, and the NIC does what it waits for.
StartFairness ==
    /\ WF_pcivars(pci_map_resource(self))
    /\ WF_vars(Initialise)
    /\ NicFairness
StartSpec == StartInit /\ [][StartNext]_startvars /\ StartFairness
-----------------------------------------------------------------------------
\* The initialisation ends, link or not, as long as the NIC resets and grants
\* the enable bits: every wait is for something that was asked for.
InitReturns == <>(Returned \/ pc[self] = "exit")
=============================================================================
