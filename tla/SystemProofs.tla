---------------------------- MODULE SystemProofs ----------------------------
(***************************************************************************)
(* The system around the rings, for any number of its parts: the processes *)
(* that map a device, the threads that allocate DMA memory, the words of a *)
(* descriptor, and the statistics of the applications.                     *)
(***************************************************************************)
EXTENDS PciAccess, DmaMemory, Statistics, Descriptors, TLAPS

\* Past remove_driver the driver is gone for good; every copy of the command
\* register that is still to be written back has the bit for the registers; and
\* after the first write the bit for bus mastering stays, since the only step
\* that clears it is an unbind that finds the driver bound.
PciInv ==
    /\ bound \in BOOLEAN
    /\ command \subseteq {MEMORY, MASTER} /\ MEMORY \in command
    /\ dma \in [Processes -> SUBSET {MEMORY, MASTER}]
    /\ pc \in [Processes -> {"driver", "unbind", "read", "write", "resource", "mapped", "exit"}]
    /\ \A p \in Processes :
        /\ pc[p] \in {"read", "write", "resource", "mapped"} => ~bound
        /\ pc[p] = "write" => MEMORY \in dma[p]
        /\ pc[p] \in {"resource", "mapped"} => MASTER \in command

\* No step of pci_map_resource, by any process, breaks the invariant.
LEMMA PciInvStep == PciInv /\ [PciNext]_pcivars => PciInv'
<1> SUFFICES ASSUME PciInv, [PciNext]_pcivars PROVE PciInv'
  OBVIOUS
<1> USE DEF PciInv, Goto, MEMORY, MASTER
<1>1. CASE UNCHANGED pcivars
  BY <1>1 DEF pcivars
<1>2. CASE PciNext
  <2> PICK p \in Processes : pci_map_resource(p)
    BY <1>2 DEF PciNext
  <2>1. CASE OpenUnbind(p)
    BY <2>1 DEF OpenUnbind
  <2>2. CASE Unbind(p)
    <3>1. CASE bound
      <4>1. \A q \in Processes : pc[q] \notin {"write", "resource", "mapped"}
        BY <3>1
      <4>2. \A q \in Processes : pc'[q] \notin {"write", "resource", "mapped"}
        BY <4>1, <2>2 DEF Unbind
      <4>3. /\ bound' = FALSE /\ command' = command \ {MASTER} /\ dma' = dma
            /\ pc' = [pc EXCEPT ![p] = "read"]
        BY <2>2, <3>1 DEF Unbind
      <4>4. command' \subseteq {MEMORY, MASTER} /\ MEMORY \in command'
        BY <4>3
      <4>5. pc' \in [Processes -> {"driver", "unbind", "read", "write", "resource",
                                  "mapped", "exit"}]
        BY <4>3
      <4> QED
        BY <4>2, <4>3, <4>4, <4>5, Zenon
    <3>2. CASE ~bound
      BY <2>2, <3>2, Zenon DEF Unbind
    <3> QED
      BY <3>1, <3>2
  <2>3. CASE ReadCommand(p)
    BY <2>3, Zenon DEF ReadCommand
  <2>4. CASE WriteCommand(p)
    BY <2>4 DEF WriteCommand, PutCommand
  <2>5. CASE MapResource(p)
    BY <2>5 DEF MapResource
  <2> QED
    BY <2>1, <2>2, <2>3, <2>4, <2>5 DEF pci_map_resource, remove_driver, enable_dma
<1> QED
  BY <1>1, <1>2

\* A process that has mapped resource0 has a device without a kernel driver that
\* answers and may use DMA, whatever other processes do in pci_map_resource.
THEOREM MappedDevicesWork == PciSpec => []MappedDeviceWorks
<1>1. PciInit => PciInv
  BY DEF PciInit, PciInv, MEMORY, MASTER
<1>2. PciInv => MappedDeviceWorks
  BY DEF PciInv, MappedDeviceWorks
<1> QED
  BY <1>1, <1>2, PciInvStep, PTL DEF PciSpec
-----------------------------------------------------------------------------
\* Where a thread has its id, and where the file of the id is still empty.
HasId == {"open", "ftruncate", "mmap", "mlock", "unlink", "translate"}
FileEmpty == {"ftruncate", "mmap", "mlock"}

\* What a thread knows of its id, its file and its mapping.
OwnFile(t) ==
    /\ at[t] \in {"idle", "fetch"} => id[t] = NULL
    /\ at[t] \in HasId => id[t] \in Ids
    /\ id[t] # NULL => id[t] \in Nat /\ id[t] < huge_pg_id
    /\ at[t] \in FileEmpty => files[id[t]] = << >>
    /\ at[t] \notin {"unlink", "translate"} => mapped[t] = << >>

\* A file has the id of a call that is under way, or of one that failed.
FilesOwned ==
    \A n \in Ids : files[n] # NULL =>
        \E t \in Threads : id[t] = n /\ at[t] \in FileEmpty \cup {"unlink", "exited"}

\* Ids are handed out once, so that a file has one thread that uses it.  It is
\* empty until that thread locks its pages, and then none of them is in use.
DmaInv ==
    /\ huge_pg_id \in Nat
    /\ files = [n \in Ids |-> files[n]]
    /\ at \in [Threads -> HasId \cup {"idle", "fetch", "exited"}]
    /\ id = [t \in Threads |-> id[t]]
    /\ mapped = [t \in Threads |-> mapped[t]]
    /\ \A t \in Threads : OwnFile(t)
    /\ FilesOwned
    /\ MemoryDisjoint

\* The frames of an empty file.
LEMMA NoFrames == Range(<< >>) = {}
BY DEF Range

\* No thread has an id or memory at first.
LEMMA DmaInitInv == DmaInit => DmaInv
BY NoFrames, DmaMemoryAssumption
   DEF DmaInit, DmaInv, OwnFile, HasId, FileEmpty, FilesOwned, MemoryDisjoint, Ids

\* A step that changes neither ids nor memory.
LEMMA DmaMoves ==
    ASSUME DmaInv, NEW t \in Threads, NEW from, NEW to,
           Go(t, from, to), <<from, to>> \in {<<"idle", "fetch">>, <<"ftruncate", "mmap">>, <<"mmap", "mlock">>},
           UNCHANGED <<huge_pg_id, files, id, mapped, blocks>>
    PROVE  DmaInv'
<1> USE DEF DmaInv
<1>1. at[t] = from /\ at' = [at EXCEPT ![t] = to]
  BY DEF Go
<1>2. at' \in [Threads -> HasId \cup {"idle", "fetch", "exited"}]
  BY <1>1 DEF HasId
<1>3. \A u \in Threads : OwnFile(u)'
  BY <1>1, Zenon DEF OwnFile, HasId, FileEmpty
<1>4. FilesOwned'
  BY <1>1 DEF FilesOwned, FileEmpty
<1>5. MemoryDisjoint'
  BY DEF MemoryDisjoint
<1> QED
  BY <1>2, <1>3, <1>4, <1>5

\* An id is fetched: no thread has it.
LEMMA FetchInv == ASSUME DmaInv, NEW t \in Threads, FetchAndAdd(t) PROVE DmaInv'
<1> USE DmaMemoryAssumption DEF DmaInv
<1>1. /\ huge_pg_id < MaxCalls /\ huge_pg_id' = huge_pg_id + 1
      /\ at[t] = "fetch" /\ at' = [at EXCEPT ![t] = "open"]
      /\ id' = [id EXCEPT ![t] = huge_pg_id]
      /\ UNCHANGED <<files, mapped, blocks>>
  BY DEF FetchAndAdd, Go
<1>2. at' \in [Threads -> HasId \cup {"idle", "fetch", "exited"}]
  BY <1>1 DEF HasId
<1>3. huge_pg_id \in Ids /\ huge_pg_id # NULL
  BY <1>1 DEF Ids
<1>4. ASSUME NEW u \in Threads PROVE OwnFile(u)'
  <2>1. CASE u = t
    <3>1. at'[u] = "open" /\ id'[u] = huge_pg_id /\ mapped'[u] = << >>
      BY <1>1, <2>1, Zenon DEF OwnFile
    <3>2. id'[u] \in Ids /\ id'[u] \in Nat /\ id'[u] < huge_pg_id'
      BY <1>1, <1>3, <3>1
    <3> QED
      BY <3>1, <3>2 DEF OwnFile, FileEmpty
  <2>2. CASE u # t
    <3>1. at'[u] = at[u] /\ id'[u] = id[u] /\ OwnFile(u)
      BY <1>1, <2>2
    <3> QED
      BY <1>1, <3>1 DEF OwnFile
  <2> QED
    BY <2>1, <2>2
<1>5. FilesOwned'
  BY <1>1, Zenon DEF FilesOwned, OwnFile, FileEmpty
<1>6. \A u, v \in Threads : u # v /\ id'[u] # NULL => id'[u] # id'[v]
  <2>1. ASSUME NEW u \in Threads, id[u] = huge_pg_id PROVE FALSE
    <3>1. OwnFile(u) /\ id[u] # NULL
      BY <1>3, <2>1
    <3>2. id[u] < huge_pg_id
      BY <3>1 DEF OwnFile
    <3> QED
      BY <2>1, <3>2
  <2> QED
    BY <1>1, <1>3, <2>1 DEF MemoryDisjoint
<1>7. MemoryDisjoint'
  BY <1>1, <1>6, Zenon DEF MemoryDisjoint
<1> QED
  BY <1>1, <1>2, <1>4, <1>5, <1>7

\* The file of the id is made: there is none yet.
LEMMA OpenInv == ASSUME DmaInv, NEW t \in Threads, Open(t) PROVE DmaInv'
<1> USE DEF DmaInv
<1>1. /\ at[t] = "open" /\ at' = [at EXCEPT ![t] = "ftruncate"]
      /\ files' = [files EXCEPT ![id[t]] = IF @ = NULL THEN << >> ELSE @]
      /\ UNCHANGED <<huge_pg_id, id, mapped, blocks>>
  BY DEF Open, Go
<1>2. at' \in [Threads -> HasId \cup {"idle", "fetch", "exited"}]
  BY <1>1 DEF HasId
<1>3. id[t] \in Ids /\ id[t] # NULL
  BY <1>1, DmaMemoryAssumption, Zenon DEF OwnFile, HasId
<1>4. \A u \in Threads : u # t => id[u] # id[t]
  BY <1>3 DEF MemoryDisjoint
<1>5. files[id[t]] = NULL
  BY <1>1, <1>3, <1>4 DEF FilesOwned, FileEmpty
<1>6. files' = [files EXCEPT ![id[t]] = << >>]
  BY <1>1, <1>3, <1>5
<1>7. ASSUME NEW u \in Threads PROVE OwnFile(u)'
  <2>1. CASE u = t
    <3>1. at'[u] = "ftruncate" /\ files'[id'[u]] = << >> /\ mapped'[u] = << >>
      BY <1>1, <1>3, <1>6, <2>1, Zenon DEF OwnFile
    <3> QED
      BY <1>1, <1>3, <2>1, <3>1, Zenon DEF OwnFile, FileEmpty
  <2>2. CASE u # t
    <3>1. at'[u] = at[u] /\ OwnFile(u)
      BY <1>1, <2>2
    <3>2. id[u] \in Ids => files'[id[u]] = files[id[u]]
      BY <1>3, <1>4, <1>6, <2>2
    <3> QED
      BY <1>1, <3>1, <3>2 DEF OwnFile, FileEmpty, HasId
  <2> QED
    BY <2>1, <2>2
<1>8. FilesOwned'
  BY <1>1, <1>3, <1>6 DEF FilesOwned, FileEmpty
<1>9. MemoryDisjoint'
  BY <1>1, Zenon DEF MemoryDisjoint
<1> QED
  BY <1>1, <1>2, <1>6, <1>7, <1>8, <1>9

\* The pages are brought in: the file was empty, so they are pages that nobody
\* uses.
LEMMA LockInv == ASSUME DmaInv, NEW t \in Threads, Lock(t) PROVE DmaInv'
<1> USE DEF DmaInv
<1>1. PICK new \in Injection(1 .. Pages(t), Frames) :
        /\ IF files[id[t]] = << >> THEN Range(new) \cap Used = {} ELSE new = files[id[t]]
        /\ files' = [files EXCEPT ![id[t]] = new]
        /\ mapped' = [mapped EXCEPT ![t] = new]
  BY DEF Lock
<1>2. /\ at[t] = "mlock" /\ at' = [at EXCEPT ![t] = "unlink"]
      /\ UNCHANGED <<huge_pg_id, id, blocks>>
  BY DEF Lock, Go
<1>3. at' \in [Threads -> HasId \cup {"idle", "fetch", "exited"}]
  BY <1>2 DEF HasId
<1>4. id[t] \in Ids /\ id[t] # NULL /\ files[id[t]] = << >>
  BY <1>2, DmaMemoryAssumption, Zenon DEF OwnFile, HasId, FileEmpty
<1>5. \A u \in Threads : u # t => id[u] # id[t]
  BY <1>4 DEF MemoryDisjoint
<1>6. /\ \A u \in Threads : Range(new) \cap Range(mapped[u]) = {}
      /\ \A b \in blocks : Range(new) \cap Range(b.frames) = {}
  BY <1>1, <1>4 DEF Used
<1>7. ASSUME NEW u \in Threads PROVE OwnFile(u)'
  <2>1. CASE u = t
    <3>1. at'[u] = "unlink"
      BY <1>2, <2>1
    <3> QED
      BY <1>2, <1>4, <2>1, <3>1, Zenon DEF OwnFile, FileEmpty
  <2>2. CASE u # t
    <3>1. at'[u] = at[u] /\ mapped'[u] = mapped[u] /\ OwnFile(u)
      BY <1>1, <1>2, <2>2
    <3>2. id[u] \in Ids => files'[id[u]] = files[id[u]]
      BY <1>1, <1>5, <2>2
    <3> QED
      BY <1>2, <3>1, <3>2 DEF OwnFile, FileEmpty, HasId
  <2> QED
    BY <2>1, <2>2
<1>8. FilesOwned'
  BY <1>1, <1>2, <1>4 DEF FilesOwned, FileEmpty
<1>9. MemoryDisjoint'
  BY <1>1, <1>2, <1>6, Zenon DEF MemoryDisjoint
<1> QED
  BY <1>1, <1>2, <1>3, <1>7, <1>8, <1>9

\* The file is removed; the thread keeps its mapping.
LEMMA UnlinkInv == ASSUME DmaInv, NEW t \in Threads, Unlink(t) PROVE DmaInv'
<1> USE DEF DmaInv
<1>1. /\ at[t] = "unlink" /\ at' = [at EXCEPT ![t] = "translate"]
      /\ files' = [files EXCEPT ![id[t]] = NULL]
      /\ UNCHANGED <<huge_pg_id, id, mapped, blocks>>
  BY DEF Unlink, Go
<1>2. at' \in [Threads -> HasId \cup {"idle", "fetch", "exited"}]
  BY <1>1 DEF HasId
<1>3. id[t] \in Ids /\ id[t] # NULL
  BY <1>1, DmaMemoryAssumption, Zenon DEF OwnFile, HasId
<1>4. \A u \in Threads : u # t => id[u] # id[t]
  BY <1>3 DEF MemoryDisjoint
<1>5. ASSUME NEW u \in Threads PROVE OwnFile(u)'
  <2>1. CASE u = t
    <3>1. at'[u] = "translate"
      BY <1>1, <2>1
    <3> QED
      BY <1>1, <1>3, <2>1, <3>1, Zenon DEF OwnFile, FileEmpty
  <2>2. CASE u # t
    <3>1. at'[u] = at[u] /\ OwnFile(u)
      BY <1>1, <2>2
    <3>2. id[u] \in Ids => files'[id[u]] = files[id[u]]
      BY <1>1, <1>4, <2>2
    <3> QED
      BY <1>1, <3>1, <3>2 DEF OwnFile, FileEmpty, HasId
  <2> QED
    BY <2>1, <2>2
<1>6. FilesOwned'
  <2> SUFFICES ASSUME NEW n \in Ids, files'[n] # NULL
               PROVE  \E u \in Threads : id'[u] = n /\ at'[u] \in FileEmpty \cup {"unlink", "exited"}
    BY DEF FilesOwned, FileEmpty
  <2>1. n # id[t] /\ files[n] # NULL
    BY <1>1, <1>3
  <2>2. PICK u \in Threads : id[u] = n /\ at[u] \in FileEmpty \cup {"unlink", "exited"}
    BY <2>1 DEF FilesOwned, FileEmpty
  <2>3. u # t
    BY <2>1, <2>2
  <2> QED
    BY <1>1, <2>2, <2>3
<1>7. MemoryDisjoint'
  BY <1>1, Zenon DEF MemoryDisjoint
<1> QED
  BY <1>1, <1>2, <1>5, <1>6, <1>7

\* What the thread has mapped becomes a block.
LEMMA ReturnInv == ASSUME DmaInv, NEW t \in Threads, Return(t) PROVE DmaInv'
<1> USE NoFrames DEF DmaInv
<1> DEFINE new == [frames |-> mapped[t], phy |-> virt_to_phys(mapped[t], 1),
                   size |-> request[t]]
<1>1. /\ at[t] = "translate" /\ at' = [at EXCEPT ![t] = "idle"]
      /\ blocks' = blocks \cup {new}
      /\ mapped' = [mapped EXCEPT ![t] = << >>]
      /\ id' = [id EXCEPT ![t] = NULL]
      /\ UNCHANGED <<huge_pg_id, files>>
  BY DEF Return, Go
<1>2. new.frames = mapped[t]
  OBVIOUS
<1> HIDE DEF new
<1>3. at' \in [Threads -> HasId \cup {"idle", "fetch", "exited"}]
  BY <1>1 DEF HasId
<1>4. ASSUME NEW u \in Threads PROVE OwnFile(u)'
  <2>1. CASE u = t
    <3>1. at'[u] = "idle" /\ id'[u] = NULL /\ mapped'[u] = << >>
      BY <1>1, <2>1
    <3> QED
      BY <1>1, <3>1, Zenon DEF OwnFile, FileEmpty, HasId
  <2>2. CASE u # t
    <3>1. at'[u] = at[u] /\ id'[u] = id[u] /\ mapped'[u] = mapped[u] /\ OwnFile(u)
      BY <1>1, <2>2, Zenon
    <3> QED
      BY <1>1, <3>1, Zenon DEF OwnFile
  <2> QED
    BY <2>1, <2>2
<1>5. FilesOwned'
  <2> SUFFICES ASSUME NEW n \in Ids, files[n] # NULL
               PROVE  \E u \in Threads : id'[u] = n /\ at'[u] \in FileEmpty \cup {"unlink", "exited"}
    BY <1>1 DEF FilesOwned, FileEmpty
  <2>1. PICK u \in Threads : id[u] = n /\ at[u] \in FileEmpty \cup {"unlink", "exited"}
    BY DEF FilesOwned, FileEmpty
  <2>2. u # t
    BY <1>1, <2>1 DEF FileEmpty
  <2> QED
    BY <1>1, <2>1, <2>2
<1>6. MemoryDisjoint'
  <2>1. \A u, v \in Threads : u # v =>
            /\ Range(mapped'[u]) \cap Range(mapped'[v]) = {}
            /\ id'[u] # NULL => id'[u] # id'[v]
    BY <1>1, Zenon DEF MemoryDisjoint
  <2>2. ASSUME NEW b \in blocks', NEW c \in blocks', b # c
        PROVE  Range(b.frames) \cap Range(c.frames) = {}
    BY <1>1, <1>2, <2>2, Zenon DEF MemoryDisjoint
  <2>3. ASSUME NEW b \in blocks', NEW u \in Threads
        PROVE  Range(b.frames) \cap Range(mapped'[u]) = {}
    BY <1>1, <1>2, <2>3 DEF MemoryDisjoint
  <2> QED
    BY <2>1, <2>2, <2>3, Zenon DEF MemoryDisjoint
<1> QED
  BY <1>1, <1>3, <1>4, <1>5, <1>6, Zenon

\* The process ends: its memory goes, its files stay.
LEMMA ExitInv == ASSUME DmaInv, Exit PROVE DmaInv'
<1> USE NoFrames DEF DmaInv, Exit
<1>1. \A u \in Threads : OwnFile(u)'
  BY Zenon DEF OwnFile, HasId, FileEmpty
<1>2. FilesOwned'
  BY DEF FilesOwned, FileEmpty
<1>3. MemoryDisjoint'
  BY DEF MemoryDisjoint
<1> QED
  BY <1>1, <1>2, <1>3

\* Nothing changes for the others when a block is given back.
LEMMA DeallocateInv == ASSUME DmaInv, deallocate PROVE DmaInv'
<1> USE DEF DmaInv, deallocate, thread
<1>1. \A u \in Threads : OwnFile(u)'
  BY Zenon DEF OwnFile
<1>2. FilesOwned'
  BY DEF FilesOwned, FileEmpty
<1>3. MemoryDisjoint'
  BY DEF MemoryDisjoint
<1> QED
  BY <1>1, <1>2, <1>3

\* No step of a thread that allocates, or of the process, breaks the invariant.
LEMMA DmaNextInv == DmaInv /\ [DmaNext]_dmavars => DmaInv'
<1> SUFFICES ASSUME DmaInv, [DmaNext]_dmavars PROVE DmaInv'
  OBVIOUS
<1>1. CASE UNCHANGED dmavars
  <2> USE <1>1 DEF DmaInv, dmavars, thread
  <2>1. \A u \in Threads : OwnFile(u)'
    BY DEF OwnFile
  <2>2. FilesOwned' /\ MemoryDisjoint'
    BY DEF FilesOwned, MemoryDisjoint, FileEmpty
  <2> QED
    BY <2>1, <2>2
<1>2. ASSUME NEW t \in Threads, NewMapping(t) PROVE DmaInv'
  <2>1. CASE Call(t)
    BY <2>1, DmaMoves DEF Call
  <2>2. CASE Truncate(t)
    BY <2>2, DmaMoves DEF Truncate
  <2>3. CASE Map(t)
    BY <2>3, DmaMoves DEF Map
  <2> QED
    BY <1>2, <2>1, <2>2, <2>3, FetchInv, OpenInv, LockInv, UnlinkInv, Zenon DEF NewMapping
<1> QED
  BY <1>1, <1>2, ReturnInv, ExitInv, DeallocateInv, Zenon
     DEF DmaNext, memory_allocate_dma, allocate

\* Whatever threads call memory_allocate_dma or allocate, and wherever they
\* overtake one another, no two get the same memory or the same file.
THEOREM DmaMemoryDisjoint == DmaSpec => []MemoryDisjoint
<1>1. DmaInv => MemoryDisjoint
  BY DEF DmaInv
<1> QED
  BY <1>1, DmaInitInv, DmaNextInv, PTL DEF DmaSpec
-----------------------------------------------------------------------------
\* Where the fields that reach the status words lie, and the bits the driver tests.
LEMMA Places ==
    /\ ixgbe_adv_tx_desc.status = <<12, 4>> /\ ixgbe_adv_tx_desc.olinfo_status = <<12, 4>>
    /\ ixgbe_adv_rx_desc.hdr_addr = <<8, 8>> /\ ixgbe_adv_rx_desc.status_error = <<8, 4>>
    /\ ixgbe_adv_rx_desc.length = <<12, 2>> /\ ixgbe_adv_rx_desc.vlan = <<14, 2>>
    /\ 96 \in Span(<<12, 4>>)
    /\ 64 \in Span(<<8, 8>>) /\ 65 \in Span(<<8, 8>>)
    /\ 64 \in Span(<<8, 4>>) /\ 65 \in Span(<<8, 4>>)
    /\ 64 \notin Span(<<12, 2>>) /\ 64 \notin Span(<<14, 2>>)
<1>1. /\ ixgbe_adv_tx_desc.status = <<12, 4>> /\ ixgbe_adv_tx_desc.olinfo_status = <<12, 4>>
      /\ ixgbe_adv_rx_desc.hdr_addr = <<8, 8>> /\ ixgbe_adv_rx_desc.status_error = <<8, 4>>
      /\ ixgbe_adv_rx_desc.length = <<12, 2>> /\ ixgbe_adv_rx_desc.vlan = <<14, 2>>
  BY DEF ixgbe_adv_tx_desc, ixgbe_adv_rx_desc
<1>2. 96 \in Span(<<12, 4>>)
  BY DEF Span
<1>3. 64 \in Span(<<8, 8>>) /\ 65 \in Span(<<8, 8>>)
  BY DEF Span
<1>4. 64 \in Span(<<8, 4>>) /\ 65 \in Span(<<8, 4>>)
  BY DEF Span
<1>5. 64 \notin Span(<<12, 2>>) /\ 64 \notin Span(<<14, 2>>)
  BY DEF Span
<1> QED
  BY <1>1, <1>2, <1>3, <1>4, <1>5, Zenon

\* A bit of a field is a bit of the descriptor.
LEMMA LoadBit ==
    ASSUME NEW d, NEW m \in Nat, NEW n \in Nat, NEW k \in Nat,
           NEW p \in Span(<<m, n>>), p = 8 * m + k
    PROVE  k \in Load(d, <<m, n>>) <=> p \in d
<1>1. Load(d, <<m, n>>) = {b - 8 * m : b \in d \cap Span(<<m, n>>)}
  BY DEF Load
<1>2. \A b \in Span(<<m, n>>) : b \in Int
  BY DEF Span
<1>3. \A b \in Int : b - 8 * m = k <=> b = 8 * m + k
  OBVIOUS
<1> QED
  BY <1>1, <1>2, <1>3, Zenon

\* A store puts a bit into its field.
LEMMA StoreBit ==
    ASSUME NEW d, NEW m \in Nat, NEW n \in Nat, NEW bits, NEW k \in Nat,
           \A b \in bits : b \in Nat, NEW p \in Span(<<m, n>>), p = 8 * m + k
    PROVE  p \in Store(d, <<m, n>>, bits) <=> k \in bits
<1>1. Store(d, <<m, n>>, bits)
      = (d \ Span(<<m, n>>)) \cup ({b + 8 * m : b \in bits} \cap Span(<<m, n>>))
  BY DEF Store
<1>2. \A b \in Nat : b + 8 * m = 8 * m + k <=> b = k
  OBVIOUS
<1> QED
  BY <1>1, <1>2

\* The driver tests single bits of the descriptor.
LEMMA TestedBits ==
    /\ tx_done <=> 96 \in desc
    /\ rx_done <=> 64 \in desc
    /\ rx_end <=> 65 \in desc
<1>1. 0 \in Load(desc, <<12, 4>>) <=> 96 \in desc
  <2>1. 12 \in Nat /\ 4 \in Nat /\ 0 \in Nat /\ 96 \in Span(<<12, 4>>) /\ 96 = 8 * 12 + 0
    BY Places
  <2> QED
    BY <2>1, LoadBit
<1>2. 0 \in Load(desc, <<8, 4>>) <=> 64 \in desc
  <2>1. 8 \in Nat /\ 4 \in Nat /\ 0 \in Nat /\ 64 \in Span(<<8, 4>>) /\ 64 = 8 * 8 + 0
    BY Places
  <2> QED
    BY <2>1, LoadBit
<1>3. 1 \in Load(desc, <<8, 4>>) <=> 65 \in desc
  <2>1. 8 \in Nat /\ 4 \in Nat /\ 1 \in Nat /\ 65 \in Span(<<8, 4>>) /\ 65 = 8 * 8 + 1
    BY Places
  <2> QED
    BY <2>1, LoadBit
<1> QED
  BY <1>1, <1>2, <1>3, Places
  DEF tx_done, rx_done, rx_end, IXGBE_TXD_STAT_DD, IXGBE_RXD_STAT_DD, IXGBE_RXD_STAT_EOP

\* A store leaves the bits of other fields alone.
LEMMA StoreElsewhere ==
    ASSUME NEW d, NEW field, NEW bits, NEW b, b \notin Span(field)
    PROVE  b \in Store(d, field, bits) <=> b \in d
BY DEF Store

\* The payload length of a packet, shifted into place, leaves DD clear.
LEMMA PublishedNotDone == TxOlinfoStatus => 96 \notin desc'
<1> SUFFICES ASSUME TxOlinfoStatus PROVE 96 \notin desc'
  OBVIOUS
<1> DEFINE paylen == {b + 14 : b \in Bits(length)}
<1>1. \A b \in Bits(length) : b \in Nat
  BY DEF Bits
<1>2. 0 \notin paylen /\ \A b \in paylen : b \in Nat
  BY <1>1
<1>3. desc' = Store(desc, <<12, 4>>, paylen)
  BY Places DEF TxOlinfoStatus, IXGBE_ADVTXD_PAYLEN_SHIFT
<1> HIDE DEF paylen
<1>4. 12 \in Nat /\ 4 \in Nat /\ 0 \in Nat /\ 96 \in Span(<<12, 4>>) /\ 96 = 8 * 12 + 0
  BY Places
<1>5. 96 \in Store(desc, <<12, 4>>, paylen) <=> 0 \in paylen
  BY <1>2, <1>4, StoreBit
<1> QED
  BY <1>2, <1>3, <1>5, Zenon

\* A transmitted packet is reported by DD.
LEMMA SentIsDone ==
    ASSUME NEW others \in SUBSET {1, 2, 3}, NicWriteBack(others) PROVE 96 \in desc'
<1> DEFINE flags == IXGBE_TXD_STAT_DD \cup others
<1>1. 0 \in flags /\ \A b \in flags : b \in Nat
  BY DEF IXGBE_TXD_STAT_DD
<1>2. PICK d : desc' = Store(d, <<12, 4>>, flags)
  BY Places DEF NicWriteBack
<1> HIDE DEF flags
<1>3. 12 \in Nat /\ 4 \in Nat /\ 0 \in Nat /\ 96 \in Span(<<12, 4>>) /\ 96 = 8 * 12 + 0
  BY Places
<1>4. 96 \in Store(d, <<12, 4>>, flags) <=> 0 \in flags
  BY <1>1, <1>3, StoreBit
<1> QED
  BY <1>1, <1>2, <1>4, Zenon

\* hdr_addr lies over all flags.
LEMMA PostedNotDone == RxHdrAddr => 64 \notin desc' /\ 65 \notin desc'
<1> SUFFICES ASSUME RxHdrAddr PROVE 64 \notin desc' /\ 65 \notin desc'
  OBVIOUS
<1>1. desc' = Store(desc, <<8, 8>>, {})
  BY Places DEF RxHdrAddr
<1>2. Store(desc, <<8, 8>>, {}) \cap Span(<<8, 8>>) = {}
  BY DEF Store
<1> QED
  BY <1>1, <1>2, Places

\* A received packet is reported by DD, which length and VLAN tag leave alone.
LEMMA ReceivedIsDone ==
    ASSUME NEW s, NEW end, NEW others, NicReceive(s, end, others) PROVE 64 \in desc'
<1> DEFINE flags == IXGBE_RXD_STAT_DD \cup (IF end THEN IXGBE_RXD_STAT_EOP ELSE {})
           d == Store(desc, ixgbe_adv_rx_desc.lo_dword, others)
           e == Store(d, <<8, 4>>, flags)
           f == Store(e, <<12, 2>>, Bits(s))
           g == Store(f, <<14, 2>>, others)
<1>1. desc' = g
  BY Places DEF NicReceive
<1>2. 0 \in flags /\ \A b \in flags : b \in Nat
  BY DEF IXGBE_RXD_STAT_DD, IXGBE_RXD_STAT_EOP
<1> HIDE DEF flags, d
<1>3. 64 \in e
  <2>1. 8 \in Nat /\ 4 \in Nat /\ 0 \in Nat /\ 64 \in Span(<<8, 4>>) /\ 64 = 8 * 8 + 0
    BY Places
  <2> QED
    BY <1>2, <2>1, StoreBit
<1> HIDE DEF e
<1>4. 64 \in f
  BY <1>3, Places, StoreElsewhere, Zenon
<1> HIDE DEF f
<1>5. 64 \in g
  BY <1>4, Places, StoreElsewhere, Zenon
<1> QED
  BY <1>1, <1>5

\* DDTells in terms of the bits that are tested.
SlotTells ==
    /\ slot_pc = "tx_published" => 96 \notin desc
    /\ slot_pc = "tx" => 96 \in desc
    /\ slot_pc = "rx_posted" => 64 \notin desc /\ 65 \notin desc
    /\ slot_pc = "rx" => 64 \in desc

\* No step of the driver or the NIC makes the bits lie.
LEMMA SlotTellsStep == SlotTells /\ [SlotNext]_slotvars => SlotTells'
<1> SUFFICES ASSUME SlotTells, [SlotNext]_slotvars PROVE SlotTells'
  OBVIOUS
<1> USE DEF SlotTells
<1>1. CASE UNCHANGED slotvars
  BY <1>1 DEF slotvars
<1>2. ASSUME NEW addr, NEW s, TxBufferAddr(addr, s) PROVE SlotTells'
  BY <1>2 DEF TxBufferAddr
<1>3. CASE TxCmdTypeLen
  BY <1>3 DEF TxCmdTypeLen
<1>4. CASE TxOlinfoStatus
  BY <1>4, PublishedNotDone DEF TxOlinfoStatus
<1>5. ASSUME NEW others \in SUBSET {1, 2, 3}, NicWriteBack(others) PROVE SlotTells'
  BY <1>5, SentIsDone DEF NicWriteBack
<1>6. ASSUME NEW addr, RxPktAddr(addr) PROVE SlotTells'
  BY <1>6 DEF RxPktAddr
<1>7. CASE RxHdrAddr
  BY <1>7, PostedNotDone DEF RxHdrAddr
<1>8. ASSUME NEW s, NEW end, NEW others, NicReceive(s, end, others) PROVE SlotTells'
  BY <1>8, ReceivedIsDone DEF NicReceive
<1> HIDE DEF SlotTells
<1> QED
  BY <1>1, <1>2, <1>3, <1>4, <1>5, <1>6, <1>7, <1>8, Zenon DEF SlotNext

\* The DD bit tells for every length of a packet and every address: what
\* ixgbe_tx_packet and ixgbe_rx_packet write into a slot never looks done before
\* the NIC wrote it back, whatever the slot held in the lap before.
THEOREM DescriptorsTell == SlotSpec => []DDTells
<1>1. SlotInit => SlotTells
  BY DEF SlotInit, SlotTells
<1>2. SlotTells => DDTells
  BY TestedBits DEF DDTells, SlotTells
<1> QED
  BY <1>1, <1>2, SlotTellsStep, PTL DEF SlotSpec
-----------------------------------------------------------------------------
\* The bits that have room in a field, and fields that do not overlap.
Fits(bits, f) == f[1] \in Nat /\ f[2] \in Nat /\ bits \subseteq 0 .. 8 * f[2] - 1
Clear(f, g) == Span(f) \cap Span(g) = {}

\* A field reads as what was stored into it, when that has room there...
LEMMA LoadStored ==
    ASSUME NEW d, NEW f, NEW bits, Fits(bits, f)
    PROVE  Load(Store(d, f, bits), f) = bits
<1> DEFINE m == f[1]
           n == f[2]
           s == Store(d, f, bits)
<1>0. m \in Nat /\ n \in Nat /\ bits \subseteq 0 .. 8 * n - 1
  BY DEF Fits
<1>1. Span(f) = 8 * m .. 8 * (m + n) - 1
  BY DEF Span
<1>2. s \cap Span(f) = {b + 8 * m : b \in bits}
  <2> HIDE DEF m, n
  <2>1. \A b \in bits : b + 8 * m \in Span(f)
    BY <1>0, <1>1
  <2> QED
    BY <2>1 DEF Store, m
<1>3. Load(s, f) = {b - 8 * m : b \in {c + 8 * m : c \in bits}}
  BY <1>2 DEF Load
<1> HIDE DEF m, n, s
<1>4. \A c \in bits : (c + 8 * m) - 8 * m = c
  BY <1>0
<1>5. {b - 8 * m : b \in {c + 8 * m : c \in bits}} = bits
  BY <1>4
<1> QED
  BY <1>3, <1>5 DEF s

\* ... whatever is stored into other fields.
LEMMA LoadOther ==
    ASSUME NEW d, NEW f, NEW g, NEW bits, Clear(f, g)
    PROVE  Load(Store(d, f, bits), g) = Load(d, g)
<1>1. Store(d, f, bits) \cap Span(g) = d \cap Span(g)
  BY DEF Store, Clear
<1> QED
  BY <1>1 DEF Load

\* Where the fields lie.
LEMMA Fields ==
    /\ ixgbe_adv_tx_desc.buffer_addr = <<0, 8>> /\ ixgbe_adv_tx_desc.cmd_type_len = <<8, 4>>
    /\ ixgbe_adv_tx_desc.olinfo_status = <<12, 4>>
    /\ ixgbe_adv_rx_desc.length = <<12, 2>> /\ ixgbe_adv_rx_desc.vlan = <<14, 2>>
BY DEF ixgbe_adv_tx_desc, ixgbe_adv_rx_desc

\* What is stored has room in its field.
LEMMA FieldsFit ==
    /\ \A bits : bits \subseteq 0 .. 63 => Fits(bits, ixgbe_adv_tx_desc.buffer_addr)
    /\ \A bits : bits \subseteq 0 .. 31 => Fits(bits, ixgbe_adv_tx_desc.cmd_type_len)
    /\ \A bits : bits \subseteq 0 .. 31 => Fits(bits, ixgbe_adv_tx_desc.olinfo_status)
    /\ \A bits : bits \subseteq 0 .. 15 => Fits(bits, ixgbe_adv_rx_desc.length)
<1>1. /\ \A bits : bits \subseteq 0 .. 63 => Fits(bits, <<0, 8>>)
      /\ \A bits : bits \subseteq 0 .. 31 => Fits(bits, <<8, 4>>) /\ Fits(bits, <<12, 4>>)
      /\ \A bits : bits \subseteq 0 .. 15 => Fits(bits, <<12, 2>>)
  BY DEF Fits
<1> QED
  BY <1>1, Fields

\* The fields that are read lie apart from those stored after them.
LEMMA FieldsApart ==
    ASSUME NEW d, NEW bits
    PROVE  /\ Load(Store(d, ixgbe_adv_tx_desc.cmd_type_len, bits), ixgbe_adv_tx_desc.buffer_addr)
              = Load(d, ixgbe_adv_tx_desc.buffer_addr)
           /\ Load(Store(d, ixgbe_adv_tx_desc.olinfo_status, bits), ixgbe_adv_tx_desc.buffer_addr)
              = Load(d, ixgbe_adv_tx_desc.buffer_addr)
           /\ Load(Store(d, ixgbe_adv_tx_desc.olinfo_status, bits), ixgbe_adv_tx_desc.cmd_type_len)
              = Load(d, ixgbe_adv_tx_desc.cmd_type_len)
           /\ Load(Store(d, ixgbe_adv_rx_desc.vlan, bits), ixgbe_adv_rx_desc.length)
              = Load(d, ixgbe_adv_rx_desc.length)
           /\ 65 \in Store(d, ixgbe_adv_rx_desc.length, bits) <=> 65 \in d
           /\ 65 \in Store(d, ixgbe_adv_rx_desc.vlan, bits) <=> 65 \in d
<1>1. /\ Span(<<0, 8>>) = 0 .. 63 /\ Span(<<8, 4>>) = 64 .. 95 /\ Span(<<12, 4>>) = 96 .. 127
      /\ Span(<<12, 2>>) = 96 .. 111 /\ Span(<<14, 2>>) = 112 .. 127
  BY DEF Span
<1>2. Clear(<<8, 4>>, <<0, 8>>) /\ Clear(<<12, 4>>, <<0, 8>>)
  BY <1>1 DEF Clear
<1>3. Clear(<<12, 4>>, <<8, 4>>) /\ Clear(<<14, 2>>, <<12, 2>>)
  BY <1>1 DEF Clear
<1>4. 65 \notin Span(<<12, 2>>) /\ 65 \notin Span(<<14, 2>>)
  BY <1>1
<1>5. \A f, g : Clear(f, g) => Load(Store(d, f, bits), g) = Load(d, g)
  BY LoadOther
<1>6. \A f : 65 \notin Span(f) => (65 \in Store(d, f, bits) <=> 65 \in d)
  BY StoreElsewhere
<1> QED
  BY <1>2, <1>3, <1>4, <1>5, <1>6, Fields

\* What ixgbe_tx_packet stores into the two words beside the address.
cmd_flags == UNION {IXGBE_TXD_CMD_EOP, IXGBE_TXD_CMD_RS, IXGBE_TXD_CMD_IFCS, IXGBE_TXD_CMD_DEXT,
                    IXGBE_ADVTXD_DTYP_DATA}
PayloadLength(n) == {b + 14 : b \in Bits(n)}

\* What the fields hold, store by store.
SlotHolds ==
    /\ slot_pc \in {"cmd_type_len", "olinfo_status", "tx_published"} =>
        length \in Lengths /\ Load(desc, ixgbe_adv_tx_desc.buffer_addr) \in Data
    /\ slot_pc \in {"olinfo_status", "tx_published"} =>
        Load(desc, ixgbe_adv_tx_desc.cmd_type_len) = cmd_flags \cup Bits(length)
    /\ slot_pc = "tx_published" => Load(desc, ixgbe_adv_tx_desc.olinfo_status) = PayloadLength(length)
    /\ slot_pc = "rx" /\ desc # 0 .. 127 =>
        /\ length \in Lengths /\ Load(desc, ixgbe_adv_rx_desc.length) = Bits(length)
        /\ eop \in BOOLEAN /\ (eop <=> 65 \in desc)

\* Every store leaves the fields stored before it as they are.
LEMMA SlotHoldsStep == SlotHolds /\ [SlotNext]_slotvars => SlotHolds'
<1> SUFFICES ASSUME SlotHolds, [SlotNext]_slotvars PROVE SlotHolds'
  OBVIOUS
<1>1. CASE UNCHANGED slotvars
  BY <1>1 DEF slotvars, SlotHolds
<1>2. ASSUME NEW addr \in Data, NEW s \in Lengths, TxBufferAddr(addr, s) PROVE SlotHolds'
  <2>1. desc' = Store(desc, ixgbe_adv_tx_desc.buffer_addr, addr) /\ length' = s /\ slot_pc' = "cmd_type_len"
    BY <1>2 DEF TxBufferAddr
  <2>2. Fits(addr, ixgbe_adv_tx_desc.buffer_addr)
    BY DescriptorsAssumption, FieldsFit, Zenon
  <2>3. Load(Store(desc, ixgbe_adv_tx_desc.buffer_addr, addr), ixgbe_adv_tx_desc.buffer_addr) = addr
    BY <2>2, LoadStored, Zenon
  <2> QED
    BY <2>1, <2>3 DEF SlotHolds
<1>3. CASE TxCmdTypeLen
  <2> DEFINE word == cmd_flags \cup Bits(length)
  <2>1. /\ desc' = Store(desc, ixgbe_adv_tx_desc.cmd_type_len, word) /\ length' = length
        /\ slot_pc = "cmd_type_len" /\ slot_pc' = "olinfo_status"
    <3>1. UNION {IXGBE_TXD_CMD_EOP, IXGBE_TXD_CMD_RS, IXGBE_TXD_CMD_IFCS, IXGBE_TXD_CMD_DEXT,
                 IXGBE_ADVTXD_DTYP_DATA, Bits(length)} = word
      BY DEF cmd_flags
    <3> QED
      BY <1>3, <3>1 DEF TxCmdTypeLen
  <2>2. length \in Lengths /\ Load(desc, ixgbe_adv_tx_desc.buffer_addr) \in Data
    BY <2>1 DEF SlotHolds
  <2>3. Fits(word, ixgbe_adv_tx_desc.cmd_type_len)
    <3>1. Bits(length) \subseteq 0 .. 15
      BY <2>2, DescriptorsAssumption
    <3>2. cmd_flags \subseteq 0 .. 31
      BY DEF cmd_flags, IXGBE_TXD_CMD_EOP, IXGBE_TXD_CMD_RS, IXGBE_TXD_CMD_IFCS, IXGBE_TXD_CMD_DEXT,
             IXGBE_ADVTXD_DTYP_DATA
    <3>3. 0 .. 15 \subseteq 0 .. 31
      OBVIOUS
    <3>4. word \subseteq 0 .. 31
      BY <3>1, <3>2, <3>3, Zenon
    <3> QED
      BY <3>4, FieldsFit, Zenon
  <2> HIDE DEF word
  <2>4. Load(Store(desc, ixgbe_adv_tx_desc.cmd_type_len, word), ixgbe_adv_tx_desc.cmd_type_len) = word
    BY <2>3, LoadStored, Zenon
  <2>5. Load(Store(desc, ixgbe_adv_tx_desc.cmd_type_len, word), ixgbe_adv_tx_desc.buffer_addr)
        = Load(desc, ixgbe_adv_tx_desc.buffer_addr)
    BY FieldsApart
  <2> QED
    BY <2>1, <2>2, <2>4, <2>5 DEF SlotHolds, word
<1>4. CASE TxOlinfoStatus
  <2> DEFINE word == PayloadLength(length)
  <2>1. /\ desc' = Store(desc, ixgbe_adv_tx_desc.olinfo_status, word) /\ length' = length
        /\ slot_pc = "olinfo_status" /\ slot_pc' = "tx_published"
    BY <1>4 DEF TxOlinfoStatus, PayloadLength, IXGBE_ADVTXD_PAYLEN_SHIFT
  <2>2. /\ length \in Lengths /\ Load(desc, ixgbe_adv_tx_desc.buffer_addr) \in Data
        /\ Load(desc, ixgbe_adv_tx_desc.cmd_type_len) = cmd_flags \cup Bits(length)
    BY <2>1 DEF SlotHolds
  <2>3. Fits(word, ixgbe_adv_tx_desc.olinfo_status)
    <3>1. Bits(length) \subseteq 0 .. 15
      BY <2>2, DescriptorsAssumption
    <3>2. word \subseteq 0 .. 31
      BY <3>1 DEF PayloadLength
    <3> QED
      BY <3>2, FieldsFit, Zenon
  <2> HIDE DEF word
  <2>4. Load(Store(desc, ixgbe_adv_tx_desc.olinfo_status, word), ixgbe_adv_tx_desc.olinfo_status) = word
    BY <2>3, LoadStored, Zenon
  <2>5. /\ Load(Store(desc, ixgbe_adv_tx_desc.olinfo_status, word), ixgbe_adv_tx_desc.buffer_addr)
           = Load(desc, ixgbe_adv_tx_desc.buffer_addr)
        /\ Load(Store(desc, ixgbe_adv_tx_desc.olinfo_status, word), ixgbe_adv_tx_desc.cmd_type_len)
           = Load(desc, ixgbe_adv_tx_desc.cmd_type_len)
    BY FieldsApart
  <2> QED
    BY <2>1, <2>2, <2>4, <2>5 DEF SlotHolds, word
<1>5. ASSUME NEW others, NicWriteBack(others) PROVE SlotHolds'
  BY <1>5 DEF NicWriteBack, SlotHolds
<1>6. ASSUME NEW addr, RxPktAddr(addr) PROVE SlotHolds'
  BY <1>6 DEF RxPktAddr, SlotHolds
<1>7. CASE RxHdrAddr
  BY <1>7 DEF RxHdrAddr, SlotHolds
<1>8. ASSUME NEW s \in Lengths, NEW end \in BOOLEAN, NEW others, NicReceive(s, end, others)
      PROVE  SlotHolds'
  <2> DEFINE flags == IXGBE_RXD_STAT_DD \cup (IF end THEN IXGBE_RXD_STAT_EOP ELSE {})
             d == Store(desc, ixgbe_adv_rx_desc.lo_dword, others)
             e == Store(d, ixgbe_adv_rx_desc.status_error, flags)
             f == Store(e, ixgbe_adv_rx_desc.length, Bits(s))
             g == Store(f, ixgbe_adv_rx_desc.vlan, others)
  <2>1. desc' = g /\ length' = s /\ eop' = end /\ slot_pc' = "rx"
    BY <1>8 DEF NicReceive
  <2>2. (1 \in flags <=> end) /\ \A b \in flags : b \in Nat
    BY DEF IXGBE_RXD_STAT_DD, IXGBE_RXD_STAT_EOP
  <2> HIDE DEF flags, d
  <2>3. 65 \in e <=> end
    <3>1. 8 \in Nat /\ 4 \in Nat /\ 1 \in Nat /\ 65 \in Span(<<8, 4>>) /\ 65 = 8 * 8 + 1
      BY Places
    <3>2. 65 \in Store(d, <<8, 4>>, flags) <=> 1 \in flags
      BY <2>2, <3>1, StoreBit
    <3> QED
      BY <2>2, <3>2, Places
  <2> HIDE DEF e
  <2>4. Load(f, ixgbe_adv_rx_desc.length) = Bits(s)
    <3>1. Fits(Bits(s), ixgbe_adv_rx_desc.length)
      BY DescriptorsAssumption, FieldsFit, Zenon
    <3> QED
      BY <3>1, LoadStored, Zenon
  <2>5. 65 \in f <=> 65 \in e
    BY FieldsApart
  <2> HIDE DEF f
  <2>6. 65 \in g <=> 65 \in f
    BY FieldsApart
  <2>7. Load(g, ixgbe_adv_rx_desc.length) = Load(f, ixgbe_adv_rx_desc.length)
    BY FieldsApart
  <2> HIDE DEF g
  <2> QED
    BY <2>1, <2>3, <2>4, <2>5, <2>6, <2>7 DEF SlotHolds
<1> HIDE DEF SlotHolds
<1> QED
  BY <1>1, <1>2, <1>3, <1>4, <1>5, <1>6, <1>7, <1>8, Zenon DEF SlotNext

\* What the fields hold is what was meant.
LEMMA HoldsMeant == SlotHolds => WordsMeant
<1> SUFFICES ASSUME SlotHolds PROVE WordsMeant
  OBVIOUS
<1> DEFINE cmd == Load(desc, ixgbe_adv_tx_desc.cmd_type_len)
           olinfo == Load(desc, ixgbe_adv_tx_desc.olinfo_status)
<1>1. ASSUME slot_pc = "tx_published"
      PROVE  /\ Load(desc, ixgbe_adv_tx_desc.buffer_addr) \in Data
             /\ cmd \cap IXGBE_ADVTXD_DTALEN_MASK = Bits(length)
             /\ cmd \cap IXGBE_ADVTXD_DTYP_MASK = {20, 21}
             /\ cmd \ (IXGBE_ADVTXD_DTALEN_MASK \cup IXGBE_ADVTXD_DTYP_MASK) = {24, 25, 27, 29}
             /\ {b - 14 : b \in olinfo} = Bits(length) /\ \A b \in olinfo : b >= 14
             /\ Number(Bits(length)) = length
  <2>1. /\ length \in Lengths /\ Load(desc, ixgbe_adv_tx_desc.buffer_addr) \in Data
        /\ cmd = cmd_flags \cup Bits(length) /\ olinfo = PayloadLength(length)
    BY <1>1 DEF SlotHolds
  <2>2. Bits(length) \subseteq 0 .. 15 /\ Number(Bits(length)) = length
    BY <2>1, DescriptorsAssumption
  <2>3. cmd_flags = {20, 21, 24, 25, 27, 29}
    BY DEF cmd_flags, IXGBE_TXD_CMD_EOP, IXGBE_TXD_CMD_RS, IXGBE_TXD_CMD_IFCS, IXGBE_TXD_CMD_DEXT,
           IXGBE_ADVTXD_DTYP_DATA
  <2> DEFINE bits == Bits(length)
  <2> HIDE DEF cmd, olinfo, bits
  <2>4. bits \subseteq 0 .. 15 /\ cmd = {20, 21, 24, 25, 27, 29} \cup bits
    BY <2>1, <2>2, <2>3 DEF bits
  <2>5. cmd \cap (0 .. 15) = bits
    <3>1. \A b \in {20, 21, 24, 25, 27, 29} : b \notin 0 .. 15
      OBVIOUS
    <3> QED
      BY <2>4, <3>1, Zenon
  <2>6. cmd \cap (20 .. 23) = {20, 21}
    BY <2>4
  <2>7. cmd \ ((0 .. 15) \cup (20 .. 23)) = {24, 25, 27, 29}
    <3>1. {20, 21, 24, 25, 27, 29} \ ((0 .. 15) \cup (20 .. 23)) = {24, 25, 27, 29}
      OBVIOUS
    <3> QED
      BY <2>4, <3>1, Zenon
  <2>8. olinfo = {b + 14 : b \in bits}
    BY <2>1 DEF PayloadLength, bits
  <2>9. \A b \in bits : (b + 14) - 14 = b /\ b + 14 >= 14
    BY <2>4
  <2>10. {b - 14 : b \in olinfo} = bits /\ \A b \in olinfo : b >= 14
    BY <2>8, <2>9
  <2> QED
    BY <2>1, <2>2, <2>5, <2>6, <2>7, <2>10
    DEF IXGBE_ADVTXD_DTALEN_MASK, IXGBE_ADVTXD_DTYP_MASK, bits
<1>2. ASSUME slot_pc = "rx", desc # 0 .. 127
      PROVE  Number(Load(desc, ixgbe_adv_rx_desc.length)) = length /\ rx_end = eop
  <2>1. /\ length \in Lengths /\ Load(desc, ixgbe_adv_rx_desc.length) = Bits(length)
        /\ eop \in BOOLEAN /\ (eop <=> 65 \in desc)
    BY <1>2 DEF SlotHolds
  <2>2. rx_end \in BOOLEAN
    BY DEF rx_end
  <2>3. rx_end <=> eop
    BY <2>1, TestedBits
  <2> QED
    BY <2>1, <2>2, <2>3, DescriptorsAssumption
<1> QED
  BY <1>1, <1>2, Zenon DEF WordsMeant, rx_size, cmd, olinfo

\* Each side of the ring reads what the other meant, for every length of 16 bits
\* and every address of 64: what ixgbe_tx_packet packs into cmd_type_len and
\* olinfo_status, and what the NIC writes for ixgbe_rx_packet.
THEOREM DescriptorsMean == SlotSpec => []WordsMeant
<1>1. SlotInit => SlotHolds
  BY DEF SlotInit, SlotHolds
<1> QED
  BY <1>1, SlotHoldsStep, HoldsMeant, PTL DEF SlotSpec
-----------------------------------------------------------------------------
\* The types of the statistics; what ixgbe_read_stats has read belongs to the
\* device it reads, and is gone when it returned.
Stat == [device_stats -> Nat]
StatsTypes ==
    /\ program \in {"ixy-fwd", "ixy-cpp-fwd", "ixy-pktgen"}
    /\ dev2 \in Devices /\ object \in {1, 2} /\ order \in ReadOrders
    /\ reads \in Seq(Counters) /\ todo \in Seq(Devices)
    /\ main_pc = "clearing" => todo # << >>
    /\ main_pc \notin {"clearing", "reading"} => read = Zero
    /\ reg \in [Devices -> [Counters -> Nat]]
    /\ read \in Stat
    /\ traffic \in [Devices -> Stat] /\ cleared \in [Devices -> Stat]
    /\ stats \in [{1, 2} -> Stat] /\ stats_old \in [{1, 2} -> Stat]
    /\ printed \in [{1, 2} -> [device_stats -> Int]]

\* Where what a field of the statistics counts is, for a device.
Registered(rg, f) ==
    CASE f = "rx_pkts" -> rg[IXGBE_GPRC]
      [] f = "tx_pkts" -> rg[IXGBE_GPTC]
      [] f = "rx_bytes" -> rg[IXGBE_GORCL] + LOW * rg[IXGBE_GORCH]
      [] f = "tx_bytes" -> rg[IXGBE_GOTCL] + LOW * rg[IXGBE_GOTCH]
Kept(d, f) == (IF d = 1 THEN stats[1][f] ELSE 0) + (IF d = dev2 THEN stats[2][f] ELSE 0)
BeingRead(d, f) == IF d = Device THEN read[f] ELSE 0
Balance == \A d \in Devices : \A f \in device_stats :
    traffic[d][f] = Registered(reg[d], f) + cleared[d][f] + Kept(d, f) + BeingRead(d, f)

\* In the statistics as printed, a packet adds 20 bytes to its octets.
Reported == \A o \in {1, 2} : printed[o] = print_stats_diff(stats_old[o], Zero)

\* The two halves of an octet count.
LEMMA Halves ==
    /\ \A o \in Nat : o % LOW \in Nat /\ o \div LOW \in Nat /\ (o % LOW) + LOW * (o \div LOW) = o
    /\ \A x, y \in Nat : LOW * (x + y) = LOW * x + LOW * y /\ x * LOW = LOW * x /\ LOW * x \in Nat
BY StatisticsAssumption

\* Sums in another order.
LEMMA Swapped == \A x, y, z \in Nat : x + (y + z) = (x + z) + y
OBVIOUS

\* Nothing is added.
LEMMA NoMore == \A x \in Nat : x = x + 0
OBVIOUS

\* The counters are different registers.
LEMMA CountersDiffer ==
    /\ IXGBE_GPRC \notin {IXGBE_GPTC, IXGBE_GORCL, IXGBE_GORCH, IXGBE_GOTCL, IXGBE_GOTCH}
    /\ IXGBE_GPTC \notin {IXGBE_GORCL, IXGBE_GORCH, IXGBE_GOTCL, IXGBE_GOTCH}
    /\ IXGBE_GORCL \notin {IXGBE_GORCH, IXGBE_GOTCL, IXGBE_GOTCH}
    /\ IXGBE_GORCH \notin {IXGBE_GOTCL, IXGBE_GOTCH} /\ IXGBE_GOTCL # IXGBE_GOTCH
BY DEF IXGBE_GPRC, IXGBE_GPTC, IXGBE_GORCL, IXGBE_GORCH, IXGBE_GOTCL, IXGBE_GOTCH

\* What the registers of a field hold is a number.
LEMMA RegisteredType ==
    ASSUME NEW rg \in [Counters -> Nat], NEW f \in device_stats PROVE Registered(rg, f) \in Nat
BY Halves DEF Registered, device_stats, Counters

\* All parts of the balance are numbers.
LEMMA PartsType ==
    ASSUME StatsTypes, NEW d \in Devices, NEW f \in device_stats
    PROVE  /\ Registered(reg[d], f) \in Nat /\ cleared[d][f] \in Nat /\ Kept(d, f) \in Nat
           /\ BeingRead(d, f) \in Nat
<1>1. Registered(reg[d], f) \in Nat
  BY RegisteredType, Zenon DEF StatsTypes
<1>2. cleared[d][f] \in Nat /\ BeingRead(d, f) \in Nat
  BY DEF StatsTypes, Stat, BeingRead
<1>3. stats[1][f] \in Nat /\ stats[2][f] \in Nat
  BY DEF StatsTypes, Stat
<1>4. Kept(d, f) \in Nat
  BY <1>3 DEF Kept
<1> QED
  BY <1>1, <1>2, <1>4

\* The balance of every field is what CountedOnce says.
LEMMA BalanceIs == StatsTypes => (CountedOnce <=> Balance /\ Reported)
<1> SUFFICES ASSUME StatsTypes PROVE CountedOnce <=> Balance /\ Reported
  OBVIOUS
<1> DEFINE sum(d) == Add(Add(InRegisters(d), cleared[d]),
                         Add(Objects(d), IF d = Device THEN read ELSE Zero))
<1>1. ASSUME NEW d \in Devices
      PROVE  traffic[d] = sum(d) <=>
             \A f \in device_stats : traffic[d][f] = Registered(reg[d], f) + cleared[d][f]
                                                     + Kept(d, f) + BeingRead(d, f)
  <2>1. \A f \in device_stats : InRegisters(d)[f] = Registered(reg[d], f)
    BY DEF InRegisters, Registered, device_stats
  <2>2. \A f \in device_stats : Objects(d)[f] = Kept(d, f)
    BY DEF Objects, Kept, Add, Zero, StatsTypes, Stat
  <2>3. \A f \in device_stats : (IF d = Device THEN read ELSE Zero)[f] = BeingRead(d, f)
    BY DEF BeingRead, Zero
  <2>4. ASSUME NEW f \in device_stats
        PROVE  sum(d)[f] = Registered(reg[d], f) + cleared[d][f] + Kept(d, f) + BeingRead(d, f)
    <3>1. sum(d)[f] = (InRegisters(d)[f] + cleared[d][f])
                      + (Objects(d)[f] + (IF d = Device THEN read ELSE Zero)[f])
      BY DEF Add
    <3>2. /\ Registered(reg[d], f) \in Nat /\ cleared[d][f] \in Nat /\ Kept(d, f) \in Nat
          /\ BeingRead(d, f) \in Nat
      BY PartsType
    <3> QED
      BY <2>1, <2>2, <2>3, <3>1, <3>2
  <2>5. sum(d) = [f \in device_stats |-> sum(d)[f]]
    BY DEF Add
  <2>6. traffic[d] = [f \in device_stats |-> traffic[d][f]]
    BY DEF StatsTypes, Stat
  <2> HIDE DEF sum
  <2> QED
    BY <2>4, <2>5, <2>6
<1> QED
  BY <1>1, Zenon DEF CountedOnce, Balance, Reported

\* Steps that move nothing: the device being read changes only while nothing has
\* been read.
LEMMA QuietBalance ==
    ASSUME Balance, UNCHANGED <<dev2, reg, traffic, cleared, stats>>,
           (read = Zero /\ read' = Zero) \/ (read' = read /\ Device' = Device)
    PROVE  Balance'
<1>1. ASSUME NEW d \in Devices, NEW f \in device_stats
      PROVE  BeingRead(d, f)' = BeingRead(d, f) /\ Kept(d, f)' = Kept(d, f)
  BY DEF BeingRead, Kept, Zero
<1> QED
  BY <1>1 DEF Balance

\* Statistics are added field by field.
LEMMA AddType ==
    ASSUME NEW a \in Stat, NEW b \in Stat
    PROVE  Add(a, b) \in Stat /\ \A f \in device_stats : Add(a, b)[f] = a[f] + b[f]
<1>1. \A f \in device_stats : a[f] + b[f] \in Nat
  BY DEF Stat
<1> QED
  BY <1>1 DEF Add, Stat

\* A register is read, and set back to 0.
LEMMA ReadRegisterInv ==
    ASSUME StatsTypes, Balance, Reported, ReadRegister
    PROVE  StatsTypes' /\ Balance' /\ Reported'
<1> DEFINE r == Head(reads)
           v == reg[Device][r]
<1>1. /\ main_pc \in {"clearing", "reading"} /\ reads # << >>
      /\ read' = [read EXCEPT ![Field(r)] = @ + Shifted(r, v)]
      /\ reg' = [reg EXCEPT ![Device][r] = 0]
      /\ reads' = Tail(reads)
      /\ UNCHANGED <<program, dev2, traffic, main_pc, todo, object, order, stats, stats_old, printed,
                     cleared>>
  BY DEF ReadRegister, objects
<1>2. Device \in Devices /\ Device' = Device
  BY <1>1 DEF Device, Devices, StatsTypes
<1>3. r \in Counters /\ reads' \in Seq(Counters) /\ v \in Nat
  BY <1>1, <1>2 DEF StatsTypes
<1>4. Field(r) \in device_stats /\ Shifted(r, v) \in Nat
  BY <1>3, Halves DEF Field, Shifted, Counters, device_stats
<1>5. reg' \in [Devices -> [Counters -> Nat]] /\ read' \in Stat
  <2>1. reg' \in [Devices -> [Counters -> Nat]]
    BY <1>1, <1>2, <1>3 DEF StatsTypes
  <2>2. PICK f \in device_stats, n \in Nat : f = Field(r) /\ n = Shifted(r, v)
    BY <1>4
  <2>3. read' = [read EXCEPT ![f] = read[f] + n] /\ read \in Stat
    BY <1>1, <2>2 DEF StatsTypes
  <2>4. read' \in Stat
    BY <2>3 DEF Stat
  <2> QED
    BY <2>1, <2>4
<1>6. StatsTypes'
  BY <1>1, <1>3, <1>5 DEF StatsTypes
<1>7. ASSUME NEW f \in device_stats
      PROVE  Registered(reg'[Device], f) + read'[f] = Registered(reg[Device], f) + read[f]
  <2>1. /\ \A c \in Counters : reg'[Device][c] = IF c = r THEN 0 ELSE reg[Device][c]
        /\ read'[f] = IF f = Field(r) THEN read[f] + Shifted(r, v) ELSE read[f]
    BY <1>1, <1>2, <1>3, <1>4, Zenon DEF StatsTypes, Stat
  <2>2. read[f] \in Nat /\ \A c \in Counters : reg[Device][c] \in Nat
    BY <1>2 DEF StatsTypes, Stat
  <2>3. LOW * 0 = 0 /\ \A x \in Nat : x * LOW = LOW * x /\ LOW * x \in Nat
    BY StatisticsAssumption
  <2>4. /\ IXGBE_GPRC \in Counters /\ IXGBE_GPTC \in Counters /\ IXGBE_GORCL \in Counters
        /\ IXGBE_GORCH \in Counters /\ IXGBE_GOTCL \in Counters /\ IXGBE_GOTCH \in Counters
    BY DEF Counters
  <2>5. CASE f = "rx_pkts"
    BY <1>3, <2>1, <2>2, <2>4, <2>5, CountersDiffer DEF Registered, Field, Shifted, Counters
  <2>6. CASE f = "tx_pkts"
    BY <1>3, <2>1, <2>2, <2>4, <2>6, CountersDiffer DEF Registered, Field, Shifted, Counters
  <2>7. CASE f = "rx_bytes"
    <3>1. CASE r = IXGBE_GORCL
      BY <2>1, <2>2, <2>3, <2>4, <2>7, <3>1, CountersDiffer DEF Registered, Field, Shifted
    <3>2. CASE r = IXGBE_GORCH
      BY <2>1, <2>2, <2>3, <2>4, <2>7, <3>2, CountersDiffer DEF Registered, Field, Shifted
    <3>3. CASE r \notin {IXGBE_GORCL, IXGBE_GORCH}
      BY <1>3, <2>1, <2>4, <2>7, <3>3, CountersDiffer DEF Registered, Field, Counters
    <3> QED
      BY <3>1, <3>2, <3>3
  <2>8. CASE f = "tx_bytes"
    <3>1. CASE r = IXGBE_GOTCL
      BY <2>1, <2>2, <2>3, <2>4, <2>8, <3>1, CountersDiffer DEF Registered, Field, Shifted
    <3>2. CASE r = IXGBE_GOTCH
      BY <2>1, <2>2, <2>3, <2>4, <2>8, <3>2, CountersDiffer DEF Registered, Field, Shifted
    <3>3. CASE r \notin {IXGBE_GOTCL, IXGBE_GOTCH}
      BY <1>3, <2>1, <2>4, <2>8, <3>3, CountersDiffer DEF Registered, Field, Counters
    <3> QED
      BY <3>1, <3>2, <3>3
  <2> QED
    BY <2>5, <2>6, <2>7, <2>8 DEF device_stats
<1>8. \A d \in Devices : d # Device => reg'[d] = reg[d]
  BY <1>1, <1>2 DEF StatsTypes
<1>9. Balance'
  <2> SUFFICES ASSUME NEW d \in Devices, NEW f \in device_stats
               PROVE  traffic[d][f] = Registered(reg'[d], f) + cleared[d][f] + Kept(d, f)
                                      + (IF d = Device THEN read'[f] ELSE 0)
    <3>1. \A d \in Devices : \A f \in device_stats :
            /\ Kept(d, f)' = Kept(d, f)
            /\ BeingRead(d, f)' = IF d = Device THEN read'[f] ELSE 0
      BY <1>1, <1>2 DEF Kept, BeingRead
    <3> QED
      BY <1>1, <3>1 DEF Balance
  <2>1. CASE d = Device
    <3>1. /\ Registered(reg[d], f) \in Nat /\ cleared[d][f] \in Nat /\ Kept(d, f) \in Nat
      BY PartsType
    <3>2. Registered(reg'[d], f) \in Nat
      BY <1>5, RegisteredType
    <3>3. read[f] \in Nat /\ read'[f] \in Nat
      BY <1>5 DEF StatsTypes, Stat
    <3> QED
      BY <1>7, <2>1, <3>1, <3>2, <3>3 DEF Balance, BeingRead
  <2>2. CASE d # Device
    BY <1>8, <2>2 DEF Balance, BeingRead
  <2> QED
    BY <2>1, <2>2
<1>10. Reported'
  BY <1>1 DEF Reported
<1> QED
  BY <1>6, <1>9, <1>10

\* ixgbe_read_stats returns: what it read is dropped by stats_init and kept by the
\* loop, in the statistics of the object that stands for the device.
LEMMA ReadDoneInv ==
    ASSUME StatsTypes, Balance, Reported, ReadDone
    PROVE  StatsTypes' /\ Balance' /\ Reported'
<1> USE DEF StatsTypes
<1>1. /\ main_pc \in {"clearing", "reading"} /\ read' = Zero
      /\ UNCHANGED <<program, dev2, reg, traffic, object, order, reads, stats_old, printed>>
  BY DEF ReadDone, nicvars
<1>2. Reported'
  BY <1>1 DEF Reported
<1>3. Device \in Devices
  BY <1>1 DEF Device, Devices
<1>4. \A a, b \in Stat : Add(a, b) \in Stat /\ \A f \in device_stats : Add(a, b)[f] = a[f] + b[f]
  BY AddType
<1>5. Zero \in Stat /\ \A f \in device_stats : Zero[f] = 0
  BY DEF Zero, Stat
<1>6. \A d \in Devices : \A f \in device_stats : BeingRead(d, f)' = 0
  BY <1>1, <1>5 DEF BeingRead
<1>7. \A d \in Devices : \A f \in device_stats :
          /\ traffic[d][f] = Registered(reg[d], f) + cleared[d][f] + Kept(d, f) + BeingRead(d, f)
          /\ Registered(reg[d], f) \in Nat /\ cleared[d][f] \in Nat /\ Kept(d, f) \in Nat
          /\ BeingRead(d, f) \in Nat
  BY PartsType DEF Balance
<1>8. ASSUME \A d \in Devices : \A f \in device_stats :
                /\ cleared'[d][f] \in Nat /\ Kept(d, f)' \in Nat
                /\ cleared'[d][f] + Kept(d, f)' = cleared[d][f] + Kept(d, f) + BeingRead(d, f)
      PROVE  Balance'
  <2> SUFFICES ASSUME NEW d \in Devices, NEW f \in device_stats
               PROVE  traffic'[d][f] = Registered(reg'[d], f) + cleared'[d][f] + Kept(d, f)'
                                       + BeingRead(d, f)'
    BY DEF Balance
  <2>1. /\ cleared'[d][f] \in Nat /\ Kept(d, f)' \in Nat
        /\ cleared'[d][f] + Kept(d, f)' = cleared[d][f] + Kept(d, f) + BeingRead(d, f)
    BY <1>8
  <2>2. /\ traffic[d][f] = Registered(reg[d], f) + cleared[d][f] + Kept(d, f) + BeingRead(d, f)
        /\ Registered(reg[d], f) \in Nat /\ cleared[d][f] \in Nat /\ Kept(d, f) \in Nat
        /\ BeingRead(d, f) \in Nat
    BY <1>7
  <2>3. /\ BeingRead(d, f)' = 0 /\ traffic'[d][f] = traffic[d][f]
        /\ Registered(reg'[d], f) = Registered(reg[d], f)
    BY <1>1, <1>6
  <2> HIDE DEF StatsTypes
  <2> DEFINE r == Registered(reg[d], f)
             c == cleared[d][f]
             k == Kept(d, f)
             h == BeingRead(d, f)
             c2 == cleared'[d][f]
             k2 == Kept(d, f)'
  <2>4. r + c + k + h = r + c2 + k2 + 0
    <3>1. /\ r \in Nat /\ c \in Nat /\ k \in Nat /\ h \in Nat /\ c2 \in Nat /\ k2 \in Nat
          /\ c2 + k2 = c + k + h
      BY <2>1, <2>2, Zenon
    <3> HIDE DEF r, c, k, h, c2, k2
    <3> QED
      BY <3>1
  <2> QED
    BY <2>2, <2>3, <2>4, Zenon
<1>9. CASE main_pc = "clearing"
  <2>1. /\ main_pc' = "stats_init" /\ todo' = Tail(todo) /\ stats' = stats
        /\ cleared' = [cleared EXCEPT ![Device] = Add(cleared[Device], read)]
    BY <1>9 DEF ReadDone
  <2>2. todo' \in Seq(Devices)
    BY <1>9, <2>1
  <2>3. cleared' \in [Devices -> Stat]
    BY <1>3, <1>4, <2>1
  <2>4. StatsTypes'
    BY <1>1, <1>5, <2>1, <2>2, <2>3
  <2>5. ASSUME NEW d \in Devices, NEW f \in device_stats
        PROVE  /\ cleared'[d][f] \in Nat /\ Kept(d, f)' \in Nat
               /\ cleared'[d][f] + Kept(d, f)' = cleared[d][f] + Kept(d, f) + BeingRead(d, f)
    <3>1. Kept(d, f)' = Kept(d, f)
      BY <1>1, <2>1 DEF Kept
    <3>2. cleared'[d][f] = cleared[d][f] + BeingRead(d, f)
      <4>1. CASE d = Device
        BY <1>3, <1>4, <2>1, <4>1 DEF BeingRead
      <4>2. CASE d # Device
        BY <1>7, <2>1, <4>2 DEF BeingRead
      <4> QED
        BY <4>1, <4>2
    <3>3. cleared[d][f] \in Nat /\ Kept(d, f) \in Nat /\ BeingRead(d, f) \in Nat
      BY <1>7
    <3> QED
      BY <3>1, <3>2, <3>3
  <2> QED
    BY <1>2, <1>8, <2>4, <2>5
<1>10. CASE main_pc = "reading"
  <2>1. /\ main_pc' = "print" /\ todo' = todo /\ cleared' = cleared
        /\ stats' = [stats EXCEPT ![object] = Add(stats[object], read)]
    BY <1>10 DEF ReadDone
  <2>2. stats' \in [{1, 2} -> Stat]
    BY <1>4, <2>1
  <2>3. StatsTypes'
    BY <1>1, <1>5, <2>1, <2>2
  <2>4. ASSUME NEW d \in Devices, NEW f \in device_stats
        PROVE  /\ cleared'[d][f] \in Nat /\ Kept(d, f)' \in Nat
               /\ cleared'[d][f] + Kept(d, f)' = cleared[d][f] + Kept(d, f) + BeingRead(d, f)
    <3>1. \A o \in {1, 2} : stats'[o][f] = IF o = object THEN stats[o][f] + read[f] ELSE stats[o][f]
      BY <1>4, <2>1
    <3>2. stats[1][f] \in Nat /\ stats[2][f] \in Nat /\ read[f] \in Nat
      BY DEF Stat
    <3>3. Device = IF object = 1 THEN 1 ELSE dev2
      BY <1>10 DEF Device
    <3>4. Kept(d, f)' = Kept(d, f) + BeingRead(d, f)
      <4>0. object \in {1, 2} /\ dev2' = dev2
        BY <1>1
      <4> HIDE DEF StatsTypes
      <4>1. CASE object = 1
        <5>1. stats'[1][f] = stats[1][f] + read[f] /\ stats'[2][f] = stats[2][f] /\ Device = 1
          BY <3>1, <3>3, <4>1
        <5> QED
          BY <3>2, <4>0, <5>1 DEF Kept, BeingRead
      <4>2. CASE object = 2
        <5>1. stats'[2][f] = stats[2][f] + read[f] /\ stats'[1][f] = stats[1][f] /\ Device = dev2
          BY <3>1, <3>3, <4>2
        <5> QED
          BY <3>2, <4>0, <5>1 DEF Kept, BeingRead
      <4> QED
        BY <4>0, <4>1, <4>2
    <3>5. cleared[d][f] \in Nat /\ Kept(d, f) \in Nat /\ BeingRead(d, f) \in Nat
      BY <1>7
    <3> QED
      BY <2>1, <3>4, <3>5
  <2> QED
    BY <1>2, <1>8, <2>3, <2>4
<1> QED
  BY <1>1, <1>9, <1>10

\* The reports add up.
LEMMA ReportsAdd ==
    ASSUME NEW a \in Stat, NEW b \in Stat
    PROVE  /\ Add(print_stats_diff(b, Zero), print_stats_diff(a, b)) = print_stats_diff(a, Zero)
           /\ print_stats_diff(a, Zero) \in [device_stats -> Int]
<1>1. /\ a.rx_pkts \in Nat /\ a.tx_pkts \in Nat /\ a.rx_bytes \in Nat /\ a.tx_bytes \in Nat
      /\ b.rx_pkts \in Nat /\ b.tx_pkts \in Nat /\ b.rx_bytes \in Nat /\ b.tx_bytes \in Nat
      /\ Zero.rx_pkts = 0 /\ Zero.tx_pkts = 0 /\ Zero.rx_bytes = 0 /\ Zero.tx_bytes = 0
  BY DEF Stat, device_stats, Zero
<1> DEFINE all == print_stats_diff(a, Zero)
           before == print_stats_diff(b, Zero)
           new == print_stats_diff(a, b)
<1>2. /\ all.rx_pkts = before.rx_pkts + new.rx_pkts /\ all.rx_pkts \in Int
      /\ all.tx_pkts = before.tx_pkts + new.tx_pkts /\ all.tx_pkts \in Int
  BY <1>1 DEF print_stats_diff, diff_mpps
<1>3. all.rx_bytes = before.rx_bytes + new.rx_bytes /\ all.rx_bytes \in Int
  BY <1>1 DEF print_stats_diff, diff_mpps, diff_mbit
<1>4. all.tx_bytes = before.tx_bytes + new.tx_bytes /\ all.tx_bytes \in Int
  BY <1>1 DEF print_stats_diff, diff_mpps, diff_mbit
<1>5. all = [f \in device_stats |-> all[f]]
  BY Zenon DEF print_stats_diff, device_stats
<1> HIDE DEF all, before, new
<1>6. \A f \in device_stats : all[f] = before[f] + new[f] /\ all[f] \in Int
  BY <1>2, <1>3, <1>4 DEF device_stats
<1>7. Add(before, new) = all
  BY <1>5, <1>6 DEF Add
<1>8. all \in [device_stats -> Int]
  BY <1>5, <1>6
<1> QED
  BY <1>7, <1>8 DEF all, before, new

\* The orders of the reads are orders of counters.
LEMMA OrdersType == ReadOrders \subseteq Seq(Counters)
BY DEF ReadOrders, Counters

\* The difference to the last report is printed.
LEMMA ReportInv ==
    ASSUME StatsTypes, Balance, Reported, Report
    PROVE  StatsTypes' /\ Balance' /\ Reported'
<1> USE DEF StatsTypes
<1> DEFINE new == print_stats_diff(stats[object], stats_old[object])
<1>1. /\ main_pc = "print"
      /\ printed' = [printed EXCEPT ![object] = Add(printed[object], new)]
      /\ stats_old' = [stats_old EXCEPT ![object] = stats[object]]
      /\ UNCHANGED <<program, dev2, reg, traffic, todo, order, read, stats, cleared>>
    BY Zenon DEF Report, ReportAs, nicvars, cpp_print_stats_diff, print_stats_diff, cpp_diff_mpps,
           cpp_diff_mbit
<1>2. /\ main_pc' \in {"killed", "reading", "loop"}
      /\ object' \in {1, 2} /\ reads' \in {reads, order}
  BY Zenon DEF Report, ReportAs
<1>3. StatsTypes'
  <2>1. reads' \in Seq(Counters)
    BY <1>2, OrdersType
  <2>2. stats_old' \in [{1, 2} -> Stat]
    BY <1>1
  <2>3. printed' \in [{1, 2} -> [device_stats -> Int]]
    BY <1>1, ReportsAdd DEF Reported
  <2> QED
    BY <1>1, <1>2, <2>1, <2>2, <2>3
<1>4. Reported'
  BY <1>1, ReportsAdd DEF Reported
<1>5. Balance'
  BY <1>1, QuietBalance
<1> QED
  BY <1>3, <1>4, <1>5

\* A packet is counted in three registers, with a carry between the halves of the
\* octets.
LEMMA NicCountsInv ==
    ASSUME StatsTypes, Balance, Reported, NicCounts
    PROVE  StatsTypes' /\ Balance' /\ Reported'
<1>t. /\ reg \in [Devices -> [Counters -> Nat]] /\ traffic \in [Devices -> Stat]
      /\ cleared \in [Devices -> Stat]
  BY DEF StatsTypes
<1>1. PICK d \in Devices,
           count \in {<<"rx_pkts", "rx_bytes", IXGBE_GPRC, IXGBE_GORCL, IXGBE_GORCH>>,
                     <<"tx_pkts", "tx_bytes", IXGBE_GPTC, IXGBE_GOTCL, IXGBE_GOTCH>>} :
        /\ traffic' = [traffic EXCEPT ![d][count[1]] = @ + 1, ![d][count[2]] = @ + OCTETS]
        /\ reg' = [reg EXCEPT ![d][count[3]] = @ + 1,
                              ![d][count[4]] = (reg[d][count[4]] + OCTETS) % LOW,
                              ![d][count[5]] = @ + (reg[d][count[4]] + OCTETS) \div LOW]
  BY Zenon DEF NicCounts
<1>2. UNCHANGED <<program, dev2, main_pc, todo, object, order, reads, read, stats, stats_old, printed,
                  cleared>>
  BY Zenon DEF NicCounts, reading, objects
<1> DEFINE Same(g, h, C) == \A c \in Counters \ C : g[c] = h[c]
<1> DEFINE p == count[1]
           b == count[2]
           cp == count[3]
           cl == count[4]
           ch == count[5]
<1>3. /\ p \in device_stats /\ b \in device_stats /\ p # b
      /\ cp \in Counters /\ cl \in Counters /\ ch \in Counters
      /\ cp # cl /\ cp # ch /\ cl # ch
      /\ \A g : Registered(g, p) = g[cp] /\ Registered(g, b) = g[cl] + LOW * g[ch]
      /\ Same(reg'[d], reg[d], {cp, cl, ch}) =>
            \A f \in device_stats \ {p, b} : Registered(reg'[d], f) = Registered(reg[d], f)
  <2>1. CASE count = <<"rx_pkts", "rx_bytes", IXGBE_GPRC, IXGBE_GORCL, IXGBE_GORCH>>
    <3>1. /\ p = "rx_pkts" /\ b = "rx_bytes"
          /\ cp = IXGBE_GPRC /\ cl = IXGBE_GORCL /\ ch = IXGBE_GORCH
      BY <2>1
    <3> HIDE DEF p, b, cp, cl, ch
    <3> QED
      BY <3>1, CountersDiffer DEF Registered, device_stats, Counters
  <2>2. CASE count = <<"tx_pkts", "tx_bytes", IXGBE_GPTC, IXGBE_GOTCL, IXGBE_GOTCH>>
    <3>1. /\ p = "tx_pkts" /\ b = "tx_bytes"
          /\ cp = IXGBE_GPTC /\ cl = IXGBE_GOTCL /\ ch = IXGBE_GOTCH
      BY <2>2
    <3> HIDE DEF p, b, cp, cl, ch
    <3> QED
      BY <3>1, CountersDiffer DEF Registered, device_stats, Counters
  <2> HIDE DEF p, b, cp, cl, ch
  <2> QED
    BY <1>1, <2>1, <2>2, Zenon
<1>p. /\ traffic' = [traffic EXCEPT ![d][p] = @ + 1, ![d][b] = @ + OCTETS]
      /\ reg' = [reg EXCEPT ![d][cp] = @ + 1, ![d][cl] = (reg[d][cl] + OCTETS) % LOW,
                            ![d][ch] = @ + (reg[d][cl] + OCTETS) \div LOW]
  BY <1>1, Zenon
<1> HIDE DEF p, b, cp, cl, ch
<1> DEFINE octets == reg[d][cl] + OCTETS
<1>o. reg[d][cl] \in Nat /\ reg[d][cp] \in Nat /\ reg[d][ch] \in Nat /\ octets \in Nat
  BY <1>3, <1>t, StatisticsAssumption
<1>4. PICK lo \in Nat, hi \in Nat :
        lo = octets % LOW /\ hi = octets \div LOW /\ lo + LOW * hi = octets
  <2>1. \A o \in Nat : \E lo, hi \in Nat :
            lo = o % LOW /\ hi = o \div LOW /\ lo + LOW * hi = o
    BY Halves, Zenon
  <2> HIDE DEF octets
  <2> QED
    BY <1>o, <2>1, Zenon
<1>5. /\ traffic' = [traffic EXCEPT ![d][p] = @ + 1, ![d][b] = @ + OCTETS]
      /\ reg' = [reg EXCEPT ![d][cp] = @ + 1, ![d][cl] = lo, ![d][ch] = @ + hi]
  BY <1>4, <1>p, Zenon
<1> HIDE DEF octets
<1>6. /\ reg' \in [Devices -> [Counters -> Nat]]
      /\ \A e \in Devices : e # d => reg'[e] = reg[e]
      /\ reg'[d][cp] = reg[d][cp] + 1 /\ reg'[d][cl] = lo
      /\ reg'[d][ch] = reg[d][ch] + hi
      /\ Same(reg'[d], reg[d], {cp, cl, ch})
  <2>1. reg' = [e \in Devices |-> IF e = d
                    THEN [c \in Counters |-> IF c = ch THEN reg[d][ch] + hi
                                             ELSE IF c = cl THEN lo
                                             ELSE IF c = cp THEN reg[d][cp] + 1
                                             ELSE reg[d][c]]
                    ELSE reg[e]]
    BY <1>3, <1>5, <1>t, Zenon
  <2>2. reg[d][ch] + hi \in Nat /\ reg[d][cp] + 1 \in Nat
    BY <1>o
  <2> QED
    BY <1>3, <1>4, <1>t, <2>1, <2>2
<1>7. /\ traffic' \in [Devices -> Stat]
      /\ \A e \in Devices : e # d => traffic'[e] = traffic[e]
      /\ traffic'[d][p] = traffic[d][p] + 1 /\ traffic'[d][b] = traffic[d][b] + OCTETS
      /\ \A f \in device_stats \ {p, b} : traffic'[d][f] = traffic[d][f]
  <2>1. traffic' = [e \in Devices |-> IF e = d
                        THEN [f \in device_stats |-> IF f = b THEN traffic[d][b] + OCTETS
                                                     ELSE IF f = p THEN traffic[d][p] + 1
                                                     ELSE traffic[d][f]]
                        ELSE traffic[e]]
    BY <1>3, <1>5, <1>t, Zenon DEF Stat
  <2>2. traffic[d][b] + OCTETS \in Nat /\ traffic[d][p] + 1 \in Nat
    <3>1. p \in device_stats /\ b \in device_stats
      BY <1>3
    <3>2. traffic[d][b] \in Nat /\ traffic[d][p] \in Nat
      BY <1>t, <3>1 DEF Stat
    <3> QED
      BY <3>2, StatisticsAssumption
  <2> QED
    BY <1>3, <1>t, <2>1, <2>2, Zenon DEF Stat
<1>8. StatsTypes'
  BY <1>2, <1>6, <1>7, Zenon DEF StatsTypes
<1>9. \A e \in Devices : \A f \in device_stats :
        BeingRead(e, f)' = BeingRead(e, f) /\ Kept(e, f)' = Kept(e, f)
  BY <1>2, Zenon DEF BeingRead, Kept, Device
<1>10. ASSUME NEW f \in device_stats
       PROVE  \E n \in Nat : /\ Registered(reg'[d], f) = Registered(reg[d], f) + n
                             /\ traffic'[d][f] = traffic[d][f] + n
  <2>1. CASE f = p
    <3>1. Registered(reg'[d], p) = reg'[d][cp] /\ Registered(reg[d], p) = reg[d][cp]
      BY <1>3, Zenon
    <3>2. /\ Registered(reg'[d], p) = Registered(reg[d], p) + 1
          /\ traffic'[d][p] = traffic[d][p] + 1 /\ 1 \in Nat
      BY <1>6, <1>7, <3>1, Zenon
    <3> QED
      BY <2>1, <3>2, Zenon
  <2>2. CASE f = b
    <3>1. LOW * (reg[d][ch] + hi) = LOW * reg[d][ch] + LOW * hi
      BY <1>4, <1>o, Halves, Zenon
    <3>2. Registered(reg'[d], b) = Registered(reg[d], b) + OCTETS
      <4>1. Registered(reg'[d], b) = lo + (LOW * reg[d][ch] + LOW * hi)
        <5>1. Registered(reg'[d], b) = reg'[d][cl] + LOW * reg'[d][ch]
          BY <1>3, Zenon
        <5> QED
          BY <1>6, <3>1, <5>1, Zenon
      <4>2. LOW * reg[d][ch] \in Nat /\ LOW * hi \in Nat /\ reg[d][cl] \in Nat
        BY <1>4, <1>o, Halves, Zenon
      <4>3. lo + (LOW * reg[d][ch] + LOW * hi) = (lo + LOW * hi) + LOW * reg[d][ch]
        BY <4>2, Swapped
      <4>4. Registered(reg'[d], b) = octets + LOW * reg[d][ch]
        BY <1>4, <4>1, <4>3, Zenon
      <4>5. Registered(reg[d], b) = reg[d][cl] + LOW * reg[d][ch]
        BY <1>3, Zenon
      <4>6. (reg[d][cl] + OCTETS) + LOW * reg[d][ch] = (reg[d][cl] + LOW * reg[d][ch]) + OCTETS
        <5>1. OCTETS \in Nat
          BY StatisticsAssumption
        <5>2. \A x, y, z \in Nat : (x + y) + z = (x + z) + y
          OBVIOUS
        <5> DEFINE low == reg[d][cl]
                   high == LOW * reg[d][ch]
        <5>3. low \in Nat /\ high \in Nat
          BY <4>2, Zenon
        <5>4. (low + OCTETS) + high = (low + high) + OCTETS
          <6> HIDE DEF low, high
          <6> QED
            BY <5>1, <5>2, <5>3
        <5> QED
          BY <5>4, Zenon
      <4> QED
        BY <4>4, <4>5, <4>6, Zenon DEF octets
    <3>3. OCTETS \in Nat
      BY StatisticsAssumption
    <3> QED
      BY <1>7, <2>2, <3>2, <3>3, Zenon
  <2>3. CASE f \notin {p, b}
    <3>1. Registered(reg'[d], f) = Registered(reg[d], f)
      <4>1. Same(reg'[d], reg[d], {cp, cl, ch}) /\ f \in device_stats \ {p, b}
        BY <1>6, <2>3
      <4> HIDE DEF Same
      <4> QED
        BY <1>3, <4>1
    <3>2. traffic'[d][f] = traffic[d][f]
      BY <1>7, <2>3, Zenon
    <3>3. Registered(reg[d], f) \in Nat /\ traffic[d][f] \in Nat /\ 0 \in Nat
      BY <1>t, PartsType DEF Stat
    <3> QED
      BY <3>1, <3>2, <3>3, NoMore, Zenon
  <2> QED
    BY <2>1, <2>2, <2>3
<1>11. Balance'
  <2> SUFFICES ASSUME NEW e \in Devices, NEW f \in device_stats
               PROVE  traffic'[e][f] = Registered(reg'[e], f) + cleared'[e][f] + Kept(e, f)'
                                       + BeingRead(e, f)'
    BY DEF Balance
  <2>1. /\ traffic[e][f] = Registered(reg[e], f) + cleared[e][f] + Kept(e, f) + BeingRead(e, f)
        /\ Registered(reg[e], f) \in Nat /\ cleared[e][f] \in Nat /\ Kept(e, f) \in Nat
        /\ BeingRead(e, f) \in Nat
    BY PartsType DEF Balance
  <2>2. /\ BeingRead(e, f)' = BeingRead(e, f) /\ Kept(e, f)' = Kept(e, f)
        /\ cleared' = cleared
    BY <1>2, <1>9
  <2>3. \E n \in Nat : /\ Registered(reg'[e], f) = Registered(reg[e], f) + n
                       /\ traffic'[e][f] = traffic[e][f] + n
    <3>1. CASE e = d
      BY <1>10, <3>1
    <3>2. CASE e # d
      <4>1. reg'[e] = reg[e] /\ traffic'[e] = traffic[e] /\ traffic[e][f] \in Nat
        BY <1>6, <1>7, <1>t, <3>2 DEF Stat
      <4>2. Registered(reg'[e], f) = Registered(reg[e], f) + 0 /\ traffic'[e][f] = traffic[e][f] + 0
        BY <2>1, <4>1, NoMore, Zenon
      <4> QED
        BY <4>2
    <3> QED
      BY <3>1, <3>2
  <2>4. PICK n \in Nat : /\ Registered(reg'[e], f) = Registered(reg[e], f) + n
                          /\ traffic'[e][f] = traffic[e][f] + n
    BY <2>3
  <2>5. cleared'[e][f] = cleared[e][f]
    BY <2>2
  <2> DEFINE r == Registered(reg[e], f)
             h == BeingRead(e, f)
             k == Kept(e, f)
             c == cleared[e][f]
  <2>6. (r + c + k + h) + n = (r + n) + c + k + h
    <3> HIDE DEF r, h, k, c
    <3> SUFFICES r \in Nat /\ h \in Nat /\ k \in Nat /\ c \in Nat
      OBVIOUS
    <3> QED
      BY <2>1 DEF r, h, k, c
  <2>7. traffic'[e][f] = (r + c + k + h) + n
    BY <2>1, <2>4
  <2>8. (r + n) + c + k + h = Registered(reg'[e], f) + cleared'[e][f] + Kept(e, f)' + BeingRead(e, f)'
    BY <2>2, <2>4, <2>5
  <2> HIDE DEF r, h, k, c
  <2> QED
    BY <2>6, <2>7, <2>8
<1>12. Reported'
  BY <1>2 DEF Reported
<1> QED
  BY <1>8, <1>11, <1>12

\* The other steps count, read and print nothing.
LEMMA QuietInv ==
    ASSUME StatsTypes, Balance, Reported,
           setup_seccomp \/ stats_init \/ Round \/ error \/ Second \/ UNCHANGED loopvars
    PROVE  StatsTypes' /\ Balance' /\ Reported'
<1>1. /\ UNCHANGED <<program, dev2, order, reg, traffic, cleared, stats, stats_old, printed>>
      /\ object' \in {object, 1} /\ reads' \in {reads, order}
  BY Zenon DEF setup_seccomp, stats_init, Round, LookAtTime, error, Second, loopvars, nicvars, reading,
         objects, StatsTypes
<1>2. todo' \in Seq(Devices) /\ (main_pc' = "clearing" => todo' # << >>)
  <2>1. CASE setup_seccomp
    <3>1. todo' \in {<<1, 1>>, <<1, 1, dev2, dev2>>, << >>, todo}
      BY <2>1 DEF setup_seccomp, StatsTypes
    <3>2. main_pc' # "clearing" /\ dev2 \in Devices /\ 1 \in Devices
      BY <2>1 DEF setup_seccomp, StatsTypes, Devices
    <3>3. todo \in Seq(Devices) /\ << >> \in Seq(Devices)
      BY DEF StatsTypes
    <3>4. <<1, 1>> \in Seq(Devices) /\ <<1, 1, dev2, dev2>> \in Seq(Devices)
      BY <3>2
    <3> QED
      BY <3>1, <3>2, <3>3, <3>4, Zenon
  <2>2. CASE stats_init \/ Round \/ error \/ Second \/ UNCHANGED loopvars
    BY <2>2, Zenon DEF stats_init, Round, LookAtTime, error, Second, loopvars, nicvars, reading, objects,
                StatsTypes
  <2> QED
    BY <2>1, <2>2
<1>3. \/ read = Zero /\ read' = Zero
      \/ read' = read /\ UNCHANGED <<main_pc, todo, object>>
  BY Zenon DEF setup_seccomp, stats_init, Round, LookAtTime, error, Second, loopvars, nicvars, reading,
         objects, StatsTypes
<1>4. StatsTypes'
  <2>1. reads' \in Seq(Counters) /\ object' \in {1, 2} /\ read' \in Stat
    BY <1>1, <1>3, OrdersType DEF StatsTypes
  <2>2. main_pc' \notin {"clearing", "reading"} => read' = Zero
    BY <1>3 DEF StatsTypes
  <2> QED
    BY <1>1, <1>2, <2>1, <2>2 DEF StatsTypes
<1>5. Balance'
  BY <1>1, <1>3, QuietBalance DEF Device
<1>6. Reported'
  BY <1>1 DEF Reported
<1> QED
  BY <1>4, <1>5, <1>6

\* Nothing is counted when the loop is entered.
LEMMA StatsInitInv == StatsInit => StatsTypes /\ Balance /\ Reported
<1> SUFFICES ASSUME StatsInit PROVE StatsTypes /\ Balance /\ Reported
  OBVIOUS
<1>1. Zero \in Stat /\ Zero \in [device_stats -> Int] /\ \A f \in device_stats : Zero[f] = 0
  BY DEF Zero, Stat
<1>2. StatsTypes
  <2>1. reads \in Seq(Counters) /\ todo \in Seq(Devices) /\ dev2 \in Devices
    BY DEF StatsInit, Devices
  <2> QED
    BY <1>1, <2>1 DEF StatsInit, StatsTypes
<1>3. Balance
  <2>1. ASSUME NEW d \in Devices, NEW f \in device_stats
        PROVE  /\ traffic[d][f] = 0 /\ cleared[d][f] = 0 /\ Registered(reg[d], f) = 0
               /\ Kept(d, f) = 0 /\ BeingRead(d, f) = 0
    <3>1. traffic[d][f] = 0 /\ cleared[d][f] = 0 /\ BeingRead(d, f) = 0
      BY <1>1 DEF StatsInit, BeingRead
    <3>2. stats[1][f] = 0 /\ stats[2][f] = 0
      BY <1>1 DEF StatsInit
    <3>3. \A c \in Counters : reg[d][c] = 0
      BY DEF StatsInit
    <3>4. Registered(reg[d], f) = 0
      BY <3>3, StatisticsAssumption DEF Registered, device_stats, Counters
    <3> QED
      BY <3>1, <3>2, <3>4 DEF Kept
  <2> QED
    BY <2>1 DEF Balance
<1>4. Reported
  <2>1. print_stats_diff(Zero, Zero) = Zero
    BY DEF print_stats_diff, diff_mpps, diff_mbit, Zero, device_stats
  <2> QED
    BY <2>1 DEF StatsInit, Reported
<1> QED
  BY <1>2, <1>3, <1>4

\* The statistics lose and repeat nothing (ixgbe_read_stats, stats_init and the main
\* loops), for every width of the registers' low half, every packet size and every
\* number of packets: a register is read and reset at once, and whatever the device
\* counts between two reads stays for the next report.
THEOREM StatisticsCountOnce == LoopSpec => []CountedOnce
<1>1. StatsInit => StatsTypes /\ Balance /\ Reported
  BY StatsInitInv
<1>2. (StatsTypes /\ Balance /\ Reported) /\ [LoopNext]_loopvars
        => (StatsTypes /\ Balance /\ Reported)'
  <2> SUFFICES ASSUME StatsTypes, Balance, Reported, [LoopNext]_loopvars
               PROVE  StatsTypes' /\ Balance' /\ Reported'
    OBVIOUS
  <2>1. CASE ReadRegister
    BY <2>1, ReadRegisterInv
  <2>2. CASE ReadDone
    BY <2>2, ReadDoneInv
  <2>3. CASE Report
    BY <2>3, ReportInv
  <2>4. CASE NicCounts
    BY <2>4, NicCountsInv
  <2>5. CASE setup_seccomp \/ stats_init \/ Round \/ error \/ Second \/ UNCHANGED loopvars
    BY <2>5, QuietInv
  <2> QED
    BY <2>1, <2>2, <2>3, <2>4, <2>5 DEF LoopNext, Loop
<1>3. StatsTypes /\ Balance /\ Reported => CountedOnce
  BY BalanceIs
<1> QED
  BY <1>1, <1>2, <1>3, PTL DEF LoopSpec
=============================================================================
