# A TLA+ model of ixy

ixy is a userspace driver for Intel ixgbe network cards: the process maps the
registers of the card, allocates DMA memory, and exchanges packets with the card
over descriptor rings. There is no interrupt and no lock between the two sides;
correctness rests on who owns a descriptor or a buffer at each moment, and on
the order in which registers are written. This directory models the driver from
`pci_map_resource` to the packet loops, the memory and the allocators behind it
and the applications on top. Paths below are relative to the repository.

## The system and its parts

| part | code | modules | checked / proved |
|---|---|---|---|
| transmit path | `src/driver/ixgbe.c` (`init_tx`, `start_tx_queue`, `ixgbe_tx_packet`), `ixgbe.cpp` | TxQueue, TxChannel, Descriptors | both |
| receive path | `src/driver/ixgbe.c` (`init_rx`, `start_rx_queue`, `ixgbe_rx_packet`), `ixgbe.cpp` | RxQueue, RxChannel, Descriptors | both |
| packet buffer pool | `src/memory.c` | Mempool | both |
| ring indices | `inc_and_wrap_ring`, the size test of `start_*_queue` | Ring, RingMask | both |
| device initialisation | `ixgbe_init` and all it calls, `device.h`, `device.hpp`, `ixgbe.cpp` | Device, Ixgbe, IxgbeCpp, DeviceInit, Startup | checked |
| device registers | `src/driver/ixgbe_type.h` | Registers, RegisterSpace, RegisterMap | checked |
| PCI access | `src/pci.c` | PciAccess | both |
| DMA memory | `memory_allocate_dma`, `virt_to_phys`, `dma_allocator.c` | HugePages, DmaMemory | both |
| sequential allocators | `stack`, `fallback`, `null`, `mallocator`, `dma_allocator` | HugePages, AllocatorOps, Allocators, AllocatorExample | both |
| thread-safe allocator | `src/allocator/spinlock_stack_allocator.c` | SpinlockStack, AtomicStack, AllocatorOps | both |
| spinlocks | `src/allocator/rte_spinlock.h` | SpinlockStack, RecursiveSpinlock, RecursiveMutex | both |
| packet generator | `src/app/ixy-pktgen.c` | PktGen, Statistics | both |
| forwarders | `src/app/ixy-fwd.c`, `ixy-cpp-fwd.cpp` | Forward, Statistics | both |
| statistics | `src/stats.c`, `stats.cpp`, `ixgbe_read_stats` | Statistics | both |
| system call filter | `src/libseccomp_init.c` | Statistics | checked |
| logging | `src/log.h` | - | the end of the process in `error()` only |

How they interact: an application calls `ixgbe_init` (Startup = PciAccess, then
DeviceInit), which allocates rings and pools (DmaMemory, Mempool); its loop then
calls the packet functions (RxQueue, TxQueue; Forward composes one of each,
PktGen drives one) and now and then the statistics (Statistics). The allocators
stand beside this; only `allocator-example` uses them so far.

Four modules only put models together for TLC: MCHardware, MCMemory and
MCApplications each hold models that share no state, and a variable `part` picks
the one that moves; MCTransmit has the transmit queue with either of its two
clients. They extend the modules that are also proved about and instantiate the
others.

## How the models are built

A handler is cut into steps at every access to something another party can
touch: a descriptor in DMA memory or a register for the driver, the shared
structure for the threads of an allocator, a file for the processes in `pci.c`.
Work on private fields is grouped with the neighbouring access. A variable `pc`
(or `prog`, the operations left) says where the handler is.

Data is abstracted to what ownership depends on. A buffer is its number in the
pool, and a descriptor word holds the buffer it was written for, so "the
descriptor is complete" means that all its words name one buffer. A received
packet is what the descriptor reports of it. `NULL` is the null pointer and, in
a descriptor, whatever no driver wrote. Where a property is about bits they are
there: the words of a descriptor (Descriptors), register addresses and masks
(Registers, RegisterMap), the mask of the ring index (RingMask).

The card is external: its actions come from how the driver uses it. It owns the
descriptors from head to tail, processes them in order at any time, and reports
transmitted ones in batches of any size; it *owes* a report only once `WTHRESH`
descriptors are done. It resets, grants enable bits, and finds a link at a time
of its choice.

Operators whose comment starts with *mutant* are alternatives to the definition
after them, each a slip the code could have; nothing uses them in the models.
They document what each property would catch.

### TxQueue

State: `clean_index`, `tx_index`, `virtual_addresses` (the queue's fields),
`descriptors`, the registers `TDT` and `TDH`, the card's `wb_index` (next
descriptor to report) and `wire` (buffer sent last), the call (`pc`, `buf`), and
`held`, the buffers the application owns. One variable stands for the queue's
`clean_index` and the local of the same name, since only one thread uses the
queue; for the same reason `tx_index` moves together with the tail register.

| action | code |
|---|---|
| TxCall | entry of `ixgbe_tx_packet` |
| TxClean | one round of the clean-up loop that finds DD |
| TxFull | the queue is full, return 0 |
| TxEnqueue | remember the buffer in `virtual_addresses` |
| TxWriteDesc | the three stores to the descriptor, one step each |
| TxTail | write the tail register, return 1 |
| NicTransmit, NicWriteBack | the card |
| AppAlloc, AppFree | the client between calls |

The client is the most general one that uses only buffers it owns. `TxChannel`
is the contract: a bounded FIFO that takes a buffer over, sends it and hands it
back. `ImplementsChannel` states the refinement, with the FIFO read off the
ring from `clean_index` to `TDT`.

### RxQueue

`start_rx_queue` (fill loop, enable bit and its wait, head, tail) and the steps
of `ixgbe_rx_packet`: read the status, copy the descriptor and allocate, write
`pkt_addr`, write `hdr_addr`, move the tail. Both `error()` paths end in `pc =
"aborted"`. The address in a descriptor is a buffer and an offset, `header` or
`data`; `landed` and `clobbered` record where the card really wrote. Once an
application gives back a buffer whose header was overwritten, `pkt_buf_free`
follows a pointer made of packet data, and the model stops in `"undefined"`.
As the code stands every buffer that is returned was posted at its header, so
the ordinary branch of `AppFree` is never taken. `RxChannel` is the contract: a
bounded FIFO of packets.

### Forward, PktGen

PktGen extends TxQueue: the two loops of `init_mempool`, then for ever
*allocate, call until taken*. The client of TxQueue may by definition send and
free only what it owns. `main` has no such guard here: it passes on the pointers
in its variables (`bufs`, `packet`), and neither `pkt_buf_free` nor the entry of
`ixgbe_tx_packet` looks whose they are. `KeepsTxRules` says that it behaves like
that client all the same, so that what is proved of TxQueue holds here; a
generator that went on using a buffer the queue has taken would not. A
`pkt_buf_alloc` that fails is used unchecked and ends in `"crashed"`. The pool
(2048 buffers) is larger than the ring (1024), which is an assumption.

Forward extends RxQueue and instantiates TxQueue over the same pool: poll one,
send on the other, forget the result. The packets it forwards come from
`start_rx_queue`'s buffers, whose headers the card has overwritten; the first
time the transmit clean-up frees one the model is in `"undefined"`, so behaviours
are shorter than the code's author would expect. The C++ forwarder takes the
same steps.

### Device, Ixgbe, IxgbeCpp, DeviceInit, Startup, PciAccess

Device has the register functions of `device.h` as operations (`set`, read-
modify-write in two steps, the two waits) and the card that answers. A driver
function is the sequence of its operations; Ixgbe and IxgbeCpp give one per
function, named after it. An earlier user of the card left all bits of its
registers clear or all set, and `era` tells before from after the reset. The
queue structures are kept as 8-byte words, because the code indexes an array of a
structure with a flexible member.

PciAccess is `pci_map_resource` by several processes: unbind, read and write of
the command register, map. Startup joins it to DeviceInit. The link comes up or
fails only while the driver waits for it: nothing else reads `LINKS`, so an
earlier change could not be told from one at the first poll.

### Registers, RegisterSpace, RegisterMap, Descriptors, RingMask

Registers has the macros the driver uses, RegisterSpace the addresses of the
other registers in the groups those come from, and RegisterMap checks all pairs
of the 64 queues. Descriptors has both formats of a descriptor with their bytes
lying over one another, and one slot of each ring used lap after lap with every
length. RingMask has the macro and the size test bit by bit.

### HugePages, DmaMemory, AllocatorOps, Allocators, AllocatorExample

DmaMemory is `memory_allocate_dma` and the DMA allocator, one system call per
step, by the threads of one process, which may end at any step that can fail; the
kernel gives out any free huge pages. HugePages has what this and the allocators
share, the page size and the rounding to it. AllocatorOps has the functions of
the allocators as functions on the state of memory, with addresses as small
numbers so that blocks may lie next to one another. There the DMA allocator has
room for one mapping at a time, a bound: a second request while the first is in
use ends the process, as it does when the huge pages run out. Allocators composes
a stack over any parent and a fallback allocator before any secondary.
AllocatorExample runs the calls of `allocator-example.c` with every outcome of
`malloc`.

### SpinlockStack, RecursiveSpinlock

`allocate` and `deallocate` by several threads: the outer test-and-set, the
inner spin, reading and writing `free_stack_top`, reading and writing the
array, the unlock. Blocks may be freed by another thread than the one that
allocated them. `Foreign` is a set of entry ids that a mistaken caller passes.
`AtomicStack` is the contract: pop and push in one step.

RecursiveSpinlock has lock, trylock and unlock with `user` and `count` read
and written in steps of their own. `RecursiveMutex` is the contract.

### Statistics

The loops of the three programs around their packets: `setup_seccomp`, the look
at the clock every 4096 rounds, `ixgbe_read_stats` register by register on
counters that a read clears, in either order of the operands of `+`, and the
reports. The filter is the set of rules; a call outside it ends the process.

## The runs

| run | instance | shows |
|---|---|---|
| `transmit` | ring 4, pool 4, WTHRESH 3; any client, and the generator | ring order; complete descriptors; DD means sent; one owner per buffer; the call returns; refinement of TxChannel; in the generator the unchecked allocation succeeds, the retry loop ends, refinement of TxQueue |
| `rx_queue` | ring 4, pool 12, 2 packets | DD means received; posted buffers are exclusive; the driver keeps off the card's descriptors; the ring is refilled; refinement of RxChannel |
| `spinlock_stack` | 3 threads, 2 entries | mutual exclusion; each entry in one place; the lock moves on; refinement of AtomicStack |
| `hardware` | either driver, one queue each way, 2 processes; 64 queues; ring sizes to 4096; lengths to 1984 | no DMA before it is safe; no setting lost to the reset; the receiver is off while it is configured; start-up ends; a mapped device works; registers do not overlap; mask = modulus; DD tells; words mean what was meant |
| `memory` | 2 threads and 3 calls on 4 huge pages; every combination of allocators, and the example, in 9 cells with 2 entries; 3 threads nesting the recursive lock twice | disjoint memory; blocks disjoint, returned to where they came from, nothing left; the example's checks; the owner of the lock never waits for itself; refinement of RecursiveMutex |
| `applications` | rings 4, pool 8; 3 packets counted, look at the clock every 2nd round | the forwarder goes on receiving; each packet counted once; reports keep coming |
| `rx_maps_back`, `rx_headers` | ring 2, pool 6 | violated, see below |
| `spinlock_range` | 1 thread, 2 entries, foreign id 2 | violated, see below |
| `forward_frees` | rings 4, pool 8 | violated, see below |
| `dma_contiguous` | 1 thread, 3 huge pages | violated, see below |
| `several_queues` | either driver, two queues each way | violated, see below |

Bounds. A ring of 4 can be full, empty and half-way, and wraps within a few
packets; a pool of 4 lets the ring fill up (3 descriptors) with one more buffer
in hand to be refused. It is also the smallest pool the generator works with, and
3 the largest threshold. No behaviour of the transmit models is cut off: the
state space is finite. In `rx_queue` the pool bounds the run, as it does in the
code: 12 buffers are 4 to fill the ring and 8 packets, two laps; the forwarder's
8 are enough for a packet to find its transmit ring full. `hardware` uses the
real addresses, bits and lengths and needs no bound but one queue each way (see
*Deviations*), a ring of 4 and a choice of lengths: the words are put together
bit by bit, and the chosen lengths set and clear every bit. In `memory` four
pages are enough for two allocations that interleave; the cells of slack behind
the stack let a malloc block lie right behind it. In `applications` three packets
of 2 octets overflow a low half that holds 3, where the real one holds 2^32, and
a look every 2nd round stands for 4096. Symmetry is not used: the runs with
threads also check liveness or refinement.

Deadlock is not checked where the system may rest: a client that does not call,
a process that ended, an initialisation that returned. The transmit queue with
its clients and the users of the recursive lock must always be able to go on, and
deadlock is checked there (in `memory` the other parts may stutter instead).

Fairness. The thread inside a call keeps running (the code has no blocking call
there), the loops of the applications too. The card sends what is published and
reports when `WTHRESH` descriptors are done, no earlier; it completes a reset,
the EEPROM read, the DMA initialisation and the grant of an enable bit, as the
unbounded waits of `device.h` expect; it need not find a link, since
`wait_for_link` gives up. In RxQueue the application polls for ever, as the
forwarders do; packets may or may not arrive. In Forward nothing is asked of the
transmitting card. In SpinlockStack every thread inside a call is scheduled;
nothing favours a thread that spins, so only progress of *some* thread is
claimed. In Statistics time passes.

### What the violated properties show

* `MapsBack`: `ixgbe_rx_packet` posts a new buffer but does not store it in
  `virtual_addresses`, so from the second lap on it returns a buffer the packet
  is not in.
* `HeadersIntact`: `start_rx_queue` posts the address of the buffer instead of
  its data, so the first packet in each of these buffers overwrites the header.
* `RangeChecked`: `deallocate` accepts the id one past the last entry.
* `TransmitFrees`: `ixy-fwd` says that the transmit function frees the packet;
  it does not when the ring is full, and nobody else does.
* `BlocksContiguous`: `memory_allocate_dma` is to return memory for DMA, and
  `memory_allocate_mempool` computes the address of every buffer from that of the
  first page (`memory.c:78`); but the huge pages of a block need not follow one
  another, and unlike the DMA allocator the function does not look. A pool of
  2048 buffers has two pages.
* `QueuesApart`: the repository's README promises several queues, but `rx_queues`
  is indexed as if its structures had no array at the end (`ixgbe.c:55`, `:142`,
  `:287`), so the buffers of queue 0 are stored over the structure of queue 1.

### Deviations the models reproduce

The models follow the code in these places as well; no run is devoted to them.

* `ixgbe.c:176` sets up the transmit queues in a loop over the number of receive
  queues: with one receive and two transmit queues `DmaOnlyWhenReady` fails.
  With one queue each way this does not show.
* `ixgbe.cpp:176` passes value and register to `set_reg32` in the wrong order
  (SwappedRead, SwappedWrite): the link mode stays as it was.
* `pci.c:46`: the lock is commented out, so several processes may go on to use
  one device. `MappedDeviceWorks` is about their way there only.
* `memory.c:44-52`: when the process ends inside a call, or in another thread
  meanwhile, the file of the call is left behind, and nothing removes it later.
* `stack_allocator.c:77`, `spinlock_stack_allocator.c:89`: the parent gets back
  the size that was asked for, not the one it gave. A DMA parent refuses it when
  the two differ (`munmap` takes whole huge pages), and `BlocksGoHome` would fail.
  `AllocatorsAssumption` demands a stack that fills its huge pages, in the
  `memory` run and in the proofs.
* After `setup_seccomp` a message to standard error ends the process before it
  is seen.

## The proofs

Proved with TLAPS, for every value of the constants the assumptions allow (a
ring size that is a power of two from 2 to 2^15, a pool of at least one buffer,
any threshold below the ring size, any packets; any set of threads or processes,
any number of entries, any nesting; any size of memory, of a stack and of a
request):

| module | theorems |
|---|---|
| QueueLemmas | lemmas on the modulus, on windows of slots and the FIFO in them, on the set of free buffers |
| TxQueueProofs | `[]P` for `TypeOK`, `RingOrder`, `PublishedComplete`, `DDMeansSent`, `OneOwner`; refinement of TxChannel |
| RxQueueProofs | `[]P` for `TypeOK`, `DDMeansReceived`, `PostedExclusive`; the action properties `DriverKeepsOff`, `TailNeverMeetsHead`; refinement of RxChannel |
| PktGenProofs | `[]PoolNeverEmpty`; the generator refines TxQueue (`KeepsTxRules`) |
| ApplicationProofs | both queue invariants in the forwarder (`FwdInductive`); the forwarder gives no buffer back to its pool (`ForwarderFreesNothing`) |
| SpinlockStackProofs | `[]MutualExclusion`; `[]OnePlace`; refinement of AtomicStack |
| AllocatorProofs | `[]P` for `BlocksDisjoint`, `BlocksGoHome`, `NothingLeft` (Allocators) and for `ChecksPass` (AllocatorExample); exclusion, `[]ReentryNeverWaits` and refinement of RecursiveMutex (RecursiveSpinlock) |
| SystemProofs | `[]MappedDeviceWorks` (PciAccess); `[]MemoryDisjoint` (DmaMemory); `[]CountedOnce` (Statistics); `[]DDTells`, `[]WordsMeant` (Descriptors) |

**TxQueue.** None of the properties is inductive alone. That the clean-up loop
frees only sent buffers needs the DD bit to be right in the ring; that needs the
contents of every descriptor in the ring (`RingContents`) and what the call has
written so far (`CallState`); both need the order of the four positions, and the
order needs the DD test. `QueueInv` is the conjunction, and every step of the
queue and of the card preserves it by itself (`StepInv`). `IInv` adds `OneOwner`,
which supplies that the buffer being freed is not free already.

**TxChannel, RxChannel.** The refinement mappings read a FIFO off the ring, from
one index to another around the end of the array. QueueLemmas has what happens
to such a sequence when one of the indices moves (an element is appended, the
first one is dropped) and when a slot outside it is written. With these and the
inductive invariants every step of a ring is a step of its channel or none. Both
contracts are safety: their specifications have no fairness.

**PktGen.** That a step of `main` is one TxQueue allows has to be shown, since
its pointers are unguarded. `MainInv` says what they are worth at each place: in
`init_mempool` the array holds the buffers taken so far, each once, and the pool
the others; in the loop `packet` is owned from its allocation until the queue
takes it, and nothing else is. With `IInv` of TxQueue it is inductive. If
`pkt_buf_alloc` found the pool empty, `OneOwner` would place every buffer in the
ring, which has one slot fewer than the pool has buffers: a counting argument
(`PoolOutlastsRing`).

**Forward.** The invariants of the two queues do not carry over as they are: the
buffers of one queue are in the hands of the other, so `OneOwner` of the transmit
queue is false here, and a received packet lies in a buffer whose header may be
overwritten. `FwdInv` has `RxInv` and `QueueInv` side by side, that a step of one
queue leaves the variables of the other alone up to the pool, and
`SendsClobbered`: every buffer in the transmit ring was received with its header
overwritten. The clean-up therefore never puts one back into the pool: the
attempt is where the behaviour ends, in `"undefined"`. `ForwarderFreesNothing`
states this consequence of `MapsBack` and `HeadersIntact` together, for every lap
and every size. The lemmas of
TxQueueProofs are used by instantiating that module.

**RxQueue.** `RxInv` joins where driver and card are (`Phases`), what each slot
holds according to whether the card filled it (`Contents`), where each buffer is
(`Buffers`) and how far the reset of a slot has come (`Reset`). The reset is the
hard part: the slot's address already names the new buffer while its status
still reports the old packet.

**SpinlockStack.** `OnePlace` needs `TypeOK`, exclusion (`LockInv`) and `InCall`:
what a thread's copies of the top and of the block are worth at each label. That
a push finds room is again counting (`RoomToPush`): an entry in hand is not on
the stack. The theorem assumes `NoMistake`, that no block right behind the stack
is given to it, since that is what `RangeChecked` shows to be accepted. Under the
same condition the stack implements AtomicStack: `allocate` takes effect when it
lowers `free_stack_top`, `deallocate` when it stores the entry.

**RecursiveSpinlock.** `Knows` says what a thread may conclude from where it is;
it makes the test of `user` outside the lock reliable, because the unlock clears
`user` before it opens the lock.

**PciAccess.** `PciInv`: past the unbinding no driver is bound, and every copy
of the command register that is written back still has the memory bit.

**DmaMemory.** The fetch-and-add gives the ids out once. `DmaInv` adds that every
id in use is below the counter, that a file has the id of a call under way or of
one that failed (`FilesOwned`), and that it is empty until the `mlock` of the one
thread with its id (`OwnFile`): so `mlock` always takes free frames and never the
ones of a file it found.

**Statistics.** `CountedOnce` is nearly inductive. `Balance` states it field by
field, with the two halves of an octet count put together; `StatsTypes` adds the
types and that nothing has been read outside `ixgbe_read_stats`, so that nothing
moves from one device to the other when the loop goes on to the next. The reports
add up because each starts from the values of the one before (`ReportsAdd`).

**Descriptors.** For `DDTells` the driver tests bits 64, 65 and 96 of the 128.
The proof follows them through the stores: a store changes the bits of its field
only, the payload length is shifted past bit 96, and `hdr_addr` lies over 64 and
65. For `WordsMeant`, `SlotHolds` says what is in the slot after each store; it
rests on two lemmas, that loading a field gives back the bits stored in it when
they fit, and that a store leaves a field alone that it does not overlap. The
assumption is that lengths fit 16 bits and are the number their bits make, and
that addresses fit 64 bits.

**Allocators.** `ClientInv` says where every block is: what `malloc` and the DMA
memory gave out is apart (`GivenApart`), the free list holds entries of the stack
once each (`StackSound`), and a block the client holds is one of those entries,
not on the free list, or a block of the secondary (`HeldSound`). The last part is
what `BlocksGoHome` needs: `owns` of the fallback allocator decides by address,
so blocks that `malloc` placed right behind the stack must be told apart from its
last entry. A stack whose parent is the DMA allocator is assumed to fill whole
pages (see *Deviations*).

**AllocatorExample.** The program is a sequence with as many calls as the stack
has entries. `ExampleInv` gives the state at each line: nothing is taken, one
block is, or there is a stack with a number of free entries that the line
determines.

There is one lemma or step per action and under it one step per conjunct that
the action can disturb. TLC was run on each inductive invariant first.

Model-checked only:

* liveness (`CallReturns`, `RetrySucceeds`, `RingRefilled`, `LockMoves`,
  `StartupEnds`, `KeepsReceiving`, `ReportsKeepComing`): fairness and `ENABLED`
  are outside the prover's reach;
* the start-up of the device (`DmaOnlyWhenReady`, `ConfigurationSurvives`,
  `RxOffWhileConfigured`): the driver's program is data there, put together from
  sequences, and what holds at each of its operations is an induction over them;
* what is computed on numbers and their bits (`MaskIsModulus`, `NoOverlap`): the
  bitwise operators are recursive. The run covers all ring sizes and all queues,
  so nothing is left to prove.

## What is not modelled

* The rest of `ixgbe_type.h`, the vendor's header: definitions nothing in the
  repository uses.
* The static-dispatch wrappers of `device.hpp` that are never instantiated,
  `print_stats`, `hexdump`, `min` and `max`: no caller.
* The checks of the programs' arguments, the parsing of PCI addresses, the
  wording of messages, and floating-point rates (reports are in packets and
  bits, and the time cancels out).
* The contents of packets, and the arithmetic of `/proc/self/pagemap`: a huge
  page has a frame number.
* Builds without `assert`. `enable_dma` makes its system calls inside asserts;
  the models are of the default build (`cmake .`), which keeps them, and take
  them to hold.
* Weak memory: the lock operations have acquire and release semantics, and the
  driver's stores to descriptors and registers are taken in program order, as
  the compiler barriers and uncached mappings on x86 make them.
