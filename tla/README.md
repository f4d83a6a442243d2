# A TLA+ verification project for yasouos

yasouos is a small single-threaded kernel for RISC-V, ARM64 and AMD64 virtual
machines.  It scans for devices, hands them to applications through a resource
manager, and drives network cards and an entropy device by polling.  Nothing in
the kernel runs concurrently with itself: no interrupts, no threads.  What does
run concurrently is the *device*, which reads and writes the same memory between
any two instructions of a driver, and the *network*, which loses, repeats and
reorders what the applications send.  This is where the hard behaviour is, and
what most of these modules are about.

The modules are checked with TLC on small instances, and every safety invariant
that is expected to hold is proved with TLAPS for all instances.  Three statements of the code's
comments and headers that do not hold have a run each that shows it.  `PROJECT.json` lists components, runs, the map from definitions to source
lines, the seeded faults (one per property), findings, hazards and theorems.

## 1. Inventory

| Component | State | Operations | Interacts with |
|---|---|---|---|
| Resource manager (`kernel/resources`) | static pool of 16 records, linked list of allocations, device list | `resources_set_devices`, `resource_acquire_available`, `resource_release` | reads the scanned device list; calls `init_context` and `deinit_context` of the drivers |
| virtio-net (`drivers/virtio_net`) | two queues in memory shared with the device, `tx_desc_in_use`, last used indices | `init_context`, `deinit_context`, `receive`, `transmit`, `reclaim_tx` | device by shared rings; applications by polling |
| virtio-rng (`drivers/virtio_rng`) | one queue, one buffer, `desc_in_use` | `init_context`, `deinit_context`, `read` with a bounded busy wait | device by shared ring |
| e1000 (`drivers/e1000`) | two descriptor rings, head and tail registers | `init_context`, `receive`, `transmit` (`deinit_context` is empty) | device by descriptor status bits and registers |
| rtl8139 (`drivers/rtl8139`) | byte ring, CAPR, four transmit descriptors over one buffer | the same | device by ring and registers |
| FDT walk and registry (`kernel/platform/fdt_parser.c`, `kernel/devices/devices.c`) | one `current_device` with two flags, 128 registry entries, tree pointers; `in_chosen` and `bootargs` of the other walk | `devices_scan`, `fdt_enumerate_devices`, callbacks, `build_tree_hierarchy`, `fdt_get_bootargs` | virtio-mmio probe; the devices go to the resource manager, the command line to logging and `init_apps` |
| PCI enumeration (`kernel/devices/devices_{riscv,arm64,amd64}.c`) | `next_mmio_address`, the BAR registers of every slot | slot scan, size probe, BAR assignment, BAR selection | configuration space; result goes to the registry |
| Kernel entry and application start (`kernel/kernel.c`, `kernel/init_apps.c`) | position in the command line | `kernel_main`, the loop over `app=` parameters | calls everything else |
| netdev layer and MAC applications (`apps/netdev-mac`) | static contexts and an index per driver, `device_count` per application | `netdev_acquire_all`, `app_mac_*` | the resource manager |
| random (`apps/random`) | acquired devices, round-robin index, generator state | `random_hardware_init`, `random_get_bytes` | the resource manager, virtio-rng |
| Logging (`common/log.c`) | 32 tags, 16 overrides, a global level | `log_init`, `log_register` | every component registers its tag, at its own time |
| HTTP server (`apps/http-hello`) | a counter of initial sequence numbers, nothing else | one answer per frame: ARP, SYN, data, FIN | clients, by frames |
| packet-print, arp-broadcast, illegal-instruction | none | polling loop until a request is handled; one round; an exception | netdev layer |
| Protocol headers and byte order (`apps/network`, `common/byteorder`) | none | pure functions | the applications |
| Platform code, common library | none | I/O, strings, printing | all |

What is hard here, and the property that makes each part correct:

* **Ownership across a shared ring.**  Between filling, publishing, the device's
  work, the return and the reclaim a descriptor must be in exactly one place; the
  16-bit counters wrap while it travels, and over PCI the ring is longer than the
  table of descriptors.  (`TxOwnership`, `RxOwnership`, `KeepsDescriptors`)
* **Delivery.**  An accepted frame leaves once, unchanged, in order: refinement of
  the abstract `FrameFifo`.  (`SendsEveryFrame`, `ReceivesInOrder`, `SendsIntact`)
* **Error returns in the middle of a call.**  A refused frame has been consumed but
  its descriptor not given back.  (`KeepsDescriptors`, `RingsAgree`,
  `KeepsReceiving`)
* **A time-out and its late answer.**  (`FreshBytes`, `LagIsTimeouts`)
* **Initialisation of a device that was used before, or by a context that failed on
  another device.**  (`LiveIffInitialized`, `QueuesReady`, `DmaConfined`,
  `FirstFrameIntact`, `FirstFrameArrives`)
* **The read offset of a byte ring** after a frame, its CRC and the wrap.
  (`FirstFrameIntact`; violated: `EveryFrameIntact`)
* **Partial failure in the pool.**  A failing `init_context` after a slot was taken,
  a pool at its limit, releases from anywhere in the list.  (`ListIsPool`,
  `Exclusive`, `HeldStable`, `AcquireReturns`)
* **State that outlives what it describes.**  The walk's one `current_device` and its
  `in_chosen`; the BAR value that was written but not what the register holds.
  (`SoundReports`, `LeavesReported`, `BoundedReports`, `BootargsOfChosen`,
  `ReportsDecoded`, `NoOverlap`; violated: `OnlyChosenArgs`)
* **Static state of applications that are started again.**  Context arrays and their
  indices, the round robin over devices that become more, log tags that register
  one by one after the parameters that set their level were read.  (`EntriesLive`,
  `AcquiresAll`, `HonoursManager`, `TagLevels`, `Halts`)
* **A server without memory on an unreliable network.**  Every answer is derived from
  the frame alone; a repeated SYN gets another initial sequence number, a repeated
  request another response.  (`Streams`, `Service`, `Closes`, `FramesVerify`)

## 2. Modules

| Module | Models | Variables and actions against the code |
|---|---|---|
| `Resources` | `resources.c` | a record of the pool is an index, its fields are functions (`in_use`, `device`, `driver`, `context`, `next`); `Listed` is what a walk from `allocations` visits.  The acquisition loop is one action per exit of its body; it is split at the call of `init_context`, where control leaves the manager.  `live` records which memory each device was told to work on |
| `BootProofs` | | inductive invariants and theorems of `Resources`, `Boot` with `Log`, and `HttpHello` with `Codec`: the manager and the applications on top of it |
| `BringUpProofs` | | the same for `DeviceScan`, `PciBars` and `VirtioInit`: what happens to a device before an application has it |
| `VirtioNetTxProofs`, `VirtioNetRxProofs`, `VirtioRngProofs`, `E1000Proofs`, `Rtl8139Proofs` | | the same for the driver each is named after |
| `RingTheorems` | | lemmas on wrapping counters, rings, sequences and least numbers that the proofs share |
| `FrameFifo` | abstract | what one direction of a network driver promises: a bounded FIFO, with discards for a receiver that may fail and a reset |
| `VirtioNetTx`, `VirtioNetRx` | `virtio_net_transmit`, `_reclaim_tx`, `_receive` | one action per access to shared memory, in program order; `RingSize` is fixed in the initial state (MMIO or PCI layout).  Device steps are external: take, send or fill, return |
| `VirtioRng` | `virtio_rng_read` | request, kick, poll with `Timeout` or `Answer`, copy.  Bytes are abstracted to fresh or already returned |
| `VirtioInit` | both `init_context` handshakes, both transports | one action per phase and per failure return; two candidate devices share one context, as in the acquisition loop; each queue of a device has a size of its own |
| `E1000` | both rings | `WriteRDT` and `WriteTDT` are steps of their own, so the device acts between the descriptor and the tail; re-initialisation is two steps because the receiver stays on |
| `Rtl8139` | ring of words and transmit descriptors | header, data and CRC are cells of the ring; the driver reads what stands at its offset, whatever that is |
| `DeviceScan` | both FDT walks, probe, registry | one action per token; the tree is built by the environment, so all trees up to the bound are checked, also cut short.  `fdt_get_bootargs` walks the same tokens with state of its own (`cmdline`), so each token is given to both walks |
| `PciBars` | three enumerators | slot by slot, BAR by BAR; the platform is chosen in the initial state |
| `Log` | `log.c` | its static state is a record, its operations are operators on it; the loop of `log_init` over the command line is a recursive function of the position |
| `Boot` | `kernel_main`, `init_apps`, `netdev.c`, `mac_*.c`, `random.c`, the start and end of the other applications | EXTENDS `Resources`, instantiates `Log`; `pc` is where control is, each call of `resource_acquire_available` goes through the manager's own actions |
| `Codec` | `byteorder`, `ipv4.c`, `tcp.c`, the response builder of `http_hello.c` | operators on sequences of bytes; fixed text is any text of its length |
| `RequestReply` | abstract | what the HTTP server promises: every request answered once, nothing else |
| `HttpHello` | the loop of `app_http_hello` | `Receive` is one pass of the loop; `Replies` is the set of frames it sends.  The clients and the network are external: ARP, connect, request, close, retransmission; loss, repetition, reordering |
| `MC*` | | constants for TLC |

`FrameFifo` is implemented by `VirtioNetTx`, `VirtioNetRx`, `E1000` (twice) and
`Rtl8139`.  `VirtioInit` is the `init_context` that `Resources` calls as one step:
its `LiveIffInitialized` is what justifies that in `Resources` a failed
initialisation leaves `live` unchanged and a release by a quiescing driver clears
it; e1000 and rtl8139, whose `deinit_context` is empty, are the drivers outside
`Quiescing`.  `DeviceScan` and `PciBars` produce the list that `Resources` takes as
`DeviceList`.  `PciBars`, `VirtioInit` and `HttpHello` name their specifications
`PciSpec`, `HandshakeSpec` and `HttpSpec`, so that a module of proofs can extend them
together with another.  `Boot` is the manager's environment: `Resources` assumes a caller that
never passes a context in use (`Acquire`), and `HonoursManager` (a boot is a
behaviour of `Resources`' `Spec`) shows that the applications are such callers, so
that what is proved of the manager holds in every boot.  `HttpHello` is what runs
when `Boot` is at http-hello, and implements `RequestReply`.

Operators with the suffix of a fault (`Reclaim_one`, `Drop_stay`, ...) are seeded
faults: plausible mistakes in the definition that follows them.  They are used
only to confirm that each property can fail.

## 3. Runs

| Run | Question | Answer |
|---|---|---|
| `resources` | can any order of acquisitions, failing initialisations and releases leak a slot, cut the list, give a device to two holders or leave a device writing into released memory? | no; and every acquisition returns |
| `vnet_tx` | are frames lost, doubled, mixed or stuck when the device completes in any order and the counters wrap? | no |
| `vnet_rx` | the same for receive, with frames the length checks refuse | in order and intact; each refused frame costs one descriptor for good |
| `vnet_rx_weak` | and on a CPU that reorders loads (MMIO transport)? | **violated** (`KeepsDescriptors`): a good frame is refused, its descriptor lost |
| `vrng` | what does a read return before and after a time-out? | new bytes until the first time-out; afterwards the answers lag by the number of time-outs; no descriptor is kept |
| `e1000` | what can stop or corrupt a ring? | nothing but a transmit ring filled to the last descriptor, a ring's worth of failed receives in a row, and a frame that arrives during re-initialisation |
| `rtl8139` | what is guaranteed after initialisation? | the first frame, and transmission until calls overlap |
| `rtl8139_receive` | is every frame returned one that was received? | **violated** (`EveryFrameIntact`): the second call reads the CRC of the first frame as a header |
| `bringup` | scan: does the registry describe the tree, and is the command line that of `/chosen`? | every entry describes one node, no leaf is lost, order and multiplicity are bounded; the bootargs of `/chosen` where no node below it has any, or none when the block is damaged |
| | PCI: are BARs disjoint, inside the window and reported as decoded, on all three platforms? | yes; on arm64, which does not align, for the addresses that happen to be aligned |
| | handshake: after a failed handshake and a second device, is exactly the right device running on exactly the right queues? | yes, where the queue size can be agreed on |
| `scan_bootargs` | and where a node below `/chosen` has bootargs? | **violated** (`OnlyChosenArgs`): it is taken, in place of those of `/chosen` too |
| `boot` | do whole boots keep the manager's terms, and end? | yes: every entry works, no usable device is left behind, levels are those of the command line, and the kernel halts unless http-hello serves |
| `http` | is every request answered exactly once, and every close acknowledged, over a bad network? | yes, within the stated faults; every segment verifies at its receiver |

The three violations are the findings of `PROJECT.json`.  Several passing properties
carry the code's limits in their statement: they hold *with* the condition, and the
condition is the limit (`rejected`, `failures`, `late`, `early`, `overlap` and
`timeouts` are history variables that say when it applies).  A property with such a
condition shows nothing about the case it excepts; section 5 says what happens there.
`EveryFrameIntact` says of every frame what `FirstFrameIntact` says of the first, and
`OnlyChosenArgs` of every tree what `BootargsOfChosen` says of those without bootargs
below `/chosen`.

The scan, the PCI assignment and the handshake are one run because in a boot they
follow one another and no property relates the state of two of them: `part` of
`MCBringUp` says which of the three a behaviour is about, each starts in every state it
can start in, and the other two stand still.

### Bounds

Each bound is a named constant.  Two descriptors are enough for "the other
descriptor is busy, free or full"; ring sizes 2 and 4 tell the MMIO layout
(ring = table) from the PCI one (ring longer than the table); counters modulo 8
wrap while both sizes divide them, as 2^16 does.  `E1000` has three receive
descriptors, so that a window, a filled part and a lost part exist at once, and two
transmit descriptors, so that the ring is full after two calls.  The ring of
`Rtl8139` has six words, so frames of two lengths cross its end.  Queue
sizes in `VirtioInit` are none, too small, just enough and larger, for each queue.  The pool of
`Resources` has three slots for four devices: the removed record may be head,
middle or last, and the pool fills up.  `DeviceScan` takes every tree of four nodes
and depth three with a registry of three entries and up to one PCI device before
it (a node carries either the properties of a device or bootargs, the two walks
read nothing else); `PciBars` takes four slots over a window that does not hold them all.
`MaxTimeouts` (3) exceeds the queue of two, `MaxOutstanding` (2) is the least with
an overlap; it is a bound of the model, the code checks nothing before it transmits.  `Boot` has seven devices, a pool of four, two contexts per driver, two
overrides and six tags where the code has 16, 4, 16 and 32: pool, contexts and tables
all run out, in different command lines.  The command lines are every pair of five
applications, repetitions of one, the applications that end a boot, and logging
parameters in many orders, valid and not.  `HttpHello` has two clients, two requests
and one, whose sequence numbers, counted modulo 2^16 for 2^32, wrap within the
connection, as the server's first one does; responses of even and odd length; and
`MaxTrouble` (3) faults and connections, so that a frame may be lost twice or lost
and repeated while one client is connected, and two clients meet one fault.  `CHECK_DEADLOCK FALSE` is set where the program or its peers
really end: the scan, the enumeration, an initialisation for which no device is fit,
a halted boot, and clients that have closed.

### Fairness

A call runs to its end (nothing preempts it): weak fairness of the steps of a
call.  A device serves what it finds in its queue: weak fairness of device steps,
needed for the liveness of transmission only.  The applications
poll `receive` in a loop (`http_hello` without end, `packet_print` until its
request is answered): weak fairness of
the start of a receive call; in `E1000`, where calls of both directions are
atomic up to their tail write and exclude each other, strong fairness, since a
polling loop that also transmits still comes back to `receive`.  `AcceptsAgain`
adds a caller that keeps transmitting.  `Boot`: the one CPU keeps running; for
packet-print, whose loop ends only with a request it answers, weak fairness of the
whole next-state relation says that such a request comes.  `HttpHello`: the server's
loop runs (it polls without end), what is in flight arrives apart from the counted
faults, and a client proceeds and retransmits when nothing of its own is in flight,
as every TCP does.  No fairness is assumed for arrivals,
time-outs, failures, releases or initialisation.

## 4. Proofs

Every theorem holds for all values of its module's constants, under the named
assumptions of that module only: sizes are positive numbers, `NULL` is none of the
values it is distinguished from, a ring's size divides the range of its 16-bit
counter and is at least the number of descriptors, the contexts are the static
arrays.  Five assumptions say more:

* `ProfilesAssumption` (`PciBars`): a memory BAR decodes a part of the address space
  that starts at a multiple of its size, as every PCI BAR does, and on riscv and arm64
  the memory BARs of a device are among the registers the scan looks at, as they are on
  the devices of QEMU's machines.
* `SizeAssumption` (`Rtl8139`): a frame with its header and CRC is shorter than the
  ring, and at most four transmissions are outstanding (there are four descriptors).
* `BootAssumption`: the drivers of the applications exist, a command line is a sequence
  of tokens or absent.
* `HttpAssumption`: an address is four bytes and a port a word; a request fits a packet;
  no connection uses up its sequence numbers, which `StreamInv` needs because the server
  cannot tell a byte from the one 2^32 earlier.
* `NoiseAssumption` (`HttpHello`): the frames called noise are not for the server.

TLC evaluates each assumption on the instance it checks.  TLC also checked the
inductive invariants of the five driver modules and of `PciBars` on the instances of their
runs (with the `Nat` of `RxAgrees` in `E1000Proofs` bounded by the ring).

| Module | Theorem | States |
|---|---|---|
| `BootProofs` | `TypeCorrect`, `ListMatchesPool`, `Exclusivity`, `DmaConfinement` | `TypeOK`, `ListIsPool`, `Exclusive`, `DmaConfined` of the manager |
| | `HandlesAreStable` | the action property `HeldStable` |
| | `ApplicationsHonourManager`; `BootExclusive` | `HonoursManager`; with it the manager's invariants in every boot |
| | `EntriesWork`, `NothingLeftBehind`, `TagsLevelled` | `EntriesLive`, `AcquiresAll`, `TagLevels` |
| | `StreamsHold`, `FramesVerified` | `Streams`, `FramesVerify` |
| | `AnswersOnce` | the safety part of `Service`: every step implements a step of `RequestReply` |
| `BringUpProofs` | `ReportsSound`, `LeavesKept`, `ReportsBounded`, `BootargsFound` | `SoundReports`, `LeavesReported`, `BoundedReports`, `BootargsOfChosen` |
| | `BarsDisjoint`, `BarsReported` | `NoOverlap`, `ReportsDecoded` |
| | `OneDeviceRuns`, `RunsWithQueues` | `LiveIffInitialized`, `QueuesReady` |
| `VirtioNetTxProofs` | `TxOwnershipHolds`; `SendsInOrder` | `TxOwnership`; every step implements a step of `FrameFifo` |
| `VirtioNetRxProofs` | `RxOwnershipHolds`, `DescriptorsKept`; `DeliversInOrder` | `RxOwnership`, `KeepsDescriptors`; every step implements a step of `FrameFifo`; all for ordered loads |
| `VirtioRngProofs` | `LagOfReads`, `ReadsAreFresh` | `LagIsTimeouts`, `FreshBytes` |
| `E1000Proofs` | `RingsAlwaysAgree`, `TransmitsInOrder`; `ReceivesAsStored` | `RingsAgree`, `SendsIntact`; every step implements a step of `FrameFifo` |
| `Rtl8139Proofs` | `StaysTyped`, `FirstIntact`; `SendsUnchanged` | `TypeOK`, `FirstFrameIntact`; until calls overlap every step implements a step of `FrameFifo` |

Each module also states its inductive invariant as a theorem (`Invariance`,
`BootInvariant`, `StreamInvariant`, `ScanInvariant`, `HandshakeInvariant`,
`TxInvariant`, `RxInvariant`, `RngInvariant`, `RingsInvariant`, `DriverInvariant`).

**The manager.**  `ListIsPool` is not inductive by itself: unlinking could lose the
rest of the list if two records shared a tail or a record pointed back at the head,
and an acquired slot could bring a stale `next` along.  `IInv` adds `Linked` (no
shared tail, nothing points at the head, a slot off the list points nowhere),
`PendingInUse` (the slot being initialised is in use, for the device at the cursor,
which is not allocated) and that a used slot has a device.  The list is defined as
the least set that holds the head and is closed under `next`, not by recursion, so
its two characteristic facts (`ListedIsClosed`, `ListedIsLeast`) are first-order
and every step is reasoned about by exhibiting a closed set.  `DmaConfined` needs, in
addition, that the holder's driver and context are the ones the device was given
(`DmaInv`).

**The virtio queues.**  What lies between two wrapping counters is a `Window` of a
ring.  `RingTheorems` proves once what the queues need: the window's length and
elements for counters that wrap at a multiple of the ring size, that moving the upper
counter appends an entry, that moving the lower one removes the first, that writing
the entry behind it leaves it alone, and that a sequence without repetition is no
longer than the set it draws from, which is why a window never overtakes itself.
With that the invariant of the transmit queue is that the sequences in flight,
returned and being filled are injective and pairwise disjoint, and that the
descriptors in use are exactly theirs (`Places`), together with what the call under
way has written into buffer and ring so far (`Written`), from which the refinement
gets that the frame published is the frame accepted.  On receive the invariant adds
that the element a call works on is the oldest one returned and that what it posts
again is what it took (`InHand`), and the count of lost descriptors; `~WeakLoads` is
a hypothesis because without it `KeepsDescriptors` is false, as the run
`vnet_rx_weak` shows.  The entropy queue needs `OneDesc`: no descriptor survives a
call, so only the first is ever named, and `InStep`, that requests and answers go in
step as long as no call gave up.

**The e1000.**  Each ring is cut into arcs, and the registers are where the cuts are.
`RxRing(n, w)`: from `rx_current` on there are the descriptor just copied, if the tail is
not written yet, `n` filled ones up to `RDH`, `w` free ones up to `RDT`, one for every
failed call since the last success, and one more that is never used; the sum is the
ring.  From it come both that a frame never lands in a descriptor the driver is
reading and that failures shrink the ring by one each.  `TxRing(n)` does the same from
`TDH`, with the descriptor that is filled but not yet told to the device.  The
refinements map the arcs, read as sequences (`RxOut`, `TxQueue`), to the queue of
`FrameFifo`.

**The rtl8139.**  After a quiet initialisation and until the first frame is returned
the driver reads at the start of the ring, and the first frame stored lies there whole:
the device has gone past it and, a frame being shorter than the ring, stops before it
(`FirstKept`, `JustReset`).  Nothing of the kind holds for the second frame.  On
transmit at most one frame is unsent until calls overlap (`OneUnsent`), which is all the
shared buffer allows.

**The handshake.**  The invariant records what each stage has established on the
current device (`Stage`, `QueuesSoFar`, and for each queue set up `NumSoFar`) and that no other device was left
running (`OnlyCurrentRuns`), which is what a forgotten reset on an error return
would break.

**The scan.**  `SoundReports` rests on `CurrentOK`: `current_device` holds the node
begun last and only its properties.  `LeavesReported` and `BoundedReports` need the
shape of the walk: the open nodes are a path from the root and all that was begun
after an open node is below it (`PathOK`), so that a node that ends as a leaf is the
one `current_device` holds, and each end token uses up one level of the reports a node
may still get (`CountOK`).  `BootargsOfChosen` needs that `in_chosen` is exactly "the
open node of depth one is named chosen" (`InChosen`) and that the string kept is the
last of the chosen subtrees (`ArgsOK`); `ChosenArgsIs` restates the subtrees node by
node.  The theorem then says what the header promises wherever the bootargs of the
chosen subtrees are those of `/chosen` itself; without that condition it is false, as
`scan_bootargs` shows.

**The BARs.**  Every range that was assigned ends at or below `next_mmio_address` and
before or after every other one (`AllPlaced`, `AllApart`), and its register holds the
written address rounded down to a multiple of the size, which is the address itself
except on arm64.  For `ReportsDecoded` the invariant ties what the current visit will
return, and what each finished one has returned, to the register as it is now
(`Returns`, `AllReported`): a register written after its value was noted would break it.

**A boot.**  The invariant ties the manager's pool to the applications' statics: the
context of a listed resource lies below the index of its static array (`Taken`), no
two resources share one, and the call under way is for the first context beyond
(`ControlOK`).  That makes every call a call `Resources` allows, and gives
`HonoursManager`; the manager's theorems then hold in a boot by implication.
`EntriesLive` adds that a device works exactly for the resource that holds it, which
is true because a boot releases nothing.  `AcquiresAll` needs a record of the search:
each driver already tried, and each device the cursor has passed, has nothing left to
offer (`SearchOK`), where a full pool must be stated as a full list, since the pool is
also full while its last slot is being initialised and may be freed again.
`TagLevels` is about a loop over the command line: that what `log_init` has read of the
first n tokens is the last global level and the first overrides among them is proved by
the least n for which it would fail.  This is how every recursive function is dealt
with here, since the library's induction theorems cannot be instantiated: the set of
counterexamples is a set of numbers, and a non-empty one has a least element
(`LeastNumber`, from well-foundedness).

**The HTTP server.**  It keeps no connections, so the invariant is about the frames in
flight.  `StreamInv` says that every frame stands at a place of its client's two
streams: what a client sent lies between its initial sequence number and `Sent(c)`, and
the response to request k has the sequence number k responses after the client's first
(`Base`) and acknowledges the end of request k.  A repeated request therefore only
yields the same response again, which the client takes at most once, and a response it
would take (`s.seq = rcv_nxt`) is the one to the request that waits (`TakenIsAsked`).
A FIN that came with a request is acknowledged byte by byte; the invariant must allow
`snd_una` inside the request and still keep it at or above the end of the requests
answered.  `FramesVerify` follows from the types in `StreamInv` and facts about the
codec: the sum by words of a joined sequence is the sum of the sums when the first part
has even length (`WordSumJoined`), padding an odd byte does not change it
(`WordSumPadded`), reading a packet as one number gives the same remainder modulo
2^16 - 1 (`BigEndianIs`), folding keeps that remainder and ends in a word (`FoldIs`), so
a sum and the complement of its fold cancel (`ChecksumCancels`).  The greeting has 15
to 23 bytes, hence two digits of Content-Length and a response of 104 to 112 bytes.

Only model-checked:

* liveness (`AcquireReturns`, `AcceptsAgain`, `KeepsReceiving`, `HeadLeaves`,
  `FirstFrameArrives`, `Halts`, `Closes`): out of the prover's reach;
* the fairness part of the refinements (`SendsEveryFrame`, `ReceivesInOrder`,
  `Service`), for the same reason.  The safety part of each is proved.

A type invariant that is not proved separately is a conjunct of the first invariant
of its module (`TxOwnership`, `RxOwnership`, `LagIsTimeouts`, `LiveIffInitialized`,
`RingsAgree`, `SoundReports`, `NoOverlap`); `HttpHello`'s is a conjunct of `StreamInv`.

## 5. What the checks say about the code

Three statements of the repository's comments and headers do not hold of the code; each
is a finding, with the run that shows it:

* `virtio_net_receive` loads the used element without a barrier after the index
  (`vnet_rx_weak`).
* rtl8139: the read offset is advanced without the CRC, so only the first frame
  after initialisation is certain (`rtl8139_receive`).
* `in_chosen` stays set below `/chosen`: a node of any name there can give the command
  line, and the last bootargs wins, where `fdt_parser.h:15-18` promises
  `/chosen/bootargs` or NULL and `fdt_parser.c:172` speaks of the property "in /chosen
  node" (`scan_bootargs`; `BootargsOfChosen` says where the promise is kept).

The conditions under which the other properties hold record further limits, each at its
line in the hazard list:

* `virtio_net_receive` never posts the descriptor of a refused frame again: after 16
  such frames reception stops (`KeepsDescriptors`).
* After one time-out `virtio_rng_read` pairs each request with an earlier answer
  until the next initialisation, and may return bytes already returned (`FreshBytes`
  and `LagIsTimeouts` are exact about it).
* Over legacy PCI the virtio queue size is the device's; a size that is acceptable
  to the check but differs from the compiled-in layout is not noticed, and the device
  looks for the rings elsewhere, where the comment at `virtio_net.c:117` has the
  structure "sized for max_queue_size" (`QueuesReady` says for which sizes the layouts
  agree).
* e1000: a transmit ring filled before the device looks has head = tail and stalls
  for good (`OnlyFullStalls` in `RingsAgree`, `HeadLeaves`); error returns of
  `receive` do not move the tail (`FailuresShrinkRing` in `RingsAgree`); `deinit_context`
  leaves the receiver on, and a frame that arrives while the card is initialised again
  can make head and tail meet, which stops reception for good (`late` excepts it).  QEMU
  serves the ring inside the tail write, which hides the first.
* rtl8139: the receiver is enabled before its buffer is set, and a frame that arrives in
  between leaves read and write offset apart (`early`); all transmit descriptors share
  one buffer, so that a call made before the last frame is sent overwrites it
  (`overlap`).
* `FDT_END_NODE` does not clear the flags, so the end of a parent reports its last
  child again, and never itself, where the comment at `fdt_parser.c:294` has the node
  that ends reported (`BoundedReports` bounds how often).  The second registry entry is
  one the resource manager hands out separately, while `docs/device-manager.md:103`
  speaks of exclusive device allocation.
* A device whose BAR 0 is absent would be reported by BAR 0 on riscv and arm64; QEMU's
  transitional and legacy devices have it, one that is modern only does not
  (`ProfilesAssumption` excludes it, `ReportsDecoded` rests on that).
* arm64 writes and reports BAR addresses without aligning them to the BAR size: after
  a smaller BAR a larger one answers below the reported address (`NoOverlap` and
  `ReportsDecoded` are conditional on alignment there; riscv aligns).
* Of several overrides of one tag the first that was kept wins, of several global
  levels the last (for tags registered before `log_init` ran it would be the last
  override, `log.c:108-113`, but in a boot none is); an application started twice registers its tag twice, and with a
  full registry messages are dropped (`TagLevels`).
* A driver whose static contexts are used up is skipped for good
  (`AcquiresAll` excepts it); nothing is ever released.
* http-hello never sends a FIN, although `docs/test-apps.md` lists one after the
  response.  A FIN that comes with a request is acknowledged at the first byte of the
  request: `Closes` holds because the response, sent just before, acknowledges the
  request, and each retransmission is acknowledged by a byte more; the assumption
  `ReqLen > MaxTrouble` keeps the request from being acknowledged that way before the
  response has arrived.  A client that pipelines or splits requests gets one response
  per segment; the clients of the model do neither.
* app=random-software after app=random-hardware prints hardware bytes under the
  software label.
* `found` counts nodes that were not registered.
* The device state stays DISCOVERED; `docs/device-manager.md` describes further
  transitions that no code makes.
* The longest frame `virtio_net_transmit` accepts does not fit its buffer behind
  header and alignment offset; the model transmits frames that fit.

## 6. Not modelled

* virtio-blk is a stub; tests and benchmarks are shell scripts.
* Platform code but for the halt and the device-tree command line: boot assembly,
  UART, exception reports, and the places amd64 looks for a command line.
* What packet-print and arp-broadcast put into their frames, the ICMP and UDP
  headers, and the numbers of the xorshift generator: byte-level functions without
  state, which no property here depends on.  Printing and strings.
* Loads are reordered only in `VirtioNetRx`; stores need no variant there since the
  code has full barriers before both index updates.
* Both FDT walks are cut at the same token.  In the code one is bounded by `totalsize` and
  the other by the end of the structure block (`fdt_parser.c:102`, `245`), so a damaged
  header could cut them apart; no property relates how far they got.  A header that is
  refused is a cut before the first token: only the printed count (-1) differs.
* A register access is one atomic step, and a reset completes at once.
* The byte layout of `tx_buffers`; frames too short for the headers read from them
  (`http_hello.c:183`, `packet_print.c:83`): see the hazards.

## 7. What is left

Of the model: the byte layout of `tx_buffers` in `VirtioNetTx`; reordered loads in
`VirtioNetTx`, `VirtioRng` and `E1000`; the frames packet-print builds.

Of the proofs: the liveness properties, should the prover come to handle fairness.
The bounds of the runs (section 3) are only needed for those: every invariant that a passing
run checks, and the step part of every refinement, is proved without them.
