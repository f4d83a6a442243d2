----------------------------- MODULE VirtioInit -----------------------------
(***************************************************************************)
(* The initialisation handshake of the two virtio drivers:                 *)
(* virtio_net_init_context with virtio_net_init_virtqueue, and             *)
(* virtio_rng_init_context, over the MMIO and the legacy PCI transport.    *)
(* One context serves the devices the resource manager tries in turn: an   *)
(* init_context that fails is followed by one on the next device, with the *)
(* same memory.                                                            *)
(***************************************************************************)
EXTENDS Naturals, FiniteSets

CONSTANTS
  Devs,          \* the candidate devices
  NoDev,
  QueueSize,     \* VIRTIO_NET_QUEUE_SIZE, VIRTIO_RNG_QUEUE_SIZE
  MaxQueueSize,  \* VIRTIO_NET_MAX_QUEUE_SIZE, the layout used over PCI
  DeviceSizes    \* the queue sizes devices have, per driver and transport

Drivers    == {"net", "rng"}
Transports == {"mmio", "pci"}

ASSUME SizeAssumption ==
  /\ NoDev \notin Devs
  /\ QueueSize \in Nat \ {0} /\ MaxQueueSize \in Nat /\ QueueSize <= MaxQueueSize
  /\ DeviceSizes \in [Drivers \X Transports -> SUBSET Nat]

VARIABLES
  drv,           \* the driver whose devices these are
  kind,          \* per device: transport, version register, queue_max per queue
  \* the context
  initialized,
  ring,          \* per queue memory: "stale", "zero" or "posted"
  \* the init_context under way
  stage, cur, queue,
  \* the registers of each device
  status, queue_num, queue_pfn

setup == <<drv, kind>>
regs  == <<status, queue_num, queue_pfn>>
handshakeVars == <<setup, initialized, ring, stage, cur, queue, regs>>

Queues == IF drv = "net" THEN {0, 1} ELSE {0}

(* The number of ring entries the driver's structures are laid out for. *)
Layout(d) ==
  IF drv = "net" /\ kind[d].transport = "pci" THEN MaxQueueSize ELSE QueueSize

Kinds(x) ==
  [transport : {"mmio"}, version : {1, 2, 3},
   queue_max : [{0, 1} -> DeviceSizes[<<x, "mmio">>]]]
    \cup
  [transport : {"pci"}, version : {1},
   queue_max : [{0, 1} -> DeviceSizes[<<x, "pci">>]]]

NoQueues == [q \in {0, 1} |-> "none"]

HandshakeInit ==
  /\ drv \in Drivers
  /\ kind \in [Devs -> Kinds(drv)]
  /\ initialized = FALSE
  /\ ring = [q \in {0, 1} |-> "stale"]
  /\ stage = "off" /\ cur = NoDev /\ queue = 0
  /\ status = [d \in Devs |-> {}]
  /\ queue_num = [d \in Devs |-> kind[d].queue_max]
  /\ queue_pfn = [d \in Devs |-> NoQueues]

----------------------------------------------------------------------------
(* A status write of 0 resets the device (external). *)
ResetRegs(d, s) ==
  /\ status' = [status EXCEPT ![d] = s]
  /\ queue_num' = [queue_num EXCEPT ![d] = kind[d].queue_max]
  /\ queue_pfn' = [queue_pfn EXCEPT ![d] = NoQueues]

SetStatus(s) ==
  /\ status' = [status EXCEPT ![cur] = s]
  /\ UNCHANGED <<queue_num, queue_pfn>>

Return == stage' = "off" /\ cur' = NoDev

(* return -1 after a write of FAILED. *)
Fail ==
  /\ SetStatus({"FAILED"})
  /\ Return
  /\ UNCHANGED <<setup, initialized, ring, queue>>

(* Up to the driver features: reset, ACKNOWLEDGE, DRIVER.  virtio-rng      *)
(* looks at the version first and returns -1 when it is unknown.           *)
Start(d) ==
  /\ stage = "off"
  /\ ~initialized
  /\ ~(drv = "rng" /\ kind[d].version = 3)
  /\ ring' = IF drv = "net" THEN [q \in {0, 1} |-> "zero"] ELSE ring
  /\ ResetRegs(d, {"ACKNOWLEDGE", "DRIVER"})
  /\ cur' = d
  /\ stage' = IF drv = "rng" /\ kind[d].transport = "pci" THEN "queue" ELSE "features"
  /\ queue' = 0
  /\ UNCHANGED <<setup, initialized>>

(* FEATURES_OK is written and read back. *)
FeaturesOk ==
  /\ stage = "features"
  /\ SetStatus({"ACKNOWLEDGE", "DRIVER", "FEATURES_OK"})
  /\ stage' = "queue"
  /\ UNCHANGED <<setup, initialized, ring, cur, queue>>

FeaturesRefused == stage = "features" /\ Fail

TooSmall == kind[cur].queue_max[queue] = 0 \/ kind[cur].queue_max[queue] < QueueSize

(* Also of the second queue, when the first one is already registered. *)
QueueTooSmall == stage = "queue" /\ TooSmall /\ Fail

(* The page frame register: a version 2 device has none, so net reads back *)
(* another value; rng gives up before it writes.                           *)
HasPfn(d) == kind[d].version = 1

(* QUEUE_NUM is written over MMIO; a legacy PCI device ignores it.         *)
SetQueueNum ==
  queue_num' = IF kind[cur].transport = "mmio"
               THEN [queue_num EXCEPT ![cur][queue] = QueueSize] ELSE queue_num

(* The queue memory is cleared and QUEUE_NUM set before the lack of a page *)
(* frame register makes the initialisation fail.                           *)
NoPfn ==
  /\ stage = "queue"
  /\ ~TooSmall /\ ~HasPfn(cur)
  /\ ring' = [ring EXCEPT ![queue] = "zero"]
  /\ SetQueueNum
  /\ status' = [status EXCEPT ![cur] = {"FAILED"}]
  /\ Return
  /\ UNCHANGED <<setup, initialized, queue, queue_pfn>>

NextStage == IF Cardinality(Queues) > queue + 1 THEN "queue" ELSE "populate"

(* One virtqueue: QUEUE_NUM (a legacy PCI device ignores it), the memory,  *)
(* QUEUE_PFN with its read back.                                           *)
QueueSet ==
  /\ stage = "queue"
  /\ ~TooSmall /\ HasPfn(cur)
  /\ ring' = [ring EXCEPT ![queue] = "zero"]
  /\ SetQueueNum
  /\ queue_pfn' = [queue_pfn EXCEPT ![cur][queue] = "context"]
  /\ queue' = queue + 1
  /\ stage' = NextStage
  /\ UNCHANGED <<setup, initialized, cur, status>>

(* virtio-net posts its receive buffers. *)
Populate ==
  /\ stage = "populate"
  /\ ring' = IF drv = "net" THEN [ring EXCEPT ![0] = "posted"] ELSE ring
  /\ stage' = "ok"
  /\ UNCHANGED <<setup, initialized, cur, queue, regs>>

(* Seeded fault of DriverOk: it comes before the buffers are posted. *)
DriverOk_early ==
  /\ stage \in {"populate", "ok"}
  /\ SetStatus({"ACKNOWLEDGE", "DRIVER", "DRIVER_OK"})
  /\ initialized' = TRUE
  /\ stage' = "running"
  /\ UNCHANGED <<setup, ring, cur, queue>>

(* DRIVER_OK, read back; over MMIO with FEATURES_OK, over PCI without.     *)
(* Then the notification, the MAC address and initialized = true.          *)
DriverOk ==
  /\ stage = "ok"
  /\ SetStatus({"ACKNOWLEDGE", "DRIVER", "DRIVER_OK"}
                 \cup (IF kind[cur].transport = "mmio" THEN {"FEATURES_OK"} ELSE {}))
  /\ initialized' = TRUE
  /\ stage' = "running"
  /\ UNCHANGED <<setup, ring, cur, queue>>

(* The device did not take DRIVER_OK: return -1, FAILED is not written. *)
DriverOkRefused ==
  /\ stage = "ok"
  /\ SetStatus(status[cur] \ {"DRIVER_OK"})
  /\ Return
  /\ UNCHANGED <<setup, initialized, ring, queue>>

(* Seeded fault of Deinit: the device is not reset. *)
Deinit_mute ==
  /\ stage = "running"
  /\ initialized' = FALSE
  /\ Return
  /\ UNCHANGED <<setup, ring, queue, regs>>

(* deinit_context: status 0, initialized = false. *)
Deinit ==
  /\ stage = "running"
  /\ ResetRegs(cur, {})
  /\ initialized' = FALSE
  /\ Return
  /\ UNCHANGED <<setup, ring, queue>>

Step ==
  \/ FeaturesOk \/ FeaturesRefused \/ QueueTooSmall \/ NoPfn \/ QueueSet \/ Populate
  \/ DriverOk \/ DriverOkRefused

HandshakeNext == (\E d \in Devs : Start(d)) \/ Step \/ Deinit

HandshakeSpec == HandshakeInit /\ [][HandshakeNext]_handshakeVars

----------------------------------------------------------------------------
(* Types of the handshake; no queue beyond the driver's is set up.          *)
HandshakeTypeOK ==
  /\ drv \in Drivers /\ kind \in [Devs -> Kinds(drv)]
  /\ initialized \in BOOLEAN
  /\ ring \in [{0, 1} -> {"stale", "zero", "posted"}]
  /\ stage \in {"off", "features", "queue", "populate", "ok", "running"}
  /\ cur \in Devs \cup {NoDev}
  /\ queue \in 0 .. Cardinality(Queues)
  /\ status \in [Devs -> SUBSET {"ACKNOWLEDGE", "DRIVER", "FEATURES_OK",
                                 "DRIVER_OK", "FAILED"}]
  /\ queue_num \in [Devs -> [{0, 1} -> Nat]]
  /\ queue_pfn \in [Devs -> [{0, 1} -> {"none", "context"}]]

Live == {d \in Devs : "DRIVER_OK" \in status[d]}

(* The state is well typed, no queue beyond the driver's is set up, and a  *)
(* device works on the context's memory exactly while the context is       *)
(* initialised: an init_context that returned -1 on one device leaves no   *)
(* device running when the next one is tried with the same context.        *)
LiveIffInitialized ==
  HandshakeTypeOK /\ Live = IF initialized THEN {cur} ELSE {}

(* A device that runs finds every queue registered and its memory ready,   *)
(* with the receive buffers posted: nothing of an earlier try is left, also*)
(* of one that failed at its second queue.  The rings are laid out for the *)
(* number of entries the device uses: over MMIO always, because the driver *)
(* decides it; over PCI where the device's queue has the layout's size.    *)
(* For the other sizes that the check accepts they are not.                *)
QueuesReady ==
  \A d \in Live, q \in Queues :
    /\ queue_pfn[d][q] = "context"
    /\ ring[q] = IF drv = "net" /\ q = 0 THEN "posted" ELSE "zero"
    /\ (kind[d].transport = "mmio" \/ kind[d].queue_max[q] = Layout(d))
         => queue_num[d][q] = Layout(d)
=============================================================================
