---------------------------- MODULE VirtioNetTx ----------------------------
(***************************************************************************)
(* The transmit queue of drivers/virtio_net/virtio_net.c and the device    *)
(* that works on it through shared memory.  virtio_net_transmit is split   *)
(* at its accesses to memory the device also reads or writes, so device    *)
(* steps fall between any two of them.                                     *)
(*                                                                         *)
(* A ring index is a counter modulo IdxMod (uint16_t); the slot it selects *)
(* is the counter modulo RingSize, which is QueueSize for the MMIO layout  *)
(* and larger for the PCI one.  The CPU's loads are taken in program       *)
(* order; VirtioNetRx shows what their reordering does.                    *)
(***************************************************************************)
EXTENDS Integers, Sequences, FiniteSets, Functions

CONSTANTS
  QueueSize,    \* VIRTIO_NET_QUEUE_SIZE: descriptors and buffers in use
  RingSizes,    \* entries of the rings: QueueSize, or the PCI maximum
  IdxMod,       \* 2^16
  Frames,       \* frames that with header and offset fit a tx buffer
  None

ASSUME SizeAssumption ==
  /\ QueueSize \in Nat \ {0}
  /\ IdxMod \in Nat \ {0}
  /\ RingSizes \subseteq Nat \ {0}
  /\ \A n \in RingSizes : QueueSize <= n /\ n < IdxMod /\ IdxMod % n = 0
ASSUME FrameAssumption == None \notin Frames

Descs == 0 .. (QueueSize - 1)

Inc(i) == (i + 1) % IdxMod

VARIABLES
  RingSize,     \* fixed by ctx->transport
  \* shared memory: tx queue and tx_buffers
  avail_ring, avail_idx, used_ring, used_idx, tx_buffers,
  \* virtio_net_t
  initialized, tx_desc_in_use, tx_last_used_idx,
  \* the transmit call under way
  pc, packet, desc_idx,
  \* the device
  dev_avail,    \* avail entries it has taken
  fetched,      \* descriptors taken, frame not yet read
  done,         \* frame sent, not yet returned
  wire          \* the frame it put on the wire last

shared == <<avail_ring, avail_idx, used_ring, used_idx, tx_buffers>>
ctx    == <<initialized, tx_desc_in_use, tx_last_used_idx>>
local  == <<pc, packet, desc_idx>>
dev    == <<dev_avail, fetched, done, wire>>
vars   == <<RingSize, shared, ctx, local, dev>>

Ring == 0 .. (RingSize - 1)

(* What the memset of init_context and init_virtqueue leaves. *)
Zero(var, S) == var = [i \in S |-> 0]

Init ==
  /\ RingSize \in RingSizes
  /\ Zero(avail_ring, Ring) /\ avail_idx = 0
  /\ Zero(used_ring, Ring) /\ used_idx = 0
  /\ tx_buffers = [d \in Descs |-> None]
  /\ initialized = TRUE
  /\ tx_desc_in_use = [d \in Descs |-> FALSE]
  /\ tx_last_used_idx = 0
  /\ pc = "idle" /\ packet = None /\ desc_idx = 0
  /\ dev_avail = 0 /\ fetched = <<>> /\ done = {} /\ wire = None

----------------------------------------------------------------------------
(* virtio_net_transmit, in program order. *)

(* The argument checks and the barrier before the reclaim. *)
Transmit(f) ==
  /\ pc = "idle"
  /\ initialized
  /\ packet' = f
  /\ pc' = "reclaim"
  /\ UNCHANGED <<RingSize, shared, ctx, desc_idx, dev>>

(* Seeded fault: one entry is reclaimed although several were returned. *)
Reclaim_one ==
  /\ pc = "reclaim"
  /\ tx_desc_in_use' =
       IF used_idx = tx_last_used_idx THEN tx_desc_in_use
       ELSE [tx_desc_in_use EXCEPT ![used_ring[tx_last_used_idx % RingSize]] = FALSE]
  /\ tx_last_used_idx' = used_idx
  /\ pc' = "find"
  /\ UNCHANGED <<RingSize, shared, initialized, packet, desc_idx, dev>>

(* Seeded fault: the counters are compared by <, as if they never wrapped. *)
Reclaim_less ==
  /\ pc = "reclaim"
  /\ tx_desc_in_use' =
       [d \in Descs |-> tx_desc_in_use[d] /\
          d \notin {used_ring[k % RingSize] : k \in tx_last_used_idx .. used_idx - 1}]
  /\ tx_last_used_idx' = IF tx_last_used_idx < used_idx THEN used_idx ELSE tx_last_used_idx
  /\ pc' = "find"
  /\ UNCHANGED <<RingSize, shared, initialized, packet, desc_idx, dev>>

(* virtio_net_reclaim_tx: used.idx is read once, and every entry up to it  *)
(* names a descriptor that is free again.                                  *)
Reclaim ==
  /\ pc = "reclaim"
  /\ LET n == (used_idx - tx_last_used_idx) % IdxMod
     IN  tx_desc_in_use' =
           [d \in Descs |-> tx_desc_in_use[d] /\
              d \notin {used_ring[(tx_last_used_idx + k) % RingSize] : k \in 0 .. n - 1}]
  /\ tx_last_used_idx' = used_idx
  /\ pc' = "find"
  /\ UNCHANGED <<RingSize, shared, initialized, packet, desc_idx, dev>>

(* return -1: every descriptor is in use. *)
NoDescriptor ==
  /\ pc = "find"
  /\ \A d \in Descs : tx_desc_in_use[d]
  /\ pc' = "idle"
  /\ packet' = None
  /\ UNCHANGED <<RingSize, shared, ctx, desc_idx, dev>>

(* Seeded fault: descriptor 0 is taken without looking at its flag. *)
FillDescriptor_first ==
  /\ pc = "find"
  /\ tx_desc_in_use' = [tx_desc_in_use EXCEPT ![0] = TRUE]
  /\ desc_idx' = 0
  /\ tx_buffers' = [tx_buffers EXCEPT ![0] = packet]
  /\ pc' = "publish"
  /\ UNCHANGED <<RingSize, avail_ring, avail_idx, used_ring, used_idx, initialized,
                 tx_last_used_idx, packet, dev>>

(* Take the first free descriptor; build header, frame and descriptor.     *)
FillDescriptor ==
  /\ pc = "find"
  /\ \E d \in Descs :
       /\ ~tx_desc_in_use[d]
       /\ \A e \in Descs : e < d => tx_desc_in_use[e]
       /\ tx_desc_in_use' = [tx_desc_in_use EXCEPT ![d] = TRUE]
       /\ desc_idx' = d
       /\ tx_buffers' = [tx_buffers EXCEPT ![d] = packet]
  /\ pc' = "publish"
  /\ UNCHANGED <<RingSize, avail_ring, avail_idx, used_ring, used_idx, initialized,
                 tx_last_used_idx, packet, dev>>

(* avail.ring[avail.idx % size] = desc_idx, then a barrier. *)
WriteAvail ==
  /\ pc = "publish"
  /\ avail_ring' = [avail_ring EXCEPT ![avail_idx % RingSize] = desc_idx]
  /\ pc' = "kick"
  /\ UNCHANGED <<RingSize, avail_idx, used_ring, used_idx, tx_buffers, ctx, packet,
                 desc_idx, dev>>

(* avail.idx++, barrier, notify, return 0. *)
Kick ==
  /\ pc = "kick"
  /\ avail_idx' = Inc(avail_idx)
  /\ pc' = "idle"
  /\ packet' = None
  /\ UNCHANGED <<RingSize, avail_ring, used_ring, used_idx, tx_buffers, ctx, desc_idx, dev>>

(* virtio_net_deinit_context: status 0 resets the device. *)
Deinit ==
  /\ pc = "idle"
  /\ initialized
  /\ initialized' = FALSE
  /\ dev_avail' = 0 /\ fetched' = <<>> /\ done' = {} /\ wire' = None
  /\ UNCHANGED <<RingSize, shared, tx_desc_in_use, tx_last_used_idx, local>>

(* virtio_net_init_context on a released context: everything is zeroed.    *)
Reinit ==
  /\ pc = "idle"
  /\ ~initialized
  /\ avail_ring' = [i \in Ring |-> 0] /\ avail_idx' = 0
  /\ used_ring' = [i \in Ring |-> 0] /\ used_idx' = 0
  /\ tx_buffers' = [d \in Descs |-> None]
  /\ initialized' = TRUE
  /\ tx_desc_in_use' = [d \in Descs |-> FALSE]
  /\ tx_last_used_idx' = 0
  /\ UNCHANGED <<RingSize, local, dev>>

----------------------------------------------------------------------------
(* The device (external): it takes descriptors in ring order, sends in     *)
(* that order and may return them in any order.                            *)
DevFetch ==
  /\ initialized
  /\ dev_avail # avail_idx
  /\ fetched' = Append(fetched, avail_ring[dev_avail % RingSize])
  /\ dev_avail' = Inc(dev_avail)
  /\ UNCHANGED <<RingSize, shared, ctx, local, done, wire>>

DevSend ==
  /\ fetched # <<>>
  /\ wire' = tx_buffers[Head(fetched)]
  /\ done' = done \cup {Head(fetched)}
  /\ fetched' = Tail(fetched)
  /\ UNCHANGED <<RingSize, shared, ctx, local, dev_avail>>

DevReturn(d) ==
  /\ d \in done
  /\ used_ring' = [used_ring EXCEPT ![used_idx % RingSize] = d]
  /\ used_idx' = Inc(used_idx)
  /\ done' = done \ {d}
  /\ UNCHANGED <<RingSize, avail_ring, avail_idx, tx_buffers, ctx, local, dev_avail,
                 fetched, wire>>

Call ==
  \/ Reclaim \/ NoDescriptor \/ FillDescriptor \/ WriteAvail \/ Kick

Next ==
  \/ \E f \in Frames : Transmit(f)
  \/ Call
  \/ Deinit
  \/ Reinit
  \/ DevFetch
  \/ DevSend
  \/ \E d \in Descs : DevReturn(d)

Spec == Init /\ [][Next]_vars

FairDevice ==
  /\ WF_vars(DevFetch)
  /\ WF_vars(DevSend)
  /\ \A d \in Descs : WF_vars(DevReturn(d))

(* A call runs to its end, and the device keeps serving the queue. *)
FairSpec == Spec /\ WF_vars(Call) /\ FairDevice

(* The caller, too, keeps transmitting. *)
BusySpec == FairSpec /\ WF_vars(\E f \in Frames : Transmit(f))

----------------------------------------------------------------------------
(* The descriptors of ring r from counter `from' up to counter `to'. *)
Entries(r, from, to) ==
  [k \in 1 .. ((to - from) % IdxMod) |-> r[(from + k - 1) % RingSize]]

Posted   == Entries(avail_ring, dev_avail, avail_idx)
Returned == Entries(used_ring, tx_last_used_idx, used_idx)

(* The descriptor a call has filled but not yet published. *)
Filling == IF pc \in {"publish", "kick"} THEN {desc_idx} ELSE {}

(* Types of the transmit queue; ring indices and counters stay in range.    *)
TypeOK ==
  /\ RingSize \in RingSizes
  /\ avail_ring \in [Ring -> Descs] /\ used_ring \in [Ring -> Descs]
  /\ avail_idx \in 0 .. IdxMod - 1 /\ used_idx \in 0 .. IdxMod - 1
  /\ tx_buffers \in [Descs -> Frames \cup {None}]
  /\ initialized \in BOOLEAN
  /\ tx_desc_in_use \in [Descs -> BOOLEAN]
  /\ tx_last_used_idx \in 0 .. IdxMod - 1
  /\ pc \in {"idle", "reclaim", "find", "publish", "kick"}
  /\ packet \in Frames \cup {None}
  /\ desc_idx \in Descs
  /\ dev_avail \in 0 .. IdxMod - 1
  /\ fetched \in Seq(Descs) /\ Len(fetched) <= QueueSize
  /\ done \subseteq Descs
  /\ wire \in Frames \cup {None}

(* The state is well typed, the counters stay within their width, and a    *)
(* descriptor is marked in use exactly while it is somewhere between the   *)
(* call that took it and the reclaim of its completion, and it is in one   *)
(* such place only: being filled, posted, held by the device or returned.  *)
(* A missed or doubled reclaim, also across the wrap of the 16-bit         *)
(* indices, breaks it.                                                     *)
TxOwnership ==
  /\ TypeOK
  /\ initialized =>
       LET used == {d \in Descs : tx_desc_in_use[d]}
       IN  /\ used = Filling \cup Range(Posted) \cup Range(fetched) \cup done
                       \cup Range(Returned)
           /\ Cardinality(used) =
                Cardinality(Filling) + Len(Posted) + Len(fetched)
                  + Cardinality(done) + Len(Returned)

(* Refinement: accepted frames reach the wire unchanged, once and in       *)
(* order.  The queue of the FIFO is what the published descriptors that    *)
(* were not sent yet hold in their buffers.                                *)
Queue ==
  IF initialized
  THEN LET ds == fetched \o Posted IN [i \in 1 .. Len(ds) |-> tx_buffers[ds[i]]]
  ELSE <<>>

Fifo == INSTANCE FrameFifo
          WITH pending <- Queue, out <- wire, Capacity <- QueueSize,
               MayDiscard <- FALSE

(* virtio_net_transmit's return of 0 means the frame will be sent intact.  *)
SendsEveryFrame == Fifo!FairSpec

(* A full queue is temporary: as long as the caller keeps transmitting and *)
(* the device returns descriptors, some later call is accepted ("reclaimed *)
(* on next transmit call").                                                *)
AcceptsAgain == []<>(pc = "publish" \/ ~initialized)

=============================================================================
