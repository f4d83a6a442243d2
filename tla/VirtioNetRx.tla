---------------------------- MODULE VirtioNetRx ----------------------------
(***************************************************************************)
(* The receive queue of drivers/virtio_net/virtio_net.c and the device     *)
(* that fills it.  Every descriptor is posted by init_context; the device  *)
(* takes one per frame and returns it through the used ring;               *)
(* virtio_net_receive copies the frame out and posts the descriptor again. *)
(* The indices and the two ring layouts are those of VirtioNetTx.          *)
(***************************************************************************)
EXTENDS Integers, Sequences, FiniteSets

CONSTANTS
  QueueSize,    \* VIRTIO_NET_QUEUE_SIZE
  RingSizes,    \* entries of the rings: QueueSize, or the PCI maximum
  IdxMod,       \* 2^16
  HdrLen,       \* sizeof(virtio_net_hdr_t)
  MaxPacket,    \* VIRTIO_NET_MAX_PACKET_SIZE
  Frames,
  None,
  packet_len,   \* the length the device reports for a frame, header included
  BufferSizes,  \* the buffer_size arguments of the callers
  WeakLoads     \* loads of the CPU may be reordered (ARM64, RISC-V)

ASSUME SizeAssumption ==
  /\ QueueSize \in Nat \ {0}
  /\ IdxMod \in Nat \ {0}
  /\ RingSizes \subseteq Nat \ {0}
  /\ \A n \in RingSizes : QueueSize <= n /\ n < IdxMod /\ IdxMod % n = 0
ASSUME LengthAssumption ==
  /\ None \notin Frames /\ None \notin 0 .. (QueueSize - 1)
  /\ packet_len \in [Frames -> Nat]
  /\ BufferSizes \subseteq Nat
  /\ WeakLoads \in BOOLEAN

Descs == 0 .. (QueueSize - 1)
Elem  == [id : Descs, len : {packet_len[f] : f \in Frames} \cup {0}]
ZeroElem == [id |-> 0, len |-> 0]

Inc(i) == (i + 1) % IdxMod

VARIABLES
  RingSize,     \* fixed by ctx->transport
  \* shared memory: rx queue and rx_buffers
  avail_ring, avail_idx, used_ring, used_idx, rx_buffers,
  \* virtio_net_t
  initialized, rx_last_used_idx,
  \* the receive call under way
  pc, buffer_size, elem,
  used_seen,    \* the used ring as it was at the barrier of the call
  got,          \* the frame handed to the caller last
  rejected,     \* history: the calls since init that found an unfit frame
  \* the device
  dev_avail,    \* avail entries it has taken
  filling       \* the descriptor it writes a frame to, or None

shared == <<avail_ring, avail_idx, used_ring, used_idx, rx_buffers>>
ctx    == <<initialized, rx_last_used_idx>>
local  == <<pc, buffer_size, elem, used_seen>>
result == <<got, rejected>>
dev    == <<dev_avail, filling>>
vars   == <<RingSize, shared, ctx, local, result, dev>>

Ring == 0 .. (RingSize - 1)

(* The loop of init_context that posts every descriptor. *)
Populated == [i \in Ring |-> IF i \in Descs THEN i ELSE 0]

Init ==
  /\ RingSize \in RingSizes
  /\ avail_ring = Populated /\ avail_idx = QueueSize
  /\ used_ring = [i \in Ring |-> ZeroElem] /\ used_idx = 0
  /\ rx_buffers = [d \in Descs |-> None]
  /\ initialized = TRUE
  /\ rx_last_used_idx = 0
  /\ pc = "idle" /\ buffer_size = 0 /\ elem = ZeroElem
  /\ used_seen = used_ring
  /\ got = None /\ rejected = 0
  /\ dev_avail = 0 /\ filling = None

----------------------------------------------------------------------------
(* virtio_net_receive, in program order. *)

(* The argument checks; last_used and the barrier. *)
Receive(size) ==
  /\ pc = "idle"
  /\ initialized
  /\ buffer_size' = size
  /\ used_seen' = used_ring
  /\ pc' = "poll"
  /\ UNCHANGED <<RingSize, shared, ctx, elem, result, dev>>

(* return -1: nothing returned since the last call. *)
PollEmpty ==
  /\ pc = "poll"
  /\ used_idx = rx_last_used_idx
  /\ pc' = "idle"
  /\ UNCHANGED <<RingSize, shared, ctx, buffer_size, elem, used_seen, result, dev>>

(* Seeded fault of PollElem: reads the newest element of the used ring. *)
PollElem_newest ==
  /\ pc = "poll"
  /\ used_idx # rx_last_used_idx
  /\ elem' = used_ring[(used_idx - 1) % RingSize]
  /\ pc' = "check"
  /\ UNCHANGED <<RingSize, shared, ctx, buffer_size, used_seen, result, dev>>

(* The used element.  The barrier comes after this load, not between it    *)
(* and the load of used.idx: it may be any value since the first barrier.  *)
PollElem ==
  /\ pc = "poll"
  /\ used_idx # rx_last_used_idx
  /\ LET i == rx_last_used_idx % RingSize
     IN  elem' \in IF WeakLoads THEN {used_ring[i], used_seen[i]} ELSE {used_ring[i]}
  /\ pc' = "check"
  /\ UNCHANGED <<RingSize, shared, ctx, buffer_size, used_seen, result, dev>>

Unfit(len) ==
  \/ len = 0
  \/ len > MaxPacket
  \/ len < HdrLen
  \/ len - HdrLen > buffer_size

Rejected == elem.id \notin Descs \/ Unfit(elem.len)

(* The error returns: the element is consumed, its descriptor stays out.   *)
(* The history variable counts the calls whose frame really is unfit.      *)
Reject ==
  /\ pc = "check"
  /\ Rejected
  /\ rejected' = rejected +
       (IF Unfit(used_ring[rx_last_used_idx % RingSize].len) THEN 1 ELSE 0)
  /\ rx_last_used_idx' = Inc(rx_last_used_idx)
  /\ pc' = "idle"
  /\ UNCHANGED <<RingSize, shared, initialized, buffer_size, elem, used_seen, got, dev>>

(* Seeded fault of Copy: the element is not consumed. *)
Copy_unconsumed ==
  /\ pc = "check"
  /\ ~Rejected
  /\ got' = rx_buffers[elem.id]
  /\ pc' = "repost"
  /\ UNCHANGED <<RingSize, shared, ctx, buffer_size, elem, used_seen, rejected, dev>>

(* The copy to the caller and rx_last_used_idx++. *)
Copy ==
  /\ pc = "check"
  /\ ~Rejected
  /\ got' = rx_buffers[elem.id]
  /\ rx_last_used_idx' = Inc(rx_last_used_idx)
  /\ pc' = "repost"
  /\ UNCHANGED <<RingSize, shared, initialized, buffer_size, elem, used_seen, rejected, dev>>

(* Seeded fault of Repost: the MMIO ring size used for the PCI ring. *)
Repost_modulus ==
  /\ pc = "repost"
  /\ avail_ring' = [avail_ring EXCEPT ![avail_idx % QueueSize] = elem.id]
  /\ pc' = "kick"
  /\ UNCHANGED <<RingSize, avail_idx, used_ring, used_idx, rx_buffers, ctx, buffer_size,
                 elem, used_seen, result, dev>>

(* avail.ring[avail.idx % size] = desc_id, then a barrier. *)
Repost ==
  /\ pc = "repost"
  /\ avail_ring' = [avail_ring EXCEPT ![avail_idx % RingSize] = elem.id]
  /\ pc' = "kick"
  /\ UNCHANGED <<RingSize, avail_idx, used_ring, used_idx, rx_buffers, ctx, buffer_size,
                 elem, used_seen, result, dev>>

(* avail.idx++, barrier, notify, return 0. *)
Kick ==
  /\ pc = "kick"
  /\ avail_idx' = Inc(avail_idx)
  /\ pc' = "idle"
  /\ UNCHANGED <<RingSize, avail_ring, used_ring, used_idx, rx_buffers, ctx, buffer_size,
                 elem, used_seen, result, dev>>

(* virtio_net_deinit_context: status 0 resets the device. *)
Deinit ==
  /\ pc = "idle"
  /\ initialized
  /\ initialized' = FALSE
  /\ dev_avail' = 0 /\ filling' = None
  /\ got' = None /\ rejected' = 0
  /\ UNCHANGED <<RingSize, shared, rx_last_used_idx, local>>

(* virtio_net_init_context on a released context. *)
Reinit ==
  /\ pc = "idle"
  /\ ~initialized
  /\ avail_ring' = Populated /\ avail_idx' = QueueSize
  /\ used_ring' = [i \in Ring |-> ZeroElem] /\ used_idx' = 0
  /\ rx_buffers' = [d \in Descs |-> None]
  /\ initialized' = TRUE
  /\ rx_last_used_idx' = 0
  /\ UNCHANGED <<RingSize, local, result, dev>>

----------------------------------------------------------------------------
(* The device (external): a frame from the network goes to the next posted *)
(* descriptor and is dropped when there is none.                           *)
DevTake ==
  /\ initialized
  /\ filling = None
  /\ dev_avail # avail_idx
  /\ filling' = avail_ring[dev_avail % RingSize]
  /\ dev_avail' = Inc(dev_avail)
  /\ UNCHANGED <<RingSize, shared, ctx, local, result>>

DevReturn(f) ==
  /\ filling # None
  /\ rx_buffers' = [rx_buffers EXCEPT ![filling] = f]
  /\ used_ring' = [used_ring EXCEPT ![used_idx % RingSize] =
                     [id |-> filling, len |-> packet_len[f]]]
  /\ used_idx' = Inc(used_idx)
  /\ filling' = None
  /\ UNCHANGED <<RingSize, avail_ring, avail_idx, ctx, local, result, dev_avail>>

Call == PollEmpty \/ PollElem \/ Reject \/ Copy \/ Repost \/ Kick

Next ==
  \/ \E size \in BufferSizes : Receive(size)
  \/ Call
  \/ Deinit
  \/ Reinit
  \/ DevTake
  \/ \E f \in Frames : DevReturn(f)

Spec == Init /\ [][Next]_vars

(* The applications poll in an endless loop and a call runs to its end.    *)
FairSpec ==
  Spec /\ WF_vars(Call) /\ WF_vars(\E size \in BufferSizes : Receive(size))

----------------------------------------------------------------------------
(* The part of ring r from counter `from' up to counter `to'. *)
Entries(r, from, to) ==
  [k \in 1 .. ((to - from) % IdxMod) |-> r[(from + k - 1) % RingSize]]

Posted   == Entries(avail_ring, dev_avail, avail_idx)
Returned == Entries(used_ring, rx_last_used_idx, used_idx)

(* The descriptor the driver took from the used ring and has not reposted. *)
Holding == IF pc \in {"repost", "kick"} THEN {elem.id} ELSE {}

Writing == {filling} \ {None}

Owned ==
  {Posted[i] : i \in DOMAIN Posted} \cup {Returned[i].id : i \in DOMAIN Returned}
    \cup Holding \cup Writing

(* Types of the receive queue; ring indices and counters stay in range.     *)
TypeOK ==
  /\ RingSize \in RingSizes
  /\ avail_ring \in [Ring -> Descs] /\ used_ring \in [Ring -> Elem]
  /\ avail_idx \in 0 .. IdxMod - 1 /\ used_idx \in 0 .. IdxMod - 1
  /\ rx_buffers \in [Descs -> Frames \cup {None}]
  /\ initialized \in BOOLEAN
  /\ rx_last_used_idx \in 0 .. IdxMod - 1
  /\ pc \in {"idle", "poll", "check", "repost", "kick"}
  /\ buffer_size \in BufferSizes \cup {0}
  /\ elem \in Elem
  /\ used_seen \in [Ring -> Elem]
  /\ got \in Frames \cup {None}
  /\ rejected \in 0 .. QueueSize
  /\ dev_avail \in 0 .. IdxMod - 1
  /\ filling \in Descs \cup {None}

(* The state is well typed, the counters stay within their width, and a    *)
(* descriptor is in at most one place: posted, being written by the        *)
(* device, returned, or held by the receive call.  Posted twice, the       *)
(* device would write two frames into one buffer.                          *)
RxOwnership ==
  /\ TypeOK
  /\ initialized =>
       Len(Posted) + Len(Returned) + Cardinality(Holding) + Cardinality(Writing)
         = Cardinality(Owned)

(* Of the descriptors that init_context posted a receive call forgets only *)
(* those whose frame was unfit: the rest is in play ("Re-add descriptor to *)
(* available ring for next packet"), and each unfit frame costs one for    *)
(* good, whatever is received after it.                                    *)
KeepsDescriptors == initialized => Cardinality(Owned) = QueueSize - rejected

(* Refinement: frames reach the caller unchanged, once and in the order    *)
(* the device returned them; a call that fails discards one.  A polling    *)
(* caller sees every returned frame leave.                                 *)
Queue ==
  IF initialized
  THEN [i \in 1 .. Len(Returned) |-> rx_buffers[Returned[i].id]]
  ELSE <<>>

Fifo == INSTANCE FrameFifo
          WITH pending <- Queue, out <- got, Capacity <- QueueSize,
               MayDiscard <- TRUE

(* virtio_net_receive delivers what the device returned, in order.         *)
ReceivesInOrder == Fifo!FairSpec

=============================================================================
