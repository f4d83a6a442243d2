----------------------------- MODULE VirtioRng -----------------------------
(***************************************************************************)
(* virtio_rng_read of drivers/virtio_rng/virtio_rng.c and the entropy      *)
(* device: one request per call, a busy wait with a bound, and one buffer, *)
(* ctx->buffer, that every request shares.  A call that gives up releases  *)
(* its descriptor, but the request stays with the device.  The CPU's loads *)
(* are taken in program order.                                             *)
(*                                                                         *)
(* Bytes are abstracted to what tells two reads apart: "fresh" when the    *)
(* device wrote them and no call has returned them, "seen" once one has.   *)
(***************************************************************************)
EXTENDS Integers, FiniteSets

CONSTANTS
  QueueSize,    \* VIRTIO_RNG_QUEUE_SIZE
  IdxMod,       \* 2^16
  Sizes,        \* read sizes, at most sizeof(ctx->buffer)
  MaxTimeouts   \* bound on the calls that give up between two inits

ASSUME SizeAssumption ==
  /\ QueueSize \in Nat \ {0}
  /\ IdxMod \in Nat /\ QueueSize < IdxMod
  /\ IdxMod % QueueSize = 0
  /\ Sizes \subseteq Nat \ {0} /\ Sizes # {}
  /\ MaxTimeouts \in Nat

Descs == 0 .. (QueueSize - 1)
Elem == [id : Descs, len : Sizes \cup {0}]
ZeroElem == [id |-> 0, len |-> 0]

Inc(i) == (i + 1) % IdxMod

VARIABLES
  \* ctx->queue and ctx->buffer, shared with the device
  desc_len, avail_ring, avail_idx, used_ring, used_idx, buffer,
  \* virtio_rng_t
  initialized, desc_in_use, last_used_idx,
  \* the read under way
  pc, size, desc_idx,
  result,       \* what the last read returned
  timeouts,     \* reads that gave up since the device was initialised
  \* the device
  dev_avail, serving

queue == <<desc_len, avail_ring, avail_idx, used_ring, used_idx>>
ctx   == <<initialized, desc_in_use, last_used_idx>>
local == <<pc, size, desc_idx>>
dev   == <<dev_avail, serving>>
vars  == <<queue, buffer, ctx, local, result, timeouts, dev>>

NoDesc == QueueSize
NoBytes == [bytes |-> "none", len |-> 0]

Init ==
  /\ desc_len = [d \in Descs |-> 0]
  /\ avail_ring = [d \in Descs |-> 0] /\ avail_idx = 0
  /\ used_ring = [d \in Descs |-> ZeroElem] /\ used_idx = 0
  /\ buffer = "zero"
  /\ initialized = TRUE
  /\ desc_in_use = [d \in Descs |-> FALSE]
  /\ last_used_idx = 0
  /\ pc = "idle" /\ size = 0 /\ desc_idx = 0
  /\ result = NoBytes
  /\ timeouts = 0
  /\ dev_avail = 0 /\ serving = NoDesc

----------------------------------------------------------------------------
(* virtio_rng_read. *)

(* Take the first free descriptor, fill it and the avail entry; barrier.   *)
(* That no descriptor is free (return -1) never happens: see LagIsTimeouts.*)
Read(n) ==
  /\ pc = "idle"
  /\ initialized
  /\ \E d \in Descs :
       /\ ~desc_in_use[d]
       /\ \A e \in Descs : e < d => desc_in_use[e]
       /\ desc_in_use' = [desc_in_use EXCEPT ![d] = TRUE]
       /\ desc_len' = [desc_len EXCEPT ![d] = n]
       /\ avail_ring' = [avail_ring EXCEPT ![avail_idx % QueueSize] = d]
       /\ desc_idx' = d
  /\ size' = n
  /\ pc' = "kick"
  /\ UNCHANGED <<avail_idx, used_ring, used_idx, buffer, initialized,
                 last_used_idx, result, timeouts, dev>>

(* avail.idx++, barrier, notify. *)
Kick ==
  /\ pc = "kick"
  /\ avail_idx' = Inc(avail_idx)
  /\ pc' = "poll"
  /\ UNCHANGED <<desc_len, avail_ring, used_ring, used_idx, buffer, ctx, size,
                 desc_idx, result, timeouts, dev>>

(* Seeded fault of Timeout: the answer that did not come is counted as     *)
(* consumed.                                                               *)
Timeout_consume ==
  /\ pc = "poll"
  /\ timeouts < MaxTimeouts
  /\ timeouts' = timeouts + 1
  /\ desc_in_use' = [desc_in_use EXCEPT ![desc_idx] = FALSE]
  /\ last_used_idx' = Inc(last_used_idx)
  /\ result' = NoBytes
  /\ pc' = "idle"
  /\ UNCHANGED <<queue, buffer, initialized, size, desc_idx, dev>>

(* timeout_count reached 0.  The loop tests used.idx before the count, so  *)
(* this is the outcome also when the answer arrived at the last poll.      *)
Timeout ==
  /\ pc = "poll"
  /\ timeouts < MaxTimeouts
  /\ timeouts' = timeouts + 1
  /\ desc_in_use' = [desc_in_use EXCEPT ![desc_idx] = FALSE]
  /\ result' = NoBytes
  /\ pc' = "idle"
  /\ UNCHANGED <<queue, buffer, initialized, last_used_idx, size, desc_idx, dev>>

(* Seeded fault of Answer: the element is not consumed. *)
Answer_unconsumed ==
  /\ pc = "poll"
  /\ used_idx # last_used_idx
  /\ LET e == used_ring[last_used_idx % QueueSize]
     IN  /\ desc_in_use' = [desc_in_use EXCEPT ![e.id] = FALSE]
         /\ size' = IF e.len > size THEN size ELSE e.len
  /\ pc' = "copy"
  /\ UNCHANGED <<queue, buffer, initialized, last_used_idx, desc_idx, result, timeouts, dev>>

(* used.idx moved: consume the element and release its descriptor. *)
Answer ==
  /\ pc = "poll"
  /\ used_idx # last_used_idx
  /\ LET e == used_ring[last_used_idx % QueueSize]
     IN  /\ desc_in_use' = [desc_in_use EXCEPT ![e.id] = FALSE]
         /\ size' = IF e.len > size THEN size ELSE e.len
  /\ last_used_idx' = Inc(last_used_idx)
  /\ pc' = "copy"
  /\ UNCHANGED <<queue, buffer, initialized, desc_idx, result,
                 timeouts, dev>>

(* memcpy of ctx->buffer; return of the number of bytes. *)
CopyOut ==
  /\ pc = "copy"
  /\ result' = [bytes |-> buffer, len |-> size]
  /\ buffer' = "seen"
  /\ pc' = "idle"
  /\ UNCHANGED <<queue, ctx, size, desc_idx, timeouts, dev>>

(* virtio_rng_deinit_context: status 0 resets the device. *)
Deinit ==
  /\ pc = "idle"
  /\ initialized
  /\ initialized' = FALSE
  /\ dev_avail' = 0 /\ serving' = NoDesc
  /\ result' = NoBytes
  /\ UNCHANGED <<queue, buffer, desc_in_use, last_used_idx, local, timeouts>>

(* virtio_rng_init_context zeroes the queue, not desc_in_use or buffer. *)
Reinit ==
  /\ pc = "idle"
  /\ ~initialized
  /\ desc_len' = [d \in Descs |-> 0]
  /\ avail_ring' = [d \in Descs |-> 0] /\ avail_idx' = 0
  /\ used_ring' = [d \in Descs |-> ZeroElem] /\ used_idx' = 0
  /\ last_used_idx' = 0
  /\ initialized' = TRUE
  /\ timeouts' = 0
  /\ UNCHANGED <<buffer, desc_in_use, local, result, dev>>

----------------------------------------------------------------------------
(* The device (external): takes a request, writes the bytes, answers. *)
DevTake ==
  /\ initialized
  /\ serving = NoDesc
  /\ dev_avail # avail_idx
  /\ serving' = avail_ring[dev_avail % QueueSize]
  /\ dev_avail' = Inc(dev_avail)
  /\ buffer' = "fresh"
  /\ UNCHANGED <<queue, ctx, local, result, timeouts>>

DevAnswer ==
  /\ serving # NoDesc
  /\ used_ring' = [used_ring EXCEPT ![used_idx % QueueSize] =
                     [id |-> serving, len |-> desc_len[serving]]]
  /\ used_idx' = Inc(used_idx)
  /\ serving' = NoDesc
  /\ UNCHANGED <<desc_len, avail_ring, avail_idx, buffer, ctx, local, result,
                 timeouts, dev_avail>>

Next ==
  \/ \E n \in Sizes : Read(n)
  \/ Kick
  \/ Timeout
  \/ Answer
  \/ CopyOut
  \/ Deinit
  \/ Reinit
  \/ DevTake
  \/ DevAnswer

Spec == Init /\ [][Next]_vars

----------------------------------------------------------------------------
(* Types of the request queue; ring indices and counters stay in range.     *)
TypeOK ==
  /\ desc_len \in [Descs -> Sizes \cup {0}]
  /\ avail_ring \in [Descs -> Descs]
  /\ used_ring \in [Descs -> Elem]
  /\ {avail_idx, used_idx, last_used_idx, dev_avail} \subseteq 0 .. IdxMod - 1
  /\ buffer \in {"zero", "fresh", "seen"}
  /\ initialized \in BOOLEAN
  /\ desc_in_use \in [Descs -> BOOLEAN]
  /\ pc \in {"idle", "kick", "poll", "copy"}
  /\ size \in Sizes \cup {0}
  /\ desc_idx \in Descs
  /\ result \in [bytes : {"none", "zero", "fresh", "seen"}, len : Sizes \cup {0}]
  /\ timeouts \in 0 .. MaxTimeouts
  /\ serving \in Descs \cup {NoDesc}

(* "Read random bytes from hardware RNG" (virtio_rng.h): as long as no     *)
(* read has given up since init, a read returns bytes that the device      *)
(* wrote and no read returned before, in spite of the one shared buffer.   *)
FreshBytes == timeouts = 0 => result.bytes \in {"none", "fresh"}

(* Each call that gave up shifts the pairing of requests and answers by    *)
(* one for good: the calls lag behind their requests by the number of      *)
(* timeouts since initialisation.  The state is well typed throughout, and *)
(* no path of virtio_rng_read keeps a descriptor past its return, so the   *)
(* search for a free one succeeds however many calls have given up.        *)
LagIsTimeouts ==
  /\ TypeOK
  /\ pc = "idle" => \A d \in Descs : ~desc_in_use[d]
  /\ initialized =>
       (avail_idx - last_used_idx) % IdxMod =
         (timeouts + (IF pc = "poll" THEN 1 ELSE 0)) % IdxMod

=============================================================================
