------------------------- MODULE VirtioNetTxProofs -------------------------
(***************************************************************************)
(* For every number of descriptors, ring size and counter width, and every *)
(* order in which the device returns descriptors: a transmit descriptor is *)
(* marked in use exactly while it is in one place between the call that    *)
(* took it and the reclaim of its completion, and the queue is a FIFO of   *)
(* the accepted frames.                                                    *)
(***************************************************************************)
EXTENDS VirtioNetTx, RingTheorems

(* Published and not yet sent, in the order of publication. *)
InFlight == fetched \o Posted

Used == {d \in Descs : tx_desc_in_use[d]}

(* The places a descriptor in use can be in have nothing in common, and no *)
(* place has a descriptor twice.                                           *)
Places ==
  /\ IsInjective(InFlight)
  /\ IsInjective(Returned)
  /\ Range(InFlight) \cap done = {}
  /\ Range(InFlight) \cap Range(Returned) = {}
  /\ done \cap Range(Returned) = {}
  /\ Filling \cap (Range(InFlight) \cup done \cup Range(Returned)) = {}
  /\ Used = Filling \cup Range(InFlight) \cup done \cup Range(Returned)

(* A device that was reset holds nothing, and no call is under way. *)
Off == ~initialized => /\ pc = "idle"
                       /\ dev_avail = 0 /\ fetched = <<>> /\ done = {} /\ wire = None

(* What the call under way has written so far. *)
Written ==
  /\ pc # "idle" => packet \in Frames
  /\ pc \in {"publish", "kick"} => tx_buffers[desc_idx] = packet
  /\ pc = "kick" => avail_ring[avail_idx % RingSize] = desc_idx

IInv == TypeOK /\ (initialized => Places) /\ Off /\ Written

----------------------------------------------------------------------------
(* There are QueueSize descriptors. *)
LEMMA DescCount == IsFiniteSet(Descs) /\ Cardinality(Descs) = QueueSize /\ 0 \in Descs
<1>1. QueueSize \in Nat /\ QueueSize > 0 /\ 0 \in Int /\ QueueSize - 1 \in Int
  BY SizeAssumption
<1>2. IsFiniteSet(Descs) /\ Cardinality(Descs) = IF 0 > QueueSize - 1 THEN 0 ELSE QueueSize - 1 - 0 + 1
  BY <1>1, FS_Interval DEF Descs
<1>3. QED BY <1>1, <1>2 DEF Descs

(* The two rings and the counters over them are as the window lemmas need. *)
LEMMA RingGeometry ==
  ASSUME NEW n \in RingSizes
  PROVE  /\ Geometry(IdxMod, n) /\ QueueSize <= n /\ n \in Nat \ {0}
         /\ IdxMod \in Nat /\ IdxMod > 1 /\ 0 \in 0 .. IdxMod - 1
BY SizeAssumption DEF Geometry

(* Counters step within their range. *)
LEMMA IncType ==
  ASSUME NEW n \in RingSizes, NEW i \in 0 .. IdxMod - 1
  PROVE  Inc(i) \in 0 .. IdxMod - 1
BY RingGeometry, WrapStep DEF Inc

(* An index selects an entry of the ring. *)
LEMMA Position ==
  ASSUME TypeOK, NEW i \in 0 .. IdxMod - 1
  PROVE  i % RingSize \in Ring
<1>1. RingSize \in Nat \ {0} /\ i \in Int
  BY RingGeometry DEF TypeOK
<1>2. QED BY <1>1, DivMod DEF Ring

(* What is posted and returned are windows of the two rings. *)
LEMMA Windows ==
  ASSUME TypeOK
  PROVE  /\ IsWindow(avail_ring, dev_avail, avail_idx, IdxMod, RingSize, Descs)
         /\ IsWindow(used_ring, tx_last_used_idx, used_idx, IdxMod, RingSize, Descs)
         /\ Posted = Window(avail_ring, dev_avail, avail_idx, IdxMod, RingSize)
         /\ Returned = Window(used_ring, tx_last_used_idx, used_idx, IdxMod, RingSize)
         /\ Posted \in Seq(Descs) /\ Returned \in Seq(Descs)
         /\ InFlight \in Seq(Descs) /\ Len(InFlight) = Len(fetched) + Len(Posted)
         /\ Range(InFlight) = Range(fetched) \cup Range(Posted)
<1>1. /\ IsWindow(avail_ring, dev_avail, avail_idx, IdxMod, RingSize, Descs)
      /\ IsWindow(used_ring, tx_last_used_idx, used_idx, IdxMod, RingSize, Descs)
  BY RingGeometry DEF TypeOK, IsWindow, Ring
<1>2. /\ Posted = Window(avail_ring, dev_avail, avail_idx, IdxMod, RingSize)
      /\ Returned = Window(used_ring, tx_last_used_idx, used_idx, IdxMod, RingSize)
  BY DEF Posted, Returned, Entries, Window
<1>3. Posted \in Seq(Descs) /\ Returned \in Seq(Descs)
  BY <1>1, <1>2, WindowType
<1>4. fetched \in Seq(Descs)
  BY DEF TypeOK
<1>5. /\ InFlight \in Seq(Descs) /\ Len(InFlight) = Len(fetched) + Len(Posted)
      /\ Range(InFlight) = Range(fetched) \cup Range(Posted)
  BY <1>3, <1>4, ConcatProperties, RangeConcatenation DEF InFlight
<1>6. QED BY <1>1, <1>2, <1>3, <1>5

(* A descriptor that is not in flight leaves room in the avail ring. *)
LEMMA RoomToPost ==
  ASSUME TypeOK, IsInjective(InFlight), NEW d \in Descs, d \notin Range(InFlight)
  PROVE  Len(InFlight) < QueueSize /\ (avail_idx - dev_avail) % IdxMod < RingSize
<1>1. InFlight \in Seq(Descs) /\ Len(InFlight) = Len(fetched) + Len(Posted)
  BY Windows
<1>2. Len(InFlight) < QueueSize
  BY <1>1, DescCount, InjectiveStrict
<1>3. Len(Posted) = (avail_idx - dev_avail) % IdxMod
  BY Windows, WindowType
<1>4. Len(fetched) \in Nat /\ Len(Posted) \in Nat
  BY Windows, LenProperties DEF TypeOK
<1>5. QueueSize <= RingSize /\ RingSize \in Nat /\ QueueSize \in Nat
  BY RingGeometry, SizeAssumption DEF TypeOK
<1> HIDE DEF Posted
<1>6. QED BY <1>1, <1>2, <1>3, <1>4, <1>5

(* One that is not returned leaves room in the used ring. *)
LEMMA RoomToReturn ==
  ASSUME TypeOK, IsInjective(Returned), NEW d \in Descs, d \notin Range(Returned)
  PROVE  (used_idx - tx_last_used_idx) % IdxMod < RingSize
<1>1. Returned \in Seq(Descs)
  BY Windows
<1>2. Len(Returned) < QueueSize
  BY <1>1, DescCount, InjectiveStrict
<1>3. Len(Returned) = (used_idx - tx_last_used_idx) % IdxMod
  BY Windows, WindowType
<1>4. QueueSize <= RingSize /\ RingSize \in Nat /\ QueueSize \in Nat /\ Len(Returned) \in Nat
  BY <1>1, RingGeometry, SizeAssumption, LenProperties DEF TypeOK
<1>5. QED BY <1>2, <1>3, <1>4

----------------------------------------------------------------------------
(* Right after an initialisation nothing is in flight or returned. *)
LEMMA EmptyQueue ==
  ASSUME TypeOK, avail_idx = dev_avail, used_idx = tx_last_used_idx, fetched = <<>>
  PROVE  Posted = <<>> /\ Returned = <<>> /\ InFlight = <<>> /\ IsInjective(<<>>)
         /\ Range(<<>>) = {}
<1>1. Posted = <<>> /\ Returned = <<>>
  BY Windows, WindowEmpty
<1>2. InFlight = <<>>
  BY <1>1 DEF InFlight
<1>3. QED BY <1>1, <1>2 DEF IsInjective, Range

(* The state after probe satisfies the invariant. *)
LEMMA InitInv == Init => IInv
<1> SUFFICES ASSUME Init PROVE IInv
  OBVIOUS
<1>1. TypeOK
  <2>1. 0 \in Descs /\ 0 \in 0 .. IdxMod - 1 /\ 0 <= QueueSize
    BY DescCount, RingGeometry, SizeAssumption DEF Init
  <2>2. <<>> \in Seq(Descs) /\ Len(<<>>) = 0
    BY EmptySeq
  <2>3. QED BY <2>1, <2>2 DEF Init, TypeOK, Zero
<1>2. Posted = <<>> /\ Returned = <<>> /\ InFlight = <<>> /\ IsInjective(<<>>)
      /\ Range(<<>>) = {}
  BY <1>1, EmptyQueue DEF Init
<1>3. Places
  BY <1>2 DEF Init, Places, Used, Filling
<1>4. QED BY <1>1, <1>3 DEF Init, IInv, Off, Written

(* Steps that leave the rings, the counters and the device alone leave the *)
(* windows alone.                                                          *)
LEMMA SameWindows ==
  ASSUME UNCHANGED <<RingSize, avail_ring, avail_idx, used_ring, used_idx,
                     tx_last_used_idx, dev_avail, fetched>>
  PROVE  Posted' = Posted /\ Returned' = Returned /\ InFlight' = InFlight
BY DEF Posted, Returned, InFlight, Entries

(* The argument checks of a call preserve the invariant. *)
LEMMA TransmitInv ==
  ASSUME NEW f \in Frames, IInv, Transmit(f) PROVE IInv'
<1>1. TypeOK'
  BY DEF IInv, TypeOK, Ring, Transmit, shared, ctx, dev
<1>2. Posted' = Posted /\ Returned' = Returned /\ InFlight' = InFlight
  BY SameWindows DEF Transmit, shared, ctx, dev
<1>3. (initialized => Places)'
  BY <1>2 DEF IInv, Places, Used, Filling, Transmit, ctx, dev
<1>4. Off' /\ Written'
  BY DEF IInv, Off, Written, Transmit, ctx, dev
<1>5. QED BY <1>1, <1>3, <1>4 DEF IInv

(* virtio_net_reclaim_tx preserves the invariant: it frees what was        *)
(* returned, and only that.                                                *)
LEMMA ReclaimInv ==
  ASSUME IInv, Reclaim PROVE IInv'
<1> DEFINE n == (used_idx - tx_last_used_idx) % IdxMod
           back == {used_ring[(tx_last_used_idx + k) % RingSize] : k \in 0 .. n - 1}
<1>0. TypeOK /\ initialized /\ Places
  BY DEF IInv, Off, Reclaim
<1>1. TypeOK'
  BY DEF IInv, TypeOK, Ring, Reclaim, shared, dev
<1>2. Returned' = <<>> /\ Posted' = Posted /\ InFlight' = InFlight
  <2>1. Posted' = Posted /\ InFlight' = InFlight
    BY DEF Posted, InFlight, Entries, Reclaim, shared, dev
  <2>2. /\ IsWindow(used_ring', tx_last_used_idx', used_idx', IdxMod, RingSize', Descs)
        /\ Returned' = Window(used_ring', tx_last_used_idx', used_idx', IdxMod, RingSize')
        /\ tx_last_used_idx' = used_idx'
    BY <1>1, RingGeometry
    DEF TypeOK, IsWindow, Ring, Returned, Entries, Window, Reclaim, shared
  <2>3. Returned' = <<>>
    BY <2>2, WindowEmpty
  <2>4. QED BY <2>1, <2>3
<1>3. back = Range(Returned)
  <2>1. n \in Int
    <3>1. used_idx - tx_last_used_idx \in Int /\ IdxMod \in Nat \ {0}
      BY <1>0, SizeAssumption DEF TypeOK
    <3>2. n \in 0 .. IdxMod - 1
      BY <3>1, DivMod, Zenon
    <3>3. QED BY <3>1, <3>2
  <2>2. Returned = [k \in 1 .. n |-> used_ring[(tx_last_used_idx + k - 1) % RingSize]]
    BY DEF Returned, Entries
  <2> HIDE DEF n
  <2>3. ASSUME NEW k \in 0 .. n - 1
        PROVE  used_ring[(tx_last_used_idx + k) % RingSize] \in Range(Returned)
    <3>1. k + 1 \in 1 .. n /\ tx_last_used_idx + (k + 1) - 1 = tx_last_used_idx + k
      BY <1>0, <2>1 DEF TypeOK
    <3>2. QED BY <2>2, <3>1 DEF Range
  <2>4. ASSUME NEW k \in 1 .. n
        PROVE  used_ring[(tx_last_used_idx + k - 1) % RingSize] \in back
    <3>1. k - 1 \in 0 .. n - 1 /\ tx_last_used_idx + (k - 1) = tx_last_used_idx + k - 1
      BY <1>0, <2>1 DEF TypeOK
    <3>2. QED BY <3>1
  <2>5. QED BY <2>2, <2>3, <2>4 DEF Range
<1>4. \A d \in Descs : tx_desc_in_use'[d] <=> (tx_desc_in_use[d] /\ d \notin back)
  BY DEF Reclaim
<1> HIDE DEF back, n
<1>5. Range(<<>>) = {} /\ IsInjective(<<>>)
  BY DEF Range, IsInjective
<1>6. Filling = {} /\ Filling' = {} /\ done' = done
  BY DEF Filling, Reclaim, dev
<1>7. Used' = Used \ Range(Returned)
  BY <1>3, <1>4 DEF Used
<1>8. Places'
  BY <1>0, <1>2, <1>5, <1>6, <1>7 DEF Places
<1>9. Off' /\ Written'
  BY <1>0 DEF IInv, Off, Written, Reclaim
<1>10. QED BY <1>1, <1>8, <1>9 DEF IInv

(* The refusal of a call preserves the invariant. *)
LEMMA NoDescriptorInv ==
  ASSUME IInv, NoDescriptor PROVE IInv'
<1>1. TypeOK'
  BY DEF IInv, TypeOK, Ring, NoDescriptor, shared, ctx, dev
<1>2. Posted' = Posted /\ Returned' = Returned /\ InFlight' = InFlight
  BY SameWindows DEF NoDescriptor, shared, ctx, dev
<1>3. (initialized => Places)'
  BY <1>2 DEF IInv, Places, Used, Filling, NoDescriptor, ctx, dev
<1>4. Off' /\ Written'
  BY DEF IInv, Off, Written, NoDescriptor, ctx, dev
<1>5. QED BY <1>1, <1>3, <1>4 DEF IInv

(* Taking and filling a free descriptor preserves the invariant. *)
LEMMA FillDescriptorInv ==
  ASSUME IInv, FillDescriptor PROVE IInv'
<1>0. TypeOK /\ initialized /\ Places /\ packet \in Frames
  BY DEF IInv, Off, Written, FillDescriptor
<1>1. PICK d \in Descs :
        /\ ~tx_desc_in_use[d]
        /\ tx_desc_in_use' = [tx_desc_in_use EXCEPT ![d] = TRUE]
        /\ desc_idx' = d
        /\ tx_buffers' = [tx_buffers EXCEPT ![d] = packet]
  BY DEF FillDescriptor
<1>2. TypeOK'
  BY <1>0, <1>1 DEF TypeOK, Ring, FillDescriptor, dev
<1>3. Posted' = Posted /\ Returned' = Returned /\ InFlight' = InFlight
  BY SameWindows DEF FillDescriptor, dev
<1>4. Used' = Used \cup {d} /\ d \notin Used
  BY <1>0, <1>1 DEF Used, TypeOK
<1>5. Filling = {} /\ Filling' = {d} /\ done' = done
  BY <1>1 DEF Filling, FillDescriptor, dev
<1>6. Places'
  BY <1>0, <1>3, <1>4, <1>5 DEF Places
<1>7. Off' /\ Written'
  BY <1>0, <1>1 DEF TypeOK, Off, Written, FillDescriptor
<1>8. QED BY <1>2, <1>6, <1>7 DEF IInv

(* The entry a call writes is not one the device has still to read. *)
LEMMA WriteInFlight ==
  ASSUME IInv, WriteAvail PROVE InFlight' = InFlight /\ Returned' = Returned
<1>0. TypeOK /\ initialized /\ Places /\ desc_idx \in Descs
  BY DEF IInv, TypeOK, Off, WriteAvail
<1>1. desc_idx \notin Range(InFlight)
  BY <1>0 DEF Places, Filling, WriteAvail
<1>2. (avail_idx - dev_avail) % IdxMod < RingSize
  BY <1>0, <1>1, RoomToPost DEF Places
<1>3. Posted' = Posted
  <2>1. Posted' = Window(avail_ring', dev_avail, avail_idx, IdxMod, RingSize)
    BY DEF Posted, Entries, Window, WriteAvail, dev
  <2>2. avail_ring' = [avail_ring EXCEPT ![avail_idx % RingSize] = desc_idx]
    BY DEF WriteAvail
  <2>3. /\ IsWindow(avail_ring, dev_avail, avail_idx, IdxMod, RingSize, Descs)
        /\ Posted = Window(avail_ring, dev_avail, avail_idx, IdxMod, RingSize)
    BY <1>0, Windows
  <2>4. Window([avail_ring EXCEPT ![avail_idx % RingSize] = desc_idx],
               dev_avail, avail_idx, IdxMod, RingSize)
          = Window(avail_ring, dev_avail, avail_idx, IdxMod, RingSize)
    BY <1>0, <1>2, <2>3, WindowWrite
  <2>5. QED BY <2>1, <2>2, <2>3, <2>4
<1>4. QED BY <1>3 DEF Returned, InFlight, Entries, WriteAvail, ctx, dev

(* Writing the avail entry preserves the invariant. *)
LEMMA WriteAvailInv ==
  ASSUME IInv, WriteAvail PROVE IInv'
<1>0. TypeOK /\ initialized /\ Places
  BY DEF IInv, Off, WriteAvail
<1>1. avail_idx % RingSize \in Ring
  BY <1>0, Position DEF TypeOK
<1>2. TypeOK'
  BY <1>0, <1>1 DEF TypeOK, Ring, WriteAvail, ctx, dev
<1>3. Places'
  BY <1>0, WriteInFlight DEF Places, Used, Filling, WriteAvail, ctx, dev
<1>4. Off' /\ Written'
  BY <1>0, <1>1 DEF IInv, TypeOK, Off, Written, WriteAvail, ctx
<1>5. QED BY <1>2, <1>3, <1>4 DEF IInv

(* avail.idx++ publishes the descriptor: it joins what is in flight. *)
LEMMA KickInFlight ==
  ASSUME IInv, Kick
  PROVE  /\ InFlight' = Append(InFlight, desc_idx) /\ Returned' = Returned
         /\ desc_idx \in Descs /\ desc_idx \notin Range(InFlight) /\ Len(InFlight) < QueueSize
<1>0. TypeOK /\ initialized /\ Places /\ desc_idx \in Descs
  BY DEF IInv, TypeOK, Off, Kick
<1>1. desc_idx \notin Range(InFlight)
  BY <1>0 DEF Places, Filling, Kick
<1>2. (avail_idx - dev_avail) % IdxMod < RingSize /\ Len(InFlight) < QueueSize
  BY <1>0, <1>1, RoomToPost DEF Places
<1>3. Posted' = Append(Posted, desc_idx)
  <2>1. Posted' = Window(avail_ring, dev_avail, (avail_idx + 1) % IdxMod, IdxMod, RingSize)
    BY DEF Posted, Entries, Window, Kick, dev, Inc
  <2>2. avail_ring[avail_idx % RingSize] = desc_idx
    BY DEF IInv, Written, Kick
  <2>3. QED BY <1>0, <1>2, <2>1, <2>2, Windows, WindowGrow
<1>4. fetched' = fetched /\ fetched \in Seq(Descs) /\ Posted \in Seq(Descs)
  BY <1>0, Windows DEF TypeOK, Kick, dev
<1>5. InFlight' = Append(InFlight, desc_idx)
  BY <1>0, <1>3, <1>4, ConcatAppend DEF InFlight
<1>6. Returned' = Returned
  BY DEF Returned, Entries, Kick, ctx
<1>7. QED BY <1>0, <1>1, <1>2, <1>5, <1>6

(* Publishing a descriptor preserves the invariant. *)
LEMMA KickInv ==
  ASSUME IInv, Kick PROVE IInv'
<1>0. TypeOK /\ initialized /\ Places /\ desc_idx \in Descs /\ InFlight \in Seq(Descs)
  BY Windows DEF IInv, TypeOK, Off, Kick
<1>1. TypeOK'
  BY <1>0, IncType DEF TypeOK, Ring, Kick, ctx, dev
<1>2. IsInjective(InFlight') /\ Range(InFlight') = Range(InFlight) \cup {desc_idx}
  <2>1. IsInjective(InFlight)
    BY <1>0 DEF Places
  <2>2. InFlight' = Append(InFlight, desc_idx) /\ desc_idx \notin Range(InFlight)
    BY KickInFlight
  <2>3. /\ IsInjective(Append(InFlight, desc_idx))
        /\ Range(Append(InFlight, desc_idx)) = Range(InFlight) \cup {desc_idx}
    BY <1>0, <2>1, <2>2, InjectiveAppend
  <2>4. QED BY <2>2, <2>3
<1>3. Filling = {desc_idx} /\ Filling' = {} /\ done' = done /\ Used' = Used
  BY DEF Filling, Used, Kick, ctx, dev
<1>4. Places'
  BY <1>0, <1>2, <1>3, KickInFlight DEF Places
<1>5. Off' /\ Written'
  BY <1>0 DEF Off, Written, Kick, ctx
<1>6. QED BY <1>1, <1>4, <1>5 DEF IInv

(* Tearing the context down preserves the invariant. *)
LEMMA DeinitInv ==
  ASSUME IInv, Deinit PROVE IInv'
<1>1. TypeOK'
  <2>1. 0 \in 0 .. IdxMod - 1 /\ 0 <= QueueSize
    BY RingGeometry, SizeAssumption DEF IInv, TypeOK
  <2>2. <<>> \in Seq(Descs) /\ Len(<<>>) = 0
    BY EmptySeq
  <2>3. QED BY <2>1, <2>2 DEF IInv, TypeOK, Ring, Deinit, shared, local
<1>2. (initialized => Places)' /\ Off' /\ Written'
  BY DEF IInv, Off, Written, Deinit, shared, local
<1>3. QED BY <1>1, <1>2 DEF IInv

(* A new initialisation starts with an empty queue. *)
LEMMA ReinitInFlight ==
  ASSUME IInv, Reinit
  PROVE  TypeOK' /\ Posted' = <<>> /\ Returned' = <<>> /\ InFlight' = <<>>
<1>0. TypeOK /\ fetched = <<>> /\ dev_avail = 0
  BY DEF IInv, Off, Reinit
<1>1. 0 \in Descs /\ 0 \in 0 .. IdxMod - 1
  BY <1>0, DescCount, RingGeometry DEF TypeOK
<1>2. TypeOK'
  BY <1>0, <1>1 DEF TypeOK, Ring, Reinit, local, dev
<1>3. /\ IsWindow(avail_ring', dev_avail', avail_idx', IdxMod, RingSize', Descs)
      /\ IsWindow(used_ring', tx_last_used_idx', used_idx', IdxMod, RingSize', Descs)
      /\ Posted' = Window(avail_ring', dev_avail', avail_idx', IdxMod, RingSize')
      /\ Returned' = Window(used_ring', tx_last_used_idx', used_idx', IdxMod, RingSize')
  BY <1>2, RingGeometry DEF TypeOK, IsWindow, Ring, Posted, Returned, Entries, Window
<1>4. Posted' = <<>> /\ Returned' = <<>>
  BY <1>0, <1>3, WindowEmpty DEF Reinit, dev
<1>5. InFlight' = <<>>
  BY <1>0, <1>4 DEF InFlight, Reinit, dev
<1>6. QED BY <1>2, <1>4, <1>5

(* A new initialisation preserves the invariant. *)
LEMMA ReinitInv ==
  ASSUME IInv, Reinit PROVE IInv'
<1>1. IsInjective(<<>>) /\ Range(<<>>) = {}
  BY DEF IsInjective, Range
<1>2. Filling' = {} /\ Used' = {} /\ done' = {}
  BY DEF IInv, Off, Filling, Used, Reinit, local, dev
<1>3. Places'
  BY <1>1, <1>2, ReinitInFlight DEF Places
<1>4. Off' /\ Written'
  BY DEF IInv, Off, Written, Reinit, local
<1>5. QED BY <1>3, <1>4, ReinitInFlight DEF IInv

(* What the device fetches stays in flight, in its order. *)
LEMMA FetchInFlight ==
  ASSUME IInv, DevFetch
  PROVE  /\ InFlight' = InFlight /\ Returned' = Returned
         /\ fetched' \in Seq(Descs) /\ Len(fetched') <= Len(InFlight)
<1>0. TypeOK /\ Places /\ fetched \in Seq(Descs) /\ Posted \in Seq(Descs)
  BY Windows DEF IInv, TypeOK, DevFetch
<1>1. /\ IsWindow(avail_ring, dev_avail, avail_idx, IdxMod, RingSize, Descs)
      /\ Posted = Window(avail_ring, dev_avail, avail_idx, IdxMod, RingSize)
  BY <1>0, Windows
<1>2. dev_avail # avail_idx
  BY DEF DevFetch
<1>3. Posted # <<>>
  BY <1>1, <1>2, WindowEmpty
<1>4. Posted' = Window(avail_ring, (dev_avail + 1) % IdxMod, avail_idx, IdxMod, RingSize)
  BY DEF Posted, Entries, Window, DevFetch, shared, Inc
<1>5. Posted' = Tail(Posted) /\ Head(Posted) = avail_ring[dev_avail % RingSize]
  BY <1>1, <1>2, <1>4, WindowShrink
<1>6. fetched' = Append(fetched, Head(Posted))
  BY <1>5 DEF DevFetch
<1>7. InFlight' = InFlight
  BY <1>0, <1>3, <1>5, <1>6, ConcatMove DEF InFlight
<1>8. Returned' = Returned
  BY DEF Returned, Entries, DevFetch, shared, ctx
<1>9. fetched' \in Seq(Descs) /\ Len(fetched') = Len(fetched) + 1
  BY <1>0, <1>3, <1>6, HeadTailProperties, AppendProperties
<1>10. Len(InFlight) = Len(fetched) + Len(Posted) /\ Len(Posted) \in Nat \ {0}
       /\ Len(fetched) \in Nat
  BY <1>0, <1>3, Windows, EmptySeq, LenProperties
<1>11. Len(fetched') <= Len(InFlight)
  <2> HIDE DEF Posted, InFlight
  <2> QED BY <1>9, <1>10
<1>12. QED BY <1>7, <1>8, <1>9, <1>11

(* The device fetching a descriptor preserves the invariant. *)
LEMMA DevFetchInv ==
  ASSUME IInv, DevFetch PROVE IInv'
<1>0. TypeOK /\ Places /\ initialized
  BY DEF IInv, DevFetch
<1>1. Len(InFlight) <= QueueSize
  BY <1>0, Windows, DescCount, InjectiveBound DEF Places
<1>2. TypeOK'
  <2>1. Len(fetched') <= QueueSize
    <3>1. Len(fetched') \in Nat /\ Len(InFlight) \in Nat /\ QueueSize \in Nat
      BY <1>0, FetchInFlight, Windows, LenProperties, SizeAssumption
    <3>2. QED BY <3>1, <1>1, FetchInFlight
  <2>2. dev_avail' \in 0 .. IdxMod - 1
    BY <1>0, IncType DEF TypeOK, DevFetch
  <2>3. QED BY <1>0, <2>1, <2>2, FetchInFlight DEF TypeOK, Ring, DevFetch, shared, ctx, local
<1>3. Places'
  BY <1>0, FetchInFlight DEF Places, Used, Filling, DevFetch, ctx, local
<1>4. Off' /\ Written'
  BY <1>0 DEF IInv, Off, Written, DevFetch, shared, ctx, local
<1>5. QED BY <1>2, <1>3, <1>4 DEF IInv

(* A sent frame leaves the descriptors in flight at their head. *)
LEMMA SendInFlight ==
  ASSUME IInv, DevSend
  PROVE  /\ InFlight # <<>> /\ InFlight' = Tail(InFlight) /\ Head(fetched) = Head(InFlight)
         /\ Returned' = Returned /\ Head(fetched) \in Descs
<1>0. TypeOK /\ fetched \in Seq(Descs) /\ Posted \in Seq(Descs) /\ fetched # <<>>
  BY Windows DEF IInv, TypeOK, DevSend
<1>1. Posted' = Posted /\ Returned' = Returned /\ fetched' = Tail(fetched)
  BY DEF Posted, Returned, Entries, DevSend, shared, ctx
<1>2. QED BY <1>0, <1>1, ConcatTail, HeadTailProperties DEF InFlight

(* The device sending a frame preserves the invariant. *)
LEMMA DevSendInv ==
  ASSUME IInv, DevSend PROVE IInv'
<1>0. TypeOK /\ initialized /\ Places /\ InFlight \in Seq(Descs) /\ IsInjective(InFlight)
  BY Windows DEF IInv, Off, DevSend, Places
<1> DEFINE d == Head(fetched)
<1>1. /\ InFlight # <<>> /\ InFlight' = Tail(InFlight) /\ d = Head(InFlight)
      /\ Returned' = Returned /\ d \in Descs
  BY SendInFlight
<1>2. /\ IsInjective(InFlight') /\ d \in Range(InFlight)
      /\ Range(InFlight') = Range(InFlight) \ {d}
  BY <1>0, <1>1, InjectiveTail
<1>3. TypeOK'
  <2>1. fetched' \in Seq(Descs) /\ Len(fetched') = Len(fetched) - 1 /\ Len(fetched) \in Nat
    BY <1>0, HeadTailProperties, LenProperties DEF TypeOK, DevSend
  <2>2. Len(fetched') <= QueueSize
    BY <1>0, <2>1, SizeAssumption DEF TypeOK
  <2>3. wire' \in Frames \cup {None} /\ done' \subseteq Descs
    BY <1>0, <1>1 DEF TypeOK, DevSend
  <2>4. QED BY <1>0, <2>1, <2>2, <2>3 DEF TypeOK, Ring, DevSend, shared, ctx, local
<1>4. done' = done \cup {d} /\ Filling' = Filling /\ Used' = Used
  BY DEF DevSend, Filling, Used, ctx, local
<1> HIDE DEF d
<1>5. Places'
  BY <1>0, <1>1, <1>2, <1>4 DEF Places
<1>6. Off' /\ Written'
  BY <1>0 DEF IInv, Off, Written, DevSend, shared, ctx, local
<1>7. QED BY <1>3, <1>5, <1>6 DEF IInv

(* The device returning a descriptor preserves the invariant. *)
LEMMA DevReturnInv ==
  ASSUME NEW d \in Descs, IInv, DevReturn(d) PROVE IInv'
<1>0. TypeOK /\ initialized /\ Places /\ d \in done /\ Returned \in Seq(Descs)
      /\ IsInjective(Returned)
  BY Windows DEF IInv, Off, DevReturn, Places
<1>1. d \notin Range(Returned)
  BY <1>0 DEF Places
<1>2. (used_idx - tx_last_used_idx) % IdxMod < RingSize
  BY <1>0, <1>1, RoomToReturn
<1>3. used_idx % RingSize \in Ring
  BY <1>0, Position DEF TypeOK
<1>4. TypeOK'
  <2>1. used_idx' \in 0 .. IdxMod - 1
    BY <1>0, IncType DEF TypeOK, DevReturn
  <2>2. QED BY <1>0, <1>3, <2>1 DEF TypeOK, Ring, DevReturn, ctx, local
<1>5. Returned' = Append(Returned, d)
  <2> DEFINE r == [used_ring EXCEPT ![used_idx % RingSize] = d]
  <2>1. /\ IsWindow(used_ring, tx_last_used_idx, used_idx, IdxMod, RingSize, Descs)
        /\ Returned = Window(used_ring, tx_last_used_idx, used_idx, IdxMod, RingSize)
    BY <1>0, Windows
  <2>2. Window(r, tx_last_used_idx, used_idx, IdxMod, RingSize) = Returned
    BY <1>2, <2>1, WindowWrite
  <2>3. IsWindow(r, tx_last_used_idx, used_idx, IdxMod, RingSize, Descs)
    BY <2>1 DEF IsWindow
  <2>4. r[used_idx % RingSize] = d
    BY <1>0, <1>3 DEF TypeOK
  <2>5. Returned' = Window(r, tx_last_used_idx, (used_idx + 1) % IdxMod, IdxMod, RingSize)
    BY DEF Returned, Entries, Window, DevReturn, ctx, Inc
  <2> HIDE DEF r
  <2>6. Window(r, tx_last_used_idx, (used_idx + 1) % IdxMod, IdxMod, RingSize) =
          Append(Window(r, tx_last_used_idx, used_idx, IdxMod, RingSize), r[used_idx % RingSize])
    BY <1>2, <2>3, WindowGrow
  <2>7. QED BY <2>2, <2>4, <2>5, <2>6
<1>6. IsInjective(Returned') /\ Range(Returned') = Range(Returned) \cup {d}
  BY <1>0, <1>1, <1>5, InjectiveAppend
<1>7. InFlight' = InFlight
  BY DEF InFlight, Posted, Entries, DevReturn
<1>8. done' = done \ {d} /\ Filling' = Filling /\ Used' = Used
  BY DEF DevReturn, Filling, Used, ctx, local
<1>9. Places'
  BY <1>0, <1>6, <1>7, <1>8 DEF Places
<1>10. Off' /\ Written'
  BY <1>0 DEF IInv, Off, Written, DevReturn, ctx, local
<1>11. QED BY <1>4, <1>9, <1>10 DEF IInv

----------------------------------------------------------------------------
(* The invariant holds in every reachable state of the transmit queue. *)
THEOREM TxInvariant == Spec => []IInv
<1>1. Init => IInv
  BY InitInv
<1>2. IInv /\ [Next]_vars => IInv'
  <2> SUFFICES ASSUME IInv, [Next]_vars PROVE IInv'
    OBVIOUS
  <2>1. CASE UNCHANGED vars
    <3>1. Posted' = Posted /\ Returned' = Returned /\ InFlight' = InFlight
      BY <2>1, SameWindows DEF vars, shared, ctx, dev
    <3>2. TypeOK'
      BY <2>1 DEF IInv, TypeOK, Ring, vars, shared, ctx, local, dev
    <3>3. (initialized => Places)' /\ Off' /\ Written'
      BY <2>1, <3>1 DEF IInv, Places, Used, Filling, Off, Written, vars, shared, ctx, local, dev
    <3>4. QED BY <3>2, <3>3 DEF IInv
  <2>2. CASE \E f \in Frames : Transmit(f)
    BY <2>2, TransmitInv
  <2>3. CASE Call
    BY <2>3, ReclaimInv, NoDescriptorInv, FillDescriptorInv, WriteAvailInv, KickInv DEF Call
  <2>4. CASE \E d \in Descs : DevReturn(d)
    BY <2>4, DevReturnInv
  <2>5. QED
    BY <2>1, <2>2, <2>3, <2>4, DeinitInv, ReinitInv, DevFetchInv, DevSendInv DEF Next
<1>3. QED BY <1>1, <1>2, PTL DEF Spec

(* A transmit descriptor is marked in use exactly while it is being        *)
(* filled, posted, held by the device or returned, and it is in one such   *)
(* place only, for every number of descriptors and wherever the 16-bit     *)
(* indices wrap.                                                           *)
THEOREM TxOwnershipHolds == Spec => []TxOwnership
<1>1. IInv => TxOwnership
  <2> SUFFICES ASSUME IInv, initialized
               PROVE  /\ Used = Filling \cup Range(Posted) \cup Range(fetched) \cup done
                                  \cup Range(Returned)
                      /\ Cardinality(Used) =
                           Cardinality(Filling) + Len(Posted) + Len(fetched)
                             + Cardinality(done) + Len(Returned)
    BY DEF IInv, TxOwnership, Used
  <2>1. TypeOK /\ Places
    BY DEF IInv
  <2>2. /\ InFlight \in Seq(Descs) /\ Returned \in Seq(Descs)
        /\ Len(InFlight) = Len(fetched) + Len(Posted)
        /\ Range(InFlight) = Range(fetched) \cup Range(Posted)
    BY <2>1, Windows
  <2>3. /\ IsFiniteSet(Range(InFlight)) /\ Cardinality(Range(InFlight)) = Len(InFlight)
        /\ IsFiniteSet(Range(Returned)) /\ Cardinality(Range(Returned)) = Len(Returned)
    BY <2>1, <2>2, InjectiveLen DEF Places
  <2>4. IsFiniteSet(done) /\ IsFiniteSet(Filling)
    <3>1. done \in SUBSET Descs /\ Filling \in SUBSET Descs
      BY <2>1 DEF TypeOK, Filling
    <3>2. QED BY <3>1, DescCount, FS_Subset
  <2> DEFINE A == Filling \cup Range(InFlight)
             B == A \cup done
             C == B \cup Range(Returned)
  <2>5. IsFiniteSet(A) /\ Cardinality(A) = Cardinality(Filling) + Cardinality(Range(InFlight))
    <3>1. Filling \cap Range(InFlight) = {}
      BY <2>1 DEF Places
    <3>2. QED BY <2>3, <2>4, <3>1, DisjointSizes
  <2>6. IsFiniteSet(B) /\ Cardinality(B) = Cardinality(A) + Cardinality(done)
    <3>1. A \cap done = {}
      BY <2>1 DEF Places
    <3> HIDE DEF A
    <3>2. QED BY <2>4, <2>5, <3>1, DisjointSizes
  <2>7. IsFiniteSet(C) /\ Cardinality(C) = Cardinality(B) + Cardinality(Range(Returned))
    <3>1. B \cap Range(Returned) = {}
      BY <2>1 DEF Places
    <3> HIDE DEF B
    <3>2. QED BY <2>3, <2>6, <3>1, DisjointSizes
  <2>8. Used = C
    BY <2>1 DEF Places
  <2>9. Cardinality(Filling) \in Nat /\ Cardinality(done) \in Nat /\ Len(Posted) \in Nat
        /\ Len(fetched) \in Nat /\ Len(Returned) \in Nat
    BY <2>1, <2>2, <2>4, Windows, FS_CardinalityType, LenProperties DEF TypeOK
  <2>10. Cardinality(Used) = Cardinality(Filling) + Len(Posted) + Len(fetched)
                               + Cardinality(done) + Len(Returned)
    <3> HIDE DEF A, B, C
    <3> QED BY <2>2, <2>3, <2>5, <2>6, <2>7, <2>8, <2>9
  <2>11. QED BY <2>2, <2>8, <2>10
<1>2. QED BY <1>1, TxInvariant, PTL

----------------------------------------------------------------------------
(* The queue of the FIFO is what the buffers in flight hold. *)
LEMMA QueueIs ==
  /\ Queue = IF initialized THEN Contents(tx_buffers, InFlight) ELSE <<>>
  /\ Queue' = IF initialized' THEN Contents(tx_buffers', InFlight') ELSE <<>>
BY DEF Queue, Contents, InFlight

(* Steps that change neither a buffer, nor what is in flight, nor the wire *)
(* are stutters of the FIFO.                                               *)
LEMMA FifoStutter ==
  ASSUME UNCHANGED <<initialized, tx_buffers, wire>>, InFlight' = InFlight
  PROVE  UNCHANGED Fifo!vars
BY QueueIs DEF Fifo!vars

(* Every step of the transmit queue is a step or a stutter of the FIFO. *)
LEMMA FifoStep == IInv /\ [Next]_vars => [Fifo!Next]_(Fifo!vars)
<1> SUFFICES ASSUME IInv, [Next]_vars PROVE [Fifo!Next]_(Fifo!vars)
  OBVIOUS
<1>0. TypeOK /\ InFlight \in Seq(Descs) /\ tx_buffers \in [Descs -> Frames \cup {None}]
      /\ IsStore(tx_buffers, InFlight, Descs, Frames \cup {None})
  BY Windows DEF IInv, TypeOK, IsStore
<1>1. CASE UNCHANGED vars
  BY <1>1, SameWindows, FifoStutter DEF vars, shared, ctx, dev
<1>2. CASE \E f \in Frames : Transmit(f)
  BY <1>2, SameWindows, FifoStutter DEF Transmit, shared, ctx, dev
<1>3. CASE Reclaim
  <2>1. InFlight' = InFlight
    BY <1>3 DEF Posted, InFlight, Entries, Reclaim, shared, dev
  <2>2. QED BY <1>3, <2>1, FifoStutter DEF Reclaim, shared, dev
<1>4. CASE NoDescriptor
  BY <1>4, SameWindows, FifoStutter DEF NoDescriptor, shared, ctx, dev
<1>5. CASE FillDescriptor
  <2>1. PICK d \in Descs :
          /\ ~tx_desc_in_use[d]
          /\ tx_buffers' = [tx_buffers EXCEPT ![d] = packet]
    BY <1>5 DEF FillDescriptor
  <2>2. initialized /\ initialized' /\ wire' = wire /\ Places
    BY <1>5 DEF IInv, Off, FillDescriptor, dev
  <2>3. InFlight' = InFlight
    BY <1>5, SameWindows DEF FillDescriptor, dev
  <2>4. d \notin Range(InFlight)
    BY <2>1, <2>2 DEF Places, Used
  <2>5. Contents([tx_buffers EXCEPT ![d] = packet], InFlight) = Contents(tx_buffers, InFlight)
    BY <1>0, <2>4, ContentsWrite
  <2>6. Queue' = Queue
    BY <2>1, <2>2, <2>3, <2>5, QueueIs
  <2>7. QED BY <2>2, <2>6 DEF Fifo!vars
<1>6. CASE WriteAvail
  BY <1>6, WriteInFlight, FifoStutter DEF WriteAvail, ctx, dev
<1>7. CASE Kick
  <2>1. /\ InFlight' = Append(InFlight, desc_idx) /\ desc_idx \in Descs
        /\ Len(InFlight) < QueueSize
    BY <1>7, KickInFlight
  <2>2. initialized /\ initialized' /\ wire' = wire /\ tx_buffers' = tx_buffers
    BY <1>7 DEF IInv, Off, Kick, ctx, dev
  <2>3. tx_buffers[desc_idx] = packet /\ packet \in Frames
    BY <1>7 DEF IInv, Written, Kick
  <2>4. Contents(tx_buffers, Append(InFlight, desc_idx)) =
          Append(Contents(tx_buffers, InFlight), tx_buffers[desc_idx])
    BY <1>0, <2>1, ContentsAppend
  <2>5. Queue' = Append(Queue, packet)
    BY <2>1, <2>2, <2>3, <2>4, QueueIs
  <2>6. Len(Queue) < QueueSize
    BY <1>0, <2>1, <2>2, QueueIs, ContentsType
  <2>7. Fifo!Accept(packet)
    BY <2>2, <2>5, <2>6 DEF Fifo!Accept
  <2>8. QED BY <2>3, <2>7 DEF Fifo!Next
<1>8. CASE Deinit
  BY <1>8, QueueIs DEF Deinit, Fifo!Next, Fifo!Reset
<1>9. CASE Reinit
  <2>1. Contents(tx_buffers', <<>>) = <<>>
    BY DEF Contents
  <2>2. Queue' = Queue
    BY <1>9, <2>1, QueueIs, ReinitInFlight DEF Reinit
  <2>3. QED BY <1>9, <2>2 DEF Reinit, dev, Fifo!vars
<1>10. CASE DevFetch
  BY <1>10, FetchInFlight, FifoStutter DEF DevFetch, shared, ctx
<1>11. CASE DevSend
  <2>1. InFlight # <<>> /\ InFlight' = Tail(InFlight) /\ Head(fetched) = Head(InFlight)
    BY <1>11, SendInFlight
  <2>2. /\ initialized /\ initialized' /\ tx_buffers' = tx_buffers
        /\ wire' = tx_buffers[Head(InFlight)]
    BY <1>11, <2>1 DEF IInv, Off, DevSend, shared, ctx
  <2>3. /\ Contents(tx_buffers, InFlight) # <<>>
        /\ Head(Contents(tx_buffers, InFlight)) = tx_buffers[Head(InFlight)]
        /\ Contents(tx_buffers, Tail(InFlight)) = Tail(Contents(tx_buffers, InFlight))
    BY <1>0, <2>1, ContentsTail
  <2>4. Queue = Contents(tx_buffers, InFlight) /\ Queue' = Contents(tx_buffers, Tail(InFlight))
    BY <2>1, <2>2, QueueIs
  <2>5. Fifo!Deliver
    BY <2>2, <2>3, <2>4 DEF Fifo!Deliver
  <2>6. QED BY <2>5 DEF Fifo!Next
<1>12. CASE \E d \in Descs : DevReturn(d)
  <2>1. InFlight' = InFlight /\ UNCHANGED <<initialized, tx_buffers, wire>>
    BY <1>12 DEF InFlight, Posted, Entries, DevReturn, ctx
  <2>2. QED BY <2>1, FifoStutter
<1>13. QED
  BY <1>1, <1>2, <1>3, <1>4, <1>5, <1>6, <1>7, <1>8, <1>9, <1>10, <1>11, <1>12
  DEF Next, Call

(* The transmit queue implements a bounded FIFO of frames: a frame that    *)
(* virtio_net_transmit accepts is put on the wire unchanged, at most once  *)
(* and in the order of acceptance, and no more than QueueSize frames are   *)
(* accepted and unsent.                                                    *)
THEOREM SendsInOrder == Spec => Fifo!Spec
<1>1. Init => Fifo!Init
  <2> SUFFICES ASSUME Init PROVE Fifo!Init
    OBVIOUS
  <2>1. TypeOK
    BY InitInv DEF IInv
  <2>2. InFlight = <<>> /\ Contents(tx_buffers, <<>>) = <<>>
    BY <2>1, EmptyQueue DEF Init, Contents
  <2>3. QED BY <2>2, QueueIs DEF Init, Fifo!Init
<1>2. IInv /\ [Next]_vars => [Fifo!Next]_(Fifo!vars)
  BY FifoStep
<1>3. QED BY <1>1, <1>2, TxInvariant, PTL DEF Spec, Fifo!Spec
=============================================================================
