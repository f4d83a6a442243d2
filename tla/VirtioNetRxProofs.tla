------------------------- MODULE VirtioNetRxProofs -------------------------
(***************************************************************************)
(* For every number of descriptors, ring size and counter width, and every *)
(* mix of fit and unfit frames: on a CPU that keeps its loads in order a   *)
(* receive descriptor is in at most one place, the descriptors lost are    *)
(* those of unfit frames, and frames are received in the order the device  *)
(* returned them.  WeakLoads is excluded: there the claims fail.           *)
(***************************************************************************)
EXTENDS VirtioNetRx, RingTheorems

(* The descriptors the used ring names, and those returned to the driver.  *)
Ids == [i \in Ring |-> used_ring[i].id]
ReturnedIds == Window(Ids, rx_last_used_idx, used_idx, IdxMod, RingSize)

(* The places of a descriptor have nothing in common, and no place has a   *)
(* descriptor twice.                                                       *)
Places ==
  /\ IsInjective(Posted)
  /\ IsInjective(ReturnedIds)
  /\ Range(Posted) \cap Range(ReturnedIds) = {}
  /\ Holding \cap (Range(Posted) \cup Range(ReturnedIds)) = {}
  /\ Writing \cap (Range(Posted) \cup Range(ReturnedIds) \cup Holding) = {}

(* A device that was reset holds nothing, and no call is under way. *)
Off == ~initialized => /\ pc = "idle"
                       /\ dev_avail = 0 /\ filling = None
                       /\ got = None /\ rejected = 0

(* The element a call works on is the oldest returned one, and the device  *)
(* does not overwrite it; what it posts again is what it took.             *)
InHand ==
  /\ pc = "check" => /\ rx_last_used_idx # used_idx
                     /\ elem = used_ring[rx_last_used_idx % RingSize]
  /\ pc = "kick" => avail_ring[avail_idx % RingSize] = elem.id

IInv == TypeOK /\ (initialized => Places) /\ KeepsDescriptors /\ Off /\ InHand

----------------------------------------------------------------------------
(* There are QueueSize descriptors. *)
LEMMA DescCount == IsFiniteSet(Descs) /\ Cardinality(Descs) = QueueSize /\ 0 \in Descs
<1>1. QueueSize \in Nat /\ QueueSize > 0 /\ 0 \in Int /\ QueueSize - 1 \in Int
  BY SizeAssumption
<1>2. IsFiniteSet(Descs) /\ Cardinality(Descs) = IF 0 > QueueSize - 1 THEN 0 ELSE QueueSize - 1 - 0 + 1
  BY <1>1, FS_Interval DEF Descs
<1>3. QED BY <1>1, <1>2 DEF Descs

(* The rings and the counters over them are as the window lemmas need. *)
LEMMA RingGeometry ==
  ASSUME NEW n \in RingSizes
  PROVE  /\ Geometry(IdxMod, n) /\ QueueSize <= n /\ n \in Nat \ {0}
         /\ IdxMod \in Nat /\ IdxMod > 1 /\ QueueSize \in Nat /\ QueueSize < IdxMod
BY SizeAssumption DEF Geometry

(* Counters step within their range. *)
LEMMA IncType ==
  ASSUME NEW n \in RingSizes, NEW i \in 0 .. IdxMod - 1
  PROVE  Inc(i) \in 0 .. IdxMod - 1
BY RingGeometry, WrapStep DEF Inc

(* An index selects an entry of the ring. *)
LEMMA Position ==
  ASSUME TypeOK, NEW i \in 0 .. IdxMod - 1
  PROVE  i % RingSize \in Ring
<1>1. RingSize \in Nat \ {0} /\ i \in Int
  BY RingGeometry DEF TypeOK
<1>2. QED BY <1>1, DivMod DEF Ring

(* What is posted and returned are windows of the two rings. *)
LEMMA Windows ==
  ASSUME TypeOK
  PROVE  /\ IsWindow(avail_ring, dev_avail, avail_idx, IdxMod, RingSize, Descs)
         /\ IsWindow(Ids, rx_last_used_idx, used_idx, IdxMod, RingSize, Descs)
         /\ Posted = Window(avail_ring, dev_avail, avail_idx, IdxMod, RingSize)
         /\ Posted \in Seq(Descs) /\ ReturnedIds \in Seq(Descs)
<1>1. Ids \in [Ring -> Descs]
  BY DEF TypeOK, Ids, Elem
<1>2. /\ IsWindow(avail_ring, dev_avail, avail_idx, IdxMod, RingSize, Descs)
      /\ IsWindow(Ids, rx_last_used_idx, used_idx, IdxMod, RingSize, Descs)
  BY <1>1, RingGeometry DEF TypeOK, IsWindow, Ring
<1>3. Posted = Window(avail_ring, dev_avail, avail_idx, IdxMod, RingSize)
  BY DEF Posted, Entries, Window
<1>4. Posted \in Seq(Descs) /\ ReturnedIds \in Seq(Descs)
  BY <1>2, <1>3, WindowType DEF ReturnedIds
<1>5. QED BY <1>2, <1>3, <1>4

(* The used elements and the descriptors they name go in step. *)
LEMMA ReturnedIs ==
  ASSUME TypeOK
  PROVE  /\ DOMAIN Returned = DOMAIN ReturnedIds /\ Len(Returned) = Len(ReturnedIds)
         /\ \A i \in DOMAIN Returned : Returned[i].id = ReturnedIds[i]
<1> DEFINE n == (used_idx - rx_last_used_idx) % IdxMod
<1>0. RingSize \in Nat \ {0} /\ n \in Nat
  <2>1. used_idx - rx_last_used_idx \in Int /\ IdxMod \in Nat \ {0}
    BY SizeAssumption DEF TypeOK
  <2>2. n \in 0 .. IdxMod - 1
    BY <2>1, DivMod, Zenon
  <2>3. QED BY <2>1, <2>2, RingGeometry DEF TypeOK
<1>1. Returned = [k \in 1 .. n |-> used_ring[(rx_last_used_idx + k - 1) % RingSize]]
  BY DEF Returned, Entries
<1>2. ReturnedIds = [k \in 1 .. n |-> Ids[(rx_last_used_idx + k - 1) % RingSize]]
  BY DEF ReturnedIds, Window
<1> HIDE DEF n
<1>3. ASSUME NEW k \in 1 .. n
      PROVE  Ids[(rx_last_used_idx + k - 1) % RingSize]
               = used_ring[(rx_last_used_idx + k - 1) % RingSize].id
  <2>1. rx_last_used_idx + k - 1 \in Int
    BY <1>0 DEF TypeOK
  <2>2. (rx_last_used_idx + k - 1) % RingSize \in 0 .. RingSize - 1
    BY <1>0, <2>1, DivMod, Zenon
  <2>3. QED BY <2>2 DEF Ids, Ring
<1>4. DOMAIN Returned = 1 .. n /\ DOMAIN ReturnedIds = 1 .. n
  BY <1>1, <1>2
<1>5. Returned \in Seq(Elem)
  <2>1. IsWindow(used_ring, rx_last_used_idx, used_idx, IdxMod, RingSize, Elem)
    BY RingGeometry DEF TypeOK, IsWindow, Ring
  <2>2. Returned = Window(used_ring, rx_last_used_idx, used_idx, IdxMod, RingSize)
    BY DEF Returned, Entries, Window
  <2>3. QED BY <2>1, <2>2, WindowType
<1>6. DOMAIN Returned = 1 .. Len(Returned) /\ Len(Returned) \in Nat
  BY <1>5, LenProperties
<1>7. DOMAIN ReturnedIds = 1 .. Len(ReturnedIds) /\ Len(ReturnedIds) \in Nat
  BY Windows, LenProperties
<1>8. Len(Returned) = Len(ReturnedIds)
  BY <1>0, <1>4, <1>6, <1>7
<1>9. QED BY <1>1, <1>2, <1>3, <1>4, <1>8

(* What is owned, place by place. *)
LEMMA OwnedIs ==
  ASSUME TypeOK
  PROVE  Owned = Range(Posted) \cup Range(ReturnedIds) \cup Holding \cup Writing
BY ReturnedIs DEF Owned, Range

(* ... is a finite set. *)
LEMMA OwnedFinite ==
  ASSUME TypeOK
  PROVE  IsFiniteSet(Owned) /\ Cardinality(Owned) \in Nat /\ Owned \subseteq Descs
<1>1. Range(Posted) \subseteq Descs /\ Range(ReturnedIds) \subseteq Descs
  BY Windows, RangeOfSeq
<1>2. Holding \subseteq Descs /\ Writing \subseteq Descs
  BY DEF TypeOK, Holding, Writing, Elem
<1>3. Owned \in SUBSET Descs
  BY <1>1, <1>2, OwnedIs
<1>4. QED BY <1>3, DescCount, FS_Subset, FS_CardinalityType

(* A descriptor that is not posted leaves room in the avail ring. *)
LEMMA RoomToPost ==
  ASSUME TypeOK, IsInjective(Posted), NEW d \in Descs, d \notin Range(Posted)
  PROVE  (avail_idx - dev_avail) % IdxMod < RingSize
<1>1. Len(Posted) < QueueSize
  BY Windows, DescCount, InjectiveStrict
<1>2. Len(Posted) = (avail_idx - dev_avail) % IdxMod /\ Len(Posted) \in Nat
  BY Windows, WindowType, LenProperties
<1>3. QueueSize <= RingSize /\ RingSize \in Nat /\ QueueSize \in Nat
  BY RingGeometry DEF TypeOK
<1> HIDE DEF Posted
<1>4. QED BY <1>1, <1>2, <1>3

(* One that is not returned leaves room in the used ring. *)
LEMMA RoomToReturn ==
  ASSUME TypeOK, IsInjective(ReturnedIds), NEW d \in Descs, d \notin Range(ReturnedIds)
  PROVE  /\ (used_idx - rx_last_used_idx) % IdxMod < RingSize
         /\ Len(ReturnedIds) < QueueSize
<1>1. Len(ReturnedIds) < QueueSize
  BY Windows, DescCount, InjectiveStrict
<1>2. Len(ReturnedIds) = (used_idx - rx_last_used_idx) % IdxMod /\ Len(ReturnedIds) \in Nat
  BY Windows, WindowType, LenProperties DEF ReturnedIds
<1>3. QueueSize <= RingSize /\ RingSize \in Nat /\ QueueSize \in Nat
  BY RingGeometry DEF TypeOK
<1> HIDE DEF ReturnedIds
<1>4. QED BY <1>1, <1>2, <1>3

----------------------------------------------------------------------------
(* The lemmas about a state hold of the state after a step as well. *)
LEMMA NextState ==
  TypeOK' => /\ (Owned = Range(Posted) \cup Range(ReturnedIds) \cup Holding \cup Writing)'
             /\ (IsWindow(Ids, rx_last_used_idx, used_idx, IdxMod, RingSize, Descs))'
<1>1. TypeOK => /\ Owned = Range(Posted) \cup Range(ReturnedIds) \cup Holding \cup Writing
                /\ IsWindow(Ids, rx_last_used_idx, used_idx, IdxMod, RingSize, Descs)
  BY OwnedIs, Windows
<1>2. QED BY <1>1, PTL

(* The queue as init_context leaves it. *)
Fresh ==
  /\ TypeOK
  /\ avail_ring = Populated /\ avail_idx = QueueSize /\ dev_avail = 0
  /\ used_idx = 0 /\ rx_last_used_idx = 0
  /\ pc = "idle" /\ filling = None /\ rejected = 0

(* Every descriptor is posted once, and none is anywhere else. *)
LEMMA FreshPosted == Fresh => Places /\ KeepsDescriptors /\ ReturnedIds = <<>>
<1> SUFFICES ASSUME Fresh PROVE Places /\ KeepsDescriptors /\ ReturnedIds = <<>>
  OBVIOUS
<1>0. TypeOK
  BY DEF Fresh
<1>1. ReturnedIds = <<>> /\ Range(<<>>) = {} /\ IsInjective(<<>>)
  BY <1>0, Windows, WindowEmpty DEF Fresh, ReturnedIds, Range, IsInjective
<1>2. /\ QueueSize \in 0 .. IdxMod - 1 /\ 0 \in 0 .. IdxMod - 1 /\ QueueSize \in Nat
      /\ RingSize \in Nat \ {0} /\ IdxMod \in Nat \ {0} /\ QueueSize <= RingSize
  BY <1>0, RingGeometry DEF TypeOK
<1>3. (QueueSize - 0) % IdxMod = QueueSize
  BY <1>2, Distance
<1>4. Posted = [k \in 1 .. QueueSize |-> Populated[(0 + k - 1) % RingSize]]
  BY <1>3 DEF Fresh, Posted, Entries
<1>5. ASSUME NEW k \in 1 .. QueueSize PROVE Populated[(0 + k - 1) % RingSize] = k - 1
  <2>1. 0 + k - 1 = k - 1 /\ k - 1 \in 0 .. RingSize - 1 /\ k - 1 \in Descs
    BY <1>2 DEF Descs
  <2>2. (k - 1) % RingSize = k - 1
    BY <1>2, <2>1, ModSmall
  <2>3. QED BY <2>1, <2>2 DEF Populated, Ring
<1>6. Posted = [k \in 1 .. QueueSize |-> k - 1]
  BY <1>4, <1>5
<1>7. IsInjective(Posted)
  BY <1>2, <1>6 DEF IsInjective
<1>8. Range(Posted) = Descs
  <2>1. ASSUME NEW d \in Descs PROVE d + 1 \in 1 .. QueueSize /\ (d + 1) - 1 = d
    BY <1>2 DEF Descs
  <2>2. ASSUME NEW k \in 1 .. QueueSize PROVE k - 1 \in Descs
    BY <1>2 DEF Descs
  <2>3. QED BY <1>6, <2>1, <2>2 DEF Range
<1>9. Holding = {} /\ Writing = {}
  BY DEF Fresh, Holding, Writing
<1>10. Places
  BY <1>1, <1>7, <1>9 DEF Places
<1>11. Owned = Descs
  BY <1>0, <1>1, <1>8, <1>9, OwnedIs
<1>12. KeepsDescriptors
  BY <1>2, <1>11, DescCount DEF Fresh, KeepsDescriptors
<1>13. QED BY <1>1, <1>10, <1>12

(* The same after a step. *)
LEMMA FreshNext == Fresh' => Places' /\ KeepsDescriptors' /\ (ReturnedIds = <<>>)'
BY FreshPosted, PTL

(* The state after probe satisfies the invariant. *)
LEMMA InitInv == Init => IInv /\ ReturnedIds = <<>>
<1> SUFFICES ASSUME Init PROVE IInv /\ ReturnedIds = <<>>
  OBVIOUS
<1>1. /\ 0 \in Descs /\ 0 \in 0 .. IdxMod - 1 /\ QueueSize \in 0 .. IdxMod - 1
      /\ 0 \in 0 .. QueueSize
  BY DescCount, RingGeometry DEF Init
<1>2. ZeroElem \in Elem /\ Populated \in [Ring -> Descs]
  BY <1>1 DEF ZeroElem, Elem, Populated
<1>3. TypeOK
  BY <1>1, <1>2 DEF Init, TypeOK
<1>4. Fresh
  BY <1>3 DEF Init, Fresh
<1>5. QED BY <1>3, <1>4, FreshPosted DEF Init, IInv, Off, InHand

(* Steps that leave the rings, the counters and the device alone leave the *)
(* windows alone.                                                          *)
LEMMA SameWindows ==
  ASSUME UNCHANGED <<RingSize, avail_ring, avail_idx, used_ring, used_idx,
                     rx_last_used_idx, dev_avail>>
  PROVE  Posted' = Posted /\ ReturnedIds' = ReturnedIds
BY DEF Posted, ReturnedIds, Ids, Ring, Entries, Window

(* A step that moves no descriptor keeps them all. *)
LEMMA SamePlaces ==
  ASSUME TypeOK, TypeOK', Posted' = Posted, ReturnedIds' = ReturnedIds,
         Holding' = Holding, UNCHANGED <<filling, initialized, rejected>>
  PROVE  /\ (initialized => Places) => (initialized => Places)'
         /\ KeepsDescriptors => KeepsDescriptors'
<1>1. Owned' = Owned
  BY OwnedIs, NextState DEF Writing
<1>2. QED BY <1>1 DEF Places, KeepsDescriptors, Writing

(* The argument checks of a call preserve the invariant. *)
LEMMA ReceiveInv ==
  ASSUME NEW size \in BufferSizes, IInv, Receive(size) PROVE IInv'
<1>1. TypeOK'
  BY DEF IInv, TypeOK, Ring, Receive, shared, ctx, result, dev
<1>2. Posted' = Posted /\ ReturnedIds' = ReturnedIds
  BY SameWindows DEF Receive, shared, ctx, dev
<1>3. Holding' = Holding /\ UNCHANGED <<filling, initialized, rejected>>
  BY DEF Receive, Holding, ctx, result, dev
<1>4. (initialized => Places)' /\ KeepsDescriptors'
  BY <1>1, <1>2, <1>3, SamePlaces DEF IInv
<1>5. Off' /\ InHand'
  BY DEF IInv, Off, InHand, Receive, ctx, result, dev
<1>6. QED BY <1>1, <1>4, <1>5 DEF IInv

(* A poll that finds nothing preserves the invariant. *)
LEMMA PollEmptyInv ==
  ASSUME IInv, PollEmpty PROVE IInv'
<1>1. TypeOK'
  BY DEF IInv, TypeOK, Ring, PollEmpty, shared, ctx, result, dev
<1>2. Posted' = Posted /\ ReturnedIds' = ReturnedIds
  BY SameWindows DEF PollEmpty, shared, ctx, dev
<1>3. Holding' = Holding /\ UNCHANGED <<filling, initialized, rejected>>
  BY DEF PollEmpty, Holding, ctx, result, dev
<1>4. (initialized => Places)' /\ KeepsDescriptors'
  BY <1>1, <1>2, <1>3, SamePlaces DEF IInv
<1>5. Off' /\ InHand'
  BY DEF IInv, Off, InHand, PollEmpty, ctx, result, dev
<1>6. QED BY <1>1, <1>4, <1>5 DEF IInv

(* A poll that finds an element preserves the invariant: with the loads in *)
(* order the element read is the oldest returned one.                      *)
LEMMA PollElemInv ==
  ASSUME ~WeakLoads, IInv, PollElem PROVE IInv'
<1>0. TypeOK /\ elem' = used_ring[rx_last_used_idx % RingSize]
  BY DEF IInv, PollElem
<1>1. rx_last_used_idx % RingSize \in Ring
  BY <1>0, Position DEF TypeOK
<1>2. TypeOK'
  BY <1>0, <1>1 DEF TypeOK, Ring, PollElem, shared, ctx, result, dev
<1>3. Posted' = Posted /\ ReturnedIds' = ReturnedIds
  BY SameWindows DEF PollElem, shared, ctx, dev
<1>4. Holding' = Holding /\ UNCHANGED <<filling, initialized, rejected>>
  BY DEF PollElem, Holding, ctx, result, dev
<1>5. (initialized => Places)' /\ KeepsDescriptors'
  BY <1>0, <1>2, <1>3, <1>4, SamePlaces DEF IInv
<1>6. Off' /\ InHand'
  BY <1>0 DEF IInv, Off, InHand, PollElem, shared, ctx, result, dev
<1>7. QED BY <1>2, <1>5, <1>6 DEF IInv

(* A call that consumes an element takes the oldest one. *)
LEMMA Consumed ==
  ASSUME IInv, pc = "check",
         UNCHANGED <<RingSize, shared, dev>>,
         rx_last_used_idx' = Inc(rx_last_used_idx)
  PROVE  /\ Posted' = Posted
         /\ ReturnedIds # <<>> /\ ReturnedIds' = Tail(ReturnedIds)
         /\ elem.id = Head(ReturnedIds) /\ elem.id \in Descs
<1>0. TypeOK /\ rx_last_used_idx # used_idx /\ elem = used_ring[rx_last_used_idx % RingSize]
  BY DEF IInv, InHand
<1>1. IsWindow(Ids, rx_last_used_idx, used_idx, IdxMod, RingSize, Descs)
  BY <1>0, Windows
<1>2. ReturnedIds' = Window(Ids, (rx_last_used_idx + 1) % IdxMod, used_idx, IdxMod, RingSize)
  BY DEF ReturnedIds, Ids, Ring, Window, Inc, shared
<1>3. ReturnedIds # <<>>
  BY <1>0, <1>1, WindowEmpty DEF ReturnedIds
<1>4. ReturnedIds' = Tail(ReturnedIds) /\ Head(ReturnedIds) = Ids[rx_last_used_idx % RingSize]
  BY <1>0, <1>1, <1>2, WindowShrink DEF ReturnedIds
<1>5. rx_last_used_idx % RingSize \in Ring
  BY <1>0, Position DEF TypeOK
<1>6. elem.id = Ids[rx_last_used_idx % RingSize] /\ elem.id \in Descs
  BY <1>0, <1>5 DEF Ids, TypeOK, Elem
<1>7. Posted' = Posted
  BY DEF Posted, Entries, shared, dev
<1>8. QED BY <1>3, <1>4, <1>6, <1>7

(* The error returns preserve the invariant: each loses one descriptor and *)
(* counts it.                                                              *)
LEMMA RejectInv ==
  ASSUME IInv, Reject PROVE IInv'
<1> DEFINE d == elem.id
<1>0. TypeOK /\ initialized /\ Places /\ KeepsDescriptors /\ ReturnedIds \in Seq(Descs)
  BY Windows DEF IInv, Off, Reject
<1>1. /\ Posted' = Posted /\ ReturnedIds # <<>> /\ ReturnedIds' = Tail(ReturnedIds)
      /\ d = Head(ReturnedIds) /\ d \in Descs
  BY Consumed DEF Reject
<1>2. /\ IsInjective(ReturnedIds') /\ d \in Range(ReturnedIds)
      /\ Range(ReturnedIds)' = Range(ReturnedIds) \ {d}
  BY <1>0, <1>1, InjectiveTail DEF Places
<1>3. Holding = {} /\ Holding' = {} /\ Writing' = Writing
  BY DEF Holding, Writing, Reject, dev
<1>4. rejected' = rejected + 1
  BY <1>1 DEF IInv, InHand, Reject, Rejected
<1> HIDE DEF d
<1>5. Places'
  BY <1>0, <1>1, <1>2, <1>3 DEF Places
<1>6. d \in Owned /\ Owned \ {d} = Range(Posted)' \cup Range(ReturnedIds)' \cup Holding' \cup Writing'
  BY <1>0, <1>1, <1>2, <1>3, OwnedIs DEF Places
<1>7. Cardinality(Owned \ {d}) = Cardinality(Owned) - 1 /\ Cardinality(Owned \ {d}) \in Nat
      /\ Cardinality(Owned) \in Nat
  BY <1>0, <1>6, OwnedFinite, FS_RemoveElement, FS_CardinalityType
<1>8. Cardinality(Owned) = QueueSize - rejected /\ rejected \in 0 .. QueueSize /\ QueueSize \in Nat
  BY <1>0, SizeAssumption DEF KeepsDescriptors, TypeOK
<1>9. rejected' \in 0 .. QueueSize /\ Cardinality(Owned \ {d}) = QueueSize - rejected'
  BY <1>4, <1>7, <1>8
<1>10. TypeOK'
  <2>1. rx_last_used_idx' \in 0 .. IdxMod - 1
    BY <1>0, IncType DEF TypeOK, Reject
  <2>2. QED BY <1>0, <1>9, <2>1 DEF TypeOK, Ring, Reject, shared, dev
<1>11. Owned' = Owned \ {d}
  BY <1>6, <1>10, NextState
<1>12. KeepsDescriptors'
  BY <1>9, <1>11 DEF KeepsDescriptors
<1>13. Off' /\ InHand'
  BY <1>0 DEF Off, InHand, Reject
<1>14. QED BY <1>5, <1>10, <1>12, <1>13 DEF IInv

(* The copy to the caller preserves the invariant: the descriptor moves    *)
(* from the used ring to the call.                                         *)
LEMMA CopyInv ==
  ASSUME IInv, Copy PROVE IInv'
<1> DEFINE d == elem.id
<1>0. TypeOK /\ initialized /\ Places /\ KeepsDescriptors /\ ReturnedIds \in Seq(Descs)
  BY Windows DEF IInv, Off, Copy
<1>1. /\ Posted' = Posted /\ ReturnedIds # <<>> /\ ReturnedIds' = Tail(ReturnedIds)
      /\ d = Head(ReturnedIds) /\ d \in Descs
  BY Consumed DEF Copy
<1>2. /\ IsInjective(ReturnedIds') /\ d \in Range(ReturnedIds)
      /\ Range(ReturnedIds)' = Range(ReturnedIds) \ {d}
  BY <1>0, <1>1, InjectiveTail DEF Places
<1>3. Holding = {} /\ Holding' = {d} /\ Writing' = Writing
  BY DEF Holding, Writing, Copy, dev
<1>4. TypeOK'
  <2>1. rx_last_used_idx' \in 0 .. IdxMod - 1
    BY <1>0, IncType DEF TypeOK, Copy
  <2>2. QED BY <1>0, <1>1, <2>1 DEF TypeOK, Ring, Copy, shared, dev
<1> HIDE DEF d
<1>5. Places'
  BY <1>0, <1>1, <1>2, <1>3 DEF Places
<1>6. Owned' = Owned
  BY <1>0, <1>1, <1>2, <1>3, <1>4, OwnedIs, NextState
<1>7. KeepsDescriptors'
  BY <1>0, <1>6 DEF KeepsDescriptors, Copy
<1>8. Off' /\ InHand'
  BY <1>0 DEF Off, InHand, Copy
<1>9. QED BY <1>4, <1>5, <1>7, <1>8 DEF IInv

(* The entry a call writes is not one the device has still to read. *)
LEMMA RepostWindow ==
  ASSUME IInv, Repost PROVE Posted' = Posted /\ ReturnedIds' = ReturnedIds
<1>0. TypeOK /\ initialized /\ Places /\ elem.id \in Descs
  BY DEF IInv, TypeOK, Elem, Off, Repost
<1>1. elem.id \notin Range(Posted)
  BY <1>0 DEF Places, Holding, Repost
<1>2. (avail_idx - dev_avail) % IdxMod < RingSize
  BY <1>0, <1>1, RoomToPost DEF Places
<1>3. Posted' = Window([avail_ring EXCEPT ![avail_idx % RingSize] = elem.id],
                       dev_avail, avail_idx, IdxMod, RingSize)
  BY DEF Posted, Entries, Window, Repost, dev
<1>4. /\ IsWindow(avail_ring, dev_avail, avail_idx, IdxMod, RingSize, Descs)
      /\ Posted = Window(avail_ring, dev_avail, avail_idx, IdxMod, RingSize)
  BY <1>0, Windows
<1>5. Posted' = Posted
  BY <1>0, <1>2, <1>3, <1>4, WindowWrite
<1>6. ReturnedIds' = ReturnedIds
  BY DEF ReturnedIds, Ids, Ring, Window, Repost, ctx
<1>7. QED BY <1>5, <1>6

(* Writing the avail entry preserves the invariant. *)
LEMMA RepostInv ==
  ASSUME IInv, Repost PROVE IInv'
<1>0. TypeOK /\ initialized /\ elem.id \in Descs
  BY DEF IInv, TypeOK, Elem, Off, Repost
<1>1. avail_idx % RingSize \in Ring
  BY <1>0, Position DEF TypeOK
<1>2. TypeOK'
  BY <1>0, <1>1 DEF TypeOK, Ring, Repost, ctx, result, dev
<1>3. Holding' = Holding /\ UNCHANGED <<filling, initialized, rejected>>
  BY DEF Repost, Holding, ctx, result, dev
<1>4. (initialized => Places)' /\ KeepsDescriptors'
  BY <1>0, <1>2, <1>3, RepostWindow, SamePlaces DEF IInv
<1>5. Off' /\ InHand'
  BY <1>0, <1>1 DEF TypeOK, Off, InHand, Repost, ctx
<1>6. QED BY <1>2, <1>4, <1>5 DEF IInv

(* avail.idx++ posts the descriptor the call holds. *)
LEMMA KickInv ==
  ASSUME IInv, Kick PROVE IInv'
<1> DEFINE d == elem.id
<1>0. TypeOK /\ initialized /\ Places /\ KeepsDescriptors /\ d \in Descs /\ Posted \in Seq(Descs)
  BY Windows DEF IInv, TypeOK, Elem, Off, Kick
<1>1. Holding = {d} /\ Holding' = {} /\ Writing' = Writing
  BY DEF Holding, Writing, Kick, dev
<1>2. d \notin Range(Posted)
  BY <1>0, <1>1 DEF Places
<1>3. (avail_idx - dev_avail) % IdxMod < RingSize
  BY <1>0, <1>2, RoomToPost DEF Places
<1>4. Posted' = Append(Posted, d)
  <2>1. Posted' = Window(avail_ring, dev_avail, (avail_idx + 1) % IdxMod, IdxMod, RingSize)
    BY DEF Posted, Entries, Window, Kick, dev, Inc
  <2>2. avail_ring[avail_idx % RingSize] = d
    BY DEF IInv, InHand, Kick
  <2>3. QED BY <1>0, <1>3, <2>1, <2>2, Windows, WindowGrow
<1>5. IsInjective(Posted') /\ Range(Posted)' = Range(Posted) \cup {d}
  <2>1. /\ IsInjective(Append(Posted, d))
        /\ Range(Append(Posted, d)) = Range(Posted) \cup {d}
    BY <1>0, <1>2, InjectiveAppend DEF Places
  <2>2. QED BY <1>4, <2>1
<1>6. ReturnedIds' = ReturnedIds
  BY DEF ReturnedIds, Ids, Ring, Window, Kick, ctx
<1>7. TypeOK'
  BY <1>0, IncType DEF TypeOK, Ring, Kick, ctx, result, dev
<1> HIDE DEF d
<1>8. Places'
  BY <1>0, <1>1, <1>5, <1>6 DEF Places
<1>9. Owned' = Owned
  BY <1>0, <1>1, <1>5, <1>6, <1>7, OwnedIs, NextState
<1>10. KeepsDescriptors'
  BY <1>0, <1>9 DEF KeepsDescriptors, Kick, result
<1>11. Off' /\ InHand'
  BY <1>0 DEF Off, InHand, Kick, ctx
<1>12. QED BY <1>7, <1>8, <1>10, <1>11 DEF IInv

(* Tearing the context down preserves the invariant. *)
LEMMA DeinitInv ==
  ASSUME IInv, Deinit PROVE IInv'
<1>1. 0 \in 0 .. IdxMod - 1 /\ 0 \in 0 .. QueueSize
  BY RingGeometry DEF IInv, TypeOK
<1>2. TypeOK'
  BY <1>1 DEF IInv, TypeOK, Ring, Deinit, shared, local
<1>3. (initialized => Places)' /\ KeepsDescriptors' /\ Off' /\ InHand'
  BY DEF KeepsDescriptors, Off, InHand, Deinit, local
<1>4. QED BY <1>2, <1>3 DEF IInv

(* A new initialisation posts every descriptor again. *)
LEMMA ReinitFresh ==
  ASSUME IInv, Reinit PROVE Fresh'
<1>0. TypeOK /\ pc = "idle" /\ dev_avail = 0 /\ filling = None /\ rejected = 0
  BY DEF IInv, Off, Reinit
<1>1. 0 \in Descs /\ 0 \in 0 .. IdxMod - 1 /\ QueueSize \in 0 .. IdxMod - 1
  BY <1>0, DescCount, RingGeometry DEF TypeOK
<1>2. ZeroElem \in Elem /\ Populated \in [Ring -> Descs] /\ Populated' = Populated
  BY <1>1 DEF ZeroElem, Elem, Populated, Ring, Reinit
<1>3. TypeOK'
  BY <1>0, <1>1, <1>2 DEF TypeOK, Ring, Reinit, local, result, dev
<1>4. QED BY <1>0, <1>2, <1>3 DEF Fresh, Reinit, local, result, dev

(* A new initialisation preserves the invariant. *)
LEMMA ReinitInv ==
  ASSUME IInv, Reinit PROVE IInv'
<1>1. TypeOK' /\ Places' /\ KeepsDescriptors'
  BY ReinitFresh, FreshNext DEF Fresh
<1>2. Off' /\ InHand'
  BY DEF IInv, Off, InHand, Reinit, local
<1>3. QED BY <1>1, <1>2 DEF IInv

(* The device taking a posted descriptor preserves the invariant. *)
LEMMA DevTakeInv ==
  ASSUME IInv, DevTake PROVE IInv'
<1>0. TypeOK /\ initialized /\ Places /\ KeepsDescriptors /\ Posted \in Seq(Descs)
  BY Windows DEF IInv, DevTake
<1>1. /\ IsWindow(avail_ring, dev_avail, avail_idx, IdxMod, RingSize, Descs)
      /\ Posted = Window(avail_ring, dev_avail, avail_idx, IdxMod, RingSize)
      /\ dev_avail # avail_idx
  BY <1>0, Windows DEF DevTake
<1>2. Posted # <<>>
  BY <1>1, WindowEmpty
<1>3. Posted' = Window(avail_ring, (dev_avail + 1) % IdxMod, avail_idx, IdxMod, RingSize)
  BY DEF Posted, Entries, Window, DevTake, shared, Inc
<1>4. Posted' = Tail(Posted) /\ filling' = Head(Posted)
  BY <1>1, <1>3, WindowShrink DEF DevTake
<1>5. /\ IsInjective(Posted') /\ filling' \in Range(Posted)
      /\ Range(Posted)' = Range(Posted) \ {filling'}
  BY <1>0, <1>2, <1>4, InjectiveTail DEF Places
<1>6. filling' \in Descs /\ filling' # None
  <2>1. filling' \in Descs
    BY <1>0, <1>2, <1>4, HeadTailProperties
  <2>2. QED BY <2>1, LengthAssumption DEF Descs
<1>7. Writing = {} /\ Writing' = {filling'} /\ Holding' = Holding
  BY <1>6 DEF Writing, Holding, DevTake, local
<1>8. ReturnedIds' = ReturnedIds
  BY DEF ReturnedIds, Ids, Ring, Window, DevTake, shared, ctx
<1>9. TypeOK'
  <2>1. dev_avail' \in 0 .. IdxMod - 1
    BY <1>0, IncType DEF TypeOK, DevTake
  <2>2. QED BY <1>0, <1>6, <2>1 DEF TypeOK, Ring, DevTake, shared, ctx, local, result
<1>10. Places'
  BY <1>0, <1>5, <1>7, <1>8 DEF Places
<1>11. Owned' = Owned
  BY <1>0, <1>5, <1>7, <1>8, <1>9, OwnedIs, NextState
<1>12. KeepsDescriptors'
  BY <1>0, <1>11 DEF KeepsDescriptors, DevTake, result
<1>13. Off' /\ InHand'
  BY <1>0 DEF IInv, Off, InHand, DevTake, shared, ctx, local
<1>14. QED BY <1>9, <1>10, <1>12, <1>13 DEF IInv

(* The device returns the descriptor it wrote behind those returned before. *)
LEMMA Given ==
  ASSUME NEW f \in Frames, IInv, DevReturn(f)
  PROVE  /\ TypeOK' /\ filling \in Descs
         /\ filling \notin Range(ReturnedIds) /\ Len(ReturnedIds) < QueueSize
         /\ ReturnedIds' = Append(ReturnedIds, filling) /\ Posted' = Posted
         /\ used_idx' # rx_last_used_idx
         /\ rx_last_used_idx # used_idx =>
               used_ring'[rx_last_used_idx % RingSize] = used_ring[rx_last_used_idx % RingSize]
<1>0. TypeOK /\ initialized /\ Places /\ filling \in Descs /\ filling # None
  BY DEF IInv, Off, TypeOK, DevReturn
<1>1. filling \notin Range(ReturnedIds)
  BY <1>0 DEF Places, Writing
<1>2. (used_idx - rx_last_used_idx) % IdxMod < RingSize /\ Len(ReturnedIds) < QueueSize
  BY <1>0, <1>1, RoomToReturn DEF Places
<1>3. used_idx % RingSize \in Ring /\ rx_last_used_idx % RingSize \in Ring
  BY <1>0, Position DEF TypeOK
<1>4. TypeOK'
  <2>1. used_idx' \in 0 .. IdxMod - 1
    BY <1>0, IncType DEF TypeOK, DevReturn
  <2>2. [id |-> filling, len |-> packet_len[f]] \in Elem
    BY <1>0 DEF Elem
  <2>3. QED BY <1>0, <1>3, <2>1, <2>2 DEF TypeOK, Ring, DevReturn, ctx, local, result
<1> DEFINE r == [Ids EXCEPT ![used_idx % RingSize] = filling]
<1>5. IsWindow(Ids, rx_last_used_idx, used_idx, IdxMod, RingSize, Descs)
  BY <1>0, Windows
<1>6. Window(r, rx_last_used_idx, used_idx, IdxMod, RingSize) = ReturnedIds
  BY <1>0, <1>2, <1>5, WindowWrite DEF ReturnedIds
<1>7. IsWindow(r, rx_last_used_idx, used_idx, IdxMod, RingSize, Descs)
  BY <1>0, <1>5 DEF IsWindow
<1>8. r[used_idx % RingSize] = filling
  BY <1>3 DEF Ids
<1>9. Ids' = r
  BY <1>0, <1>3 DEF Ids, Ring, TypeOK, DevReturn
<1>10. ReturnedIds' = Window(r, rx_last_used_idx, (used_idx + 1) % IdxMod, IdxMod, RingSize)
  BY <1>9 DEF ReturnedIds, DevReturn, ctx, Inc
<1> HIDE DEF r
<1>11. ReturnedIds' = Append(ReturnedIds, filling)
  BY <1>2, <1>6, <1>7, <1>8, <1>10, WindowGrow
<1>12. Posted' = Posted
  BY DEF Posted, Entries, DevReturn
<1>13. used_idx' # rx_last_used_idx
  <2>1. Append(ReturnedIds, filling) # <<>>
    BY <1>0, Windows, AppendProperties
  <2>2. (IsWindow(Ids, rx_last_used_idx, used_idx, IdxMod, RingSize, Descs))'
    BY <1>4, NextState
  <2>3. rx_last_used_idx' # used_idx'
    BY <1>11, <2>1, <2>2, WindowEmpty DEF ReturnedIds
  <2>4. QED BY <2>3 DEF DevReturn, ctx
<1>14. ASSUME rx_last_used_idx # used_idx
       PROVE  used_ring'[rx_last_used_idx % RingSize] = used_ring[rx_last_used_idx % RingSize]
  <2>1. /\ Geometry(IdxMod, RingSize) /\ rx_last_used_idx \in 0 .. IdxMod - 1
        /\ used_idx \in 0 .. IdxMod - 1 /\ IdxMod \in Nat \ {0}
    BY <1>0, RingGeometry DEF TypeOK
  <2>2. 1 \in 1 .. ((used_idx - rx_last_used_idx) % IdxMod)
    BY <1>14, <2>1, Distance
  <2>3. (rx_last_used_idx + 1 - 1) % RingSize # used_idx % RingSize
    BY <1>2, <2>1, <2>2, WindowGap
  <2>4. rx_last_used_idx + 1 - 1 = rx_last_used_idx
    BY <2>1
  <2>5. rx_last_used_idx % RingSize # used_idx % RingSize
    BY <2>3, <2>4
  <2>6. QED BY <1>0, <1>3, <2>5 DEF TypeOK, DevReturn
<1>15. QED BY <1>0, <1>1, <1>2, <1>4, <1>11, <1>12, <1>13, <1>14

(* The device returning a descriptor preserves the invariant. *)
LEMMA DevReturnInv ==
  ASSUME NEW f \in Frames, IInv, DevReturn(f) PROVE IInv'
<1>0. TypeOK /\ initialized /\ Places /\ KeepsDescriptors /\ filling \in Descs
      /\ ReturnedIds \in Seq(Descs)
  BY Given, Windows DEF IInv, Off, DevReturn
<1>1. /\ TypeOK' /\ filling \notin Range(ReturnedIds) /\ Posted' = Posted
      /\ ReturnedIds' = Append(ReturnedIds, filling)
  BY Given
<1>2. IsInjective(ReturnedIds') /\ Range(ReturnedIds)' = Range(ReturnedIds) \cup {filling}
  <2>1. /\ IsInjective(Append(ReturnedIds, filling))
        /\ Range(Append(ReturnedIds, filling)) = Range(ReturnedIds) \cup {filling}
    BY <1>0, <1>1, InjectiveAppend DEF Places
  <2>2. QED BY <1>1, <2>1
<1>3. Writing = {filling} /\ Writing' = {} /\ Holding' = Holding
  BY DEF Writing, Holding, DevReturn, local
<1>4. Places'
  BY <1>0, <1>1, <1>2, <1>3 DEF Places
<1>5. Owned' = Owned
  BY <1>0, <1>1, <1>2, <1>3, OwnedIs, NextState
<1>6. KeepsDescriptors'
  BY <1>0, <1>5 DEF KeepsDescriptors, DevReturn, result
<1>7. Off' /\ InHand'
  BY <1>0, Given DEF IInv, Off, InHand, DevReturn, ctx, local
<1>8. QED BY <1>1, <1>4, <1>6, <1>7 DEF IInv

----------------------------------------------------------------------------
(* The invariant holds in every reachable state of the receive queue of a  *)
(* CPU that keeps its loads in order.                                      *)
THEOREM RxInvariant ==
  ASSUME ~WeakLoads PROVE Spec => []IInv
<1>1. Init => IInv
  BY InitInv
<1>2. IInv /\ [Next]_vars => IInv'
  <2> SUFFICES ASSUME IInv, [Next]_vars PROVE IInv'
    OBVIOUS
  <2>1. CASE UNCHANGED vars
    <3>1. Posted' = Posted /\ ReturnedIds' = ReturnedIds
      BY <2>1, SameWindows DEF vars, shared, ctx, dev
    <3>2. TypeOK'
      BY <2>1 DEF IInv, TypeOK, Ring, vars, shared, ctx, local, result, dev
    <3>3. Holding' = Holding /\ UNCHANGED <<filling, initialized, rejected>>
      BY <2>1 DEF Holding, vars, ctx, local, result, dev
    <3>4. (initialized => Places)' /\ KeepsDescriptors'
      BY <3>1, <3>2, <3>3, SamePlaces DEF IInv
    <3>5. Off' /\ InHand'
      BY <2>1 DEF IInv, Off, InHand, vars, shared, ctx, local, result, dev
    <3>6. QED BY <3>2, <3>4, <3>5 DEF IInv
  <2>2. CASE \E size \in BufferSizes : Receive(size)
    BY <2>2, ReceiveInv
  <2>3. CASE Call
    BY <2>3, PollEmptyInv, PollElemInv, RejectInv, CopyInv, RepostInv, KickInv DEF Call
  <2>4. CASE \E f \in Frames : DevReturn(f)
    BY <2>4, DevReturnInv
  <2>5. QED BY <2>1, <2>2, <2>3, <2>4, DeinitInv, ReinitInv, DevTakeInv DEF Next
<1>3. QED BY <1>1, <1>2, PTL DEF Spec

(* Of the descriptors init_context posted, a receive queue loses exactly   *)
(* those of the frames virtio_net_receive refused.                         *)
THEOREM DescriptorsKept ==
  ASSUME ~WeakLoads PROVE Spec => []KeepsDescriptors
<1>1. IInv => KeepsDescriptors
  BY DEF IInv
<1>2. QED BY <1>1, RxInvariant, PTL

(* A receive descriptor is posted, being written, returned or held by the  *)
(* call, and only one of these: no two frames share a buffer.              *)
THEOREM RxOwnershipHolds ==
  ASSUME ~WeakLoads PROVE Spec => []RxOwnership
<1>1. IInv => RxOwnership
  <2> SUFFICES ASSUME IInv, initialized
               PROVE  Len(Posted) + Len(Returned) + Cardinality(Holding) + Cardinality(Writing)
                        = Cardinality(Owned)
    BY DEF IInv, RxOwnership
  <2>1. TypeOK /\ Places
    BY DEF IInv
  <2>2. Posted \in Seq(Descs) /\ ReturnedIds \in Seq(Descs) /\ Len(Returned) = Len(ReturnedIds)
    BY <2>1, Windows, ReturnedIs
  <2>3. /\ IsFiniteSet(Range(Posted)) /\ Cardinality(Range(Posted)) = Len(Posted)
        /\ IsFiniteSet(Range(ReturnedIds)) /\ Cardinality(Range(ReturnedIds)) = Len(ReturnedIds)
    BY <2>1, <2>2, InjectiveLen DEF Places
  <2>4. IsFiniteSet(Holding) /\ IsFiniteSet(Writing)
    <3>1. Holding \in SUBSET Descs /\ Writing \in SUBSET Descs
      BY <2>1 DEF TypeOK, Holding, Writing, Elem
    <3>2. QED BY <3>1, DescCount, FS_Subset
  <2> DEFINE A == Range(Posted) \cup Range(ReturnedIds)
             B == A \cup Holding
             C == B \cup Writing
  <2>5. IsFiniteSet(A) /\ Cardinality(A) = Cardinality(Range(Posted)) + Cardinality(Range(ReturnedIds))
    BY <2>1, <2>3, DisjointSizes DEF Places
  <2>6. IsFiniteSet(B) /\ Cardinality(B) = Cardinality(A) + Cardinality(Holding)
    <3>1. A \cap Holding = {}
      BY <2>1 DEF Places
    <3> HIDE DEF A
    <3>2. QED BY <2>4, <2>5, <3>1, DisjointSizes
  <2>7. IsFiniteSet(C) /\ Cardinality(C) = Cardinality(B) + Cardinality(Writing)
    <3>1. B \cap Writing = {}
      BY <2>1 DEF Places
    <3> HIDE DEF B
    <3>2. QED BY <2>4, <2>6, <3>1, DisjointSizes
  <2>8. Owned = C
    BY <2>1, OwnedIs
  <2>9. Cardinality(Holding) \in Nat /\ Cardinality(Writing) \in Nat
        /\ Len(Posted) \in Nat /\ Len(ReturnedIds) \in Nat
    BY <2>2, <2>4, FS_CardinalityType, LenProperties
  <2>10. QED
    <3> HIDE DEF A, B, C, Posted, Returned, ReturnedIds
    <3> QED BY <2>2, <2>3, <2>5, <2>6, <2>7, <2>8, <2>9
<1>2. QED BY <1>1, RxInvariant, PTL

----------------------------------------------------------------------------
(* The queue of the FIFO is what the returned buffers hold. *)
LEMMA QueueIs ==
  TypeOK => Queue = IF initialized THEN Contents(rx_buffers, ReturnedIds) ELSE <<>>
BY ReturnedIs DEF Queue, Contents

(* The same after a step. *)
LEMMA QueueNext ==
  TypeOK' => (Queue = IF initialized THEN Contents(rx_buffers, ReturnedIds) ELSE <<>>)'
BY QueueIs, PTL

(* Steps that change neither a buffer, nor what is returned, nor the frame *)
(* the caller has are stutters of the FIFO.                                *)
LEMMA FifoStutter ==
  ASSUME TypeOK, TypeOK', UNCHANGED <<initialized, rx_buffers, got>>, ReturnedIds' = ReturnedIds
  PROVE  UNCHANGED Fifo!vars
BY QueueIs, QueueNext DEF Fifo!vars

(* Every step of the receive queue is a step of the FIFO or a stutter. *)
LEMMA FifoStep ==
  ASSUME IInv, IInv', [Next]_vars PROVE [Fifo!Next]_(Fifo!vars)
<1>0. /\ TypeOK /\ TypeOK' /\ ReturnedIds \in Seq(Descs)
      /\ IsStore(rx_buffers, ReturnedIds, Descs, Frames \cup {None})
  BY Windows DEF IInv, TypeOK, IsStore
<1>1. CASE UNCHANGED vars
  <2>1. ReturnedIds' = ReturnedIds
    BY <1>1, SameWindows DEF vars, shared, ctx, dev
  <2>2. QED BY <1>0, <1>1, <2>1, FifoStutter DEF vars, shared, ctx, result
<1>2. CASE \E size \in BufferSizes : Receive(size)
  <2>1. ReturnedIds' = ReturnedIds
    BY <1>2, SameWindows DEF Receive, shared, ctx, dev
  <2>2. QED BY <1>0, <1>2, <2>1, FifoStutter DEF Receive, shared, ctx, result
<1>3. CASE PollEmpty
  <2>1. ReturnedIds' = ReturnedIds
    BY <1>3, SameWindows DEF PollEmpty, shared, ctx, dev
  <2>2. QED BY <1>0, <1>3, <2>1, FifoStutter DEF PollEmpty, shared, ctx, result
<1>4. CASE PollElem
  <2>1. ReturnedIds' = ReturnedIds
    BY <1>4, SameWindows DEF PollElem, shared, ctx, dev
  <2>2. QED BY <1>0, <1>4, <2>1, FifoStutter DEF PollElem, shared, ctx, result
<1>5. CASE Repost
  BY <1>0, <1>5, RepostWindow, FifoStutter DEF Repost, ctx, result
<1>6. CASE Kick
  <2>1. ReturnedIds' = ReturnedIds
    BY <1>6 DEF ReturnedIds, Ids, Ring, Window, Kick, ctx
  <2>2. QED BY <1>0, <1>6, <2>1, FifoStutter DEF Kick, ctx, result
<1>7. CASE DevTake
  <2>1. ReturnedIds' = ReturnedIds
    BY <1>7 DEF ReturnedIds, Ids, Ring, Window, DevTake, shared, ctx
  <2>2. QED BY <1>0, <1>7, <2>1, FifoStutter DEF DevTake, shared, ctx, result
<1>8. ASSUME Reject \/ Copy
      PROVE  /\ Queue # <<>> /\ Queue' = Tail(Queue)
             /\ Head(Queue) = rx_buffers[elem.id]
  <2>1. initialized /\ initialized' /\ rx_buffers' = rx_buffers /\ pc = "check"
    BY <1>8 DEF IInv, Off, Reject, Copy, shared
  <2>2. ReturnedIds # <<>> /\ ReturnedIds' = Tail(ReturnedIds) /\ elem.id = Head(ReturnedIds)
    BY <1>8, Consumed DEF Reject, Copy
  <2>3. /\ Contents(rx_buffers, ReturnedIds) # <<>>
        /\ Head(Contents(rx_buffers, ReturnedIds)) = rx_buffers[Head(ReturnedIds)]
        /\ Contents(rx_buffers, Tail(ReturnedIds)) = Tail(Contents(rx_buffers, ReturnedIds))
    BY <1>0, <2>2, ContentsTail
  <2>4. /\ Queue = Contents(rx_buffers, ReturnedIds)
        /\ Queue' = Contents(rx_buffers, Tail(ReturnedIds))
    BY <1>0, <2>1, <2>2, QueueIs, QueueNext
  <2>5. QED BY <2>2, <2>3, <2>4
<1>9. CASE Reject
  <2>1. Fifo!Discard
    BY <1>8, <1>9 DEF Reject, Fifo!Discard
  <2>2. QED BY <2>1 DEF Fifo!Next
<1>10. CASE Copy
  <2>1. Fifo!Deliver
    BY <1>8, <1>10 DEF Copy, Fifo!Deliver
  <2>2. QED BY <2>1 DEF Fifo!Next
<1>11. CASE Deinit
  <2>1. Queue' = <<>> /\ got' = None
    BY <1>0, <1>11, QueueNext DEF Deinit
  <2>2. QED BY <2>1 DEF Fifo!Next, Fifo!Reset
<1>12. CASE Reinit
  <2>1. ReturnedIds' = <<>>
    BY <1>12, ReinitFresh, FreshNext
  <2>2. Contents(rx_buffers', <<>>) = <<>>
    BY DEF Contents
  <2>3. Queue' = <<>> /\ Queue = <<>> /\ got' = got
    BY <1>0, <1>12, <2>1, <2>2, QueueIs, QueueNext DEF Reinit, result
  <2>4. QED BY <2>3 DEF Fifo!vars
<1>13. CASE \E f \in Frames : DevReturn(f)
  <2>1. PICK f \in Frames : DevReturn(f)
    BY <1>13
  <2>2. /\ filling \in Descs /\ filling \notin Range(ReturnedIds) /\ Len(ReturnedIds) < QueueSize
        /\ ReturnedIds' = Append(ReturnedIds, filling)
    BY <2>1, Given
  <2>3. initialized /\ initialized' /\ got' = got
    BY <2>1 DEF IInv, Off, DevReturn, ctx, result
  <2> DEFINE b == [rx_buffers EXCEPT ![filling] = f]
  <2>4. /\ rx_buffers' = b /\ b[filling] = f
        /\ IsStore(b, ReturnedIds, Descs, Frames \cup {None})
    BY <1>0, <2>1, <2>2 DEF DevReturn, IsStore
  <2>5. Contents(b, ReturnedIds) = Contents(rx_buffers, ReturnedIds)
    BY <1>0, <2>2, ContentsWrite
  <2> HIDE DEF b
  <2>6. Contents(b, Append(ReturnedIds, filling)) = Append(Contents(b, ReturnedIds), b[filling])
    BY <2>2, <2>4, ContentsAppend
  <2>7. Queue = Contents(rx_buffers, ReturnedIds) /\ Queue' = Append(Queue, f)
    BY <1>0, <2>2, <2>3, <2>4, <2>5, <2>6, QueueIs, QueueNext
  <2>8. Len(Queue) < QueueSize
    BY <1>0, <2>2, <2>7, ContentsType
  <2>9. Fifo!Accept(f)
    BY <2>3, <2>7, <2>8 DEF Fifo!Accept
  <2>10. QED BY <2>9 DEF Fifo!Next
<1>14. QED
  BY <1>1, <1>2, <1>3, <1>4, <1>5, <1>6, <1>7, <1>9, <1>10, <1>11, <1>12, <1>13 DEF Next, Call

(* The receive queue implements a bounded FIFO: what virtio_net_receive    *)
(* hands to its caller are the frames the device returned, unchanged, each *)
(* at most once and in the device's order; a call that fails drops one.    *)
THEOREM DeliversInOrder ==
  ASSUME ~WeakLoads PROVE Spec => Fifo!Spec
<1>1. Init => Fifo!Init
  <2> SUFFICES ASSUME Init PROVE Fifo!Init
    OBVIOUS
  <2>1. TypeOK /\ ReturnedIds = <<>> /\ Contents(rx_buffers, <<>>) = <<>>
    BY InitInv DEF IInv, Contents
  <2>2. QED BY <2>1, QueueIs DEF Init, Fifo!Init
<1>2. IInv /\ IInv' /\ [Next]_vars => [Fifo!Next]_(Fifo!vars)
  BY FifoStep
<1>3. QED BY <1>1, <1>2, RxInvariant, PTL DEF Spec, Fifo!Spec
=============================================================================
