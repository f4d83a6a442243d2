-------------------------- MODULE VirtioRngProofs --------------------------
(***************************************************************************)
(* For every queue size, counter width, set of read sizes and number of    *)
(* calls that give up: the lag of the entropy driver is the number of its  *)
(* timeouts, and without one every read returns bytes no read returned     *)
(* before.                                                                 *)
(***************************************************************************)
EXTENDS VirtioRng, RingTheorems

(* Between two calls no descriptor is in use, so the search for a free one *)
(* always finds the first: the rings never name another.                   *)
OneDesc ==
  /\ \A d \in Descs : desc_in_use[d] => d = 0 /\ pc \in {"kick", "poll"}
  /\ desc_idx = 0
  /\ \A s \in Descs : avail_ring[s] = 0 /\ used_ring[s].id = 0
  /\ serving \in {0, NoDesc}

(* The lag of LagIsTimeouts. *)
Lag ==
  initialized =>
    (avail_idx - last_used_idx) % IdxMod =
      (timeouts + (IF pc = "poll" THEN 1 ELSE 0)) % IdxMod

(* Driver and device agree that no request is under way. *)
Quiet ==
  /\ avail_idx = last_used_idx
  /\ used_idx = last_used_idx
  /\ dev_avail = last_used_idx
  /\ serving = NoDesc

(* The one request under way is not taken, being served, or answered.      *)
OneRequest ==
  /\ avail_idx = Inc(last_used_idx)
  /\ \/ /\ dev_avail = last_used_idx
        /\ used_idx = last_used_idx
        /\ serving = NoDesc
     \/ /\ dev_avail = avail_idx
        /\ used_idx = last_used_idx
        /\ serving = 0
        /\ buffer = "fresh"
     \/ /\ dev_avail = avail_idx
        /\ used_idx = avail_idx
        /\ serving = NoDesc
        /\ buffer = "fresh"

(* As long as no call gave up, requests and answers go in step; a device   *)
(* that was reset has nothing under way.                                   *)
InStep ==
  /\ ~initialized => /\ pc = "idle"
                     /\ dev_avail = 0 /\ serving = NoDesc
                     /\ result = NoBytes
  /\ initialized /\ timeouts = 0 =>
       /\ pc \in {"idle", "kick", "copy"} => Quiet
       /\ pc = "copy" => buffer = "fresh"
       /\ pc = "poll" => OneRequest

IInv == TypeOK /\ OneDesc /\ Lag /\ InStep /\ FreshBytes

----------------------------------------------------------------------------
(* The counters are wide enough to step. *)
LEMMA Width == IdxMod \in Nat /\ IdxMod > 1 /\ IdxMod \in Nat \ {0}
BY SizeAssumption

(* A counter of the queue steps by one and wraps at its width. *)
LEMMA IncIs ==
  ASSUME NEW i \in 0 .. IdxMod - 1
  PROVE  /\ Inc(i) = IF i = IdxMod - 1 THEN 0 ELSE i + 1
         /\ Inc(i) \in 0 .. IdxMod - 1
         /\ Inc(i) # i
BY Width, WrapStep DEF Inc

(* The distance of two counters grows by one with the first and shrinks by *)
(* one with the second, modulo the width.                                  *)
LEMMA LagStep ==
  ASSUME NEW i \in 0 .. IdxMod - 1, NEW j \in 0 .. IdxMod - 1, NEW k \in Int,
         (i - j) % IdxMod = k % IdxMod
  PROVE  /\ (Inc(i) - j) % IdxMod = (k + 1) % IdxMod
         /\ (i - Inc(j)) % IdxMod = (k - 1) % IdxMod
<1> DEFINE a == i - j
           up == Inc(i) - j
           down == i - Inc(j)
<1>1. a \in Int /\ up \in Int /\ down \in Int /\ a % IdxMod = k % IdxMod
  BY Width, IncIs
<1>2. up = a + 1 \/ up + IdxMod = a + 1
  BY Width, IncIs
<1>3. down = a - 1 \/ down = (a - 1) + IdxMod
  BY Width, IncIs
<1> HIDE DEF a, up, down
<1>4. (a + 1) % IdxMod = (k + 1) % IdxMod /\ (a - 1) % IdxMod = (k - 1) % IdxMod
  BY <1>1, Width, ModStep
<1>5. (up + IdxMod) % IdxMod = up % IdxMod
  BY <1>1, Width, ModShift
<1>6. ((a - 1) + IdxMod) % IdxMod = (a - 1) % IdxMod
  <2>1. a - 1 \in Int
    BY <1>1
  <2>2. QED BY <2>1, Width, ModShift, Zenon
<1>7. up % IdxMod = (k + 1) % IdxMod
  BY <1>2, <1>4, <1>5
<1>8. down % IdxMod = (k - 1) % IdxMod
  BY <1>3, <1>4, <1>6
<1>9. QED BY <1>7, <1>8 DEF up, down

(* Every ring position is the index of an entry. *)
LEMMA Position ==
  ASSUME NEW i \in 0 .. IdxMod - 1
  PROVE  i % QueueSize \in Descs
BY SizeAssumption, DivMod DEF Descs

(* The first descriptor is a descriptor, and not the mark for none. *)
LEMMA First == 0 \in Descs /\ 0 # NoDesc /\ NoDesc \notin Descs
BY SizeAssumption DEF Descs, NoDesc

----------------------------------------------------------------------------
(* The state after probe satisfies the invariant. *)
LEMMA InitInv == Init => IInv
<1> SUFFICES ASSUME Init PROVE IInv
  OBVIOUS
<1>1. TypeOK
  BY SizeAssumption, First DEF Init, TypeOK, Elem, ZeroElem, NoBytes
<1>2. OneDesc
  BY DEF Init, OneDesc, ZeroElem
<1>3. Lag
  BY DEF Init, Lag
<1>4. InStep
  BY DEF Init, InStep, Quiet
<1>5. FreshBytes
  BY DEF Init, FreshBytes, NoBytes
<1>6. QED BY <1>1, <1>2, <1>3, <1>4, <1>5 DEF IInv

(* The start of a read preserves the invariant: it takes descriptor 0. *)
LEMMA ReadInv ==
  ASSUME NEW n \in Sizes, IInv, Read(n) PROVE IInv'
<1>1. PICK d \in Descs :
        /\ ~desc_in_use[d]
        /\ \A e \in Descs : e < d => desc_in_use[e]
        /\ desc_in_use' = [desc_in_use EXCEPT ![d] = TRUE]
        /\ desc_len' = [desc_len EXCEPT ![d] = n]
        /\ avail_ring' = [avail_ring EXCEPT ![avail_idx % QueueSize] = d]
        /\ desc_idx' = d
  BY DEF Read
<1>2. d = 0
  <2>1. ~desc_in_use[0]
    BY First DEF IInv, OneDesc, Read
  <2>2. QED BY <1>1, <2>1, First, SizeAssumption DEF Descs
<1>3. avail_idx % QueueSize \in Descs
  BY Position DEF IInv, TypeOK
<1>4. TypeOK'
  BY <1>1, <1>3 DEF IInv, TypeOK, Read, dev
<1>5. OneDesc'
  BY <1>1, <1>2, <1>3 DEF IInv, TypeOK, OneDesc, Read, dev
<1>6. Lag'
  BY DEF IInv, Lag, Read
<1>7. InStep'
  BY DEF IInv, InStep, Quiet, Read, dev
<1>8. FreshBytes'
  BY DEF IInv, FreshBytes, Read
<1>9. QED BY <1>4, <1>5, <1>6, <1>7, <1>8 DEF IInv

(* Publishing the request preserves the invariant. *)
LEMMA KickInv ==
  ASSUME IInv, Kick PROVE IInv'
<1>1. avail_idx \in 0 .. IdxMod - 1 /\ last_used_idx \in 0 .. IdxMod - 1 /\ timeouts \in Int
  BY DEF IInv, TypeOK
<1>2. TypeOK'
  BY <1>1, IncIs DEF IInv, TypeOK, Kick, dev, ctx
<1>3. OneDesc'
  BY DEF IInv, OneDesc, Kick, dev, ctx
<1>4. Lag'
  BY <1>1, LagStep DEF IInv, Lag, Kick, ctx
<1>5. InStep'
  BY DEF IInv, InStep, Quiet, OneRequest, Kick, dev, ctx
<1>6. FreshBytes'
  BY DEF IInv, FreshBytes, Kick
<1>7. QED BY <1>2, <1>3, <1>4, <1>5, <1>6 DEF IInv

(* Giving up preserves the invariant: the request under way becomes lag. *)
LEMMA TimeoutInv ==
  ASSUME IInv, Timeout PROVE IInv'
<1>1. timeouts \in Nat /\ timeouts' \in Nat \ {0} /\ timeouts' = timeouts + 1
  BY DEF IInv, TypeOK, Timeout
<1>2. TypeOK'
  BY SizeAssumption DEF IInv, TypeOK, Timeout, dev, queue, NoBytes
<1>3. OneDesc'
  BY DEF IInv, TypeOK, OneDesc, Timeout, dev, queue
<1>4. Lag'
  BY <1>1 DEF IInv, Lag, Timeout, queue
<1>5. InStep'
  BY <1>1 DEF IInv, InStep, Timeout
<1>6. FreshBytes'
  BY <1>1 DEF FreshBytes
<1>7. QED BY <1>2, <1>3, <1>4, <1>5, <1>6 DEF IInv

(* Consuming an answer preserves the invariant. *)
LEMMA AnswerInv ==
  ASSUME IInv, Answer PROVE IInv'
<1> DEFINE e == used_ring[last_used_idx % QueueSize]
<1>1. avail_idx \in 0 .. IdxMod - 1 /\ last_used_idx \in 0 .. IdxMod - 1 /\ timeouts \in Int
  BY DEF IInv, TypeOK
<1>2. last_used_idx % QueueSize \in Descs
  BY <1>1, Position
<1>3. e \in Elem /\ e.id = 0
  BY <1>2 DEF IInv, TypeOK, OneDesc
<1>4. TypeOK'
  <2>1. size' \in Sizes \cup {0}
    BY <1>3 DEF IInv, TypeOK, Answer, Elem
  <2>2. last_used_idx' \in 0 .. IdxMod - 1
    BY <1>1, IncIs DEF Answer
  <2>3. desc_in_use' \in [Descs -> BOOLEAN]
    BY DEF IInv, TypeOK, Answer
  <2>4. QED BY <2>1, <2>2, <2>3 DEF IInv, TypeOK, Answer, dev, queue
<1>5. OneDesc'
  BY <1>3, First DEF IInv, TypeOK, OneDesc, Answer, dev, queue
<1>6. Lag'
  <2>1. timeouts + 1 - 1 = timeouts + 0
    BY <1>1
  <2>2. initialized =>
          (avail_idx - Inc(last_used_idx)) % IdxMod = (timeouts + 1 - 1) % IdxMod
    BY <1>1, LagStep DEF IInv, Lag, Answer
  <2>3. QED BY <2>1, <2>2 DEF Lag, Answer, queue
<1>7. InStep'
  BY <1>1, IncIs DEF IInv, InStep, Quiet, OneRequest, Answer, dev, queue
<1>8. FreshBytes'
  BY DEF IInv, FreshBytes, Answer
<1>9. QED BY <1>4, <1>5, <1>6, <1>7, <1>8 DEF IInv

(* Returning the bytes preserves the invariant. *)
LEMMA CopyOutInv ==
  ASSUME IInv, CopyOut PROVE IInv'
<1>1. TypeOK'
  BY DEF IInv, TypeOK, CopyOut, dev, queue, ctx
<1>2. OneDesc'
  BY DEF IInv, OneDesc, CopyOut, dev, queue, ctx
<1>3. Lag'
  BY DEF IInv, Lag, CopyOut, queue, ctx
<1>4. InStep'
  BY DEF IInv, InStep, Quiet, CopyOut, dev, queue, ctx
<1>5. FreshBytes'
  BY DEF IInv, InStep, FreshBytes, CopyOut
<1>6. QED BY <1>1, <1>2, <1>3, <1>4, <1>5 DEF IInv

(* Tearing the context down preserves the invariant. *)
LEMMA DeinitInv ==
  ASSUME IInv, Deinit PROVE IInv'
<1>1. TypeOK'
  <2>1. dev_avail' \in 0 .. IdxMod - 1 /\ serving' \in Descs \cup {NoDesc}
    BY Width DEF Deinit
  <2>2. result' \in [bytes : {"none", "zero", "fresh", "seen"}, len : Sizes \cup {0}]
    BY DEF Deinit, NoBytes
  <2>3. QED BY <2>1, <2>2 DEF IInv, TypeOK, Deinit, queue, local
<1>2. OneDesc'
  BY DEF IInv, OneDesc, Deinit, queue, local
<1>3. Lag' /\ InStep' /\ FreshBytes'
  BY DEF Lag, InStep, FreshBytes, NoBytes, Deinit, local
<1>4. QED BY <1>1, <1>2, <1>3 DEF IInv

(* A new initialisation preserves the invariant, although it leaves        *)
(* desc_in_use and the buffer as they were.                                *)
LEMMA ReinitInv ==
  ASSUME IInv, Reinit PROVE IInv'
<1>1. TypeOK'
  BY SizeAssumption, First DEF IInv, TypeOK, Reinit, dev, local, Elem, ZeroElem
<1>2. OneDesc'
  BY DEF IInv, OneDesc, Reinit, dev, local, ZeroElem
<1>3. Lag'
  BY DEF IInv, Lag, Reinit, local
<1>4. InStep'
  BY DEF IInv, InStep, Quiet, Reinit, dev, local
<1>5. FreshBytes'
  BY DEF IInv, InStep, FreshBytes, NoBytes, Reinit
<1>6. QED BY <1>1, <1>2, <1>3, <1>4, <1>5 DEF IInv

(* The device taking a request preserves the invariant. *)
LEMMA DevTakeInv ==
  ASSUME IInv, DevTake PROVE IInv'
<1>1. avail_idx \in 0 .. IdxMod - 1 /\ last_used_idx \in 0 .. IdxMod - 1
      /\ dev_avail \in 0 .. IdxMod - 1
  BY DEF IInv, TypeOK
<1>2. dev_avail % QueueSize \in Descs
  BY <1>1, Position
<1>3. TypeOK'
  BY <1>1, <1>2, IncIs DEF IInv, TypeOK, DevTake, queue, ctx, local
<1>4. OneDesc'
  BY <1>2 DEF IInv, OneDesc, DevTake, queue, ctx, local
<1>5. Lag' /\ FreshBytes'
  BY DEF IInv, Lag, FreshBytes, DevTake, queue, ctx, local
<1>6. InStep'
  BY <1>1, <1>2, First, IncIs
  DEF IInv, OneDesc, InStep, Quiet, OneRequest, DevTake, queue, ctx, local
<1>7. QED BY <1>3, <1>4, <1>5, <1>6 DEF IInv

(* The device answering preserves the invariant. *)
LEMMA DevAnswerInv ==
  ASSUME IInv, DevAnswer PROVE IInv'
<1>1. used_idx \in 0 .. IdxMod - 1 /\ serving = 0 /\ serving \in Descs
  BY First DEF IInv, TypeOK, OneDesc, DevAnswer
<1>2. used_idx % QueueSize \in Descs
  BY <1>1, Position
<1>3. [id |-> serving, len |-> desc_len[serving]] \in Elem
  BY <1>1 DEF IInv, TypeOK, Elem
<1>4. TypeOK'
  BY <1>1, <1>2, <1>3, IncIs DEF IInv, TypeOK, DevAnswer, ctx, local
<1>5. OneDesc'
  BY <1>1, <1>2 DEF IInv, TypeOK, OneDesc, DevAnswer, ctx, local
<1>6. Lag' /\ FreshBytes'
  BY DEF IInv, Lag, FreshBytes, DevAnswer, ctx, local
<1>7. InStep'
  BY <1>1, First
  DEF IInv, InStep, Quiet, OneRequest, DevAnswer, ctx, local
<1>8. QED BY <1>4, <1>5, <1>6, <1>7 DEF IInv

----------------------------------------------------------------------------
(* The invariant holds in every reachable state of the request queue. *)
THEOREM RngInvariant == Spec => []IInv
<1>1. Init => IInv
  BY InitInv
<1>2. IInv /\ [Next]_vars => IInv'
  <2> SUFFICES ASSUME IInv, [Next]_vars PROVE IInv'
    OBVIOUS
  <2>1. CASE UNCHANGED vars
    BY <2>1 DEF IInv, TypeOK, OneDesc, Lag, InStep, Quiet, OneRequest, FreshBytes,
       vars, queue, ctx, local, dev
  <2>2. CASE \E n \in Sizes : Read(n)
    BY <2>2, ReadInv
  <2>3. CASE Next
    BY <2>2, <2>3, KickInv, TimeoutInv, AnswerInv, CopyOutInv, DeinitInv, ReinitInv,
       DevTakeInv, DevAnswerInv DEF Next
  <2>4. QED BY <2>1, <2>3
<1>3. QED BY <1>1, <1>2, PTL DEF Spec

(* virtio_rng_read lags behind its requests by exactly the number of calls *)
(* that gave up, keeps no descriptor past its return and so always finds a *)
(* free one, however many calls gave up and wherever the counters wrap.    *)
THEOREM LagOfReads == Spec => []LagIsTimeouts
<1>1. IInv => LagIsTimeouts
  BY DEF IInv, OneDesc, Lag, LagIsTimeouts
<1>2. QED BY <1>1, RngInvariant, PTL

(* As long as no call gave up since initialisation, virtio_rng_read        *)
(* returns bytes the device wrote and no call returned before.             *)
THEOREM ReadsAreFresh == Spec => []FreshBytes
<1>1. IInv => FreshBytes
  BY DEF IInv
<1>2. QED BY <1>1, RngInvariant, PTL
=============================================================================
