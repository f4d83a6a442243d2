---------------------------- MODULE E1000Proofs ----------------------------
(***************************************************************************)
(* For every size of the two rings, all frames and all buffer sizes: the   *)
(* status bits, the driver's indices and the device's registers agree, a   *)
(* failed receive call takes one descriptor out of the ring and a success  *)
(* brings all of them back, and both rings hand frames over unchanged,     *)
(* once and in order.                                                      *)
(***************************************************************************)
EXTENDS E1000, RingTheorems

----------------------------------------------------------------------------
(* The inductive invariant. *)

(* 1 between the copy of a frame and the write of the receive tail, when   *)
(* the descriptor at rx_current is neither filled nor free.                *)
Copied == IF pc = "rdt" THEN 1 ELSE 0

(* From rx_current on: the copied descriptor, n filled ones up to the head *)
(* register, w free ones up to the tail register, those lost to failed     *)
(* calls, and one more.                                                    *)
RxRing(n, w) ==
  /\ n + w + failures + Copied = NumRx - 1
  /\ Filled = Arc(Nth(rx_current, Copied, NumRx), n, NumRx)
  /\ RDH = Nth(Nth(rx_current, Copied, NumRx), n, NumRx)
  /\ RDT = Nth(RDH, w, NumRx)

RxAgrees == Settled => \E n, w \in Nat : RxRing(n, w)

(* Until a frame arrives, init_context finds what it wrote. *)
RxReset ==
  (pc = "reset" /\ ~late) =>
    /\ rx_frame = [d \in RxDescs |-> None]
    /\ rx_current = 0 /\ failures = 0 /\ got = None

(* 1 between the fill of a descriptor and the write of the transmit tail.  *)
Untold == IF pc = "tdt" THEN 1 ELSE 0

(* From the head register on: n waiting descriptors, the last of which the *)
(* device may not have been told of; the driver fills the one after them.  *)
TxRing(n) ==
  /\ {d \in TxDescs : ~tx_dd[d]} = Arc(TDH, n, NumTx)
  /\ n >= Untold /\ (sending => n > Untold)
  /\ TDT = Nth(TDH, n - Untold, NumTx)
  /\ pc # "reset" => tx_current = Nth(TDH, n, NumTx)
  /\ pc = "reset" => tx_current = 0

TxAgrees == \E n \in 0 .. NumTx : TxRing(n)

IInv == TypeOK /\ RxAgrees /\ RxReset /\ TxAgrees

----------------------------------------------------------------------------
(* The invariant implies the property of the run. *)

(* Entries of the two rings. *)
LEMMA Sizes ==
  /\ NumRx \in Nat \ {0} /\ NumRx > 1 /\ RxDescs = 0 .. NumRx - 1
  /\ NumTx \in Nat \ {0} /\ NumTx > 1 /\ TxDescs = 0 .. NumTx - 1
BY RingAssumption DEF RxDescs, TxDescs

(* The distance between two registers, as the model computes it. *)
LEMMA DistanceBack ==
  ASSUME NEW N \in Nat \ {0}, NEW s \in 0 .. N - 1, NEW w \in 0 .. N - 1
  PROVE  (Nth(s, w, N) + N - s) % N = w
<1>1. CASE s + w <= N - 1
  <2>1. s + w \in 0 .. N - 1
    BY <1>1
  <2>2. Nth(s, w, N) = s + w
    BY <2>1, ModSmall DEF Nth
  <2>3. s + w + N - s = N * 1 + w
    OBVIOUS
  <2>4. (s + w + N - s) % N = w
    BY <2>3, ModUnique
  <2>5. QED BY <2>2, <2>4
<1>2. CASE s + w > N - 1
  <2>1. s + w - N \in 0 .. N - 1 /\ s + w \in Int /\ s + w = N * 1 + (s + w - N)
    BY <1>2
  <2>2. Nth(s, w, N) = s + w - N
    BY <2>1, ModUnique DEF Nth
  <2>3. s + w - N + N - s = w
    OBVIOUS
  <2>4. QED BY <2>2, <2>3, ModSmall
<1>3. QED BY <1>1, <1>2

(* The sizes of the sets of FailuresShrinkRing. *)
LEMMA RxSizes ==
  ASSUME TypeOK, NEW n \in Nat, NEW w \in Nat, RxRing(n, w)
  PROVE  /\ n \in 0 .. NumRx - 1 /\ w \in 0 .. NumRx - 1 /\ failures \in 0 .. NumRx - 1
         /\ Cardinality(Filled) = n /\ Cardinality(FreeDescs) = w
<1>0. failures \in Nat /\ Copied \in 0 .. 1 /\ rx_current \in 0 .. NumRx - 1 /\ RDH \in 0 .. NumRx - 1
  BY Sizes DEF TypeOK, Copied
<1>1. n \in 0 .. NumRx - 1 /\ w \in 0 .. NumRx - 1 /\ failures \in 0 .. NumRx - 1
  BY <1>0, Sizes DEF RxRing
<1>2. PICK b : b = Nth(rx_current, Copied, NumRx)
  OBVIOUS
<1>3. b \in 0 .. NumRx - 1 /\ b \in Int
  <2>1. rx_current \in Int /\ Copied \in Int
    BY <1>0
  <2>2. b \in 0 .. NumRx - 1
    BY <1>2, <2>1, NthType, Sizes
  <2>3. QED BY <2>2, Sizes
<1>4. n \in 0 .. NumRx
  BY <1>1, Sizes
<1>5. Cardinality(Arc(b, n, NumRx)) = n
  BY <1>3, <1>4, ArcSize, Sizes
<1>6. Cardinality(Filled) = n
  BY <1>2, <1>5 DEF RxRing
<1>7. (RDT + NumRx - RDH) % NumRx = w
  BY <1>0, <1>1, DistanceBack, Sizes DEF RxRing
<1>8. FreeDescs = Arc(RDH, w, NumRx)
  BY <1>7 DEF FreeDescs, Arc, Nth
<1>9. w \in 0 .. NumRx /\ RDH \in Int
  BY <1>0, <1>1, Sizes
<1>10. Cardinality(FreeDescs) = w
  BY <1>8, <1>9, ArcSize, Sizes
<1>11. QED BY <1>1, <1>6, <1>10

(* The number of waiting descriptors. *)
LEMMA TxSizes ==
  ASSUME TypeOK, NEW n \in 0 .. NumTx, TxRing(n)
  PROVE  Outstanding = n /\ Unsent = Arc(TDH, n, NumTx)
<1>1. TDH \in Int
  BY Sizes DEF TypeOK
<1>2. Outstanding = n
  <2>1. Cardinality(Arc(TDH, n, NumTx)) = n
    BY <1>1, ArcSize, Sizes
  <2>2. {d \in TxDescs : ~tx_dd[d]} = Arc(TDH, n, NumTx)
    BY DEF TxRing
  <2>3. Outstanding = Cardinality(Arc(TDH, n, NumTx))
    BY <2>2, Zenon DEF Outstanding
  <2>4. QED BY <2>1, <2>3
<1>3. QED BY <1>2 DEF Unsent, Arc, Nth

(* The properties of the two rings. *)
LEMMA InvRings == IInv => RingsAgree
<1> SUFFICES ASSUME IInv PROVE RingsAgree
  OBVIOUS
<1>1. FailuresShrinkRing
  <2> SUFFICES ASSUME Settled
               PROVE  Cardinality(FreeDescs) + Cardinality(Filled) + failures
                        + (IF pc = "rdt" THEN 1 ELSE 0) = NumRx - 1
    BY DEF FailuresShrinkRing
  <2>1. PICK n \in Nat, w \in Nat : RxRing(n, w)
    BY DEF IInv, RxAgrees
  <2>2. Cardinality(Filled) = n /\ Cardinality(FreeDescs) = w /\ failures \in 0 .. NumRx - 1
    BY <2>1, RxSizes DEF IInv
  <2>3. Copied \in 0 .. 1 /\ n + w + failures + Copied = NumRx - 1
    BY <2>1 DEF RxRing, Copied
  <2>4. w + n + failures + Copied = NumRx - 1
    BY <2>2, <2>3, Sizes
  <2>5. QED BY <2>2, <2>4 DEF Copied
<1>2. OnlyFullStalls
  <2>1. PICK n \in 0 .. NumTx : TxRing(n)
    BY DEF IInv, TxAgrees
  <2>2. Outstanding = n /\ Unsent = Arc(TDH, n, NumTx)
    BY <2>1, TxSizes DEF IInv
  <2>3. ASSUME TDH = TDT, pc = "idle", n # 0, n # NumTx PROVE FALSE
    <3>1. TDT = Nth(TDH, n - 0, NumTx) /\ TDH \in 0 .. NumTx - 1 /\ TDH \in Int
      BY <2>1, <2>3, Sizes DEF TxRing, Untold, IInv, TypeOK
    <3>2. n \in 0 .. NumTx - 1 /\ 0 \in 0 .. NumTx - 1 /\ n - 0 = n
      BY <2>3, Sizes
    <3>3. Nth(TDH, n, NumTx) # Nth(TDH, 0, NumTx)
      BY <2>3, <3>1, <3>2, NthDiffer, Sizes
    <3>4. QED BY <2>3, <3>1, <3>2, <3>3, NthSelf, Sizes
  <2>4. QED BY <2>1, <2>2, <2>3 DEF OnlyFullStalls, TxRing
<1>3. QED BY <1>1, <1>2 DEF RingsAgree, IInv

----------------------------------------------------------------------------
(* The receive ring. *)

(* Steps of the other ring leave it alone. *)
LEMMA RxSame ==
  ASSUME RxAgrees, RxReset, UNCHANGED rx, Copied' = Copied,
         Settled' <=> Settled, (pc' = "reset") <=> (pc = "reset")
  PROVE  RxAgrees' /\ RxReset'
<1>1. ASSUME NEW n \in Nat, NEW w \in Nat, RxRing(n, w) PROVE RxRing(n, w)'
  BY <1>1 DEF RxRing, rx, Filled
<1>2. QED BY <1>1 DEF RxAgrees, RxReset, rx

(* What the driver finds at rx_current is the first of the filled          *)
(* descriptors; taking it leaves the rest.                                 *)
LEMMA TakeFirst ==
  ASSUME TypeOK, NEW n \in Nat, NEW w \in Nat, RxRing(n, w), Done,
         rx_frame' = [rx_frame EXCEPT ![rx_current] = None]
  PROVE  /\ n \in 1 .. NumRx - 1 /\ failures \in Nat /\ n + w + failures = NumRx - 1
         /\ Filled' = Arc(Nth(rx_current, 1, NumRx), n - 1, NumRx)
         /\ RDH = Nth(Nth(rx_current, 1, NumRx), n - 1, NumRx)
         /\ Filled = Arc(rx_current, n, NumRx)
<1>0. rx_current \in 0 .. NumRx - 1 /\ rx_current \in Int /\ pc = "idle" /\ Copied = 0
  BY Sizes DEF TypeOK, Done, Copied
<1>1. Nth(rx_current, Copied, NumRx) = rx_current
  BY <1>0, NthSelf, Sizes
<1>2. /\ Filled = Arc(rx_current, n, NumRx) /\ RDH = Nth(rx_current, n, NumRx)
      /\ n + w + failures + 0 = NumRx - 1
  BY <1>0, <1>1 DEF RxRing
<1>3. n \in 0 .. NumRx - 1 /\ failures \in Nat /\ n + w + failures = NumRx - 1
  BY <1>2, RxSizes DEF TypeOK
<1>4. rx_current \in Filled
  BY <1>0, Sizes DEF Done, Filled
<1>5. n # 0
  <2>1. Arc(rx_current, 0, NumRx) = {}
    BY DEF Arc
  <2>2. QED BY <1>2, <1>4, <2>1
<1>6. n \in 1 .. NumRx /\ n \in 1 .. NumRx - 1 /\ n - 1 \in Int /\ (n - 1) + 1 = n
  BY <1>3, <1>5, Sizes
<1>7. Arc((rx_current + 1) % NumRx, n - 1, NumRx) = Arc(rx_current, n, NumRx) \ {rx_current}
  BY <1>0, <1>6, ArcShrink, Sizes
<1>8. Filled' = Filled \ {rx_current}
  <2>1. rx_frame \in [RxDescs -> Frames \cup {None}] /\ rx_current \in RxDescs
    BY DEF TypeOK
  <2>2. \A d \in RxDescs : rx_frame'[d] = IF d = rx_current THEN None ELSE rx_frame[d]
    BY <2>1
  <2>3. QED BY <2>2 DEF Filled
<1>9. Nth((rx_current + 1) % NumRx, n - 1, NumRx) = Nth(rx_current, n, NumRx)
  <2> DEFINE j == n - 1
  <2>1. j \in Int /\ j + 1 = n
    BY <1>6
  <2> HIDE DEF j
  <2>2. Nth((rx_current + 1) % NumRx, j, NumRx) = Nth(rx_current, j + 1, NumRx)
    BY <1>0, <2>1, NthNext, Sizes
  <2>3. QED BY <2>1, <2>2 DEF j
<1>10. (rx_current + 1) % NumRx = Nth(rx_current, 1, NumRx)
  BY DEF Nth
<1>11. QED BY <1>2, <1>3, <1>6, <1>7, <1>8, <1>9, <1>10

(* A call that fails: its descriptor is lost to the ring.                  *)
LEMMA DropRx ==
  ASSUME TypeOK, RxAgrees, NEW size, Drop(size)
  PROVE  RxAgrees' /\ RxReset' /\ (~late => failures < NumRx - 1)
<1>0. pc = "idle" /\ pc' = "idle" /\ late' = late
  BY DEF Drop, Done
<1>1. CASE late
  BY <1>0, <1>1 DEF RxAgrees, RxReset, Settled
<1>2. CASE ~late
  <2>1. PICK n \in Nat, w \in Nat : RxRing(n, w)
    BY <1>0, <1>2 DEF RxAgrees, Settled
  <2>2. /\ n \in 1 .. NumRx - 1 /\ failures \in Nat /\ n + w + failures = NumRx - 1
        /\ Filled' = Arc(Nth(rx_current, 1, NumRx), n - 1, NumRx)
        /\ RDH = Nth(Nth(rx_current, 1, NumRx), n - 1, NumRx)
    BY <2>1, TakeFirst DEF Drop
  <2>3. PICK m \in Nat : m = n - 1
    BY <2>2
  <2>4. failures < NumRx - 1 /\ failures' = failures + 1 /\ RDH' = RDH /\ RDT' = RDT
    BY <2>2, Sizes DEF Drop
  <2>5. m + w + failures' + 0 = NumRx - 1
    BY <2>2, <2>3, <2>4, Sizes
  <2>6. Copied' = 0
    BY <1>0 DEF Copied
  <2>7. rx_current' = Nth(rx_current, 1, NumRx) /\ rx_current' \in 0 .. NumRx - 1
    <3>1. rx_current \in Int /\ 1 \in Int
      BY Sizes DEF TypeOK
    <3>2. rx_current' = Nth(rx_current, 1, NumRx)
      BY DEF Drop, Succ, Nth
    <3>3. QED BY <3>1, <3>2, NthType, Sizes
  <2>8. Nth(rx_current', Copied', NumRx) = rx_current'
    BY <2>6, <2>7, NthSelf, Sizes
  <2>9. RxRing(m, w)'
    BY <2>1, <2>2, <2>3, <2>4, <2>5, <2>6, <2>7, <2>8 DEF RxRing
  <2>10. QED BY <1>0, <2>4, <2>9 DEF RxAgrees, RxReset
<1>3. QED BY <1>1, <1>2

(* A call that succeeds, up to the write of the tail. *)
LEMMA ReceiveRx ==
  ASSUME TypeOK, RxAgrees, NEW size, Receive(size)
  PROVE  RxAgrees' /\ RxReset'
<1>0. pc = "idle" /\ pc' = "rdt" /\ late' = late
  BY DEF Receive, Done
<1>1. CASE late
  BY <1>0, <1>1 DEF RxAgrees, RxReset, Settled
<1>2. CASE ~late
  <2>1. PICK n \in Nat, w \in Nat : RxRing(n, w)
    BY <1>0, <1>2 DEF RxAgrees, Settled
  <2>2. /\ n \in 1 .. NumRx - 1 /\ failures \in Nat /\ n + w + failures = NumRx - 1
        /\ Filled' = Arc(Nth(rx_current, 1, NumRx), n - 1, NumRx)
        /\ RDH = Nth(Nth(rx_current, 1, NumRx), n - 1, NumRx)
    BY <2>1, TakeFirst DEF Receive
  <2>3. PICK m \in Nat : m = n - 1
    BY <2>2
  <2>4. failures' = failures /\ RDH' = RDH /\ RDT' = RDT /\ rx_current' = rx_current
    BY DEF Receive
  <2>5. m + w + failures' + 1 = NumRx - 1
    BY <2>2, <2>3, <2>4, Sizes
  <2>6. Copied' = 1
    BY <1>0 DEF Copied
  <2>7. RxRing(m, w)'
    BY <2>1, <2>2, <2>3, <2>4, <2>5, <2>6 DEF RxRing
  <2>8. QED BY <1>0, <2>7 DEF RxAgrees, RxReset
<1>3. QED BY <1>1, <1>2

(* The write of the tail gives all free descriptors to the device: those   *)
(* lost to failed calls too.                                               *)
LEMMA WriteRDTRx ==
  ASSUME TypeOK, RxAgrees, WriteRDT
  PROVE  RxAgrees' /\ RxReset'
<1>0. pc = "rdt" /\ pc' = "idle" /\ late' = late /\ Copied = 1 /\ Copied' = 0
  BY DEF WriteRDT, Copied
<1>1. CASE late
  BY <1>0, <1>1 DEF RxAgrees, RxReset, Settled
<1>2. CASE ~late
  <2>1. PICK n \in Nat, w \in Nat : RxRing(n, w)
    BY <1>0, <1>2 DEF RxAgrees, Settled
  <2>2. n \in 0 .. NumRx - 1
    BY <2>1, RxSizes
  <2>3. rx_current \in 0 .. NumRx - 1 /\ rx_current \in Int
    BY Sizes DEF TypeOK
  <2>4. PICK b : b = Nth(rx_current, 1, NumRx)
    OBVIOUS
  <2>5. b \in 0 .. NumRx - 1 /\ b \in Int /\ rx_current' = b
    <3>1. 1 \in Int
      OBVIOUS
    <3>2. b \in 0 .. NumRx - 1
      BY <2>3, <2>4, <3>1, NthType, Sizes
    <3>3. QED BY <2>4, <3>2, Sizes DEF WriteRDT, Succ, Nth
  <2>6. Filled = Arc(b, n, NumRx) /\ RDH = Nth(b, n, NumRx)
    BY <1>0, <2>1, <2>4 DEF RxRing
  <2>7. PICK v \in Nat : v = NumRx - 1 - n
    BY <2>2, Sizes
  <2>8. Nth(RDH, v, NumRx) = rx_current
    <3> DEFINE t == b + n
    <3>1. t \in Int /\ v \in Int /\ t + v = b + (NumRx - 1)
      BY <2>5, <2>7, Sizes
    <3>2. RDH = t % NumRx
      BY <2>6 DEF Nth
    <3> HIDE DEF t
    <3>3. Nth(RDH, v, NumRx) = Nth(t, v, NumRx)
      BY <3>1, <3>2, NthMod, Sizes
    <3>4. PICK j \in Int : j = NumRx - 1
      BY Sizes
    <3>5. Nth(t, v, NumRx) = Nth(b, j, NumRx)
      BY <3>1, <3>4 DEF Nth
    <3>6. b = (rx_current + 1) % NumRx
      BY <2>4 DEF Nth
    <3>7. Nth(b, j, NumRx) = Nth(rx_current, j + 1, NumRx)
      BY <2>3, <3>4, <3>6, NthNext, Sizes
    <3>8. j + 1 = NumRx
      BY <3>4, Sizes
    <3>9. QED BY <2>3, <3>3, <3>5, <3>7, <3>8, NthSelf, Sizes
  <2>9. RDH' = RDH /\ RDT' = rx_current /\ failures' = 0 /\ Filled' = Filled
    BY DEF WriteRDT, Filled
  <2>10. n + v + failures' + Copied' = NumRx - 1
    BY <1>0, <2>2, <2>7, <2>9, Sizes
  <2>11. Nth(rx_current', Copied', NumRx) = b
    BY <1>0, <2>5, NthSelf, Sizes
  <2>12. RxRing(n, v)'
    BY <2>6, <2>8, <2>9, <2>10, <2>11 DEF RxRing
  <2>13. n \in Nat /\ v \in Nat
    BY <2>1, <2>7
  <2>14. QED BY <1>0, <2>12, <2>13 DEF RxAgrees, RxReset
<1>3. QED BY <1>1, <1>2

(* The device fills the descriptor at its head register: the first free    *)
(* one, which the driver holds nothing in.                                 *)
LEMMA FillNext ==
  ASSUME TypeOK, NEW n \in Nat, NEW w \in Nat, RxRing(n, w), NEW f \in Frames, RDH # RDT,
         rx_frame' = [rx_frame EXCEPT ![RDH] = f]
  PROVE  /\ w \in 1 .. NumRx - 1 /\ n \in 0 .. NumRx - 1 /\ n + 1 \in 0 .. NumRx - 1
         /\ Filled' = Arc(Nth(rx_current, Copied, NumRx), n + 1, NumRx)
         /\ Succ(RDH, NumRx) = Nth(Nth(rx_current, Copied, NumRx), n + 1, NumRx)
         /\ RDT = Nth(Succ(RDH, NumRx), w - 1, NumRx)
<1>0. /\ failures \in 0 .. NumRx - 1 /\ Copied \in 0 .. 1 /\ Copied \in Int
      /\ rx_current \in 0 .. NumRx - 1 /\ RDH \in 0 .. NumRx - 1 /\ RDH \in Int
      /\ rx_current \in Int /\ n \in 0 .. NumRx - 1 /\ w \in 0 .. NumRx - 1
  BY RxSizes, Sizes DEF TypeOK, Copied
<1>1. w # 0
  <2>1. CASE w = 0
    <3>1. RDT = RDH
      BY <1>0, <2>1, NthSelf, Sizes DEF RxRing
    <3>2. QED BY <3>1
  <2>2. QED BY <2>1
<1>2. w \in 1 .. NumRx - 1 /\ n + 1 \in 0 .. NumRx - 1 /\ n \in Int
  BY <1>0, <1>1, Sizes DEF RxRing
<1>3. PICK b : b = Nth(rx_current, Copied, NumRx)
  OBVIOUS
<1>4. b \in 0 .. NumRx - 1 /\ b \in Int
  <2>1. b \in 0 .. NumRx - 1
    BY <1>0, <1>3, NthType, Sizes
  <2>2. QED BY <2>1, Sizes
<1>5. Filled = Arc(b, n, NumRx) /\ RDH = Nth(b, n, NumRx) /\ RDT = Nth(RDH, w, NumRx)
  BY <1>3 DEF RxRing
<1>6. Arc(b, n + 1, NumRx) = Arc(b, n, NumRx) \cup {Nth(b, n, NumRx)}
  BY <1>0, <1>4, ArcGrow, Sizes
<1>7. Filled' = Filled \cup {RDH}
  <2>1. rx_frame \in [RxDescs -> Frames \cup {None}] /\ RDH \in RxDescs /\ f # None
    BY RingAssumption DEF TypeOK
  <2>2. \A d \in RxDescs : rx_frame'[d] = IF d = RDH THEN f ELSE rx_frame[d]
    BY <2>1
  <2>3. QED BY <2>1, <2>2 DEF Filled
<1>8. Succ(RDH, NumRx) = Nth(b, n + 1, NumRx)
  BY <1>2, <1>4, <1>5, NthStep, Sizes DEF Succ
<1>9. Nth((RDH + 1) % NumRx, w - 1, NumRx) = Nth(RDH, w, NumRx)
  <2> DEFINE j == w - 1
  <2>1. j \in Int /\ j + 1 = w
    BY <1>2
  <2> HIDE DEF j
  <2>2. Nth((RDH + 1) % NumRx, j, NumRx) = Nth(RDH, j + 1, NumRx)
    BY <1>0, <2>1, NthNext, Sizes
  <2>3. QED BY <2>1, <2>2 DEF j
<1>10. QED BY <1>0, <1>2, <1>3, <1>5, <1>6, <1>7, <1>8, <1>9 DEF Succ

(* A frame arrives. *)
LEMMA DevReceiveRx ==
  ASSUME TypeOK, RxAgrees, RxReset, NEW f \in Frames, DevReceive(f)
  PROVE  RxAgrees' /\ RxReset'
<1>0. /\ pc' = pc /\ late' = (late \/ pc = "reset") /\ Copied' = Copied
      /\ RDH # RDT /\ RDT' = RDT /\ rx_current' = rx_current /\ failures' = failures
      /\ RDH' = Succ(RDH, NumRx)
  BY DEF DevReceive, Copied
<1>1. CASE late \/ pc = "reset"
  BY <1>0, <1>1 DEF RxAgrees, RxReset, Settled
<1>2. CASE ~late /\ pc # "reset"
  <2>1. PICK n \in Nat, w \in Nat : RxRing(n, w)
    BY <1>2 DEF RxAgrees, Settled
  <2>2. /\ w \in 1 .. NumRx - 1
        /\ Filled' = Arc(Nth(rx_current, Copied, NumRx), n + 1, NumRx)
        /\ Succ(RDH, NumRx) = Nth(Nth(rx_current, Copied, NumRx), n + 1, NumRx)
        /\ RDT = Nth(Succ(RDH, NumRx), w - 1, NumRx)
    BY <1>0, <2>1, FillNext DEF DevReceive
  <2>3. PICK m \in Nat, v \in Nat : m = n + 1 /\ v = w - 1
    <3>1. n + 1 \in Nat /\ w - 1 \in Nat
      BY <2>2, Sizes
    <3>2. QED BY <3>1
  <2>4. m + v + failures' + Copied' = NumRx - 1
    <3>1. failures \in Nat /\ Copied \in 0 .. 1 /\ n + w + failures + Copied = NumRx - 1
      BY <2>1, RxSizes DEF RxRing, Copied
    <3>2. QED BY <1>0, <2>3, <3>1, Sizes
  <2>5. RxRing(m, v)'
    BY <1>0, <2>2, <2>3, <2>4 DEF RxRing
  <2>6. QED BY <1>0, <1>2, <2>5 DEF RxAgrees, RxReset
<1>3. QED BY <1>1, <1>2

(* The ring as init_context leaves it: empty, and free but for one entry.  *)
LEMMA FreshRx ==
  ASSUME rx_frame = [d \in RxDescs |-> None], rx_current = 0, failures = 0,
         RDH = 0, RDT = NumRx - 1, pc = "idle"
  PROVE  RxAgrees /\ RxReset
<1>1. Copied = 0 /\ Filled = {} /\ Arc(0, 0, NumRx) = {}
  BY DEF Copied, Filled, Arc
<1>2. 0 \in 0 .. NumRx - 1 /\ NumRx - 1 \in 0 .. NumRx - 1 /\ 0 + (NumRx - 1) = NumRx - 1
  BY Sizes
<1>3. Nth(0, 0, NumRx) = 0
  BY <1>2, NthSelf, Sizes
<1>4. Nth(0, NumRx - 1, NumRx) = NumRx - 1
  BY <1>2, ModSmall, Sizes DEF Nth
<1>5. RxRing(0, NumRx - 1)
  BY <1>1, <1>2, <1>3, <1>4, Sizes DEF RxRing
<1>6. 0 \in Nat /\ NumRx - 1 \in Nat
  BY Sizes
<1>7. QED BY <1>5, <1>6 DEF RxAgrees, RxReset

(* The registers are written; without a frame in between the ring is new.  *)
LEMMA ReinitRegsRx ==
  ASSUME TypeOK, RxReset, ReinitRegs
  PROVE  RxAgrees' /\ RxReset'
<1>0. pc = "reset" /\ pc' = "idle" /\ late' = late
  BY DEF ReinitRegs
<1>1. CASE late
  BY <1>0, <1>1 DEF RxAgrees, RxReset, Settled
<1>2. CASE ~late
  <2>1. /\ rx_frame' = [d \in RxDescs |-> None] /\ rx_current' = 0 /\ failures' = 0
        /\ RDH' = 0 /\ RDT' = NumRx - 1
    BY <1>0, <1>2 DEF RxReset, ReinitRegs
  <2>2. (/\ rx_frame = [d \in RxDescs |-> None] /\ rx_current = 0 /\ failures = 0
         /\ RDH = 0 /\ RDT = NumRx - 1 /\ pc = "idle")'
    BY <1>0, <2>1 DEF RxDescs
  <2>3. (/\ rx_frame = [d \in RxDescs |-> None] /\ rx_current = 0 /\ failures = 0
         /\ RDH = 0 /\ RDT = NumRx - 1 /\ pc = "idle")' => (RxAgrees /\ RxReset)'
    BY FreshRx, PTL
  <2>4. QED BY <2>2, <2>3
<1>3. QED BY <1>1, <1>2

----------------------------------------------------------------------------
(* The transmit ring. *)

(* Steps of the other ring leave it alone. *)
LEMMA TxSame ==
  ASSUME TxAgrees, UNCHANGED tx, Untold' = Untold, (pc' = "reset") <=> (pc = "reset")
  PROVE  TxAgrees'
<1>1. ASSUME NEW n \in 0 .. NumTx, TxRing(n) PROVE TxRing(n)'
  BY <1>1 DEF TxRing, tx
<1>2. QED BY <1>1 DEF TxAgrees

(* A descriptor with its DD bit set is free: the ring is not full, and the *)
(* descriptor is the one after those that wait.                            *)
LEMMA FreeEntry ==
  ASSUME TypeOK, NEW n \in 0 .. NumTx, TxRing(n), pc # "reset", tx_dd[tx_current]
  PROVE  /\ n \in 0 .. NumTx - 1 /\ tx_current = Nth(TDH, n, NumTx)
         /\ tx_current \notin Arc(TDH, n, NumTx)
<1>1. TDH \in 0 .. NumTx - 1 /\ tx_current \in 0 .. NumTx - 1
  BY Sizes DEF TypeOK
<1>2. tx_current \notin Arc(TDH, n, NumTx)
  BY <1>1, Sizes DEF TxRing
<1>3. n # NumTx
  BY <1>1, <1>2, ArcFull, Sizes
<1>4. QED BY <1>2, <1>3, Sizes DEF TxRing

(* A frame that is accepted waits behind the others. *)
LEMMA WaitingGrows ==
  ASSUME TypeOK, NEW n \in 0 .. NumTx, TxRing(n), NEW f, Transmit(f)
  PROVE  /\ n \in 0 .. NumTx - 1 /\ tx_current = Nth(TDH, n, NumTx)
         /\ {d \in TxDescs : ~tx_dd'[d]} = Arc(TDH, n + 1, NumTx)
<1>1. tx_dd[tx_current] /\ tx_dd' = [tx_dd EXCEPT ![tx_current] = FALSE] /\ pc # "reset"
  BY DEF Transmit
<1>2. n \in 0 .. NumTx - 1 /\ tx_current = Nth(TDH, n, NumTx)
  BY <1>1, FreeEntry
<1>3. TDH \in Int
  BY Sizes DEF TypeOK
<1>4. {d \in TxDescs : ~tx_dd'[d]} = {d \in TxDescs : ~tx_dd[d]} \cup {tx_current}
  <2>1. tx_dd \in [TxDescs -> BOOLEAN] /\ tx_current \in TxDescs
    BY DEF TypeOK
  <2>2. \A d \in TxDescs : ~tx_dd'[d] <=> (d = tx_current \/ ~tx_dd[d])
    BY <1>1, <2>1
  <2>3. QED BY <2>1, <2>2
<1>5. Arc(TDH, n + 1, NumTx) = Arc(TDH, n, NumTx) \cup {Nth(TDH, n, NumTx)}
  BY <1>2, <1>3, ArcGrow, Sizes
<1>6. QED BY <1>2, <1>4, <1>5 DEF TxRing

(* A frame is accepted. *)
LEMMA TransmitTx ==
  ASSUME TypeOK, TxAgrees, NEW f \in TxFrames, Transmit(f)
  PROVE  TxAgrees'
<1>0. /\ pc = "idle" /\ pc' = "tdt" /\ Untold = 0 /\ Untold' = 1
      /\ TDH' = TDH /\ TDT' = TDT /\ sending' = sending
  BY DEF Transmit, Untold
<1>1. PICK n \in 0 .. NumTx : TxRing(n)
  BY DEF TxAgrees
<1>2. /\ n \in 0 .. NumTx - 1 /\ tx_current = Nth(TDH, n, NumTx)
      /\ {d \in TxDescs : ~tx_dd'[d]} = Arc(TDH, n + 1, NumTx)
  BY <1>1, WaitingGrows
<1>3. TDH \in Int /\ n \in Int
  BY <1>2, Sizes DEF TypeOK
<1>4. PICK m \in 0 .. NumTx : m = n + 1
  BY <1>2, Sizes
<1>5. tx_current' = Nth(TDH, m, NumTx)
  BY <1>2, <1>3, <1>4, NthStep, Sizes DEF Transmit, Succ
<1>6. m - 1 = n /\ n - 0 = n /\ m >= 1 /\ (sending => m > 1)
  BY <1>0, <1>1, <1>2, <1>4 DEF TxRing
<1>7. TDT' = Nth(TDH, m - 1, NumTx)
  BY <1>0, <1>1, <1>6 DEF TxRing
<1>8. TxRing(m)'
  BY <1>0, <1>2, <1>4, <1>5, <1>6, <1>7 DEF TxRing, TxDescs
<1>9. QED BY <1>8 DEF TxAgrees

(* The device is told. *)
LEMMA WriteTDTTx ==
  ASSUME TypeOK, TxAgrees, WriteTDT
  PROVE  TxAgrees'
<1>0. /\ pc = "tdt" /\ pc' = "idle" /\ Untold = 1 /\ Untold' = 0
      /\ TDH' = TDH /\ TDT' = tx_current /\ sending' = sending
      /\ tx_dd' = tx_dd /\ tx_current' = tx_current
  BY DEF WriteTDT, Untold
<1>1. PICK n \in 0 .. NumTx : TxRing(n)
  BY DEF TxAgrees
<1>2. n - 0 = n /\ n >= 0 /\ (sending => n > 0)
  BY <1>0, <1>1 DEF TxRing
<1>3. tx_current = Nth(TDH, n - 0, NumTx) /\ tx_current = Nth(TDH, n, NumTx)
  BY <1>0, <1>1, <1>2 DEF TxRing
<1>4. {d \in TxDescs : ~tx_dd[d]} = Arc(TDH, n, NumTx)
  BY <1>1 DEF TxRing
<1>5. TxRing(n)'
  BY <1>0, <1>2, <1>3, <1>4 DEF TxRing, TxDescs
<1>6. QED BY <1>5 DEF TxAgrees

(* The device starts on the descriptor at the head: it was told of it.     *)
LEMMA DevFetchTx ==
  ASSUME TypeOK, TxAgrees, DevFetch
  PROVE  TxAgrees'
<1>0. /\ TDH # TDT /\ Untold' = Untold /\ pc' = pc
      /\ TDH' = TDH /\ TDT' = TDT /\ tx_dd' = tx_dd /\ tx_current' = tx_current
  BY DEF DevFetch, Untold
<1>1. PICK n \in 0 .. NumTx : TxRing(n)
  BY DEF TxAgrees
<1>2. TDH \in 0 .. NumTx - 1 /\ Untold \in 0 .. 1
  BY Sizes DEF TypeOK, Untold
<1>3. n # Untold
  <2>1. CASE n = Untold
    <3>1. n - Untold = 0
      BY <1>2, <2>1
    <3>2. TDT = TDH
      BY <1>1, <1>2, <3>1, NthSelf, Sizes DEF TxRing
    <3>3. QED BY <1>0, <3>2
  <2>2. QED BY <2>1
<1>4. n > Untold
  BY <1>1, <1>2, <1>3 DEF TxRing
<1>5. TxRing(n)'
  BY <1>0, <1>1, <1>4 DEF TxRing, TxDescs
<1>6. QED BY <1>5 DEF TxAgrees

(* A frame that is sent was the first of those that wait. *)
LEMMA WaitingShrinks ==
  ASSUME TypeOK, NEW n \in 0 .. NumTx, TxRing(n), DevDone
  PROVE  /\ n \in 1 .. NumTx /\ n > Untold
         /\ {d \in TxDescs : ~tx_dd'[d]} = Arc(Succ(TDH, NumTx), n - 1, NumTx)
<1>1. sending /\ tx_dd' = [tx_dd EXCEPT ![TDH] = TRUE]
  BY DEF DevDone
<1>2. TDH \in 0 .. NumTx - 1 /\ n \in 1 .. NumTx /\ n > Untold
  BY <1>1, Sizes DEF TypeOK, Untold, TxRing
<1>3. {d \in TxDescs : ~tx_dd'[d]} = {d \in TxDescs : ~tx_dd[d]} \ {TDH}
  <2>1. tx_dd \in [TxDescs -> BOOLEAN] /\ TDH \in TxDescs
    BY DEF TypeOK
  <2>2. \A d \in TxDescs : ~tx_dd'[d] <=> (d # TDH /\ ~tx_dd[d])
    BY <1>1, <2>1
  <2>3. QED BY <2>1, <2>2
<1>4. Arc(Succ(TDH, NumTx), n - 1, NumTx) = Arc(TDH, n, NumTx) \ {TDH}
  BY <1>2, ArcShrink, Sizes DEF Succ
<1>5. QED BY <1>2, <1>3, <1>4 DEF TxRing

(* The descriptor at the head is sent. *)
LEMMA DevDoneTx ==
  ASSUME TypeOK, TxAgrees, DevDone
  PROVE  TxAgrees'
<1>0. /\ ~sending' /\ Untold' = Untold /\ pc' = pc
      /\ TDH' = Succ(TDH, NumTx) /\ TDT' = TDT /\ tx_current' = tx_current
  BY DEF DevDone, Untold
<1>1. PICK n \in 0 .. NumTx : TxRing(n)
  BY DEF TxAgrees
<1>2. /\ n \in 1 .. NumTx /\ n > Untold
      /\ {d \in TxDescs : ~tx_dd'[d]} = Arc(Succ(TDH, NumTx), n - 1, NumTx)
  BY <1>1, WaitingShrinks
<1>3. TDH \in Int /\ Untold \in 0 .. 1
  BY Sizes DEF TypeOK, Untold
<1>4. PICK m \in 0 .. NumTx : m = n - 1
  BY <1>2, Sizes
<1>5. m >= Untold /\ m + 1 = n /\ (m - Untold) + 1 = n - Untold /\ m \in Int
      /\ m - Untold \in Int
  BY <1>2, <1>3, <1>4, Sizes
<1>6. Nth(TDH', m, NumTx) = Nth(TDH, n, NumTx)
  BY <1>0, <1>3, <1>5, NthNext, Sizes DEF Succ
<1>7. Nth(TDH', m - Untold, NumTx) = Nth(TDH, n - Untold, NumTx)
  <2> DEFINE j == m - Untold
  <2>1. j \in Int /\ j + 1 = n - Untold
    BY <1>5
  <2> HIDE DEF j
  <2>2. Nth(TDH', j, NumTx) = Nth(TDH, j + 1, NumTx)
    BY <1>0, <1>3, <2>1, NthNext, Sizes DEF Succ
  <2>3. QED BY <2>1, <2>2 DEF j
<1>8. TxRing(m)'
  BY <1>0, <1>1, <1>2, <1>4, <1>5, <1>6, <1>7 DEF TxRing, TxDescs
<1>9. QED BY <1>8 DEF TxAgrees

(* The ring as init_context leaves it: empty. *)
LEMMA FreshTx ==
  ASSUME tx_dd = [d \in TxDescs |-> TRUE], TDH = 0, TDT = 0, tx_current = 0,
         sending = FALSE, pc = "idle"
  PROVE  TxAgrees
<1>1. Untold = 0 /\ {d \in TxDescs : ~tx_dd[d]} = {} /\ Arc(0, 0, NumTx) = {}
  BY DEF Untold, Arc
<1>2. 0 \in 0 .. NumTx - 1 /\ 0 \in 0 .. NumTx /\ 0 - 0 = 0
  BY Sizes
<1>3. Nth(0, 0, NumTx) = 0
  BY <1>2, NthSelf, Sizes
<1>4. TxRing(0)
  BY <1>1, <1>2, <1>3 DEF TxRing
<1>5. QED BY <1>2, <1>4 DEF TxAgrees

(* init_context clears the driver's index ... *)
LEMMA ReinitDescsTx ==
  ASSUME TypeOK, TxAgrees, ReinitDescs
  PROVE  TxAgrees'
<1>0. /\ pc = "idle" /\ pc' = "reset" /\ Untold = 0 /\ Untold' = 0
      /\ TDH' = TDH /\ TDT' = TDT /\ sending' = sending /\ tx_dd' = tx_dd /\ tx_current' = 0
  BY DEF ReinitDescs, Untold
<1>1. PICK n \in 0 .. NumTx : TxRing(n)
  BY DEF TxAgrees
<1>2. TxRing(n)'
  BY <1>0, <1>1 DEF TxRing, TxDescs
<1>3. QED BY <1>2 DEF TxAgrees

(* ... and then the ring and the registers. *)
LEMMA ReinitRegsTx ==
  ASSUME TypeOK, TxAgrees, ReinitRegs
  PROVE  TxAgrees'
<1>1. tx_current = 0 /\ tx_current' = tx_current
  BY DEF TxAgrees, TxRing, ReinitRegs
<1>2. (/\ tx_dd = [d \in TxDescs |-> TRUE] /\ TDH = 0 /\ TDT = 0 /\ tx_current = 0
       /\ sending = FALSE /\ pc = "idle")'
  BY <1>1 DEF ReinitRegs, TxDescs
<1>3. (/\ tx_dd = [d \in TxDescs |-> TRUE] /\ TDH = 0 /\ TDT = 0 /\ tx_current = 0
       /\ sending = FALSE /\ pc = "idle")' => TxAgrees'
  BY FreshTx, PTL
<1>4. QED BY <1>2, <1>3

----------------------------------------------------------------------------
(* Invariance. *)

(* The entry after an entry is an entry. *)
LEMMA SuccType ==
  /\ \A d \in RxDescs : Succ(d, NumRx) \in RxDescs
  /\ \A d \in TxDescs : Succ(d, NumTx) \in TxDescs
<1>1. \A N \in Nat \ {0} : \A d \in 0 .. N - 1 : Succ(d, N) \in 0 .. N - 1
  BY DivMod DEF Succ
<1>2. QED BY <1>1, Sizes

(* The types hold; the number of failed calls stays below the ring's size  *)
(* because each has taken a filled descriptor.                             *)
LEMMA TypeStep ==
  ASSUME TypeOK, RxAgrees, RxReset, Next
  PROVE  TypeOK'
<1> USE DEF rx, tx
<1>0. /\ 0 \in RxDescs /\ NumRx - 1 \in RxDescs /\ 0 \in TxDescs
      /\ 0 \in 0 .. NumRx - 1 /\ 0 \in 0 .. NumRx
  BY Sizes
<1>1. CASE \E size \in BufferSizes : Drop(size)
  <2>1. PICK size \in BufferSizes : Drop(size)
    BY <1>1
  <2>2. ~late => failures < NumRx - 1
    BY <2>1, DropRx
  <2>3. failures' \in 0 .. IF late THEN NumRx ELSE NumRx - 1
    BY <2>1, <2>2, Sizes DEF Drop, TypeOK
  <2>4. rx_current' \in RxDescs /\ rx_frame' \in [RxDescs -> Frames \cup {None}]
    BY <2>1, SuccType DEF Drop, TypeOK
  <2>5. QED BY <2>1, <2>3, <2>4 DEF Drop, TypeOK
<1>2. CASE \E size \in BufferSizes : Receive(size)
  BY <1>2 DEF Receive, Done, TypeOK
<1>3. CASE WriteRDT
  <2>1. rx_current' \in RxDescs /\ RDT' \in RxDescs /\ failures' \in 0 .. NumRx - 1 /\ failures' \in 0 .. NumRx
    BY <1>3, SuccType, Sizes DEF WriteRDT, TypeOK
  <2>2. QED BY <1>3, <2>1 DEF WriteRDT, TypeOK
<1>4. CASE \E f \in TxFrames : Transmit(f)
  BY <1>4, SuccType DEF Transmit, TypeOK
<1>5. CASE WriteTDT
  BY <1>5 DEF WriteTDT, TypeOK
<1>6. CASE ReinitDescs
  <2>1. rx_frame' \in [RxDescs -> Frames \cup {None}]
    BY <1>6 DEF ReinitDescs
  <2>2. failures' \in 0 .. IF late' THEN NumRx ELSE NumRx - 1
    BY <1>0, <1>6 DEF ReinitDescs
  <2>3. QED BY <1>0, <1>6, <2>1, <2>2 DEF ReinitDescs, TypeOK
<1>7. CASE ReinitRegs
  <2>1. tx_dd' \in [TxDescs -> BOOLEAN]
    BY <1>7 DEF ReinitRegs
  <2>2. QED BY <1>0, <1>7, <2>1 DEF ReinitRegs, TypeOK
<1>8. CASE \E f \in Frames : DevReceive(f)
  <2>1. PICK f \in Frames : DevReceive(f)
    BY <1>8
  <2>2. failures' \in 0 .. IF late' THEN NumRx ELSE NumRx - 1
    BY <2>1, Sizes DEF DevReceive, TypeOK
  <2>3. RDH' \in RxDescs /\ rx_frame' \in [RxDescs -> Frames \cup {None}]
    BY <2>1, SuccType DEF DevReceive, TypeOK
  <2>4. late' \in BOOLEAN
    BY <2>1 DEF DevReceive, TypeOK
  <2>5. QED BY <2>1, <2>2, <2>3, <2>4 DEF DevReceive, TypeOK
<1>9. CASE DevFetch
  BY <1>9 DEF DevFetch, TypeOK
<1>10. CASE DevDone
  <2>1. wire' \in TxFrames \cup {None} /\ TDH' \in TxDescs /\ tx_dd' \in [TxDescs -> BOOLEAN]
    BY <1>10, SuccType DEF DevDone, TypeOK
  <2>2. QED BY <1>10, <2>1 DEF DevDone, TypeOK
<1>11. QED
  BY <1>1, <1>2, <1>3, <1>4, <1>5, <1>6, <1>7, <1>8, <1>9, <1>10 DEF Next

(* The first e1000_init_context finds the device reset. *)
LEMMA InitInv == Init => IInv
<1> SUFFICES ASSUME Init PROVE IInv
  OBVIOUS
<1>1. TypeOK
  <2>1. /\ 0 \in RxDescs /\ NumRx - 1 \in RxDescs /\ 0 \in TxDescs
        /\ 0 \in 0 .. NumRx - 1
    BY Sizes
  <2>2. rx_frame \in [RxDescs -> Frames \cup {None}]
    BY DEF Init
  <2>3. tx_dd \in [TxDescs -> BOOLEAN] /\ tx_buffers \in [TxDescs -> TxFrames \cup {None}]
    BY DEF Init
  <2>4. failures \in 0 .. IF late THEN NumRx ELSE NumRx - 1
    BY <2>1 DEF Init
  <2>5. QED BY <2>1, <2>2, <2>3, <2>4 DEF Init, TypeOK
<1>2. RxAgrees /\ RxReset
  BY FreshRx DEF Init
<1>3. TxAgrees
  BY FreshTx DEF Init
<1>4. QED BY <1>1, <1>2, <1>3 DEF IInv

(* Every step preserves the invariant. *)
LEMMA StepInv == IInv /\ [Next]_vars => IInv'
<1> SUFFICES ASSUME IInv, [Next]_vars PROVE IInv'
  OBVIOUS
<1>0. TypeOK /\ RxAgrees /\ RxReset /\ TxAgrees
  BY DEF IInv
<1>1. CASE UNCHANGED vars
  <2>1. UNCHANGED rx /\ UNCHANGED tx /\ pc' = pc
    BY <1>1 DEF vars
  <2>2. Copied' = Copied /\ Untold' = Untold /\ (Settled' <=> Settled)
    BY <2>1 DEF Copied, Untold, Settled, rx
  <2>3. TypeOK'
    BY <1>0, <2>1 DEF TypeOK, rx, tx
  <2>4. QED BY <1>0, <2>1, <2>2, <2>3, RxSame, TxSame DEF IInv
<1>2. CASE Next
  <2>0. TypeOK'
    BY <1>0, <1>2, TypeStep
  <2>1. CASE \E size \in BufferSizes : Drop(size)
    <3>1. PICK size \in BufferSizes : Drop(size)
      BY <2>1
    <3>2. RxAgrees' /\ RxReset'
      BY <1>0, <3>1, DropRx
    <3>3. UNCHANGED tx /\ Untold' = Untold /\ pc' = pc
      BY <3>1 DEF Drop, Untold
    <3>4. QED BY <1>0, <2>0, <3>2, <3>3, TxSame DEF IInv
  <2>2. CASE \E size \in BufferSizes : Receive(size)
    <3>1. PICK size \in BufferSizes : Receive(size)
      BY <2>2
    <3>2. RxAgrees' /\ RxReset'
      BY <1>0, <3>1, ReceiveRx
    <3>3. UNCHANGED tx /\ Untold' = Untold /\ pc = "idle" /\ pc' = "rdt"
      BY <3>1 DEF Receive, Done, Untold
    <3>4. QED BY <1>0, <2>0, <3>2, <3>3, TxSame DEF IInv
  <2>3. CASE WriteRDT
    <3>1. RxAgrees' /\ RxReset'
      BY <1>0, <2>3, WriteRDTRx
    <3>2. UNCHANGED tx /\ Untold' = Untold /\ pc = "rdt" /\ pc' = "idle"
      BY <2>3 DEF WriteRDT, Untold
    <3>3. QED BY <1>0, <2>0, <3>1, <3>2, TxSame DEF IInv
  <2>4. CASE \E f \in TxFrames : Transmit(f)
    <3>1. PICK f \in TxFrames : Transmit(f)
      BY <2>4
    <3>2. TxAgrees'
      BY <1>0, <3>1, TransmitTx
    <3>3. /\ UNCHANGED rx /\ pc = "idle" /\ pc' = "tdt" /\ Copied' = Copied
          /\ (Settled' <=> Settled)
      BY <3>1 DEF Transmit, Copied, Settled, rx
    <3>4. QED BY <1>0, <2>0, <3>2, <3>3, RxSame DEF IInv
  <2>5. CASE WriteTDT
    <3>1. TxAgrees'
      BY <1>0, <2>5, WriteTDTTx
    <3>2. /\ UNCHANGED rx /\ pc = "tdt" /\ pc' = "idle" /\ Copied' = Copied
          /\ (Settled' <=> Settled)
      BY <2>5 DEF WriteTDT, Copied, Settled, rx
    <3>3. QED BY <1>0, <2>0, <3>1, <3>2, RxSame DEF IInv
  <2>6. CASE ReinitDescs
    <3>1. TxAgrees'
      BY <1>0, <2>6, ReinitDescsTx
    <3>2. RxAgrees' /\ RxReset'
      BY <2>6 DEF ReinitDescs, RxAgrees, RxReset, Settled, RxDescs
    <3>3. QED BY <2>0, <3>1, <3>2 DEF IInv
  <2>7. CASE ReinitRegs
    BY <1>0, <2>0, <2>7, ReinitRegsRx, ReinitRegsTx DEF IInv
  <2>8. CASE \E f \in Frames : DevReceive(f)
    <3>1. PICK f \in Frames : DevReceive(f)
      BY <2>8
    <3>2. RxAgrees' /\ RxReset'
      BY <1>0, <3>1, DevReceiveRx
    <3>3. UNCHANGED tx /\ Untold' = Untold /\ pc' = pc
      BY <3>1 DEF DevReceive, Untold
    <3>4. QED BY <1>0, <2>0, <3>2, <3>3, TxSame DEF IInv
  <2>9. CASE DevFetch
    <3>1. TxAgrees'
      BY <1>0, <2>9, DevFetchTx
    <3>2. UNCHANGED rx /\ pc' = pc /\ Copied' = Copied /\ (Settled' <=> Settled)
      BY <2>9 DEF DevFetch, Copied, Settled, rx
    <3>3. QED BY <1>0, <2>0, <3>1, <3>2, RxSame DEF IInv
  <2>10. CASE DevDone
    <3>1. TxAgrees'
      BY <1>0, <2>10, DevDoneTx
    <3>2. UNCHANGED rx /\ pc' = pc /\ Copied' = Copied /\ (Settled' <=> Settled)
      BY <2>10 DEF DevDone, Copied, Settled, rx
    <3>3. QED BY <1>0, <2>0, <3>1, <3>2, RxSame DEF IInv
  <2>11. QED
    BY <1>2, <2>1, <2>2, <2>3, <2>4, <2>5, <2>6, <2>7, <2>8, <2>9, <2>10 DEF Next
<1>3. QED BY <1>1, <1>2

(* Between any two steps of the driver and the device the two rings are as *)
(* the invariant says.                                                     *)
THEOREM RingsInvariant == Spec => []IInv
BY InitInv, StepInv, PTL DEF Spec

(* The status bits, indices and registers of both rings agree at every     *)
(* step: a failed e1000_receive costs one descriptor until the next        *)
(* success, and a transmit ring stops only when it was filled up.          *)
THEOREM RingsAlwaysAgree == Spec => []RingsAgree
BY RingsInvariant, InvRings, PTL

----------------------------------------------------------------------------
(* Both rings implement a FIFO of frames. *)

(* The queues of the two refinement mappings are slices of the rings. *)
LEMMA QueueSlice ==
  ASSUME NEW N \in Nat \ {0}, NEW r, NEW s \in Int, NEW n \in 0 .. N, NEW F, F = Arc(s, n, N)
  PROVE  [k \in 1 .. Cardinality(F) |-> r[(s + k - 1) % N]] = Slice(r, s, n, N)
<1>1. Cardinality(F) = n
  BY ArcSize
<1>2. \A k \in 1 .. n : s + k - 1 = s + (k - 1)
  OBVIOUS
<1>3. \A k \in 1 .. n : r[(s + k - 1) % N] = r[Nth(s, k - 1, N)]
  BY <1>2 DEF Nth
<1>4. [k \in 1 .. n |-> r[(s + k - 1) % N]] = [k \in 1 .. n |-> r[Nth(s, k - 1, N)]]
  BY <1>3
<1>5. QED BY <1>1, <1>4 DEF Slice

(* ... also where they start one entry later. *)
LEMMA QueueSliceFrom ==
  ASSUME NEW N \in Nat \ {0}, NEW r, NEW c \in Int, NEW d \in Int, NEW n \in 0 .. N, NEW F,
         F = Arc(Nth(c, d, N), n, N)
  PROVE  [k \in 1 .. Cardinality(F) |-> r[(c + k - 1 + d) % N]] = Slice(r, Nth(c, d, N), n, N)
<1>0. Nth(c, d, N) \in Int
  <2>1. Nth(c, d, N) \in 0 .. N - 1
    BY NthType
  <2>2. QED BY <2>1
<1>1. Cardinality(F) = n
  BY <1>0, ArcSize
<1>2. ASSUME NEW k \in 1 .. n PROVE r[(c + k - 1 + d) % N] = r[Nth(Nth(c, d, N), k - 1, N)]
  <2> DEFINE t == c + d
             j == k - 1
  <2>1. t \in Int /\ j \in Int /\ c + k - 1 + d = t + j
    OBVIOUS
  <2> HIDE DEF t, j
  <2>2. Nth(t % N, j, N) = Nth(t, j, N)
    BY <2>1, NthMod
  <2>3. Nth(Nth(c, d, N), j, N) = (c + k - 1 + d) % N
    BY <2>1, <2>2 DEF Nth, t
  <2>4. QED BY <2>3 DEF j
<1>3. [k \in 1 .. n |-> r[(c + k - 1 + d) % N]] = [k \in 1 .. n |-> r[Nth(Nth(c, d, N), k - 1, N)]]
  BY <1>2
<1>4. QED BY <1>1, <1>3 DEF Slice

(* The rings' contents. *)
LEMMA Stores ==
  ASSUME TypeOK
  PROVE  /\ IsRing(tx_buffers, NumTx, TxFrames \cup {None})
         /\ IsRing(rx_frame, NumRx, Frames \cup {None})
BY Sizes DEF TypeOK, IsRing

(* Steps that leave the transmit ring's frames alone are stutters.         *)
LEMMA TxStutter ==
  ASSUME UNCHANGED <<tx_dd, tx_buffers, TDH, wire>>
  PROVE  UNCHANGED TxFifo!vars
BY DEF TxFifo!vars, TxQueue, Outstanding

(* e1000_transmit adds a frame at the end ... *)
LEMMA TransmitAccepts ==
  ASSUME TypeOK, NEW n \in 0 .. NumTx, TxRing(n), NEW f \in TxFrames, Transmit(f)
  PROVE  TxFifo!Accept(f)
<1>1. /\ n \in 0 .. NumTx - 1 /\ tx_current = Nth(TDH, n, NumTx)
      /\ {d \in TxDescs : ~tx_dd'[d]} = Arc(TDH, n + 1, NumTx)
  BY WaitingGrows
<1>2. TDH \in Int /\ TDH' = TDH /\ n + 1 \in 0 .. NumTx /\ n \in Nat
  BY <1>1, Sizes DEF TypeOK, Transmit
<1>3. {d \in TxDescs : ~tx_dd[d]} = Arc(TDH, n, NumTx)
  BY DEF TxRing
<1>4. TxQueue = Slice(tx_buffers, TDH, n, NumTx)
  BY <1>2, <1>3, QueueSlice, Sizes DEF TxQueue, Outstanding
<1>5. TxQueue' = Slice(tx_buffers', TDH, n + 1, NumTx)
  <2>1. Outstanding' = Cardinality({d \in TxDescs : ~tx_dd'[d]})
    BY DEF Outstanding, TxDescs
  <2>2. TxQueue' = [k \in 1 .. Outstanding' |-> tx_buffers'[(TDH + k - 1) % NumTx]]
    BY <1>2 DEF TxQueue
  <2>3. PICK F : F = {d \in TxDescs : ~tx_dd'[d]}
    OBVIOUS
  <2>4. [k \in 1 .. Cardinality(F) |-> tx_buffers'[(TDH + k - 1) % NumTx]]
          = Slice(tx_buffers', TDH, n + 1, NumTx)
    BY <1>1, <1>2, <2>3, QueueSlice, Sizes
  <2>5. QED BY <2>1, <2>2, <2>3, <2>4
<1>6. tx_buffers' = [tx_buffers EXCEPT ![Nth(TDH, n, NumTx)] = f] /\ wire' = wire
  BY <1>1 DEF Transmit
<1>7. PICK S : IsRing(tx_buffers, NumTx, S) /\ f \in S
  <2>1. IsRing(tx_buffers, NumTx, TxFrames \cup {None}) /\ f \in TxFrames \cup {None}
    BY Stores
  <2>2. QED BY <2>1
<1>8. Slice(tx_buffers', TDH, n + 1, NumTx) = Append(Slice(tx_buffers, TDH, n, NumTx), f)
  <2>1. PICK q : q = tx_buffers'
    OBVIOUS
  <2>2. Wrote(q, tx_buffers, Nth(TDH, n, NumTx), f)
    BY <1>6, <2>1 DEF Wrote
  <2>3. Slice(q, TDH, n + 1, NumTx) = Append(Slice(tx_buffers, TDH, n, NumTx), f)
    BY <1>1, <1>2, <1>7, <2>2, SliceAppend
  <2>4. QED BY <2>1, <2>3
<1>9. Len(Slice(tx_buffers, TDH, n, NumTx)) = n
  BY <1>2, <1>7, SliceType
<1>10. Len(TxQueue) < NumTx
  BY <1>1, <1>4, <1>9, Sizes
<1>11. TxQueue' = Append(TxQueue, f)
  BY <1>4, <1>5, <1>8
<1>12. QED BY <1>6, <1>10, <1>11 DEF TxFifo!Accept

(* ... and the device sends the one at the head. *)
LEMMA DevDoneDelivers ==
  ASSUME TypeOK, NEW n \in 0 .. NumTx, TxRing(n), DevDone
  PROVE  TxFifo!Deliver
<1>1. /\ n \in 1 .. NumTx
      /\ {d \in TxDescs : ~tx_dd'[d]} = Arc(Succ(TDH, NumTx), n - 1, NumTx)
  BY WaitingShrinks
<1>2. /\ TDH \in 0 .. NumTx - 1 /\ TDH \in Int /\ n - 1 \in 0 .. NumTx
      /\ TDH' = Succ(TDH, NumTx) /\ tx_buffers' = tx_buffers /\ wire' = tx_buffers[TDH]
  BY <1>1, Sizes DEF TypeOK, DevDone
<1>3. {d \in TxDescs : ~tx_dd[d]} = Arc(TDH, n, NumTx)
  BY DEF TxRing
<1>4. TxQueue = Slice(tx_buffers, TDH, n, NumTx)
  BY <1>2, <1>3, QueueSlice, Sizes DEF TxQueue, Outstanding
<1>5. TDH' \in Int
  BY <1>2, SuccType, Sizes DEF TypeOK
<1>6. TxQueue' = Slice(tx_buffers, TDH', n - 1, NumTx)
  <2>1. Outstanding' = Cardinality({d \in TxDescs : ~tx_dd'[d]})
    BY DEF Outstanding, TxDescs
  <2>2. PICK h \in Int : h = TDH'
    BY <1>5
  <2>3. TxQueue' = [k \in 1 .. Outstanding' |-> tx_buffers[(h + k - 1) % NumTx]]
    BY <1>2, <2>2 DEF TxQueue
  <2>4. PICK F : F = {d \in TxDescs : ~tx_dd'[d]}
    OBVIOUS
  <2>5. F = Arc(h, n - 1, NumTx)
    BY <1>1, <1>2, <2>2, <2>4
  <2>6. [k \in 1 .. Cardinality(F) |-> tx_buffers[(h + k - 1) % NumTx]]
          = Slice(tx_buffers, h, n - 1, NumTx)
    BY <1>2, <2>5, QueueSlice, Sizes
  <2>7. QED BY <2>1, <2>2, <2>3, <2>4, <2>6
<1>7. IsRing(tx_buffers, NumTx, TxFrames \cup {None})
  BY Stores
<1>8. /\ Slice(tx_buffers, TDH, n, NumTx) # <<>>
      /\ Head(Slice(tx_buffers, TDH, n, NumTx)) = tx_buffers[TDH]
      /\ Slice(tx_buffers, (TDH + 1) % NumTx, n - 1, NumTx) = Tail(Slice(tx_buffers, TDH, n, NumTx))
  BY <1>1, <1>2, <1>7, SliceTail
<1>9. QED BY <1>2, <1>4, <1>6, <1>8 DEF TxFifo!Deliver, Succ

(* Every step is a step or a stutter of the transmit FIFO. *)
LEMMA TxFifoStep == IInv /\ [Next]_vars => [TxFifo!Next]_(TxFifo!vars)
<1> SUFFICES ASSUME IInv, [Next]_vars PROVE [TxFifo!Next]_(TxFifo!vars)
  OBVIOUS
<1>0. TypeOK /\ \E n \in 0 .. NumTx : TxRing(n)
  BY DEF IInv, TxAgrees
<1>1. CASE UNCHANGED vars
  BY <1>1, TxStutter DEF vars, tx
<1>2. CASE \E size \in BufferSizes : Drop(size) \/ Receive(size)
  BY <1>2, TxStutter DEF Drop, Receive, tx
<1>3. CASE WriteRDT
  BY <1>3, TxStutter DEF WriteRDT, tx
<1>4. CASE \E f \in TxFrames : Transmit(f)
  BY <1>0, <1>4, TransmitAccepts DEF TxFifo!Next
<1>5. CASE WriteTDT
  BY <1>5, TxStutter DEF WriteTDT
<1>6. CASE ReinitDescs
  BY <1>6, TxStutter DEF ReinitDescs
<1>7. CASE ReinitRegs
  <2>1. {d \in TxDescs : ~tx_dd[d]}' = {} /\ wire' = None
    BY <1>7 DEF ReinitRegs
  <2>2. Outstanding' = 0
    BY <2>1, FS_EmptySet DEF Outstanding
  <2>3. TxQueue' = <<>>
    BY <2>2 DEF TxQueue
  <2>4. QED BY <2>1, <2>3 DEF TxFifo!Next, TxFifo!Reset
<1>8. CASE \E f \in Frames : DevReceive(f)
  BY <1>8, TxStutter DEF DevReceive, tx
<1>9. CASE DevFetch
  BY <1>9, TxStutter DEF DevFetch
<1>10. CASE DevDone
  BY <1>0, <1>10, DevDoneDelivers DEF TxFifo!Next
<1>11. QED
  BY <1>1, <1>2, <1>3, <1>4, <1>5, <1>6, <1>7, <1>8, <1>9, <1>10 DEF Next

(* The transmit ring implements the FIFO: a frame that e1000_transmit has  *)
(* accepted is sent unchanged, at most once, in the order of the calls.    *)
THEOREM TransmitsInOrder == Spec => SendsIntact
<1>1. Init => TxFifo!Init
  <2> SUFFICES ASSUME Init PROVE TxFifo!Init
    OBVIOUS
  <2>1. {d \in TxDescs : ~tx_dd[d]} = {}
    BY DEF Init
  <2>2. Outstanding = 0
    BY <2>1, FS_EmptySet DEF Outstanding
  <2>3. TxQueue = <<>>
    BY <2>2 DEF TxQueue
  <2>4. QED BY <2>3 DEF Init, TxFifo!Init
<1>2. QED BY <1>1, TxFifoStep, RingsInvariant, PTL DEF Spec, SendsIntact, TxFifo!Spec

(* The receive queue of a settled ring. *)
LEMMA RxQueueIs ==
  ASSUME TypeOK, NEW n \in Nat, NEW w \in Nat, RxRing(n, w), Settled
  PROVE  RxQueue = Slice(rx_frame, Nth(rx_current, Copied, NumRx), n, NumRx)
<1>1. rx_current \in Int /\ Copied \in Int /\ n \in 0 .. NumRx
  <2>1. n \in 0 .. NumRx - 1
    BY RxSizes
  <2>2. QED BY <2>1, Sizes DEF TypeOK, Copied
<1>2. Filled = Arc(Nth(rx_current, Copied, NumRx), n, NumRx)
  BY DEF RxRing
<1>3. [k \in 1 .. Cardinality(Filled) |-> rx_frame[(rx_current + k - 1 + Copied) % NumRx]]
        = Slice(rx_frame, Nth(rx_current, Copied, NumRx), n, NumRx)
  BY <1>1, <1>2, QueueSliceFrom, Sizes
<1>4. QED BY <1>3 DEF RxQueue, Copied

(* The receive queue after a step that leaves the ring settled. *)
LEMMA RxQueueNext ==
  ASSUME NEW n \in 0 .. NumRx, NEW c \in Int, NEW d \in Int, NEW r, Settled',
         r = rx_frame', c = rx_current', d = Copied', Filled' = Arc(Nth(c, d, NumRx), n, NumRx)
  PROVE  RxQueue' = Slice(r, Nth(c, d, NumRx), n, NumRx)
<1>1. PICK F : F = Filled'
  OBVIOUS
<1>2. [k \in 1 .. Cardinality(F) |-> r[(c + k - 1 + d) % NumRx]] = Slice(r, Nth(c, d, NumRx), n, NumRx)
  BY <1>1, QueueSliceFrom, Sizes
<1>3. RxQueue' = [k \in 1 .. Cardinality(F) |-> r[(c + k - 1 + d) % NumRx]]
  BY <1>1 DEF RxQueue, Copied
<1>4. QED BY <1>2, <1>3

(* The descriptor the driver takes holds the head of the queue. *)
LEMMA TakeHead ==
  ASSUME TypeOK, Settled, NEW n \in Nat, NEW w \in Nat, RxRing(n, w), Done,
         rx_frame' = [rx_frame EXCEPT ![rx_current] = None]
  PROVE  /\ RxQueue # <<>> /\ Head(RxQueue) = rx_frame[rx_current]
         /\ Slice(rx_frame', Nth(rx_current, 1, NumRx), n - 1, NumRx) = Tail(RxQueue)
<1>0. rx_current \in 0 .. NumRx - 1 /\ Copied = 0
  BY Sizes DEF TypeOK, Done, Copied
<1>1. n \in 1 .. NumRx - 1
  BY TakeFirst
<1>2. n \in 1 .. NumRx /\ n - 1 \in 0 .. NumRx
  BY <1>1, Sizes
<1>3. RxQueue = Slice(rx_frame, rx_current, n, NumRx)
  <2>1. Nth(rx_current, Copied, NumRx) = rx_current
    BY <1>0, NthSelf, Sizes
  <2>2. QED BY <2>1, RxQueueIs
<1>4. PICK S : IsRing(rx_frame, NumRx, S)
  BY Stores
<1>5. PICK u : u = (rx_current + 1) % NumRx
  OBVIOUS
<1>6. u = Nth(rx_current, 1, NumRx) /\ u \in Int
  <2>1. u \in 0 .. NumRx - 1
    BY <1>0, <1>5, SuccType, Sizes DEF Succ
  <2>2. QED BY <1>5, <2>1, Sizes DEF Nth
<1>7. /\ Slice(rx_frame, rx_current, n, NumRx) # <<>>
      /\ Head(Slice(rx_frame, rx_current, n, NumRx)) = rx_frame[rx_current]
      /\ Slice(rx_frame, u, n - 1, NumRx) = Tail(Slice(rx_frame, rx_current, n, NumRx))
  BY <1>0, <1>2, <1>4, <1>5, SliceTail
<1>8. Arc(u, n - 1, NumRx) = Arc(rx_current, n, NumRx) \ {rx_current}
  BY <1>0, <1>2, <1>5, ArcShrink, Sizes
<1>9. rx_current \notin Arc(u, n - 1, NumRx)
  BY <1>8
<1>10. PICK q : q = rx_frame'
  OBVIOUS
<1>11. Slice(q, u, n - 1, NumRx) = Slice(rx_frame, u, n - 1, NumRx)
  <2>1. Wrote(q, rx_frame, rx_current, None)
    BY <1>10 DEF Wrote
  <2>2. PICK m \in 0 .. NumRx : m = n - 1
    BY <1>2
  <2>3. rx_current \notin Arc(u, m, NumRx)
    BY <1>9, <2>2
  <2>4. Slice(q, u, m, NumRx) = Slice(rx_frame, u, m, NumRx)
    BY <1>0, <1>4, <1>6, <2>1, <2>3, SliceWrite
  <2>5. QED BY <2>2, <2>4
<1>12. QED BY <1>3, <1>6, <1>7, <1>10, <1>11

(* Steps that leave the receive ring alone are stutters. *)
LEMMA RxStutter ==
  ASSUME UNCHANGED rx, Copied' = Copied, Settled' <=> Settled
  PROVE  UNCHANGED RxFifo!vars
<1>1. RxQueue = IF Settled THEN [k \in 1 .. Cardinality(Filled) |->
                                   rx_frame[(rx_current + k - 1 + Copied) % NumRx]] ELSE <<>>
  BY DEF RxQueue, Copied
<1>2. RxQueue' = IF Settled' THEN [k \in 1 .. Cardinality(Filled') |->
                                     rx_frame'[(rx_current' + k - 1 + Copied') % NumRx]] ELSE <<>>
  BY DEF RxQueue, Copied
<1>3. Filled' = Filled
  BY DEF Filled, rx
<1>4. rx_frame' = rx_frame /\ rx_current' = rx_current /\ got' = got
  BY DEF rx
<1>5. RxQueue' = RxQueue
  BY <1>1, <1>2, <1>3, <1>4
<1>6. RxOut' = RxOut
  BY <1>4 DEF RxOut
<1>7. QED BY <1>5, <1>6 DEF RxFifo!vars

(* While the ring is not settled the FIFO is empty. *)
LEMMA UnsettledIs ==
  /\ ~Settled => RxQueue = <<>> /\ RxOut = None
  /\ ~Settled' => RxQueue' = <<>> /\ RxOut' = None
BY DEF RxQueue, RxOut

(* A call that fails discards the head ... *)
LEMMA DropDiscards ==
  ASSUME TypeOK, RxAgrees, NEW size, Drop(size)
  PROVE  RxFifo!Next \/ UNCHANGED RxFifo!vars
<1>0. pc = "idle" /\ pc' = "idle" /\ late' = late /\ got' = got /\ Done
      /\ rx_frame' = [rx_frame EXCEPT ![rx_current] = None]
  BY DEF Drop, Done
<1>1. CASE late
  BY <1>0, <1>1, UnsettledIs DEF Settled, RxFifo!vars
<1>2. CASE ~late
  <2>0. Settled /\ Settled'
    BY <1>0, <1>2 DEF Settled
  <2>1. PICK n \in Nat, w \in Nat : RxRing(n, w)
    BY <2>0 DEF RxAgrees
  <2>2. n \in 1 .. NumRx - 1 /\ Filled' = Arc(Nth(rx_current, 1, NumRx), n - 1, NumRx)
    BY <1>0, <2>1, TakeFirst
  <2>3. PICK c, r : c = rx_current' /\ r = rx_frame'
    OBVIOUS
  <2>4. c = Nth(rx_current, 1, NumRx) /\ c \in 0 .. NumRx - 1 /\ c \in Int
    <3>1. c = Nth(rx_current, 1, NumRx)
      BY <2>3 DEF Drop, Succ, Nth
    <3>2. c \in 0 .. NumRx - 1
      BY <2>3, SuccType, Sizes DEF Drop, TypeOK
    <3>3. QED BY <3>1, <3>2, Sizes
  <2>5. Nth(c, 0, NumRx) = c
    BY <2>4, NthSelf, Sizes
  <2>6. Copied' = 0 /\ 0 \in Int /\ n - 1 \in 0 .. NumRx
    BY <1>0, <2>2, Sizes DEF Copied
  <2>7. RxQueue' = Slice(r, Nth(c, 0, NumRx), n - 1, NumRx)
    BY <2>0, <2>2, <2>3, <2>4, <2>5, <2>6, RxQueueNext
  <2>8. /\ RxQueue # <<>>
        /\ Slice(rx_frame', Nth(rx_current, 1, NumRx), n - 1, NumRx) = Tail(RxQueue)
    BY <1>0, <2>0, <2>1, TakeHead
  <2>9. RxQueue' = Tail(RxQueue) /\ RxOut' = RxOut
    BY <1>0, <2>0, <2>3, <2>4, <2>5, <2>7, <2>8 DEF RxOut
  <2>10. RxFifo!Discard
    BY <2>8, <2>9 DEF RxFifo!Discard
  <2>11. QED BY <2>10 DEF RxFifo!Next
<1>3. QED BY <1>1, <1>2

(* ... and one that succeeds hands it over. *)
LEMMA ReceiveDelivers ==
  ASSUME TypeOK, RxAgrees, NEW size, Receive(size)
  PROVE  RxFifo!Next \/ UNCHANGED RxFifo!vars
<1>0. pc = "idle" /\ pc' = "rdt" /\ late' = late /\ got' = rx_frame[rx_current] /\ Done
      /\ rx_frame' = [rx_frame EXCEPT ![rx_current] = None] /\ rx_current' = rx_current
  BY DEF Receive, Done
<1>1. CASE late
  BY <1>0, <1>1, UnsettledIs DEF Settled, RxFifo!vars
<1>2. CASE ~late
  <2>0. Settled /\ Settled'
    BY <1>0, <1>2 DEF Settled
  <2>1. PICK n \in Nat, w \in Nat : RxRing(n, w)
    BY <2>0 DEF RxAgrees
  <2>2. n \in 1 .. NumRx - 1 /\ Filled' = Arc(Nth(rx_current, 1, NumRx), n - 1, NumRx)
    BY <1>0, <2>1, TakeFirst
  <2>3. PICK c, r : c = rx_current' /\ r = rx_frame'
    OBVIOUS
  <2>4. c = rx_current /\ c \in Int
    BY <1>0, <2>3, Sizes DEF TypeOK
  <2>5. Copied' = 1 /\ 1 \in Int /\ n - 1 \in 0 .. NumRx
    BY <1>0, <2>2, Sizes DEF Copied
  <2>6. RxQueue' = Slice(r, Nth(c, 1, NumRx), n - 1, NumRx)
    BY <2>0, <2>2, <2>3, <2>4, <2>5, RxQueueNext
  <2>7. /\ RxQueue # <<>> /\ Head(RxQueue) = rx_frame[rx_current]
        /\ Slice(rx_frame', Nth(rx_current, 1, NumRx), n - 1, NumRx) = Tail(RxQueue)
    BY <1>0, <2>0, <2>1, TakeHead
  <2>8. RxQueue' = Tail(RxQueue) /\ RxOut' = Head(RxQueue)
    BY <1>0, <2>0, <2>3, <2>4, <2>6, <2>7 DEF RxOut
  <2>9. RxFifo!Deliver
    BY <2>7, <2>8 DEF RxFifo!Deliver
  <2>10. QED BY <2>9 DEF RxFifo!Next
<1>3. QED BY <1>1, <1>2

(* The write of the tail changes no frame. *)
LEMMA WriteRDTStutters ==
  ASSUME TypeOK, RxAgrees, WriteRDT
  PROVE  UNCHANGED RxFifo!vars
<1>0. /\ pc = "rdt" /\ pc' = "idle" /\ late' = late /\ got' = got /\ rx_frame' = rx_frame
      /\ Copied = 1 /\ Copied' = 0 /\ Filled' = Filled
  BY DEF WriteRDT, Copied, Filled
<1>1. CASE late
  BY <1>0, <1>1, UnsettledIs DEF Settled, RxFifo!vars
<1>2. CASE ~late
  <2>0. Settled /\ Settled'
    BY <1>0, <1>2 DEF Settled
  <2>1. PICK n \in Nat, w \in Nat : RxRing(n, w)
    BY <2>0 DEF RxAgrees
  <2>2. n \in 0 .. NumRx /\ Filled = Arc(Nth(rx_current, 1, NumRx), n, NumRx)
    <3>1. n \in 0 .. NumRx - 1
      BY <2>1, RxSizes
    <3>2. QED BY <1>0, <2>1, <3>1, Sizes DEF RxRing
  <2>3. PICK c, r : c = rx_current' /\ r = rx_frame'
    OBVIOUS
  <2>4. c = Nth(rx_current, 1, NumRx) /\ c \in 0 .. NumRx - 1 /\ c \in Int
    <3>1. c = Nth(rx_current, 1, NumRx)
      BY <2>3 DEF WriteRDT, Succ, Nth
    <3>2. c \in 0 .. NumRx - 1
      BY <2>3, SuccType, Sizes DEF WriteRDT, TypeOK
    <3>3. QED BY <3>1, <3>2, Sizes
  <2>5. Nth(c, 0, NumRx) = c /\ 0 \in Int
    BY <2>4, NthSelf, Sizes
  <2>6. RxQueue' = Slice(r, Nth(c, 0, NumRx), n, NumRx)
    BY <1>0, <2>0, <2>2, <2>3, <2>4, <2>5, RxQueueNext
  <2>7. RxQueue = Slice(rx_frame, Nth(rx_current, 1, NumRx), n, NumRx)
    BY <1>0, <2>0, <2>1, RxQueueIs
  <2>8. RxQueue' = RxQueue
    BY <1>0, <2>3, <2>4, <2>5, <2>6, <2>7
  <2>9. RxOut' = RxOut
    BY <1>0, <2>0 DEF RxOut
  <2>10. QED BY <2>8, <2>9 DEF RxFifo!vars
<1>3. QED BY <1>1, <1>2

(* The device adds a frame at the end. *)
LEMMA DevReceiveAccepts ==
  ASSUME TypeOK, RxAgrees, NEW f \in Frames, DevReceive(f)
  PROVE  RxFifo!Next \/ UNCHANGED RxFifo!vars
<1>0. /\ pc' = pc /\ late' = (late \/ pc = "reset") /\ Copied' = Copied /\ RDH # RDT
      /\ rx_current' = rx_current /\ got' = got /\ rx_frame' = [rx_frame EXCEPT ![RDH] = f]
  BY DEF DevReceive, Copied
<1>1. CASE late \/ pc = "reset"
  BY <1>0, <1>1, UnsettledIs DEF Settled, RxFifo!vars
<1>2. CASE ~late /\ pc # "reset"
  <2>0. Settled /\ Settled'
    BY <1>0, <1>2 DEF Settled
  <2>1. PICK n \in Nat, w \in Nat : RxRing(n, w)
    BY <2>0 DEF RxAgrees
  <2>2. /\ n \in 0 .. NumRx - 1 /\ n + 1 \in 0 .. NumRx - 1
        /\ Filled' = Arc(Nth(rx_current, Copied, NumRx), n + 1, NumRx)
    BY <1>0, <2>1, FillNext
  <2>3. PICK c, d, r : c = rx_current' /\ d = Copied' /\ r = rx_frame'
    OBVIOUS
  <2>4. c = rx_current /\ d = Copied /\ c \in Int /\ d \in Int /\ n + 1 \in 0 .. NumRx
    BY <1>0, <2>2, <2>3, Sizes DEF TypeOK, Copied
  <2>5. RxQueue' = Slice(r, Nth(c, d, NumRx), n + 1, NumRx)
    BY <2>0, <2>2, <2>3, <2>4, RxQueueNext
  <2>6. PICK b \in Int : b = Nth(c, d, NumRx)
    <3>1. Nth(c, d, NumRx) \in 0 .. NumRx - 1
      BY <2>4, NthType, Sizes
    <3>2. Nth(c, d, NumRx) \in Int
      BY <3>1, Sizes
    <3>3. QED BY <3>2
  <2>7. RxQueue = Slice(rx_frame, b, n, NumRx)
    BY <2>0, <2>1, <2>4, <2>6, RxQueueIs
  <2>8. Wrote(r, rx_frame, Nth(b, n, NumRx), f)
    BY <1>0, <2>1, <2>3, <2>4, <2>6 DEF RxRing, Wrote
  <2>9. PICK S : IsRing(rx_frame, NumRx, S) /\ f \in S
    <3>1. IsRing(rx_frame, NumRx, Frames \cup {None}) /\ f \in Frames \cup {None}
      BY Stores
    <3>2. QED BY <3>1
  <2>10. Slice(r, b, n + 1, NumRx) = Append(Slice(rx_frame, b, n, NumRx), f)
    BY <2>2, <2>8, <2>9, SliceAppend
  <2>11. Len(Slice(rx_frame, b, n, NumRx)) = n
    BY <2>9, SliceType
  <2>12. RxQueue' = Append(RxQueue, f)
    BY <2>5, <2>6, <2>7, <2>10
  <2>13. Len(RxQueue) < NumRx
    BY <2>2, <2>7, <2>11, Sizes
  <2>14. RxOut' = RxOut
    BY <1>0, <2>0 DEF RxOut
  <2>15. RxFifo!Accept(f)
    BY <2>12, <2>13, <2>14 DEF RxFifo!Accept
  <2>16. QED BY <2>15 DEF RxFifo!Next
<1>3. QED BY <1>1, <1>2

(* Every step is a step or a stutter of the receive FIFO. *)
LEMMA RxFifoStep == IInv /\ [Next]_vars => [RxFifo!Next]_(RxFifo!vars)
<1> SUFFICES ASSUME IInv, [Next]_vars PROVE [RxFifo!Next]_(RxFifo!vars)
  OBVIOUS
<1>0. TypeOK /\ RxAgrees /\ RxReset
  BY DEF IInv
<1>1. CASE UNCHANGED vars
  BY <1>1, RxStutter DEF vars, Copied, Settled, rx
<1>2. CASE \E size \in BufferSizes : Drop(size)
  BY <1>0, <1>2, DropDiscards
<1>3. CASE \E size \in BufferSizes : Receive(size)
  BY <1>0, <1>3, ReceiveDelivers
<1>4. CASE WriteRDT
  BY <1>0, <1>4, WriteRDTStutters
<1>5. CASE \E f \in TxFrames : Transmit(f)
  BY <1>5, RxStutter DEF Transmit, Copied, Settled, rx
<1>6. CASE WriteTDT
  BY <1>6, RxStutter DEF WriteTDT, Copied, Settled, rx
<1>7. CASE ReinitDescs
  <2>1. ~Settled'
    BY <1>7 DEF ReinitDescs, Settled
  <2>2. QED BY <2>1, UnsettledIs DEF RxFifo!Next, RxFifo!Reset
<1>8. CASE ReinitRegs
  <2>1. ~Settled /\ pc = "reset" /\ late' = late /\ rx_frame' = rx_frame /\ got' = got
    BY <1>8 DEF ReinitRegs, Settled
  <2>2. CASE late
    BY <2>1, <2>2, UnsettledIs DEF Settled, RxFifo!vars
  <2>3. CASE ~late
    <3>1. got' = None /\ Filled' = {}
      BY <1>0, <2>1, <2>3 DEF RxReset, Filled
    <3>2. Cardinality(Filled') = 0
      BY <3>1, FS_EmptySet
    <3>3. 1 .. Cardinality(Filled') = {}
      BY <3>2
    <3>4. RxQueue' = <<>>
      BY <3>3 DEF RxQueue
    <3>5. RxOut' = None
      BY <3>1 DEF RxOut
    <3>6. QED BY <2>1, <3>4, <3>5, UnsettledIs DEF RxFifo!vars
  <2>4. QED BY <2>2, <2>3
<1>9. CASE \E f \in Frames : DevReceive(f)
  BY <1>0, <1>9, DevReceiveAccepts
<1>10. CASE DevFetch
  BY <1>10, RxStutter DEF DevFetch, Copied, Settled, rx
<1>11. CASE DevDone
  BY <1>11, RxStutter DEF DevDone, Copied, Settled, rx
<1>12. QED
  BY <1>1, <1>2, <1>3, <1>4, <1>5, <1>6, <1>7, <1>8, <1>9, <1>10, <1>11 DEF Next

(* The receive ring implements the FIFO (the safety part of                *)
(* ReceivesInOrder): e1000_receive hands over what the device stored,      *)
(* unchanged, once and in order; a failed call drops only the head.        *)
THEOREM ReceivesAsStored == Spec => RxFifo!Spec
<1>1. Init => RxFifo!Init
  <2> SUFFICES ASSUME Init PROVE RxFifo!Init
    OBVIOUS
  <2>1. Filled = {} /\ got = None
    BY DEF Init, Filled
  <2>2. 1 .. Cardinality(Filled) = {}
    <3>1. Cardinality(Filled) = 0
      BY <2>1, FS_EmptySet
    <3>2. QED BY <3>1
  <2>3. RxQueue = <<>>
    BY <2>2 DEF RxQueue
  <2>4. QED BY <2>1, <2>3 DEF RxFifo!Init, RxOut
<1>2. QED BY <1>1, RxFifoStep, RingsInvariant, PTL DEF Spec, RxFifo!Spec
=============================================================================
