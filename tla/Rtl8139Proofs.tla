--------------------------- MODULE Rtl8139Proofs ---------------------------
(***************************************************************************)
(* For every size of the receive ring, all frames, CRCs and buffer sizes:  *)
(* the first frame received after an initialisation is the one the device  *)
(* stored, and the shared transmit buffer sends frames unchanged as long   *)
(* as no two calls overlap.                                                *)
(***************************************************************************)
EXTENDS Rtl8139, RingTheorems

(* Headers and payloads in the ring belong to frames. *)
Cells ==
  {Cell("zero", None, 0)} \cup
  [kind : {"hdr", "data", "crc"}, frame : Frames, i : Nat]

(* Frame f lies at the start of the ring, where the driver reads first. *)
Lies(f) ==
  /\ rx_buffer[0] = Cell("hdr", f, 0)
  /\ \A i \in 1 .. flen[f] : rx_buffer[i] = Cell("data", f, i)

(* Until the first frame is returned the driver reads at the start of the  *)
(* ring; the first frame stored lies there, and the device has gone past   *)
(* it and will not be back.                                                *)
FirstKept ==
  (pc = "up" /\ ~early /\ delivered = 0) =>
    /\ RxPtr = 0
    /\ stored = <<>> => RxAddr = 0
    /\ stored # <<>> => RxAddr >= flen[Head(stored)] + 2 /\ Lies(Head(stored))

(* What init_context finds once the device is reset. *)
JustReset ==
  pc = "rxbuf" => /\ delivered = 0 /\ stored = <<>> /\ ~overlap
                  /\ ~early => RxAddr = 0

(* Without overlap there is at most one frame to send. *)
OneUnsent == ~overlap => Len(unsent) <= 1

IInv ==
  /\ TypeOK /\ rx_buffer \in [Words -> Cells]
  /\ FirstKept /\ JustReset /\ OneUnsent

----------------------------------------------------------------------------
(* A frame with its header and its CRC is shorter than the ring. *)
LEMMA FrameLengths ==
  /\ RingWords \in Nat \ {0} /\ RingWords >= 4
  /\ \A f \in Frames : flen[f] \in 1 .. RingWords - 3
<1>1. RingWords \in Nat /\ \A f \in Frames : flen[f] \in 1 .. RingWords - 3
  BY SizeAssumption
<1>2. PICK f : f \in Frames
  BY SizeAssumption
<1>3. QED BY <1>1, <1>2

(* There is a longest frame, and rx_buffer has room for it after the ring. *)
LEMMA LongestFrame ==
  /\ MaxLen \in Nat /\ \A f \in Frames : flen[f] <= MaxLen
  /\ Words = 0 .. RingWords + MaxLen /\ 0 .. RingWords - 1 \subseteq Words
<1> DEFINE L == {flen[f] : f \in Frames}
           T == {RingWords - x : x \in L}
<1>1. L # {} /\ L \subseteq Nat
  BY FrameLengths, SizeAssumption
<1>2. T # {} /\ T \subseteq Nat
  BY FrameLengths, <1>1
<1>3. PICK m \in T : \A y \in T : m <= y
  BY <1>2, LeastNumber
<1>4. PICK n \in L : m = RingWords - n
  BY <1>3
<1>5. \A f \in Frames : flen[f] <= n
  <2> SUFFICES ASSUME NEW f \in Frames PROVE flen[f] <= n
    OBVIOUS
  <2>1. RingWords - flen[f] \in T
    OBVIOUS
  <2>2. m <= RingWords - flen[f]
    BY <1>3, <2>1
  <2>3. flen[f] \in Nat /\ n \in Nat /\ RingWords \in Nat
    BY FrameLengths, <1>1
  <2>4. QED BY <1>4, <2>2, <2>3
<1>6. MaxLen \in L /\ \A f \in Frames : flen[f] <= MaxLen
  BY <1>5 DEF MaxLen
<1>7. MaxLen \in Nat
  BY <1>1, <1>6
<1>8. QED BY <1>6, <1>7, FrameLengths DEF Words

(* The state before the first initialisation satisfies the invariant. *)
LEMMA InitInv == Init => IInv
<1> SUFFICES ASSUME Init PROVE IInv
  OBVIOUS
<1>1. rx_buffer \in [Words -> Cells] /\ \A w \in Words : rx_buffer[w].kind = "zero"
  BY DEF Init, ZeroCell, Cell, Cells
<1>2. stored \in Seq(Frames) /\ unsent \in Seq(0 .. 3) /\ Len(unsent) = 0
  BY EmptySeq DEF Init
<1>3. 0 \in 0 .. RingWords - 1 /\ MaxOutstanding \in 1 .. 4
  BY FrameLengths, SizeAssumption
<1>4. {early, overlap} \subseteq BOOLEAN
  BY DEF Init
<1>5. TypeOK
  BY <1>1, <1>2, <1>3, <1>4 DEF Init, TypeOK
<1>6. FirstKept /\ JustReset /\ OneUnsent
  BY <1>2 DEF Init, FirstKept, JustReset, OneUnsent
<1>7. QED BY <1>1, <1>5, <1>6 DEF IInv

(* rtl8139_init_context, both halves. *)
LEMMA ResetEnableInv == IInv /\ ResetEnable => IInv'
<1> SUFFICES ASSUME IInv, ResetEnable PROVE IInv'
  OBVIOUS
<1>1. stored' \in Seq(Frames) /\ unsent' \in Seq(0 .. 3) /\ Len(unsent') = 0
  BY EmptySeq DEF ResetEnable
<1>2. 0 \in 0 .. RingWords - 1 /\ MaxOutstanding \in 1 .. 4
  BY FrameLengths, SizeAssumption
<1>3. {early', overlap'} \subseteq BOOLEAN
  BY DEF ResetEnable
<1>4. TypeOK'
  BY <1>1, <1>2, <1>3 DEF ResetEnable, IInv, TypeOK
<1>5. FirstKept' /\ JustReset' /\ OneUnsent'
  BY <1>1 DEF ResetEnable, FirstKept, JustReset, OneUnsent
<1>6. QED BY <1>4, <1>5 DEF ResetEnable, IInv

(* The second half finds the ring empty, unless a frame came early. *)
LEMMA SetRxBufInv == IInv /\ SetRxBuf => IInv'
<1> SUFFICES ASSUME IInv, SetRxBuf PROVE IInv'
  OBVIOUS
<1>1. 0 \in 0 .. RingWords - 1
  BY FrameLengths
<1>2. TypeOK'
  BY <1>1 DEF SetRxBuf, IInv, TypeOK, tx
<1>3. FirstKept' /\ JustReset' /\ OneUnsent'
  BY DEF SetRxBuf, IInv, FirstKept, JustReset, OneUnsent, tx
<1>4. QED BY <1>2, <1>3 DEF SetRxBuf, IInv

(* The length in a header is a number, whatever the driver reads as one. *)
LEMMA HeaderType ==
  ASSUME IInv, NEW w \in Words
  PROVE  Header(w).len \in Nat
<1>1. rx_buffer[w] \in Cells
  BY DEF IInv
<1>2. CASE rx_buffer[w].kind = "hdr"
  <2>1. rx_buffer[w].frame \in Frames
    BY <1>1, <1>2 DEF Cells, Cell
  <2>2. Header(w) = [ok |-> TRUE, len |-> flen[rx_buffer[w].frame] + 1]
    BY <1>2 DEF Header
  <2>3. flen[rx_buffer[w].frame] \in Nat
    BY <2>1, FrameLengths
  <2>4. QED BY <2>2, <2>3
<1>3. CASE rx_buffer[w].kind = "crc"
  <2>1. rx_buffer[w].frame \in Frames
    BY <1>1, <1>3 DEF Cells, Cell
  <2>2. Header(w) = crc_hdr[rx_buffer[w].frame]
    BY <1>3 DEF Header
  <2>3. QED BY <2>1, <2>2, SizeAssumption
<1>4. CASE rx_buffer[w].kind = "data"
  <2>1. rx_buffer[w].frame \in Frames
    BY <1>1, <1>4 DEF Cells, Cell
  <2>2. Header(w) = data_hdr[rx_buffer[w].frame]
    BY <1>4 DEF Header
  <2>3. QED BY <2>1, <2>2, SizeAssumption
<1>5. CASE rx_buffer[w].kind \notin {"hdr", "crc", "data"}
  <2>1. Header(w) = BadHeader
    BY <1>5 DEF Header
  <2>2. QED BY <2>1 DEF BadHeader
<1>6. QED BY <1>2, <1>3, <1>4, <1>5

(* rtl8139_receive hands over a frame or something else, and stays in the  *)
(* ring.                                                                   *)
LEMMA ReceiveType ==
  ASSUME IInv, NEW size, Receive(size)
  PROVE  /\ RxPtr' \in 0 .. RingWords - 1 /\ got' \in Frames \cup {Garbage}
         /\ stored' \in Seq(Frames) /\ delivered' \in 1 .. 2
<1>1. RxPtr \in Words /\ RxPtr \in Int
  BY LongestFrame, FrameLengths DEF IInv, TypeOK
<1>2. PICK n : n = Header(RxPtr).len - 1
  OBVIOUS
<1>3. n \in Int
  BY <1>1, <1>2, HeaderType
<1>4. RxPtr' = (RxPtr + n + 1) % RingWords
  BY <1>2 DEF Receive
<1>5. RxPtr' \in 0 .. RingWords - 1
  <2>1. RxPtr + n + 1 \in Int
    BY <1>1, <1>3
  <2>2. QED BY <1>4, <2>1, DivMod, FrameLengths
<1>6. \A w, k : FrameAt(w, k) \in Frames \cup {Garbage}
  BY DEF FrameAt
<1>7. got' \in Frames \cup {Garbage}
  <2>1. got' = FrameAt(RxPtr, n)
    BY <1>2 DEF Receive
  <2>2. QED BY <1>6, <2>1
<1>8. stored' \in Seq(Frames)
  <2>1. stored \in Seq(Frames)
    BY DEF IInv, TypeOK
  <2>2. CASE stored = <<>>
    BY <2>1, <2>2 DEF Receive
  <2>3. CASE stored # <<>>
    BY <2>1, <2>3, HeadTailProperties DEF Receive
  <2>4. QED BY <2>2, <2>3
<1>9. delivered' \in 1 .. 2
  BY DEF Receive, IInv, TypeOK
<1>10. QED BY <1>5, <1>7, <1>8, <1>9
(* A call that returns a frame ends what FirstKept speaks of. *)
LEMMA ReceiveInv ==
  ASSUME IInv, NEW size, Receive(size)
  PROVE  IInv'
<1>1. TypeOK'
  <2>1. /\ RxPtr' \in 0 .. RingWords - 1 /\ got' \in Frames \cup {None, Garbage}
        /\ stored' \in Seq(Frames) /\ delivered' \in 0 .. 2
    BY ReceiveType
  <2>2. QED BY <2>1 DEF Receive, IInv, TypeOK, tx
<1>2. FirstKept'
  BY ReceiveType DEF FirstKept
<1>3. JustReset' /\ OneUnsent'
  BY DEF Receive, IInv, JustReset, OneUnsent, tx
<1>4. QED BY <1>1, <1>2, <1>3 DEF Receive, IInv

(* rtl8139_transmit. *)
LEMMA TransmitInv ==
  ASSUME IInv, NEW f \in Frames, Transmit(f)
  PROVE  IInv'
<1>1. unsent \in Seq(0 .. 3) /\ tx_current \in 0 .. 3 /\ MaxOutstanding \in 1 .. 4
  BY SizeAssumption DEF IInv, TypeOK
<1>2. unsent' \in Seq(0 .. 3) /\ Len(unsent') = Len(unsent) + 1 /\ Len(unsent) \in Nat
  BY <1>1, AppendProperties, LenProperties DEF Transmit
<1>3. Len(unsent') <= MaxOutstanding
  BY <1>1, <1>2 DEF Transmit
<1>4. tx_current' \in 0 .. 3
  BY <1>1 DEF Transmit
<1>5. {early', overlap'} \subseteq BOOLEAN
  BY Zenon DEF Transmit, IInv, TypeOK, rx
<1>6. TypeOK'
  BY <1>2, <1>3, <1>4, <1>5 DEF Transmit, IInv, TypeOK, rx
<1>7. ~overlap' => Len(unsent') <= 1
  <2> SUFFICES ASSUME ~overlap' PROVE Len(unsent') <= 1
    OBVIOUS
  <2>1. unsent = <<>>
    BY DEF Transmit
  <2>2. QED BY <1>2, <2>1
<1>8. FirstKept' /\ JustReset' /\ OneUnsent'
  BY <1>7 DEF Transmit, IInv, FirstKept, Lies, JustReset, OneUnsent, rx
<1>9. QED BY <1>6, <1>8 DEF Transmit, IInv, rx

(* The transmitter. *)
LEMMA DevSendInv == IInv /\ DevSend => IInv'
<1> SUFFICES ASSUME IInv, DevSend PROVE IInv'
  OBVIOUS
<1>1. unsent \in Seq(0 .. 3) /\ unsent # <<>> /\ MaxOutstanding \in 1 .. 4
  BY SizeAssumption DEF IInv, TypeOK, DevSend
<1>2. unsent' \in Seq(0 .. 3) /\ Len(unsent') = Len(unsent) - 1 /\ Len(unsent) \in Nat
  BY <1>1, HeadTailProperties, LenProperties DEF DevSend
<1>3. TypeOK'
  <2>1. Len(unsent') <= MaxOutstanding
    BY <1>1, <1>2 DEF IInv, TypeOK
  <2>2. QED BY <1>2, <2>1 DEF DevSend, IInv, TypeOK, rx
<1>4. OneUnsent'
  BY <1>2 DEF DevSend, IInv, OneUnsent
<1>5. FirstKept' /\ JustReset'
  BY DEF DevSend, IInv, FirstKept, Lies, JustReset, rx
<1>6. QED BY <1>3, <1>4, <1>5 DEF DevSend, IInv, rx

----------------------------------------------------------------------------
(* The receiver: how the device writes a frame. *)

(* The words of a frame from RxAddr on, and the rest as it was. *)
LEMMA FrameWritten ==
  ASSUME IInv, NEW f \in Frames, DevReceive(f), pc = "up"
  PROVE  /\ rx_buffer' \in [Words -> Cells]
         /\ rx_buffer'[RxAddr] = Cell("hdr", f, 0)
         /\ \A i \in 1 .. flen[f] :
              RxAddr + i \in Words => rx_buffer'[RxAddr + i] = Cell("data", f, i)
         /\ \A w \in Words : w < RxAddr => rx_buffer'[w] = rx_buffer[w]
<1> DEFINE At(w) == LET i == w - RxAddr
                    IN  CASE i = 0 -> Cell("hdr", f, 0)
                          [] i \in 1 .. flen[f] -> Cell("data", f, i)
                          [] i = flen[f] + 1 -> Cell("crc", f, 0)
                          [] OTHER -> rx_buffer[w]
<1>1. rx_buffer' = [w \in Words |-> At(w)]
  BY DEF DevReceive
<1>2. RxAddr \in Words /\ RxAddr \in Int /\ Words \subseteq Int /\ flen[f] \in Nat
  BY LongestFrame, FrameLengths DEF IInv, TypeOK
<1>3. ASSUME NEW w \in Words PROVE At(w) \in Cells
  <2>1. rx_buffer[w] \in Cells
    BY DEF IInv
  <2>2. \A k \in {"hdr", "data", "crc"} : \A i \in Nat : Cell(k, f, i) \in Cells
    BY DEF Cell, Cells
  <2>3. 1 .. flen[f] \subseteq Nat
    BY <1>2
  <2>4. QED BY <2>1, <2>2, <2>3
<1>4. At(RxAddr) = Cell("hdr", f, 0)
  BY <1>2
<1>5. ASSUME NEW i \in 1 .. flen[f], RxAddr + i \in Words
      PROVE  At(RxAddr + i) = Cell("data", f, i)
  <2>1. PICK w : w = RxAddr + i
    OBVIOUS
  <2>2. w - RxAddr = i /\ i # 0 /\ i # flen[f] + 1
    BY <1>2, <2>1
  <2>3. At(w) = CASE i = 0 -> Cell("hdr", f, 0)
                  [] i \in 1 .. flen[f] -> Cell("data", f, i)
                  [] i = flen[f] + 1 -> Cell("crc", f, 0)
                  [] OTHER -> rx_buffer[w]
    BY <2>2
  <2>4. At(w) = Cell("data", f, i)
    BY <2>2, <2>3, Zenon
  <2>5. QED BY <2>1, <2>4
<1>6. ASSUME NEW w \in Words, w < RxAddr PROVE At(w) = rx_buffer[w]
  <2>1. w - RxAddr < 0 /\ w - RxAddr \in Int
    BY <1>2, <1>6
  <2>2. QED BY <1>2, <2>1
<1> HIDE DEF At
<1>7. QED BY <1>1, <1>2, <1>3, <1>4, <1>5, <1>6

(* Where it stores next, and what is waiting. *)
LEMMA DevReceiveType ==
  ASSUME IInv, NEW f \in Frames, DevReceive(f)
  PROVE  /\ TypeOK' /\ rx_buffer' \in [Words -> Cells]
<1>1. rx_buffer' \in [Words -> Cells]
  <2>1. CASE pc = "up"
    BY <2>1, FrameWritten
  <2>2. CASE pc # "up"
    BY <2>2 DEF DevReceive, IInv
  <2>3. QED BY <2>1, <2>2
<1>2. \A w \in Words : rx_buffer'[w].kind \in {"zero", "hdr", "data", "crc"}
  <2>1. \A c \in Cells : c.kind \in {"zero", "hdr", "data", "crc"}
    BY DEF Cells, Cell
  <2>2. QED BY <1>1, <2>1
<1>3. RxAddr' \in 0 .. RingWords - 1
  <2>1. RxAddr \in Int /\ flen[f] \in Int
    BY FrameLengths DEF IInv, TypeOK
  <2>2. RxAddr + (flen[f] + 2) \in Int
    BY <2>1
  <2>3. QED BY <2>2, DivMod, FrameLengths DEF DevReceive
<1>4. stored' \in Seq(Frames)
  BY AppendProperties DEF DevReceive, IInv, TypeOK
<1>5. {early', overlap'} \subseteq BOOLEAN
  BY Zenon DEF DevReceive, IInv, TypeOK, tx
<1>6. QED BY <1>1, <1>2, <1>3, <1>4, <1>5 DEF DevReceive, IInv, TypeOK, tx

(* The first frame goes to the start of the ring. *)
LEMMA FirstStored ==
  ASSUME IInv, NEW f \in Frames, DevReceive(f), pc = "up", RxAddr = 0, stored = <<>>
  PROVE  stored' = <<f>> /\ RxAddr' = flen[f] + 2 /\ Lies(f)'
<1>1. stored' = <<f>>
  BY DEF DevReceive
<1>2. flen[f] + 2 \in 0 .. RingWords - 1 /\ flen[f] \in Nat
  BY FrameLengths
<1>3. RxAddr' = (flen[f] + 2) % RingWords
  <2>1. RxAddr' = (0 + (flen[f] + 2)) % RingWords
    BY DEF DevReceive
  <2>2. 0 + (flen[f] + 2) = flen[f] + 2
    BY <1>2
  <2>3. QED BY <2>1, <2>2
<1>4. RxAddr' = flen[f] + 2
  BY <1>2, <1>3, ModSmall, FrameLengths
<1>5. ASSUME NEW i \in 1 .. flen[f] PROVE 0 + i = i /\ i \in Words
  <2>1. i \in 0 .. RingWords - 1 /\ i \in Int
    BY <1>2, FrameLengths
  <2>2. QED BY <2>1, LongestFrame
<1>6. Lies(f)'
  BY <1>5, FrameWritten DEF Lies
<1>7. QED BY <1>1, <1>4, <1>6

(* Every later one goes behind it. *)
LEMMA LaterStored ==
  ASSUME IInv, NEW f \in Frames, DevReceive(f), pc = "up", RxPtr = 0,
         NEW h \in Frames, RxAddr >= flen[h] + 2, Lies(h)
  PROVE  RxAddr' >= flen[h] + 2 /\ Lies(h)'
<1>1. /\ RxAddr \in 0 .. RingWords - 1 /\ RxAddr \in Int /\ flen[f] \in Nat /\ flen[h] \in Nat
      /\ RingWords \in Nat /\ RxAddr > 0
  BY FrameLengths DEF IInv, TypeOK
<1>2. (0 - RxAddr) % RingWords = RingWords - RxAddr
  <2>1. 0 - RxAddr \in Int /\ -1 \in Int /\ RingWords - RxAddr \in 0 .. RingWords - 1
    BY <1>1
  <2>2. 0 - RxAddr = RingWords * (-1) + (RingWords - RxAddr)
    BY <1>1
  <2>3. QED BY <2>1, <2>2, ModUnique, FrameLengths
<1>3. flen[f] + 2 < RingWords - RxAddr
  <2>1. (0 - RxAddr) % RingWords = 0 \/ flen[f] + 2 < (0 - RxAddr) % RingWords
    BY DEF DevReceive
  <2>2. QED BY <1>1, <1>2, <2>1
<1>4. RxAddr + (flen[f] + 2) \in 0 .. RingWords - 1
  BY <1>1, <1>3
<1>5. RxAddr' = RxAddr + (flen[f] + 2)
  BY <1>4, ModSmall, FrameLengths DEF DevReceive
<1>6. \A i \in 0 .. flen[h] : i \in Words /\ i < RxAddr
  BY <1>1, LongestFrame
<1>7. \A i \in 0 .. flen[h] : rx_buffer'[i] = rx_buffer[i]
  BY <1>6, FrameWritten
<1>8. Lies(h)'
  BY <1>1, <1>7 DEF Lies
<1>9. QED BY <1>1, <1>5, <1>8

(* A frame from the network leaves the first one alone. *)
LEMMA DevReceiveInv ==
  ASSUME IInv, NEW f \in Frames, DevReceive(f)
  PROVE  IInv'
<1>1. FirstKept'
  <2> SUFFICES ASSUME pc' = "up", ~early', delivered' = 0
               PROVE  /\ RxPtr' = 0
                      /\ stored' = <<>> => RxAddr' = 0
                      /\ stored' # <<>> => RxAddr' >= flen[Head(stored')] + 2 /\ Lies(Head(stored))'
    BY DEF FirstKept
  <2>1. pc = "up" /\ ~early /\ delivered = 0 /\ RxPtr' = RxPtr /\ stored' = Append(stored, f)
    BY DEF DevReceive
  <2>2. RxPtr = 0 /\ stored \in Seq(Frames)
    BY <2>1 DEF IInv, FirstKept, TypeOK
  <2>3. stored' # <<>>
    BY <2>1, <2>2, AppendProperties
  <2>4. CASE stored = <<>>
    <3>1. RxAddr = 0
      BY <2>1, <2>4 DEF IInv, FirstKept
    <3>2. stored' = <<f>> /\ RxAddr' = flen[f] + 2 /\ Lies(f)'
      BY <2>1, <2>4, <3>1, FirstStored
    <3>3. Head(stored') = f /\ flen[f] + 2 \in Nat
      BY <3>2, FrameLengths
    <3>4. QED BY <2>1, <2>2, <2>3, <3>2, <3>3 DEF Lies
  <2>5. CASE stored # <<>>
    <3>1. PICK h : h = Head(stored)
      OBVIOUS
    <3>2. h \in Frames /\ Head(stored') = h
      BY <2>1, <2>2, <2>5, <3>1, HeadTailProperties, AppendProperties
    <3>3. RxAddr >= flen[h] + 2 /\ Lies(h)
      BY <2>1, <2>5, <3>1 DEF IInv, FirstKept, Lies
    <3>4. RxAddr' >= flen[h] + 2 /\ Lies(h)'
      BY <2>1, <2>2, <3>2, <3>3, LaterStored
    <3>5. QED BY <2>1, <2>2, <2>3, <3>2, <3>4 DEF Lies
  <2>6. QED BY <2>4, <2>5
<1>2. JustReset' /\ OneUnsent'
  BY DEF DevReceive, IInv, JustReset, OneUnsent, tx
<1>3. QED BY <1>1, <1>2, DevReceiveType DEF IInv

----------------------------------------------------------------------------
(* The theorems. *)

(* The invariant holds in every reachable state. *)
THEOREM DriverInvariant == Spec => []IInv
<1>1. Init => IInv
  BY InitInv
<1>2. IInv /\ [Next]_vars => IInv'
  <2> SUFFICES ASSUME IInv, [Next]_vars PROVE IInv'
    OBVIOUS
  <2>1. CASE UNCHANGED vars
    BY <2>1 DEF IInv, TypeOK, FirstKept, Lies, JustReset, OneUnsent, vars, rx, tx
  <2>2. CASE Poll
    BY <2>2, ReceiveInv DEF Poll
  <2>3. QED
    BY <2>1, <2>2, ResetEnableInv, SetRxBufInv, TransmitInv, DevReceiveInv, DevSendInv DEF Next
<1>3. QED BY <1>1, <1>2, PTL DEF Spec

(* Offsets stay in the ring and tx_current names a descriptor, whatever    *)
(* the driver reads as a header.                                           *)
THEOREM StaysTyped == Spec => []TypeOK
<1>1. IInv => TypeOK
  BY DEF IInv
<1>2. QED BY <1>1, DriverInvariant, PTL

(* A frame that lies in the ring is the frame the driver copies out. *)
LEMMA CopiesFrame ==
  ASSUME IInv, NEW h \in Frames, Lies(h)
  PROVE  /\ Header(0) = [ok |-> TRUE, len |-> flen[h] + 1]
         /\ FrameAt(0, flen[h]) = h
<1> DEFINE n == flen[h]
           data == [i \in 1 .. n |-> rx_buffer[(0 + i) % RingWords]]
           Is(f) == n = flen[f] /\ \A i \in 1 .. n : data[i] = Cell("data", f, i)
<1>1. Header(0) = [ok |-> TRUE, len |-> flen[h] + 1]
  BY DEF Lies, Header, Cell
<1>2. n \in Nat /\ n >= 1 /\ 1 \in 1 .. n
  BY FrameLengths
<1>3. ASSUME NEW i \in 1 .. n PROVE data[i] = Cell("data", h, i)
  <2>1. 0 + i = i /\ i \in 0 .. RingWords - 1
    BY <1>2, FrameLengths
  <2>2. i % RingWords = i
    BY <2>1, ModSmall, FrameLengths
  <2>3. data[i] = rx_buffer[(0 + i) % RingWords]
    OBVIOUS
  <2>4. rx_buffer[i] = Cell("data", h, i)
    BY DEF Lies
  <2>5. QED BY <2>1, <2>2, <2>3, <2>4
<1>4. FrameAt(0, n) = IF \E f \in Frames : Is(f) THEN CHOOSE f \in Frames : Is(f) ELSE Garbage
  BY DEF FrameAt
<1> HIDE DEF data
<1>5. Is(h)
  BY <1>3
<1>6. ASSUME NEW f \in Frames, Is(f) PROVE f = h
  <2>1. data[1] = Cell("data", f, 1) /\ data[1] = Cell("data", h, 1)
    BY <1>2, <1>3, <1>6
  <2>2. QED BY <2>1 DEF Cell
<1>7. FrameAt(0, n) = h
  BY <1>4, <1>5, <1>6
<1>8. QED BY <1>1, <1>7

(* Whatever an earlier use left in the ring, in the registers or in the    *)
(* driver's context, the first frame rtl8139_receive returns after an      *)
(* initialisation is the first one the device stored since, unchanged,     *)
(* unless a frame came between the two halves of rtl8139_init_context.     *)
THEOREM FirstIntact == Spec => FirstFrameIntact
<1>1. IInv /\ [Next]_vars =>
        (~early /\ delivered = 0 /\ delivered' = 1 => got' = Head(stored)) \/ UNCHANGED vars
  <2> SUFFICES ASSUME IInv, [Next]_vars, ~early, delivered = 0, delivered' = 1
               PROVE  got' = Head(stored)
    OBVIOUS
  <2>1. PICK size : Receive(size)
    <3>1. Poll
      BY DEF Next, vars, rx, tx, ResetEnable, SetRxBuf, Transmit, DevReceive, DevSend
    <3>2. QED BY <3>1 DEF Poll
  <2>2. pc = "up" /\ RxAddr # RxPtr
    BY <2>1 DEF Receive
  <2>3. RxPtr = 0 /\ stored # <<>> /\ stored \in Seq(Frames)
    BY <2>2 DEF IInv, FirstKept, TypeOK
  <2>4. PICK h : h = Head(stored)
    OBVIOUS
  <2>5. h \in Frames
    BY <2>3, <2>4, HeadTailProperties
  <2>6. Lies(h)
    BY <2>2, <2>3, <2>4 DEF IInv, FirstKept, Lies
  <2>7. Header(0) = [ok |-> TRUE, len |-> flen[h] + 1] /\ FrameAt(0, flen[h]) = h
    BY <2>5, <2>6, CopiesFrame
  <2>8. Header(0).len - 1 = flen[h]
    BY <2>5, <2>7, FrameLengths
  <2>9. got' = FrameAt(0, Header(0).len - 1)
    BY <2>1, <2>3 DEF Receive
  <2>10. QED BY <2>4, <2>7, <2>8, <2>9
<1>2. QED BY <1>1, DriverInvariant, PTL DEF Spec, FirstFrameIntact

----------------------------------------------------------------------------
(* The shared transmit buffer implements the FIFO. *)

(* The queue of one or no frame. *)
LEMMA QueueIs ==
  ASSUME NEW S, NEW s \in Seq(S), NEW b
  PROVE  /\ s = <<>> => [k \in DOMAIN s |-> b] = <<>>
         /\ Len(s) = 1 => [k \in DOMAIN s |-> b] = <<b>>
<1>1. DOMAIN s = 1 .. Len(s)
  BY LenProperties
<1>2. QED BY <1>1

(* Steps that leave the transmitter alone. *)
LEMMA TxStutter ==
  ASSUME UNCHANGED tx
  PROVE  UNCHANGED TxFifo!vars
BY DEF tx, TxFifo!vars, TxQueue, TxOut

(* Every step is a step or a stutter of the FIFO. *)
LEMMA TxFifoStep == IInv /\ [Next]_vars => [TxFifo!Next]_(TxFifo!vars)
<1> SUFFICES ASSUME IInv, [Next]_vars PROVE [TxFifo!Next]_(TxFifo!vars)
  OBVIOUS
<1>0. unsent \in Seq(0 .. 3) /\ Len(unsent) \in Nat
  BY LenProperties DEF IInv, TypeOK
<1>1. CASE UNCHANGED vars
  BY <1>1, TxStutter DEF vars
<1>2. CASE ResetEnable
  <2>1. unsent' = <<>> /\ ~overlap' /\ wire' = None
    BY <1>2 DEF ResetEnable
  <2>2. TxQueue' = <<>> /\ TxOut' = None
    BY <2>1 DEF TxQueue, TxOut
  <2>3. QED BY <2>2 DEF TxFifo!Next, TxFifo!Reset
<1>3. CASE SetRxBuf \/ Poll \/ \E f \in Frames : DevReceive(f)
  BY <1>3, TxStutter DEF SetRxBuf, Poll, Receive, DevReceive
<1>4. CASE \E f \in Frames : Transmit(f)
  <2>1. PICK f \in Frames : Transmit(f)
    BY <1>4
  <2>2. CASE overlap
    <3>1. overlap'
      BY <2>1, <2>2 DEF Transmit
    <3>2. QED BY <2>2, <3>1 DEF TxQueue, TxOut, TxFifo!vars
  <2>3. CASE ~overlap /\ unsent # <<>>
    <3>1. overlap'
      BY <2>1, <2>3 DEF Transmit
    <3>2. QED BY <3>1 DEF TxQueue, TxOut, TxFifo!Next, TxFifo!Reset
  <2>4. CASE ~overlap /\ unsent = <<>>
    <3>1. ~overlap' /\ tx_buffer' = f /\ wire' = wire
      BY <2>1, <2>4 DEF Transmit
    <3>2. unsent' \in Seq(0 .. 3) /\ Len(unsent') = 1
      <4>1. tx_current \in 0 .. 3
        BY DEF IInv, TypeOK
      <4>2. unsent' = <<tx_current>>
        BY <2>1, <2>4 DEF Transmit
      <4>3. QED BY <4>1, <4>2
    <3>3. TxQueue = <<>>
      BY <1>0, <2>4, QueueIs DEF TxQueue
    <3>4. TxQueue' = <<f>>
      BY <3>1, <3>2, QueueIs DEF TxQueue
    <3>5. TxOut' = TxOut
      BY <2>4, <3>1 DEF TxOut
    <3>6. Len(TxQueue) < 4 /\ TxQueue' = Append(TxQueue, f)
      BY <3>3, <3>4
    <3>7. QED BY <3>5, <3>6 DEF TxFifo!Next, TxFifo!Accept
  <2>5. QED BY <2>2, <2>3, <2>4
<1>5. CASE DevSend
  <2>1. overlap' = overlap /\ tx_buffer' = tx_buffer /\ wire' = tx_buffer /\ unsent # <<>>
    BY <1>5 DEF DevSend
  <2>2. CASE overlap
    BY <2>1, <2>2 DEF TxQueue, TxOut, TxFifo!vars
  <2>3. CASE ~overlap
    <3>1. Len(unsent) = 1
      <4>1. Len(unsent) # 0
        BY <1>0, <2>1, EmptySeq
      <4>2. Len(unsent) <= 1
        BY <2>3 DEF IInv, OneUnsent
      <4>3. PICK m \in Nat : m = Len(unsent)
        BY <1>0
      <4>4. m = 1
        BY <4>1, <4>2, <4>3
      <4>5. QED BY <4>3, <4>4
    <3>2. unsent' = <<>>
      <4>1. unsent' \in Seq(0 .. 3) /\ Len(unsent') = Len(unsent) - 1
        BY <1>0, <1>5, HeadTailProperties DEF DevSend
      <4>2. QED BY <3>1, <4>1, EmptySeq
    <3>3. TxQueue = <<tx_buffer>>
      BY <1>0, <2>3, <3>1, QueueIs DEF TxQueue
    <3>4. TxQueue' = <<>>
      BY <2>1, <3>2 DEF TxQueue
    <3>5. TxOut' = tx_buffer
      BY <2>1, <2>3 DEF TxOut
    <3>6. TxQueue # <<>> /\ TxOut' = Head(TxQueue) /\ TxQueue' = Tail(TxQueue)
      BY <3>3, <3>4, <3>5
    <3>7. QED BY <3>6 DEF TxFifo!Next, TxFifo!Deliver
  <2>4. QED BY <2>2, <2>3
<1>6. QED BY <1>1, <1>2, <1>3, <1>4, <1>5 DEF Next

(* The safety part of SendsEveryFrame: until a call of rtl8139_transmit    *)
(* overlaps the sending of a frame from the buffer all descriptors share,  *)
(* the frames leave unchanged, once and in order.                          *)
THEOREM SendsUnchanged == Spec => TxFifo!Spec
<1>1. Init => TxFifo!Init
  BY DEF Init, TxQueue, TxOut, TxFifo!Init
<1>2. QED BY <1>1, TxFifoStep, DriverInvariant, PTL DEF Spec, TxFifo!Spec
=============================================================================
