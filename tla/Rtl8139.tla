------------------------------ MODULE Rtl8139 ------------------------------
(***************************************************************************)
(* drivers/rtl8139/rtl8139.c and the device.  Receive: the device stores   *)
(* header, frame and CRC one after the other in a ring of bytes and runs   *)
(* past the end of the ring instead of wrapping inside a frame; the driver *)
(* follows with a read offset.  Transmit: four descriptors that all point  *)
(* to one buffer.                                                          *)
(*                                                                         *)
(* The unit of the ring is the 4-byte word to which the device aligns:     *)
(* header and CRC take one word each, a frame its data words.              *)
(***************************************************************************)
EXTENDS Integers, Sequences

CONSTANTS
  RingWords,       \* 8192 bytes
  Frames, None,
  Garbage,         \* bytes that are no frame the device received
  flen,            \* data words of a frame
  crc_hdr,         \* a frame's CRC, when it is read as a packet header
  data_hdr,        \* ... and a word of its data
  BufferSizes,     \* the buffer_size arguments of the callers
  MaxOutstanding   \* bound on the frames the callers leave unsent at a time

BadHeader == [ok |-> FALSE, len |-> 0]

ASSUME SizeAssumption ==
  /\ RingWords \in Nat /\ Frames # {}
  /\ flen \in [Frames -> 1 .. RingWords - 3]
  /\ {crc_hdr, data_hdr} \subseteq [Frames -> [ok : BOOLEAN, len : Nat]]
  /\ MaxOutstanding \in 1 .. 4
  /\ None \notin Frames /\ Garbage \notin Frames

VARIABLES
  pc,              \* "down", "rxbuf" (between two steps of init), "up"
  rx_buffer, RxPtr,
  got,             \* the frame handed to the caller last
  delivered,       \* successful receive calls since init, counted up to 2
  RxAddr,          \* where the device stores next
  stored,          \* the frames it stored and no call returned
  early,           \* history: a frame arrived while init_context was running
  tx_current, tx_buffer,
  unsent,          \* descriptors handed over and not sent
  wire,            \* the frame sent last
  overlap          \* history: a call came before the last frame was sent

rx   == <<rx_buffer, RxPtr, got, delivered, RxAddr, stored, early>>
tx   == <<tx_current, tx_buffer, unsent, wire, overlap>>
vars == <<pc, rx, tx>>

MaxLen == CHOOSE n \in {flen[f] : f \in Frames} : \A f \in Frames : flen[f] <= n
Words  == 0 .. (RingWords + MaxLen)
Cell(kind, f, i) == [kind |-> kind, frame |-> f, i |-> i]
ZeroCell == Cell("zero", None, 0)

Init ==
  /\ pc = "down"
  /\ rx_buffer = [w \in Words |-> ZeroCell]
  /\ RxPtr = 0 /\ RxAddr = 0 /\ stored = <<>>
  /\ got = None /\ delivered = 0 /\ early = FALSE
  /\ tx_current = 0 /\ tx_buffer = None /\ unsent = <<>> /\ wire = None
  /\ overlap = FALSE

----------------------------------------------------------------------------
(* rtl8139_init_context, also on a device used before (deinit_context does *)
(* nothing): the software reset, then receiver and transmitter on ...      *)
ResetEnable ==
  /\ pc \in {"down", "up"}
  /\ RxAddr' = 0 /\ RxPtr' = 0 /\ stored' = <<>>
  /\ got' = None /\ delivered' = 0 /\ early' = FALSE
  /\ tx_current' = 0 /\ unsent' = <<>> /\ wire' = None /\ overlap' = FALSE
  /\ pc' = "rxbuf"
  /\ UNCHANGED <<rx_buffer, tx_buffer>>

(* Seeded fault of SetRxBuf: CAPR is written as 0 without the offset of a  *)
(* word that the register has, and reading starts one word early.          *)
SetRxBuf_early ==
  /\ pc = "rxbuf"
  /\ RxPtr' = RingWords - 1
  /\ pc' = "up"
  /\ UNCHANGED <<rx_buffer, got, delivered, RxAddr, stored, early, tx>>

(* ... and only then the address of rx_buffer and the read offset. *)
SetRxBuf ==
  /\ pc = "rxbuf"
  /\ RxPtr' = 0
  /\ pc' = "up"
  /\ UNCHANGED <<rx_buffer, got, delivered, RxAddr, stored, early, tx>>

(* The word at an offset, taken as a packet header, whatever the device or *)
(* a frame put there: ROK and the length.                                  *)
Header(w) ==
  LET c == rx_buffer[w]
  IN  CASE c.kind = "hdr" -> [ok |-> TRUE, len |-> flen[c.frame] + 1]
        [] c.kind = "crc" -> crc_hdr[c.frame]
        [] c.kind = "data" -> data_hdr[c.frame]
        [] OTHER -> BadHeader

(* The n data words after the header at w, as the driver copies them. *)
FrameAt(w, n) ==
  LET data == [i \in 1 .. n |-> rx_buffer[(w + i) % RingWords]]
      Is(f) == n = flen[f] /\ \A i \in 1 .. n : data[i] = Cell("data", f, i)
  IN  IF \E f \in Frames : Is(f) THEN CHOOSE f \in Frames : Is(f) ELSE Garbage

(* Seeded fault of Receive: the copy starts at the header. *)
Receive_header(size) ==
  LET n == Header(RxPtr).len - 1
  IN  /\ pc = "up"
      /\ RxAddr # RxPtr
      /\ Header(RxPtr).ok /\ n >= 0 /\ n <= size
      /\ got' = FrameAt((RxPtr - 1) % RingWords, n)
      /\ RxPtr' = (RxPtr + n + 1) % RingWords
      /\ delivered' = IF delivered < 2 THEN delivered + 1 ELSE 2
      /\ stored' = IF stored = <<>> THEN <<>> ELSE Tail(stored)
      /\ UNCHANGED <<pc, rx_buffer, RxAddr, early, tx>>

(* rtl8139_receive.  CRC_LEN is taken off packet_length before the offset  *)
(* is advanced by it.  On BUFE, a header without ROK, a length below 4 or  *)
(* a frame longer than the buffer the call returns -1 and the read offset  *)
(* stays.                                                                  *)
Receive(size) ==
  LET n == Header(RxPtr).len - 1
  IN  /\ pc = "up"
      /\ RxAddr # RxPtr
      /\ Header(RxPtr).ok /\ n >= 0 /\ n <= size
      /\ got' = FrameAt(RxPtr, n)
      /\ RxPtr' = (RxPtr + n + 1) % RingWords
      /\ delivered' = IF delivered < 2 THEN delivered + 1 ELSE 2
      /\ stored' = IF stored = <<>> THEN <<>> ELSE Tail(stored)
      /\ UNCHANGED <<pc, rx_buffer, RxAddr, early, tx>>

(* Seeded faults of Transmit: the index of the next descriptor does not    *)
(* wrap; the descriptor is started before the copy.                        *)
Transmit_nowrap(f) ==
  /\ pc = "up"
  /\ Len(unsent) < MaxOutstanding
  /\ tx_buffer' = f
  /\ unsent' = Append(unsent, tx_current)
  /\ tx_current' = tx_current + 1
  /\ overlap' = (overlap \/ unsent # <<>>)
  /\ UNCHANGED <<pc, rx, wire>>

Transmit_early(f) ==
  /\ pc = "up"
  /\ Len(unsent) < MaxOutstanding
  /\ tx_buffer' = tx_buffer
  /\ unsent' = Append(unsent, tx_current)
  /\ tx_current' = (tx_current + 1) % 4
  /\ overlap' = (overlap \/ unsent # <<>>)
  /\ UNCHANGED <<pc, rx, wire>>

(* rtl8139_transmit: the copy to tx_buffer and the writes of TXADDR and    *)
(* TXSTATUS.  Whether the descriptor is still busy is not looked at;       *)
(* MaxOutstanding bounds the model, the code has no such guard.            *)
Transmit(f) ==
  /\ pc = "up"
  /\ Len(unsent) < MaxOutstanding
  /\ tx_buffer' = f
  /\ unsent' = Append(unsent, tx_current)
  /\ tx_current' = (tx_current + 1) % 4
  /\ overlap' = (overlap \/ unsent # <<>>)
  /\ UNCHANGED <<pc, rx, wire>>

----------------------------------------------------------------------------
(* The device (external).  A frame is stored when it leaves at least one   *)
(* word free (or the ring is empty), without wrapping; before RXBUF is     *)
(* written it goes to another address.                                     *)
DevReceive(f) ==
  LET free == (RxPtr - RxAddr) % RingWords
      need == flen[f] + 2
      At(w) == LET i == w - RxAddr
               IN  CASE i = 0 -> Cell("hdr", f, 0)
                     [] i \in 1 .. flen[f] -> Cell("data", f, i)
                     [] i = flen[f] + 1 -> Cell("crc", f, 0)
                     [] OTHER -> rx_buffer[w]
  IN  /\ pc \in {"rxbuf", "up"}
      /\ free = 0 \/ need < free
      /\ rx_buffer' = IF pc = "up" THEN [w \in Words |-> At(w)] ELSE rx_buffer
      /\ RxAddr' = (RxAddr + need) % RingWords
      /\ stored' = IF pc = "up" THEN Append(stored, f) ELSE stored
      /\ early' = (early \/ pc = "rxbuf")
      /\ UNCHANGED <<pc, RxPtr, got, delivered, tx>>

DevSend ==
  /\ unsent # <<>>
  /\ wire' = tx_buffer
  /\ unsent' = Tail(unsent)
  /\ UNCHANGED <<pc, rx, tx_current, tx_buffer, overlap>>

Poll == \E size \in BufferSizes : Receive(size)

Next ==
  \/ ResetEnable
  \/ SetRxBuf
  \/ Poll
  \/ \E f \in Frames : Transmit(f)
  \/ \E f \in Frames : DevReceive(f)
  \/ DevSend

Spec == Init /\ [][Next]_vars

(* init_context runs to its end, the applications poll in an endless loop  *)
(* and the device sends.                                                   *)
FairSpec == Spec /\ WF_vars(SetRxBuf) /\ WF_vars(Poll) /\ WF_vars(DevSend)

----------------------------------------------------------------------------
(* Types of the driver's and the device's state; offsets stay in the ring   *)
(* and tx_current names one of the four descriptors.                        *)
TypeOK ==
  /\ pc \in {"down", "rxbuf", "up"}
  /\ \A w \in Words : rx_buffer[w].kind \in {"zero", "hdr", "data", "crc"}
  /\ {RxPtr, RxAddr} \subseteq 0 .. RingWords - 1
  /\ got \in Frames \cup {None, Garbage}
  /\ delivered \in 0 .. 2
  /\ stored \in Seq(Frames)
  /\ {early, overlap} \subseteq BOOLEAN
  /\ tx_current \in 0 .. 3
  /\ tx_buffer \in Frames \cup {None}
  /\ unsent \in Seq(0 .. 3) /\ Len(unsent) <= MaxOutstanding
  /\ wire \in Frames \cup {None}

(* The first frame returned after an initialisation is the first one the   *)
(* device stored since, unchanged, whatever an earlier use left behind,    *)
(* provided that nothing arrived while rtl8139_init_context was between    *)
(* enabling the receiver and setting the buffer.                           *)
FirstFrameIntact ==
  [][~early /\ delivered = 0 /\ delivered' = 1 => got' = Head(stored)]_vars

(* Under the same condition a frame the device stored after an             *)
(* initialisation reaches a caller that polls with a buffer it fits in.    *)
FirstFrameArrives ==
  (stored # <<>> /\ ~early) ~> (delivered > 0 \/ pc = "rxbuf")

(* Refinement: a frame is in the FIFO from the call until it is sent, as   *)
(* long as no call overlapped the sending of the frame before.             *)
TxQueue == IF overlap THEN <<>> ELSE [k \in DOMAIN unsent |-> tx_buffer]
TxOut == IF overlap THEN None ELSE wire

TxFifo ==
  INSTANCE FrameFifo
    WITH pending <- TxQueue, out <- TxOut, Capacity <- 4, MayDiscard <- FALSE

(* rtl8139_transmit, "@return 0 on success" (rtl8139.h): every accepted    *)
(* frame is sent unchanged, in order, until a call is made while a frame   *)
(* is unsent in the buffer that all descriptors share.                     *)
SendsEveryFrame == TxFifo!FairSpec

(* What rtl8139_receive returns 0 for, "Receive a packet from rtl8139      *)
(* device" (rtl8139.h): each successful call hands over the oldest frame   *)
(* that the device stored and no call returned.  The read offset advances  *)
(* over header and data but not over the CRC, so the second call takes the *)
(* CRC for a header: the code does not have this property.                 *)
EveryFrameIntact ==
  [][Poll /\ ~early => stored # <<>> /\ got' = Head(stored)]_vars
=============================================================================
