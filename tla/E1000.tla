------------------------------- MODULE E1000 -------------------------------
(***************************************************************************)
(* drivers/e1000/e1000.c and the device: a receive and a transmit ring,    *)
(* one driver context, calls that never overlap.                           *)
(*                                                                         *)
(* Receive: the device fills descriptors from its head register up to, not *)
(* including, its tail register and sets DD; e1000_receive takes them in   *)
(* ring order and gives descriptors back by moving the tail, but only on   *)
(* its success path.  Transmit: the driver owns a descriptor while its DD  *)
(* bit is set and hands it over by moving the tail; the device works from  *)
(* the head to the tail.  No entry of the ring is kept free, so a full     *)
(* ring looks empty to the device.                                         *)
(***************************************************************************)
EXTENDS Naturals, Sequences, FiniteSets

CONSTANTS
  NumRx,        \* E1000_NUM_RX_DESC
  NumTx,        \* E1000_NUM_TX_DESC
  Frames,
  None,
  pkt_len,      \* the length of a frame
  Parts,        \* frames the device stores without EOP (part of a packet)
  BufferSizes,  \* the buffer_size arguments of the callers
  TxFrames      \* the frames of at most E1000_TX_BUFFER_SIZE bytes to send

ASSUME RingAssumption ==
  /\ NumRx \in Nat \ {0, 1} /\ NumTx \in Nat \ {0, 1}
  /\ None \notin Frames \cup TxFrames
  /\ Parts \subseteq Frames
  /\ pkt_len \in [Frames -> Nat]
  /\ BufferSizes \subseteq Nat

RxDescs == 0 .. (NumRx - 1)
TxDescs == 0 .. (NumTx - 1)

VARIABLES
  pc,           \* "idle", before the tail write of a call, or "reset"
  \* receive
  rx_frame,     \* per descriptor: the frame its DD status reports, or None
  rx_current,
  got,          \* the frame handed to the caller last
  failures,     \* receive calls that dropped a frame since the last success,
                \* counted up to NumRx
  late,         \* history: a frame arrived while init_context was running
  RDH, RDT,
  \* transmit
  tx_dd,        \* E1000_TXD_STAT_DD of each descriptor
  tx_buffers, tx_current,
  TDH, TDT,
  sending,      \* whether the device works on the descriptor at TDH
  wire          \* the frame it sent last

rx   == <<rx_frame, rx_current, got, failures, late, RDH, RDT>>
tx   == <<tx_dd, tx_buffers, tx_current, TDH, TDT, sending, wire>>
vars == <<pc, rx, tx>>

Succ(d, n) == (d + 1) % n

Init ==
  /\ pc = "idle"
  /\ rx_frame = [d \in RxDescs |-> None] /\ rx_current = 0
  /\ got = None /\ failures = 0 /\ late = FALSE
  /\ RDH = 0 /\ RDT = NumRx - 1
  /\ tx_dd = [d \in TxDescs |-> TRUE]
  /\ tx_buffers = [d \in TxDescs |-> None] /\ tx_current = 0
  /\ TDH = 0 /\ TDT = 0 /\ sending = FALSE /\ wire = None

----------------------------------------------------------------------------
(* e1000_receive.  Without DD it returns -1 and changes nothing. *)

Done == pc = "idle" /\ rx_frame[rx_current] # None

Unfit(size) ==
  \/ rx_frame[rx_current] \in Parts
  \/ pkt_len[rx_frame[rx_current]] > size

(* Seeded fault of Drop: the error return leaves rx_current where it is. *)
Drop_stay(size) ==
  /\ Done
  /\ Unfit(size)
  /\ rx_frame' = [rx_frame EXCEPT ![rx_current] = None]
  /\ failures' = IF failures < NumRx THEN failures + 1 ELSE NumRx
  /\ UNCHANGED <<pc, rx_current, got, late, RDH, RDT, tx>>

(* The error returns: the status is cleared, the tail does not move. *)
Drop(size) ==
  /\ Done
  /\ Unfit(size)
  /\ rx_frame' = [rx_frame EXCEPT ![rx_current] = None]
  /\ rx_current' = Succ(rx_current, NumRx)
  /\ failures' = IF failures < NumRx THEN failures + 1 ELSE NumRx
  /\ UNCHANGED <<pc, got, late, RDH, RDT, tx>>

(* The copy to the caller; the descriptor is reset. *)
Receive(size) ==
  /\ Done
  /\ ~Unfit(size)
  /\ got' = rx_frame[rx_current]
  /\ rx_frame' = [rx_frame EXCEPT ![rx_current] = None]
  /\ pc' = "rdt"
  /\ UNCHANGED <<rx_current, failures, late, RDH, RDT, tx>>

(* Seeded fault of WriteRDT: the tail is not moved. *)
WriteRDT_missing ==
  /\ pc = "rdt"
  /\ rx_current' = Succ(rx_current, NumRx)
  /\ failures' = 0
  /\ pc' = "idle"
  /\ UNCHANGED <<rx_frame, got, late, RDH, RDT, tx>>

(* The write of E1000_RDT and the move to the next descriptor. *)
WriteRDT ==
  /\ pc = "rdt"
  /\ RDT' = rx_current
  /\ rx_current' = Succ(rx_current, NumRx)
  /\ failures' = 0
  /\ pc' = "idle"
  /\ UNCHANGED <<rx_frame, got, late, RDH, tx>>

----------------------------------------------------------------------------
(* Seeded fault of Transmit: the DD bit is not looked at. *)
Transmit_unchecked(f) ==
  /\ pc = "idle"
  /\ tx_buffers' = [tx_buffers EXCEPT ![tx_current] = f]
  /\ tx_dd' = [tx_dd EXCEPT ![tx_current] = FALSE]
  /\ tx_current' = Succ(tx_current, NumTx)
  /\ pc' = "tdt"
  /\ UNCHANGED <<TDH, TDT, sending, wire, rx>>

(* e1000_transmit up to the tail: the free descriptor takes the frame.     *)
(* With its DD bit clear the call returns -1 and changes nothing.          *)
Transmit(f) ==
  /\ pc = "idle"
  /\ tx_dd[tx_current]
  /\ tx_buffers' = [tx_buffers EXCEPT ![tx_current] = f]
  /\ tx_dd' = [tx_dd EXCEPT ![tx_current] = FALSE]
  /\ tx_current' = Succ(tx_current, NumTx)
  /\ pc' = "tdt"
  /\ UNCHANGED <<TDH, TDT, sending, wire, rx>>

(* Seeded fault of WriteTDT: the tail names the descriptor just filled. *)
WriteTDT_inclusive ==
  /\ pc = "tdt"
  /\ TDT' = (tx_current + NumTx - 1) % NumTx
  /\ pc' = "idle"
  /\ UNCHANGED <<tx_dd, tx_buffers, tx_current, TDH, sending, wire, rx>>

(* The write of E1000_TDT. *)
WriteTDT ==
  /\ pc = "tdt"
  /\ TDT' = tx_current
  /\ pc' = "idle"
  /\ UNCHANGED <<tx_dd, tx_buffers, tx_current, TDH, sending, wire, rx>>

----------------------------------------------------------------------------
(* e1000_init_context on a device used before.  e1000_deinit_context does  *)
(* nothing: the receiver is on while its descriptors are cleared ...       *)
ReinitDescs ==
  /\ pc = "idle"
  /\ rx_frame' = [d \in RxDescs |-> None]
  /\ rx_current' = 0 /\ tx_current' = 0
  /\ failures' = 0 /\ got' = None /\ late' = FALSE
  /\ pc' = "reset"
  /\ UNCHANGED <<RDH, RDT, tx_dd, tx_buffers, TDH, TDT, sending, wire>>

(* ... and until its registers are written; then the transmit ring.  The   *)
(* write of TDH aborts what the device is sending; it goes on at the next  *)
(* write of TDT only.                                                      *)
ReinitRegs ==
  /\ pc = "reset"
  /\ RDH' = 0 /\ RDT' = NumRx - 1
  /\ tx_dd' = [d \in TxDescs |-> TRUE]
  /\ TDH' = 0 /\ TDT' = 0
  /\ sending' = FALSE /\ wire' = None
  /\ pc' = "idle"
  /\ UNCHANGED <<rx_frame, rx_current, got, failures, late, tx_buffers, tx_current>>

----------------------------------------------------------------------------
(* The device (external).  It looks at its registers, not at the status. *)
DevReceive(f) ==
  /\ RDH # RDT
  /\ rx_frame' = [rx_frame EXCEPT ![RDH] = f]
  /\ RDH' = Succ(RDH, NumRx)
  /\ late' = (late \/ pc = "reset")
  /\ UNCHANGED <<pc, rx_current, got, failures, RDT, tx>>

DevFetch ==
  /\ ~sending
  /\ TDH # TDT
  /\ sending' = TRUE
  /\ UNCHANGED <<pc, tx_dd, tx_buffers, tx_current, TDH, TDT, wire, rx>>

DevDone ==
  /\ sending
  /\ wire' = tx_buffers[TDH]
  /\ tx_dd' = [tx_dd EXCEPT ![TDH] = TRUE]
  /\ TDH' = Succ(TDH, NumTx)
  /\ sending' = FALSE
  /\ UNCHANGED <<pc, tx_buffers, tx_current, TDT, rx>>

Poll == \E size \in BufferSizes : Drop(size) \/ Receive(size)

Next ==
  \/ \E size \in BufferSizes : Drop(size)
  \/ \E size \in BufferSizes : Receive(size)
  \/ WriteRDT
  \/ \E f \in TxFrames : Transmit(f)
  \/ WriteTDT
  \/ ReinitDescs
  \/ ReinitRegs
  \/ \E f \in Frames : DevReceive(f)
  \/ DevFetch
  \/ DevDone

Spec == Init /\ [][Next]_vars

(* The applications call receive again and again, whatever else they call; *)
(* a call runs to its end; the device sends what it finds in the ring.     *)
FairSpec ==
  Spec /\ SF_vars(Poll) /\ WF_vars(WriteRDT \/ WriteTDT \/ ReinitRegs)
       /\ WF_vars(DevFetch) /\ WF_vars(DevDone)

----------------------------------------------------------------------------
Outstanding == Cardinality({d \in TxDescs : ~tx_dd[d]})

(* Types of the two rings; the current indices and the registers name      *)
(* descriptors, and fewer calls fail in a row than the ring has entries.   *)
TypeOK ==
  /\ pc \in {"idle", "rdt", "tdt", "reset"}
  /\ rx_frame \in [RxDescs -> Frames \cup {None}]
  /\ {rx_current, RDH, RDT} \subseteq RxDescs
  /\ got \in Frames \cup {None}
  /\ failures \in 0 .. IF late THEN NumRx ELSE NumRx - 1
  /\ late \in BOOLEAN
  /\ tx_dd \in [TxDescs -> BOOLEAN]
  /\ tx_buffers \in [TxDescs -> TxFrames \cup {None}]
  /\ {tx_current, TDH, TDT} \subseteq TxDescs
  /\ sending \in BOOLEAN
  /\ wire \in TxFrames \cup {None}

(* What the receive properties need: no initialisation is under way, and   *)
(* no frame arrived during the last one.                                   *)
Settled == pc # "reset" /\ ~late

(* The descriptors the device may fill. *)
FreeDescs == {(RDH + k) % NumRx : k \in 0 .. ((RDT + NumRx - RDH) % NumRx) - 1}

Filled == {d \in RxDescs : rx_frame[d] # None}

(* Every receive descriptor but one is free for the device, filled, or     *)
(* lost to a failed call.                                                  *)
FailuresShrinkRing ==
  Settled =>
    Cardinality(FreeDescs) + Cardinality(Filled) + failures
      + (IF pc = "rdt" THEN 1 ELSE 0) = NumRx - 1

(* Refinement: received frames reach the caller unchanged, once, in order. *)
RxQueue ==
  IF Settled
    THEN [k \in 1 .. Cardinality(Filled) |->
            rx_frame[(rx_current + k - 1 + (IF pc = "rdt" THEN 1 ELSE 0)) % NumRx]]
    ELSE <<>>

RxOut == IF Settled THEN got ELSE None

RxFifo ==
  INSTANCE FrameFifo
    WITH pending <- RxQueue, out <- RxOut, Capacity <- NumRx, MayDiscard <- TRUE

(* e1000_receive hands over what the device stored, in order; a failed     *)
(* call drops one frame; a polling caller sees every frame leave.          *)
ReceivesInOrder == RxFifo!FairSpec

(* "Update RX tail pointer to make descriptor available again" (e1000.c):  *)
(* with a caller that keeps polling the device always gets descriptors     *)
(* again.  It is starved only by a frame that arrived in init_context or   *)
(* when a whole ring of frames in a row did not fit.                       *)
KeepsReceiving == []<>(RDH # RDT \/ late \/ failures >= NumRx - 1)

(* The descriptors not sent yet follow the head: those without the DD bit. *)
Unsent == {(TDH + k) % NumTx : k \in 0 .. Outstanding - 1}

(* The waiting descriptors are those from the head on, and the device,     *)
(* when it finds head = tail, has nothing to do or a ring that is full.    *)
OnlyFullStalls ==
  /\ Unsent = {d \in TxDescs : ~tx_dd[d]}
  /\ (TDH = TDT /\ pc = "idle") => Outstanding \in {0, NumTx}

(* The descriptors' status bits, the driver's indices and the head and     *)
(* tail registers of both rings agree at every step.  Each error return of *)
(* e1000_receive shrinks the receive ring by one until the next success    *)
(* restores them all; a transmit ring stops only when it was filled up.    *)
RingsAgree == TypeOK /\ FailuresShrinkRing /\ OnlyFullStalls

(* Refinement: accepted frames leave unchanged, once and in order.         *)
TxQueue == [k \in 1 .. Outstanding |-> tx_buffers[(TDH + k - 1) % NumTx]]

TxFifo ==
  INSTANCE FrameFifo
    WITH pending <- TxQueue, out <- wire, Frames <- TxFrames,
         Capacity <- NumTx, MayDiscard <- FALSE

(* e1000_transmit "@return 0 on success" (e1000.h): the frame is sent once,*)
(* unchanged, in the order of the calls.                                   *)
SendsIntact == TxFifo!Spec

(* ... and it leaves, unless the ring was filled to the last descriptor    *)
(* before the device looked: then head and tail are equal for good.        *)
HeadLeaves ==
  \A d \in TxDescs :
    (TDH = d /\ ~tx_dd[d]) ~>
      (TDH # d \/ tx_dd[d] \/ (TDH = TDT /\ Outstanding = NumTx))

=============================================================================
