----------------------------- MODULE FrameFifo -----------------------------
(***************************************************************************)
(* What one direction of a network driver promises: a bounded FIFO of      *)
(* frames.  A frame that is accepted leaves unchanged, once, in the order  *)
(* of acceptance.  The receiving side may discard the frame at the head    *)
(* (a receive call that returns an error); a reset drops what is queued.   *)
(***************************************************************************)
EXTENDS Naturals, Sequences

CONSTANTS
  Frames,
  None,
  Capacity,
  MayDiscard    \* whether the consumer may drop the head

VARIABLES
  pending,      \* accepted, not yet handed over
  out           \* the frame handed over last

vars == <<pending, out>>

Init == pending = <<>> /\ out = None

Accept(f) ==
  /\ Len(pending) < Capacity
  /\ pending' = Append(pending, f)
  /\ UNCHANGED out

Deliver ==
  /\ pending # <<>>
  /\ out' = Head(pending)
  /\ pending' = Tail(pending)

Discard ==
  /\ MayDiscard
  /\ pending # <<>>
  /\ pending' = Tail(pending)
  /\ UNCHANGED out

Reset ==
  /\ pending' = <<>>
  /\ out' = None

Next == (\E f \in Frames : Accept(f)) \/ Deliver \/ Discard \/ Reset

Spec == Init /\ [][Next]_vars

(* A queued frame does not wait for ever. *)
FairSpec == Spec /\ WF_vars(Deliver \/ Discard)

=============================================================================
