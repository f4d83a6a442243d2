----------------------------- MODULE MCRtl8139 -----------------------------
(* A ring of 6 words: one frame and a part of the next, so frames          *)
(* cross the end.  The CRC of `short' reads as a header without ROK, that  *)
(* of `long' as a valid one of length 2; the data the other way round, of  *)
(* length 1.                                                               *)
EXTENDS Rtl8139

CONSTANTS short, long
MCFrames == {short, long}
MCflen == [f \in MCFrames |-> IF f = short THEN 1 ELSE 2]
MCcrc_hdr == [f \in MCFrames |-> IF f = short THEN BadHeader ELSE [ok |-> TRUE, len |-> 2]]
MCdata_hdr == [f \in MCFrames |-> IF f = long THEN BadHeader ELSE [ok |-> TRUE, len |-> 1]]
=============================================================================
