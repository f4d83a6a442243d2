------------------------------ MODULE MCE1000 ------------------------------
(* Three receive and two transmit descriptors: each ring wraps and can be *)
(* full, empty and between.  `small' fits every buffer, `large' only the  *)
(* larger one, `part' is a frame without EOP.                             *)
EXTENDS E1000

CONSTANTS small, large, part
MCFrames == {small, large, part}
MCTxFrames == {small, large}
MCpkt_len == [f \in MCFrames |-> IF f = large THEN 2 ELSE 1]
MCParts == {part}
=============================================================================
