--------------------------- MODULE MCVirtioNetRx ---------------------------
(* Two descriptors, rings of 2 (MMIO) and 4 (PCI) entries, counters that   *)
(* wrap after 8.  With a header of 1 and a maximum of 4, `small' fits      *)
(* every buffer, `large' only the larger one and `runt' is refused by the  *)
(* length checks.                                                          *)
EXTENDS VirtioNetRx

CONSTANTS small, large, runt

MCFrames == {small, large, runt}
MCGoodFrames == {small, large}
MCpacket_len == [f \in MCFrames |-> IF f = small THEN 3 ELSE IF f = large THEN 4 ELSE 0]
MCGood_len == [f \in MCGoodFrames |-> IF f = small THEN 3 ELSE 4]
=============================================================================
