--------------------------- MODULE MCVirtioNetTx ---------------------------
(* Two descriptors; the rings wrap after 2 (MMIO) or 4 (PCI) entries and   *)
(* the counters after 8, so every index wraps within a few calls.          *)
EXTENDS VirtioNetTx

CONSTANTS f1, f2

MCFrames == {f1, f2}
=============================================================================
