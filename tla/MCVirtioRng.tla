---------------------------- MODULE MCVirtioRng ----------------------------
(* The driver never has more than one request of its own under way, so two *)
(* descriptors show a reuse; counters wrap after 8.                        *)
EXTENDS VirtioRng
=============================================================================
