---------------------------- MODULE MCDeviceScan ----------------------------
(* Instances of the device scan for TLC: trees of up to MaxNodes nodes.    *)
EXTENDS DeviceScan
=============================================================================
