---------------------------- MODULE MCDeviceScan ----------------------------
(* DeviceScan on small instances for TLC. *)
EXTENDS DeviceScan
=============================================================================
