---------------------------- MODULE MCCoapClient ----------------------------
(* CoapClient on small instances for TLC. *)
EXTENDS CoapClient
=============================================================================
