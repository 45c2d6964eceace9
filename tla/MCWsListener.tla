---------------------------- MODULE MCWsListener ----------------------------
(***************************************************************************)
(* Instances of WsListener for TLC.                                        *)
(***************************************************************************)
EXTENDS WsListener
=============================================================================
