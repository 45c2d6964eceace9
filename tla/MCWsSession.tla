---------------------------- MODULE MCWsSession ----------------------------
(***************************************************************************)
(* Instances of WsClient for TLC.  Every outstanding ping but the first    *)
(* needs a control frame after the one before it, so MaxFrames + 1 slots   *)
(* are never all in use.                                                   *)
(***************************************************************************)
EXTENDS SessionInServer, FiniteSets

ASSUME EnoughSlots == Cardinality(Pings) > MaxFrames
=============================================================================
