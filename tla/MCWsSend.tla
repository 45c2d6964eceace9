------------------------------ MODULE MCWsSend ------------------------------
(***************************************************************************)
(* Instances of WsSend for TLC.                                            *)
(***************************************************************************)
EXTENDS WsSend
=============================================================================
