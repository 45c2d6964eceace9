------------------------------- MODULE MCCsv -------------------------------
(***************************************************************************)
(* Instances of Csv for TLC.                                               *)
(***************************************************************************)
EXTENDS Csv
=============================================================================
