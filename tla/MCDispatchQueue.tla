-------------------------- MODULE MCDispatchQueue --------------------------
(***************************************************************************)
(* Instances of DispatchQueue for TLC.  The cfg files give the thread sets *)
(* as model values: MCDispatchQueueWorkers.cfg has a pool of two workers,  *)
(* MCDispatchQueueSession.cfg is the queue of a session, which has none.   *)
(***************************************************************************)
EXTENDS DispatchQueue
=============================================================================
