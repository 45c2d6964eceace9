-------------------------- MODULE WsListener_proofs --------------------------
(***************************************************************************)
(* Safety of the listener and of finish(), for any number of connections.  *)
(***************************************************************************)
EXTENDS WsListener, TLAPS

USE DEF threads, counts, isAccepting, Accepted, StopThen, JoinWhen

\* The result of an accept tells what else happened.
AcceptInv ==
    /\ accept = "ok" => started < MaxSessions
    /\ accept = "ok" /\ isAccepting /\ ~disturbed => socket_
    /\ accept = "error" => disturbed
    /\ accept = "aborted" => ~isAccepting

\* The handler of stop() closes the acceptor for good.
StopInv == needClose_ => ~isAccepting

\* The io threads start with run(), and nothing starts when they have exited.
ThreadsInv ==
    /\ ioc = "new" <=> main = "starting"
    /\ ioc = "exited" => accept = "none" /\ live = 0
    /\ main = "joined" => ioc = "exited"
    /\ main = "starting" => ~needClose_

IInv ==
    TypeOK /\ AcceptInv /\ StopInv /\ ThreadsInv /\ AcceptLoopAlive /\ ServesUntilStopped

-----------------------------------------------------------------------------
LEMMA InitIInv == ASSUME Init PROVE IInv
  <1> USE SessionsAssumption DEF Init
  <1>1. TypeOK
    <2>1. live \in Nat /\ started \in 0..MaxSessions
      OBVIOUS
    <2> QED
      BY <2>1, Zenon DEF TypeOK
  <1>2. AcceptInv /\ StopInv /\ ThreadsInv
    BY DEF AcceptInv, StopInv, ThreadsInv
  <1>3. AcceptLoopAlive /\ ServesUntilStopped
    BY DEF AcceptLoopAlive, ServesUntilStopped
  <1> QED
    BY <1>1, <1>2, <1>3 DEF IInv

LEMMA StepIInv == ASSUME IInv, [Next]_vars PROVE IInv'
  <1> USE SessionsAssumption
      DEF IInv, TypeOK, AcceptInv, StopInv, ThreadsInv, AcceptLoopAlive, ServesUntilStopped
  <1>1. CASE Run
    BY <1>1 DEF Run
  <1>2. CASE Arrive
    BY <1>2 DEF Arrive
  <1>3. CASE AcceptFails
    BY <1>3 DEF AcceptFails
  <1>4. CASE OnAcceptReturns
    BY <1>4 DEF OnAcceptReturns, Continues
  <1>5. CASE OnAccept
    <2>1. CASE accept = "ok"
      <3>1. /\ started' = started + 1 /\ live' = live + 1
            /\ accept' = "pending"
            /\ ioc = "running"
            /\ UNCHANGED <<acceptor_, needClose_, stop, ioc, main, client, disturbed>>
        BY <1>5, <2>1 DEF OnAccept
      <3>2. socket_' = FALSE
        BY <1>5, <2>1 DEF OnAccept
      <3>3. started' \in 0..MaxSessions /\ live' \in Nat
        BY <2>1, <3>1
      <3>4. socket_' \in BOOLEAN
        BY <3>2, Zenon
      <3>5. TypeOK'
        BY <3>1, <3>3, <3>4
      <3> QED
        BY <3>1, <3>5
    <2>2. CASE accept # "ok"
      <3>1. UNCHANGED <<live, started, socket_>> /\ accept' = "pending"
        BY <1>5, <2>2 DEF OnAccept
      <3> QED
        BY <1>5, <3>1 DEF OnAccept, Continues
    <2> QED
      BY <2>1, <2>2
  <1>6. CASE AddClientSession
    BY <1>6 DEF AddClientSession
  <1>7. CASE SessionEnds
    BY <1>7 DEF SessionEnds
  <1>8. CASE Finish
    BY <1>8 DEF Finish
  <1>9. CASE RunStop
    BY <1>9 DEF RunStop
  <1>10. CASE IocExits
    BY <1>10 DEF IocExits, OutOfWork
  <1>11. CASE Join
    BY <1>11 DEF Join
  <1>12. CASE UNCHANGED vars
    BY <1>12 DEF vars
  <1> QED
    BY <1>1, <1>2, <1>3, <1>4, <1>5, <1>6, <1>7, <1>8, <1>9, <1>10, <1>11, <1>12
       DEF Next, Listener, Terminated

\* The inductive invariant of the listener.
THEOREM IInvHolds == Spec => []IInv
  BY InitIInv, StepIInv, PTL DEF Spec

\* The types of the listener, for any number of connections.
THEOREM TypeCorrect == Spec => []TypeOK
  BY IInvHolds, PTL DEF IInv

\* While no accept fails, an open acceptor has an accept outstanding.
THEOREM AcceptsGoOn == Spec => []AcceptLoopAlive
  BY IInvHolds, PTL DEF IInv

\* ioc_.run() does not return under an open acceptor whose loop was not disturbed.
THEOREM ThreadsStay == Spec => []ServesUntilStopped
  BY IInvHolds, PTL DEF IInv

\* When finish() returns, the accept loop and the accepted sessions have ended.
THEOREM FinishIsQuiet == Spec => []JoinedIsQuiet
  <1>1. IInv => JoinedIsQuiet
    BY DEF IInv, ThreadsInv, JoinedIsQuiet
  <1> QED
    BY <1>1, IInvHolds, PTL

\* No session is started once the handler of stop() has run, also not for a
\* connection that was accepted before.
THEOREM StopIsFinal == Spec => NoSessionAfterStop
  <1>1. ASSUME IInv, [Next]_vars PROVE [needClose_ => started' = started]_vars
    BY <1>1 DEF IInv, StopInv, Next, Listener, Terminated, Run, Arrive, AcceptFails, OnAcceptReturns,
                OnAccept, Continues, AddClientSession, SessionEnds, Finish, RunStop, IocExits,
                Join, vars
  <1> QED
    BY <1>1, IInvHolds, PTL DEF Spec, NoSessionAfterStop
=============================================================================
