--------------------------- MODULE WsClient_proofs ---------------------------
(***************************************************************************)
(* The safety of a session, for any number of frames and outstanding       *)
(* pings.  First WsSession, an accepted session: types, the timer that     *)
(* guards a registered session, the read loop, what happens to half a      *)
(* message, and the two periods before a timeout.  Then WsClient, a        *)
(* session in both roles: the same without what only an accepted session   *)
(* can rely on, and with what the main thread of the client does between   *)
(* the handlers.                                                           *)
(***************************************************************************)
EXTENDS WsClient, TLAPS

USE DEF peer, timing, seen, Activity, ReadErrorThen, MessageThen, TimerMovedThen,
        TimerClosesThen, WaitFor, WaitForgotten

\* Before runAsServer nothing was started.
NotStarted == expiry = "never" => stream = "handshake" /\ \A o \in Ops : op[o] = "none"

\* The websocket is opened, and read from, only after its handshake is over.
HandshakeFirst == op["accept"] # "none" => stream = "handshake" /\ op["read"] = "none"

\* Each of "the deadline passed" and "a ping was sent since the last control
\* frame" accounts for one period without a control frame.
GraceInv ==
    /\ expiry = "past" => periods >= 1
    /\ pingState_ # "ALIVE" => periods >= 1
    /\ expiry = "past" /\ pingState_ # "ALIVE" => periods = 2

IInv ==
    /\ TypeOK
    /\ NotStarted
    /\ HandshakeFirst
    /\ TimerGuards
    /\ WaitsForDeadline
    /\ ReadLoopAlive
    /\ TruncatedNotServed
    /\ GraceInv

-----------------------------------------------------------------------------
LEMMA OpNames ==
    /\ "accept" \in Ops /\ "read" \in Ops /\ "timer" \in Ops
    /\ \A p \in Pings : p \in Ops /\ p # "accept" /\ p # "read" /\ p # "timer"
  BY PingsAssumption DEF Ops

\* What each operation may be; the part of TypeOK about op.
OpOK ==
    /\ op \in [Ops -> {"none", "pending"} \cup Results]
    /\ op["timer"] \in {"none", "pending", "ok", "aborted"}
    /\ op["accept"] \in {"none", "pending", "ok", "error", "aborted"}
    /\ \A p \in Pings : op[p] \in {"none", "pending", "ok", "error", "aborted"}

\* What the last wait may be; the part of TypeOK about wait.
WaitOK == wait \in [till : {"never", "future"}, cancellable : BOOLEAN]

\* The results an operation can have: a read any frame, the wait only its own.
CompletesAs(o, r) == o # "timer" /\ (o # "read" => r \in {"ok", "error", "aborted"})

LEMMA InitIInv == Init => IInv
  <1> SUFFICES ASSUME Init PROVE IInv
    OBVIOUS
  <1> USE DEF Init
  <1>1. TypeOK
    <2>1. <<>> \in Seq(Frames) /\ <<>> \in Seq({"msg", "partial"})
      OBVIOUS
    <2>2. op \in [Ops -> {"none", "pending"} \cup Results] /\ \A o \in Ops : op[o] = "none"
      OBVIOUS
    <2>3. OpOK
      BY <2>2, OpNames DEF OpOK
    <2>4. /\ stream \in {"handshake", "open", "closed", "failed"} /\ socket \in BOOLEAN
          /\ expiry \in {"never", "future", "past"} /\ pingState_ \in {"ALIVE", "SENDING", "SENT"}
          /\ registered \in BOOLEAN /\ sawEmpty \in BOOLEAN /\ assertFailed \in BOOLEAN
          /\ wait \in [till : {"never", "future"}, cancellable : BOOLEAN]
          /\ isFullyCreated_ \in BOOLEAN
      BY Zenon
    <2>5. inbox \in Seq(Frames) /\ queued \in Seq({"msg", "partial"}) /\ sent \in Nat /\ periods \in 0..2
      BY <2>1
    <2> HIDE DEF Init
    <2> QED
      BY <2>3, <2>4, <2>5 DEF TypeOK, OpOK
  <1>2. /\ NotStarted /\ HandshakeFirst /\ TimerGuards /\ WaitsForDeadline /\ ReadLoopAlive
        /\ TruncatedNotServed /\ GraceInv
    BY OpNames DEF NotStarted, HandshakeFirst, TimerGuards, WaitsForDeadline, ReadLoopAlive,
                   TruncatedNotServed, GraceInv, isOpen
  <1> QED
    BY <1>1, <1>2 DEF IInv

\* Operation o ends with r, which may be the next frame of inbox.
Completes(o, r) ==
    /\ Complete(o, r)
    /\ CompletesAs(o, r)
    /\ inbox' \in {inbox, Tail(inbox)}
    /\ inbox' # inbox => inbox # <<>>

LEMMA NetworkCases ==
    ASSUME TypeOK, Network
    PROVE  \/ \E f \in Frames : PeerSends(f)
           \/ \E o \in Ops, r \in Results : Completes(o, r)
  <1>1. CASE FrameArrives
    <2>1. Head(inbox) \in Frames
      BY <1>1 DEF FrameArrives, Readable, TypeOK
    <2> QED
      BY <1>1, <2>1, OpNames DEF FrameArrives, Readable, Completes, CompletesAs, Results
  <1>2. CASE OpEnds
    BY <1>2, OpNames DEF OpEnds, Completes, CompletesAs, Results
  <1>3. CASE OpOnClosedSocket
    BY <1>3, OpNames DEF OpOnClosedSocket, Completes, CompletesAs, Results
  <1> QED
    BY <1>1, <1>2, <1>3 DEF Network

\* Every step is a handler, the completion of an operation, or the peer's.
LEMMA StepCases ==
    ASSUME TypeOK, [Next]_vars
    PROVE  \/ \E f \in Frames : PeerSends(f)
           \/ \E o \in Ops, r \in Results : Completes(o, r)
           \/ Elapse
           \/ RunAsServer \/ OnAccept \/ OnControlCallback
           \/ OnReadClosed \/ OnReadAborted \/ OnReadError \/ OnReadEmpty \/ OnReadMessage
           \/ \E p \in Pings : OnPing(p)
           \/ OnTimerMoved \/ OnTimerPing \/ OnTimerClose
           \/ OnWriteError
           \/ UNCHANGED vars
  <1>1. CASE Handler
    BY <1>1 DEF Handler, StrandHandler, OnRead, OnTimer
  <1>2. CASE Environment
    BY <1>2, NetworkCases DEF Environment
  <1>3. CASE Terminated \/ UNCHANGED vars
    BY <1>3 DEF Terminated
  <1> QED
    BY <1>1, <1>2, <1>3 DEF Next

\* The facts about the operations and the state of the session.
ControlInv ==
    NotStarted /\ HandshakeFirst /\ TimerGuards /\ WaitsForDeadline /\ ReadLoopAlive

LEMMA ControlStep ==
    ASSUME TypeOK, ControlInv, [Next]_vars
    PROVE  ControlInv'
  <1> USE OpNames DEF ControlInv, NotStarted, HandshakeFirst, TimerGuards, WaitsForDeadline,
                      ReadLoopAlive, isOpen, TypeOK
  <1>1. ASSUME NEW f \in Frames, PeerSends(f) PROVE ControlInv'
    BY <1>1 DEF PeerSends
  <1>2. ASSUME NEW o \in Ops, NEW r \in Results, Completes(o, r) PROVE ControlInv'
    BY <1>2 DEF Completes, Complete, Results, Frames
  <1>3. CASE Elapse
    BY <1>3 DEF Elapse
  <1>4. CASE RunAsServer
    BY <1>4 DEF RunAsServer
  <1>5. CASE OnAccept
    BY <1>5 DEF OnAccept, Results, Frames
  <1>6. CASE OnControlCallback
    <2>1. /\ op'["accept"] = op["accept"] /\ op'["read"] = "pending"
          /\ op["timer"] # "none" => op'["timer"] # "none"
          /\ op'["timer"] # "pending"
      BY <1>6 DEF OnControlCallback, WaitCancelled
    <2>2. /\ op["accept"] = "none"
          /\ expiry # "never" /\ expiry' = "future" /\ pingState_' = "ALIVE"
          /\ UNCHANGED <<stream, isFullyCreated_, registered, sawEmpty>>
      BY <1>6 DEF OnControlCallback, RemoteActivity
    <2> QED
      BY <2>1, <2>2
  <1>7. CASE OnReadClosed
    <2>1. /\ op'["accept"] = op["accept"]
          /\ op["timer"] # "none" => op'["timer"] # "none"
          /\ op'["timer"] # "pending"
      BY <1>7 DEF OnReadClosed, WaitCancelled
    <2>2. /\ op["accept"] = "none" /\ stream' = "closed" /\ UNCHANGED registered
          /\ expiry # "never" /\ expiry' = "future" /\ pingState_' = "ALIVE"
      BY <1>7 DEF OnReadClosed, RemoteActivity
    <2> QED
      BY <2>1, <2>2
  <1>8. CASE OnReadAborted
    BY <1>8 DEF OnReadAborted, Failed
  <1>9. CASE OnReadError
    BY <1>9 DEF OnReadError, Failed
  <1>10. CASE OnReadEmpty
    BY <1>10 DEF OnReadEmpty
  <1>11. CASE OnReadMessage
    BY <1>11 DEF OnReadMessage
  <1>12. ASSUME NEW p \in Pings, OnPing(p) PROVE ControlInv'
    <2>1. /\ \A o \in Ops \ {p} : op'[o] = op[o]
          /\ expiry # "never" /\ UNCHANGED <<expiry, wait, isFullyCreated_, sawEmpty, periods>>
      BY <1>12 DEF OnPing, Results, Frames
    <2>2. stream' = stream \/ (stream = "open" /\ stream' = "failed")
      BY <1>12 DEF OnPing, Failed
    <2>3. registered' \in BOOLEAN /\ (registered' => registered)
      BY <1>12 DEF OnPing
    <2>4. pingState_ = "ALIVE" => pingState_' = "ALIVE"
      BY <1>12 DEF OnPing
    <2> QED
      BY <2>1, <2>2, <2>3, <2>4
  <1>13. CASE OnTimerMoved
    BY <1>13, Zenon DEF OnTimerMoved, Results, Frames
  <1>14. CASE OnTimerPing
    <2>1. PICK p \in Pings : op' = [op EXCEPT !["timer"] = "pending", ![p] = "pending"]
      BY <1>14, Zenon DEF OnTimerPing
    <2>2. /\ op'["accept"] = op["accept"] /\ op'["read"] = op["read"]
          /\ op'["timer"] = "pending"
      BY <2>1
    <2>3. /\ expiry = "past" /\ expiry' = "future" /\ wait' = WaitFor("future")
          /\ UNCHANGED <<stream, isFullyCreated_, registered, sawEmpty, periods>>
      BY <1>14 DEF OnTimerPing
    <2> QED
      BY <2>2, <2>3
  <1>15. CASE OnTimerClose
    BY <1>15 DEF OnTimerClose
  <1>16. CASE OnWriteError
    BY <1>16 DEF OnWriteError
  <1>17. CASE UNCHANGED vars
    BY <1>17 DEF vars
  <1> QED
    BY <1>1, <1>2, <1>3, <1>4, <1>5, <1>6, <1>7, <1>8, <1>9, <1>10, <1>11, <1>12, <1>13, <1>14,
       <1>15, <1>16, <1>17, StepCases

-----------------------------------------------------------------------------
\* Types are preserved.
LEMMA TypeStep ==
    ASSUME TypeOK, [Next]_vars
    PROVE  TypeOK'
  <1>0. OpOK
    BY DEF TypeOK, OpOK
  <1> USE OpNames DEF TypeOK
  <1>1. ASSUME NEW f \in Frames, PeerSends(f) PROVE TypeOK'
    BY <1>1 DEF PeerSends
  <1>2. ASSUME NEW o \in Ops, NEW r \in Results, Completes(o, r) PROVE TypeOK'
    <2>1. inbox' \in Seq(Frames)
      <3>1. inbox \in Seq(Frames)
        OBVIOUS
      <3>2. inbox # <<>> => Tail(inbox) \in Seq(Frames)
        BY <3>1
      <3> QED
        BY <1>2, <3>1, <3>2, Zenon DEF Completes
    <2>2. OpOK'
      BY <1>2 DEF OpOK, Completes, Complete, CompletesAs
    <2> QED
      BY <1>2, <2>1, <2>2 DEF Completes, Complete, OpOK
  <1>3. CASE Elapse
    BY <1>3 DEF Elapse, Results
  <1>4. CASE RunAsServer
    <2>1. WaitOK'
      BY <1>4 DEF RunAsServer, WaitOK
    <2> QED
      BY <1>4, <2>1 DEF RunAsServer, Results, WaitOK
  <1>5. CASE OnAccept
    <2>1. OpOK'
      BY <1>5 DEF OnAccept, OpOK
    <2>2. /\ stream' \in {"handshake", "open", "closed", "failed"}
          /\ isFullyCreated_' \in BOOLEAN /\ registered' \in BOOLEAN
      BY <1>5, Zenon DEF OnAccept
    <2>3. UNCHANGED <<socket, queued, sawEmpty, assertFailed, inbox, sent, expiry, wait,
                      pingState_, periods>>
      BY <1>5 DEF OnAccept
    <2> QED
      BY <2>1, <2>2, <2>3 DEF OpOK
  <1>6. CASE OnControlCallback
    <2>1. WaitCancelled \in [Ops -> {"none", "pending"} \cup Results]
      BY DEF WaitCancelled, Results
    <2>2. OpOK'
      BY <1>6, <2>1 DEF OnControlCallback, WaitCancelled, OpOK
    <2>3. WaitOK'
      BY <1>6, Zenon DEF OnControlCallback, RemoteActivity, WaitOK
    <2> QED
      BY <1>6, <2>2, <2>3 DEF OnControlCallback, RemoteActivity, OpOK, WaitOK
  <1>7. CASE OnReadClosed
    <2>1. WaitCancelled \in [Ops -> {"none", "pending"} \cup Results]
      BY DEF WaitCancelled, Results
    <2>2. OpOK'
      BY <1>7, <2>1 DEF OnReadClosed, WaitCancelled, OpOK
    <2>3. WaitOK'
      BY <1>7, Zenon DEF OnReadClosed, RemoteActivity, WaitOK
    <2> QED
      BY <1>7, <2>2, <2>3 DEF OnReadClosed, RemoteActivity, OpOK, WaitOK
  <1>8. CASE OnReadAborted
    BY <1>8 DEF OnReadAborted, Failed, isOpen
  <1>9. CASE OnReadError
    <2>1. queued' \in Seq({"msg", "partial"})
      BY <1>9 DEF OnReadError
    <2>2. OpOK' /\ stream' \in {"handshake", "open", "closed", "failed"}
      BY <1>9 DEF OnReadError, Failed, isOpen, OpOK
    <2> QED
      BY <1>9, <2>1, <2>2, ZenonT(30) DEF OnReadError, OpOK
  <1>10. CASE OnReadEmpty
    BY <1>10 DEF OnReadEmpty
  <1>11. CASE OnReadMessage
    BY <1>11 DEF OnReadMessage
  <1>12. ASSUME NEW p \in Pings, OnPing(p) PROVE TypeOK'
    <2>1. OpOK'
      BY <1>12 DEF OnPing, OpOK
    <2>2. stream' \in {"handshake", "open", "closed", "failed"}
      BY <1>12 DEF OnPing, Failed, isOpen
    <2>3. registered' \in BOOLEAN /\ assertFailed' \in BOOLEAN
      BY <1>12 DEF OnPing
    <2>4. pingState_' \in {"ALIVE", "SENDING", "SENT"}
      BY <1>12 DEF OnPing
    <2> QED
      BY <1>12, <2>1, <2>2, <2>3, <2>4 DEF OnPing, OpOK
  <1>13. CASE OnTimerMoved
    <2>1. OpOK'
      BY <1>13 DEF OnTimerMoved, OpOK
    <2>2. WaitOK'
      BY <1>13 DEF OnTimerMoved, WaitOK
    <2> QED
      BY <1>13, <2>1, <2>2 DEF OnTimerMoved, OpOK, WaitOK
  <1>14. CASE OnTimerPing
    <2>1. PICK p \in Pings : op' = [op EXCEPT !["timer"] = "pending", ![p] = "pending"]
      BY <1>14, Zenon DEF OnTimerPing
    <2>2. OpOK'
      BY <2>1 DEF OpOK
    <2>3. WaitOK'
      BY <1>14 DEF OnTimerPing, WaitOK
    <2> QED
      BY <1>14, <2>2, <2>3, Zenon DEF OnTimerPing, OpOK, WaitOK
  <1>15. CASE OnTimerClose
    BY <1>15, ZenonT(30) DEF OnTimerClose, Results
  <1>16. CASE OnWriteError
    <2>1. /\ stream' = "failed" /\ registered' = FALSE
          /\ UNCHANGED <<socket, op, expiry, wait, pingState_, isFullyCreated_, inbox, sent,
                         queued, sawEmpty, periods, assertFailed>>
      BY <1>16 DEF OnWriteError
    <2>2. OpOK'
      BY <2>1, <1>0 DEF OpOK
    <2>3. stream' \in {"handshake", "open", "closed", "failed"} /\ registered' \in BOOLEAN
      BY <2>1, Zenon
    <2> QED
      BY <2>1, <2>2, <2>3 DEF OpOK
  <1>17. CASE UNCHANGED vars
    BY <1>17 DEF vars
  <1> QED
    BY <1>1, <1>2, <1>3, <1>4, <1>5, <1>6, <1>7, <1>8, <1>9, <1>10, <1>11, <1>12, <1>13, <1>14,
       <1>15, <1>16, <1>17, StepCases

\* Half a message is dispatched only by a session that is, and stays, unregistered.
LEMMA TruncatedStep ==
    ASSUME TypeOK, TruncatedNotServed, [Next]_vars
    PROVE  TruncatedNotServed'
  <1> USE DEF TruncatedNotServed
  <1>1. CASE OnReadError
    BY <1>1 DEF OnReadError
  <1>2. CASE OnReadMessage
    <2>1. queued' = queued \/ queued' = Append(queued, "msg")
      BY <1>2 DEF OnReadMessage
    <2>2. \A i \in DOMAIN queued' : queued'[i] = "partial" => i \in DOMAIN queued /\ queued[i] = "partial"
      BY <2>1, SMTT(20) DEF TypeOK
    <2> QED
      BY <1>2, <2>2 DEF OnReadMessage
  <1>3. ASSUME queued' = queued, registered' = registered \/ registered' = FALSE
        PROVE  TruncatedNotServed'
    BY <1>3
  <1>4. ASSUME NEW p \in Pings, OnPing(p) PROVE TruncatedNotServed'
    <2>1. registered' \in BOOLEAN /\ (registered' => registered) /\ queued' = queued
      BY <1>4 DEF OnPing, TypeOK
    <2> QED
      BY <2>1 DEF TypeOK
  <1>5. CASE UNCHANGED vars
    BY <1>5 DEF vars
  <1> QED
    BY <1>1, <1>2, <1>3, <1>4, <1>5, StepCases, Zenon
       DEF PeerSends, Completes, Complete, Elapse, RunAsServer, OnAccept, OnControlCallback, OnReadClosed,
           OnReadAborted, OnReadEmpty, OnTimerMoved, OnTimerPing, OnTimerClose, OnWriteError

\* A control frame starts the count again; on_timer counts a period before a ping.
LEMMA GraceStep ==
    ASSUME TypeOK, GraceInv, [Next]_vars
    PROVE  GraceInv'
  <1> USE DEF GraceInv
  <1>1. ASSUME UNCHANGED <<expiry, pingState_, periods>> PROVE GraceInv'
    BY <1>1
  <1>2. CASE Elapse
    BY <1>2 DEF Elapse, TypeOK
  <1>3. ASSUME expiry' = "future", UNCHANGED <<pingState_, periods>> PROVE GraceInv'
    BY <1>3
  <1>4. ASSUME expiry' = "future", pingState_' = "ALIVE" PROVE GraceInv'
    BY <1>4
  <1>5. ASSUME NEW p \in Pings, OnPing(p) PROVE GraceInv'
    BY <1>5 DEF OnPing
  <1>6. CASE OnTimerPing
    BY <1>6 DEF OnTimerPing
  <1>7. CASE UNCHANGED vars
    BY <1>1, <1>7 DEF vars
  <1> QED
    BY <1>1, <1>2, <1>3, <1>4, <1>5, <1>6, <1>7, StepCases, Zenon
       DEF PeerSends, Completes, Complete, RunAsServer, OnAccept, OnControlCallback,
           RemoteActivity, OnReadClosed, OnReadAborted, OnReadError, OnReadEmpty, OnReadMessage,
           OnTimerMoved, OnTimerClose, OnWriteError

\* Only on_timer closes the socket, and on an open stream only with two periods.
LEMMA CloseStep ==
    ASSUME TypeOK, GraceInv, [Next]_vars, socket, ~socket', isOpen
    PROVE  periods = 2
  <1>1. CASE OnTimerClose
    BY <1>1 DEF OnTimerClose, GraceInv
  <1>2. CASE ~OnTimerClose
    <2>1. socket' = socket
      BY <1>2, StepCases, Zenon
         DEF PeerSends, Completes, Complete, Elapse, RunAsServer, OnAccept, OnControlCallback,
             OnReadClosed, OnReadAborted, OnReadError, OnReadEmpty, OnReadMessage, OnPing,
             OnTimerMoved, OnTimerPing, OnWriteError, vars
    <2> QED
      BY <2>1
  <1> QED
    BY <1>1, <1>2

-----------------------------------------------------------------------------
\* The inductive invariant of an accepted session.
THEOREM IInvHolds == Spec => []IInv
  <1>1. IInv /\ [Next]_vars => IInv'
    BY TypeStep, ControlStep, TruncatedStep, GraceStep DEF IInv, ControlInv
  <1> QED
    BY <1>1, InitIInv, PTL DEF Spec

\* Types hold for any number of frames and pings.
THEOREM TypeCorrect == Spec => []TypeOK
  BY IInvHolds, PTL DEF IInv

\* A registered session is always watched by its timer.
THEOREM TimerIsArmed == Spec => []TimerGuards
  BY IInvHolds, PTL DEF IInv

\* The wait of an accepted session is for a deadline whenever one is set.
THEOREM AcceptedWaitsForDeadline == Spec => []WaitsForDeadline
  BY IInvHolds, PTL DEF IInv

\* An open session that never saw an empty message goes on reading.
THEOREM ReadsGoOn == Spec => []ReadLoopAlive
  BY IInvHolds, PTL DEF IInv

\* Half a message is dispatched only by a session that was unregistered.
THEOREM PartialIsUnregistered == Spec => []TruncatedNotServed
  BY IInvHolds, PTL DEF IInv

\* The timer closes an open session only after two periods without a control frame.
THEOREM TwoPeriods == Spec => GraceBeforeClose
  <1>1. ASSUME IInv, [Next]_vars
        PROVE  [socket /\ ~socket' /\ isOpen => periods = 2]_vars
    BY <1>1, CloseStep DEF IInv
  <1> QED
    BY <1>1, IInvHolds, PTL DEF Spec, GraceBeforeClose

-----------------------------------------------------------------------------
\* Both roles.

\* Where client/main.cpp is before runAsClient, and before its deadline is set.
Connecting == {"created", "waiting", "gaveUp", "run"}
Arming == {"cancel", "forget", "set"}

RolesTypeOK ==
    /\ main \in {"listener", "read", "running"} \cup Connecting \cup Arming
    /\ stage \in {"none", "resolve", "connect", "handshake"}
    /\ linked \in {"none", "pending", "ok", "error"}

\* An accepted session connects to nobody, and starts with runAsServer.
AcceptedInv == main = "listener" => linked = "none" /\ NotStarted

\* Until its deadline is set a client has no operation but the wait, and it has
\* that from the first step of runAsClient on.
ConnectingInv ==
    /\ main \in Connecting \cup Arming =>
          expiry = "never" /\ ~isFullyCreated_ /\ \A o \in Ops \ {"timer"} : op[o] = "none"
    /\ main \in Arming => op["timer"] # "none"
    /\ main \in {"read", "running"} => expiry # "never"

\* The stream of a client is opened by its handshake, after which it connects no more.
OpenedInv ==
    /\ main = "created" => linked = "none" /\ stream = "handshake"
    /\ main # "listener" /\ stream # "handshake" =>
          linked # "pending" /\ (linked # "none" => stage = "handshake")
    /\ main \in {"run", "read", "running"} \cup Arming => stream # "handshake"

RoleInv == RolesTypeOK /\ AcceptedInv /\ ConnectingInv /\ OpenedInv

RolesIInv ==
    /\ TypeOK
    /\ RoleInv
    /\ TimerGuards
    /\ ReadLoopAlive
    /\ TruncatedNotServed
    /\ GraceInv

-----------------------------------------------------------------------------
LEMMA RolesInitIInv == RolesInit => RolesIInv
  <1> SUFFICES ASSUME RolesInit PROVE RolesIInv
    OBVIOUS
  <1>1. IInv
    BY InitIInv DEF RolesInit
  <1>2. RoleInv
    BY OpNames DEF RolesInit, Init, RoleInv, RolesTypeOK, AcceptedInv, ConnectingInv, OpenedInv,
                   NotStarted, Connecting, Arming
  <1> QED
    BY <1>1, <1>2 DEF RolesIInv, IInv

\* A step of the session alone, in its role.
OwnStep ==
    /\ UNCHANGED roleVars
    /\ \/ RunAsServer /\ main = "listener"
       \/ StrandHandler \/ Network \/ OnWriteError
       \/ Elapse /\ Running
       \/ UNCHANGED vars

LinkStep == onResolve \/ onConnect \/ onHandshake \/ \E r \in {"ok", "error"} : LinkEnds(r)

\* Every step is the session's own, the connection's, or the main thread's.
LEMMA RolesCases ==
    ASSUME [RolesNext]_allVars
    PROVE  OwnStep \/ LinkStep \/ Main
  BY DEF RolesNext, RolesHandler, RolesElapse, RolesTerminated, OwnStep, LinkStep, allVars

LEMMA OwnIsNext == ASSUME OwnStep PROVE [Next]_vars
  BY DEF OwnStep, Next, Handler, Environment

-----------------------------------------------------------------------------
\* What connecting may change of the session: it opens the stream or fails.
LEMMA LinkChanges ==
    ASSUME RolesIInv, LinkStep
    PROVE  /\ UNCHANGED <<socket, op, expiry, wait, pingState_, isFullyCreated_, inbox, sent,
                          queued, sawEmpty, periods, assertFailed>>
           /\ stream' \in {stream, "open"}
           /\ registered' \in BOOLEAN /\ (registered' => registered)
           /\ stream' # stream => ~isFullyCreated_
  <1>1. CASE onResolve \/ onConnect \/ onHandshake
    BY <1>1, Zenon DEF onResolve, onConnect, onHandshake, LinkHandler, RolesIInv, TypeOK
  <1>2. ASSUME NEW r \in {"ok", "error"}, LinkEnds(r)
        PROVE  /\ UNCHANGED <<socket, op, expiry, wait, pingState_, isFullyCreated_, inbox, sent,
                              queued, sawEmpty, periods, assertFailed>>
               /\ stream' \in {stream, "open"}
               /\ registered' \in BOOLEAN /\ (registered' => registered)
               /\ stream' # stream => ~isFullyCreated_
    BY <1>2 DEF LinkEnds, RolesIInv, TypeOK, RoleInv, RolesTypeOK, AcceptedInv, ConnectingInv,
                OpenedInv
  <1> QED
    BY <1>1, <1>2 DEF LinkStep

LEMMA LinkPreserves ==
    ASSUME RolesIInv, LinkStep
    PROVE  TypeOK' /\ TimerGuards' /\ ReadLoopAlive' /\ TruncatedNotServed' /\ GraceInv'
  <1>1. TypeOK'
    BY LinkChanges DEF RolesIInv, TypeOK
  <1>2. TimerGuards' /\ ReadLoopAlive'
    BY LinkChanges DEF RolesIInv, TimerGuards, ReadLoopAlive, isOpen
  <1>3. TruncatedNotServed'
    BY LinkChanges DEF RolesIInv, TruncatedNotServed
  <1>4. GraceInv'
    BY LinkChanges DEF RolesIInv, GraceInv
  <1> QED
    BY <1>1, <1>2, <1>3, <1>4

\* A step of the main thread keeps what is known of the session.
LEMMA MainPreserves ==
    ASSUME RolesIInv, Main
    PROVE  TypeOK' /\ TimerGuards' /\ ReadLoopAlive' /\ TruncatedNotServed' /\ GraceInv'
  <1> USE OpNames DEF TimerGuards, ReadLoopAlive, TruncatedNotServed, GraceInv, isOpen, RolesIInv
  <1>1. CASE ConnectAsClient \/ WaitForConnect
    BY <1>1 DEF ConnectAsClient, WaitForConnect, vars, TypeOK
  <1>2. CASE RunTimer
    <2>1. OpOK' /\ WaitOK'
      BY <1>2 DEF RunTimer, TypeOK, OpOK, WaitOK, RoleInv, ConnectingInv, MainStep, Connecting
    <2> QED
      BY <1>2, <2>1 DEF RunTimer, TypeOK, OpOK, WaitOK
  <1>3. CASE RunCancel
    <2>1. OpOK' /\ op'["read"] = op["read"] /\ (op["timer"] # "none" => op'["timer"] # "none")
      BY <1>3 DEF RunCancel, WaitCancelled, TypeOK, OpOK, Results
    <2> QED
      BY <1>3, <2>1 DEF RunCancel, TypeOK, OpOK
  <1>4. CASE RunForget
    <2>1. WaitOK'
      BY <1>4, Zenon DEF RunForget, TypeOK, WaitOK
    <2> QED
      BY <1>4, <2>1 DEF RunForget, TypeOK, WaitOK
  <1>5. CASE RunExpiry
    <2>1. op["timer"] # "none"
      BY <1>5 DEF RunExpiry, MainStep, RoleInv, ConnectingInv, Arming
    <2> QED
      BY <1>5, <2>1 DEF RunExpiry, TypeOK
  <1>6. CASE RunRead
    <2>1. OpOK'
      BY <1>6 DEF RunRead, TypeOK, OpOK
    <2> QED
      BY <1>6, <2>1 DEF RunRead, TypeOK, OpOK
  <1> QED
    BY <1>1, <1>2, <1>3, <1>4, <1>5, <1>6 DEF Main

-----------------------------------------------------------------------------
\* Where the connection and the main thread leave each other.
LEMMA LinkRole == ASSUME RolesIInv, LinkStep PROVE RoleInv'
  <1> USE DEF RolesIInv, RoleInv, RolesTypeOK, AcceptedInv, ConnectingInv, OpenedInv, NotStarted,
              LinkHandler
  <1>1. CASE onResolve
    BY <1>1 DEF onResolve
  <1>2. CASE onConnect
    BY <1>2 DEF onConnect
  <1>3. CASE onHandshake
    BY <1>3 DEF onHandshake
  <1>4. ASSUME NEW r \in {"ok", "error"}, LinkEnds(r) PROVE RoleInv'
    BY <1>4 DEF LinkEnds
  <1> QED
    BY <1>1, <1>2, <1>3, <1>4 DEF LinkStep

LEMMA MainRole == ASSUME RolesIInv, Main PROVE RoleInv'
  <1> USE OpNames DEF RolesIInv, RoleInv, RolesTypeOK, AcceptedInv, ConnectingInv, OpenedInv,
                      MainStep, Connecting, Arming
  <1>1. CASE ConnectAsClient
    BY <1>1 DEF ConnectAsClient, vars
  <1>2. CASE WaitForConnect
    BY <1>2 DEF WaitForConnect, vars, isOpen
  <1>3. CASE RunTimer
    BY <1>3 DEF RunTimer, TypeOK
  <1>4. CASE RunCancel
    BY <1>4 DEF RunCancel, WaitCancelled, TypeOK
  <1>5. CASE RunForget
    BY <1>5 DEF RunForget
  <1>6. CASE RunExpiry
    BY <1>6 DEF RunExpiry
  <1>7. CASE RunRead
    BY <1>7 DEF RunRead
  <1> QED
    BY <1>1, <1>2, <1>3, <1>4, <1>5, <1>6, <1>7 DEF Main

\* An operation other than the wait runs only when a deadline was set.
LEMMA OpsAfterDeadline ==
    ASSUME RolesIInv, NEW o \in Ops, o # "timer", op[o] # "none"
    PROVE  expiry # "never" /\ main \in {"listener", "read", "running"}
  BY DEF RolesIInv, RoleInv, RolesTypeOK, AcceptedInv, ConnectingInv, NotStarted

\* What a session may do before its deadline is set: receive, and wait again.
LEMMA OwnRole == ASSUME RolesIInv, OwnStep PROVE RoleInv'
  <1> USE OpNames DEF RolesIInv, RoleInv, RolesTypeOK, AcceptedInv, ConnectingInv, OpenedInv,
                      NotStarted, roleVars
  <1>0. UNCHANGED <<main, stage, linked>>
    BY DEF OwnStep
  <1>1. ASSUME NEW f \in Frames, PeerSends(f) PROVE RoleInv'
    BY <1>0, <1>1 DEF PeerSends
  <1>2. ASSUME NEW o \in Ops, NEW r \in Results, Completes(o, r) PROVE RoleInv'
    BY <1>0, <1>2, OpsAfterDeadline DEF Completes, Complete, CompletesAs, Connecting, Arming
  <1>3. CASE Elapse /\ Running
    BY <1>0, <1>3 DEF Elapse, Running, Connecting, Arming
  <1>4. CASE RunAsServer /\ main = "listener"
    BY <1>0, <1>4 DEF RunAsServer, Connecting, Arming
  <1>5. CASE OnTimerMoved
    BY <1>0, <1>5 DEF OnTimerMoved, TypeOK, Results, Frames
  <1>6. CASE OnWriteError
    BY <1>0, <1>6 DEF OnWriteError, isOpen
  <1>7. CASE UNCHANGED vars
    BY <1>0, <1>7 DEF vars
  <1>8. ASSUME expiry # "never", expiry' # "never", main \in {"listener", "read", "running"},
               stream' = stream \/ stream' # "handshake"
        PROVE  RoleInv'
    BY <1>0, <1>8 DEF Connecting, Arming
  <1>9. CASE OnAccept
    <2>1. op["accept"] # "none"
      BY <1>9 DEF OnAccept, Results, Frames
    <2> QED
      BY <1>8, <1>9, <2>1, OpsAfterDeadline DEF OnAccept
  <1>10. CASE OnControlCallback \/ OnRead
    <2>1. op["read"] # "none"
      BY <1>10 DEF OnControlCallback, OnRead, OnReadClosed, OnReadAborted, OnReadError,
                   OnReadEmpty, OnReadMessage
    <2>2. expiry # "never" /\ main \in {"listener", "read", "running"}
      BY <2>1, OpsAfterDeadline
    <2>3. (stream' = stream \/ stream' # "handshake") /\ expiry' \in {expiry, "future"}
      BY <1>10 DEF OnControlCallback, RemoteActivity, OnRead, OnReadClosed, OnReadAborted,
                   OnReadError, OnReadEmpty, OnReadMessage, Failed
    <2> QED
      BY <1>8, <2>2, <2>3
  <1>11. ASSUME NEW p \in Pings, OnPing(p) PROVE RoleInv'
    <2>1. op[p] # "none" /\ expiry' = expiry /\ (stream' = stream \/ stream' # "handshake")
      BY <1>11 DEF OnPing, Results, Frames, Failed
    <2> QED
      BY <1>8, <2>1, OpsAfterDeadline
  <1>12. CASE OnTimerPing \/ OnTimerClose
    <2>1. expiry = "past" /\ expiry' # "never" /\ stream' = stream
      BY <1>12 DEF OnTimerPing, OnTimerClose
    <2> QED
      BY <1>8, <2>1
  <1>13. CASE Network
    BY <1>1, <1>2, <1>13, NetworkCases
  <1> QED
    BY <1>3, <1>4, <1>5, <1>6, <1>7, <1>9, <1>10, <1>11, <1>12, <1>13
       DEF OwnStep, StrandHandler, OnTimer

\* The timer and the read loop, in either role.
LEMMA OwnLoops ==
    ASSUME RolesIInv, OwnStep
    PROVE  TimerGuards' /\ ReadLoopAlive'
  <1> USE OpNames DEF RolesIInv, TimerGuards, ReadLoopAlive, isOpen, TypeOK
  <1>1. ASSUME NEW f \in Frames, PeerSends(f) PROVE TimerGuards' /\ ReadLoopAlive'
    BY <1>1 DEF PeerSends
  <1>2. ASSUME NEW o \in Ops, NEW r \in Results, Completes(o, r)
        PROVE  TimerGuards' /\ ReadLoopAlive'
    BY <1>2 DEF Completes, Complete, Results, Frames
  <1>3. CASE Elapse
    BY <1>3 DEF Elapse
  <1>4. CASE RunAsServer
    BY <1>4 DEF RunAsServer
  <1>5. CASE OnAccept
    BY <1>5 DEF OnAccept
  <1>6. CASE OnControlCallback \/ OnReadClosed
    <2>1. expiry # "never"
      BY <1>6, OpsAfterDeadline DEF OnControlCallback, OnReadClosed
    <2>2. op["timer"] # "none" => op'["timer"] # "none"
      BY <1>6 DEF OnControlCallback, OnReadClosed, WaitCancelled
    <2>3. registered' = registered /\ (stream' = "closed" \/ op'["read"] = "pending")
      BY <1>6 DEF OnControlCallback, OnReadClosed, WaitCancelled
    <2> QED
      BY <2>1, <2>2, <2>3
  <1>7. CASE OnReadAborted \/ OnReadError
    BY <1>7 DEF OnReadAborted, OnReadError, Failed
  <1>8. CASE OnReadEmpty \/ OnReadMessage
    BY <1>8 DEF OnReadEmpty, OnReadMessage
  <1>9. ASSUME NEW p \in Pings, OnPing(p) PROVE TimerGuards' /\ ReadLoopAlive'
    <2>1. /\ \A o \in Ops \ {p} : op'[o] = op[o]
          /\ UNCHANGED <<expiry, isFullyCreated_, sawEmpty>>
          /\ stream' = "open" => stream = "open"
          /\ registered' => registered
      BY <1>9 DEF OnPing, Failed
    <2> QED
      BY <2>1
  <1>10. CASE OnTimerMoved
    BY <1>10 DEF OnTimerMoved
  <1>11. CASE OnTimerPing
    <2>1. PICK p \in Pings : op' = [op EXCEPT !["timer"] = "pending", ![p] = "pending"]
      BY <1>11, Zenon DEF OnTimerPing
    <2>2. op'["read"] = op["read"] /\ op'["timer"] = "pending"
      BY <2>1
    <2> QED
      BY <1>11, <2>2 DEF OnTimerPing
  <1>12. CASE OnTimerClose
    BY <1>12 DEF OnTimerClose
  <1>13. CASE OnWriteError
    BY <1>13 DEF OnWriteError
  <1>14. CASE UNCHANGED vars
    BY <1>14 DEF vars
  <1> QED
    BY <1>1, <1>2, <1>3, <1>4, <1>5, <1>6, <1>7, <1>8, <1>9, <1>10, <1>11, <1>12, <1>13, <1>14,
       OwnIsNext, StepCases

-----------------------------------------------------------------------------
\* The inductive invariant of a session in either role.
THEOREM RolesIInvHolds == RolesSpec => []RolesIInv
  <1>1. ASSUME RolesIInv, OwnStep PROVE RolesIInv'
    BY <1>1, OwnIsNext, OwnRole, OwnLoops, TypeStep, TruncatedStep, GraceStep DEF RolesIInv
  <1>2. ASSUME RolesIInv, LinkStep PROVE RolesIInv'
    BY <1>2, LinkRole, LinkPreserves DEF RolesIInv
  <1>3. ASSUME RolesIInv, Main PROVE RolesIInv'
    BY <1>3, MainRole, MainPreserves DEF RolesIInv
  <1>4. RolesIInv /\ [RolesNext]_allVars => RolesIInv'
    BY <1>1, <1>2, <1>3, RolesCases
  <1> QED
    BY <1>4, RolesInitIInv, PTL DEF RolesSpec

\* The types of a session in either role, for any number of frames and pings.
THEOREM RolesTypeCorrect == RolesSpec => []TypeOK
  BY RolesIInvHolds, PTL DEF RolesIInv

\* A registered session that is run has its timer pending or the handler queued, also
\* while runAsClient and on_timer interleave.
THEOREM RolesTimerIsArmed == RolesSpec => []TimerGuards
  BY RolesIInvHolds, PTL DEF RolesIInv

\* An open session that was set up and never saw an empty message goes on reading.
THEOREM RolesReadsGoOn == RolesSpec => []ReadLoopAlive
  BY RolesIInvHolds, PTL DEF RolesIInv

\* Half a message is dispatched only by a session that was unregistered.
THEOREM RolesPartialIsUnregistered == RolesSpec => []TruncatedNotServed
  BY RolesIInvHolds, PTL DEF RolesIInv

\* The timer closes an open session, accepted or connected, only after two periods
\* without a control frame.
THEOREM RolesTwoPeriods == RolesSpec => GraceBeforeClose
  <1>1. ASSUME RolesIInv, [RolesNext]_allVars
        PROVE  [socket /\ ~socket' /\ isOpen => periods = 2]_vars
    <2>1. CASE OwnStep
      BY <1>1, <2>1, OwnIsNext, CloseStep DEF RolesIInv
    <2>2. CASE LinkStep
      BY <1>1, <2>2, LinkChanges
    <2>3. CASE Main
      BY <2>3 DEF Main, ConnectAsClient, WaitForConnect, RunTimer, RunCancel, RunForget,
                  RunExpiry, RunRead, vars
    <2> QED
      BY <1>1, <2>1, <2>2, <2>3, RolesCases
  <1> QED
    BY <1>1, RolesIInvHolds, PTL DEF RolesSpec, GraceBeforeClose

\* A session that the listener made behaves as Spec says: what is proved of Spec,
\* AcceptedWaitsForDeadline in particular, holds for it.
THEOREM AcceptedRole == RolesSpec /\ [](main = "listener") => Spec
  <1>1. ASSUME RolesIInv, main = "listener", [RolesNext]_allVars
        PROVE  [Next]_vars
    <2>1. ~LinkStep
      BY <1>1 DEF LinkStep, onResolve, onConnect, onHandshake, LinkHandler, LinkEnds, RolesIInv,
                  RoleInv, AcceptedInv
    <2>2. ~Main
      BY <1>1 DEF Main, ConnectAsClient, WaitForConnect, RunTimer, RunCancel, RunForget,
                  RunExpiry, RunRead, MainStep
    <2> QED
      BY <1>1, <2>1, <2>2, RolesCases, OwnIsNext
  <1>2. RolesInit => Init
    BY DEF RolesInit
  <1> QED
    BY <1>1, <1>2, RolesIInvHolds, PTL DEF RolesSpec, Spec
=============================================================================
