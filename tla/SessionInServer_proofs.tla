----------------------- MODULE SessionInServer_proofs -----------------------
(***************************************************************************)
(* A session, accepted or connecting, implements the steps that WsServer   *)
(* has for it (SessionView), for any number of frames and pings.  What is  *)
(* needed besides the invariant of WsClient_proofs: the session stays      *)
(* registered until it is started, reads start once, and the messages in   *)
(* its queue are no more than the frames its peer sent.                    *)
(***************************************************************************)
EXTENDS SessionInServer, WsClient_proofs

USE DEF peer, timing, seen, Activity, ReadErrorThen, MessageThen, TimerMovedThen,
        TimerClosesThen, WaitFor, WaitForgotten

\* Nothing unregisters a session that was not started.
StartInv == ~Started => registered

\* The read loop starts once: after the handshake, or by the last step of runAsClient.
ReadsOnce ==
    /\ op["accept"] # "none" => op["read"] = "none" /\ main = "listener"
    /\ main = "read" => op["read"] = "none"

HasPartial == \E i \in DOMAIN queued : queued[i] = "partial"

\* A frame being read.
Reading == IF op["read"] \in Frames THEN 1 ELSE 0

\* Every message comes from a frame of its own.  A part of a message is the last
\* thing in the queue, because no read is started after it.
CountInv ==
    /\ sent <= MaxFrames
    /\ ~HasPartial => Len(queued) + Len(inbox) + Reading <= sent
    /\ HasPartial => /\ op["read"] = "none" /\ op["accept"] = "none"
                     /\ expiry # "never" /\ main \in {"listener", "running"}

ViewInv == RolesIInv /\ StartInv /\ ReadsOnce /\ CountInv

-----------------------------------------------------------------------------
LEMMA ViewInit ==
    ASSUME RolesInit
    PROVE  ViewInv /\ Server!Init
  <1>1. ~Started
    BY DEF Started, RolesInit, Init
  <1>2. Server!Init
    BY <1>1 DEF RolesInit, Init, Server!Init, AsQueued
  <1>3. ReadsOnce /\ CountInv
    BY OpNames, MaxFramesAssumption DEF RolesInit, Init, ReadsOnce, CountInv, HasPartial, Reading, Frames
  <1> QED
    BY <1>1, <1>2, <1>3, RolesInitIInv DEF ViewInv, StartInv, RolesInit, Init

\* What a step does to the part of the session that the server sees.
Keeps == (Started' <=> Started) /\ UNCHANGED <<registered, queued>>
Starts == ~Started /\ Started' /\ UNCHANGED <<registered, queued>>
Leaves == Started /\ Started' /\ registered' = FALSE /\ UNCHANGED queued
Receives ==
    /\ Started /\ Started' /\ UNCHANGED registered
    /\ queued' = Append(queued, "msg") /\ Len(queued) <= MaxFrames
Fails ==
    /\ Started /\ Started' /\ registered' = FALSE
    /\ queued' = Append(queued, "partial") /\ Len(queued) <= MaxFrames

Effects == Keeps \/ Starts \/ Leaves \/ Receives \/ Fails

LEMMA OwnEffects == ASSUME ViewInv, OwnStep PROVE Effects
  <1> USE OpNames DEF ViewInv, RolesIInv
  <1>0. /\ main' = main /\ [Next]_vars
        /\ TypeOK /\ registered \in BOOLEAN
    BY OwnIsNext DEF OwnStep, roleVars, TypeOK
  <1>1. CASE UNCHANGED <<expiry, registered, queued>>
    BY <1>0, <1>1 DEF Effects, Keeps, Started
  <1>2. ASSUME expiry # "never", expiry' # "never", queued' = queued,
               registered' = registered \/ registered' = FALSE
        PROVE  Effects
    BY <1>2 DEF Effects, Keeps, Leaves, Started
  <1>3. CASE OnReadMessage
    <2>1. /\ op["read"] \in {"msg", "junk"} /\ UNCHANGED <<expiry, registered>>
          /\ queued' = queued \/ queued' = Append(queued, "msg")
      BY <1>3 DEF OnReadMessage
    <2>2. expiry # "never"
      BY <2>1, OpsAfterDeadline
    <2>3. Len(queued) <= MaxFrames
      BY <2>1, MaxFramesAssumption DEF CountInv, TypeOK, Reading, Frames
    <2> QED
      BY <2>1, <2>2, <2>3 DEF Effects, Keeps, Receives, Started
  <1>4. CASE OnReadError
    <2>1. /\ op["read"] = "error" /\ expiry' = expiry /\ registered' = FALSE
          /\ queued' = queued \/ queued' = Append(queued, "partial")
      BY <1>4 DEF OnReadError
    <2>2. expiry # "never"
      BY <2>1, OpsAfterDeadline
    <2>3. Len(queued) <= MaxFrames
      BY <2>1, MaxFramesAssumption DEF CountInv, TypeOK, Reading, Frames
    <2> QED
      BY <2>1, <2>2, <2>3 DEF Effects, Leaves, Fails, Started
  <1>5. CASE RunAsServer
    BY <1>0, <1>5 DEF RunAsServer, Effects, Keeps, Starts, Started
  <1>6. CASE OnAccept
    <2>1. op["accept"] # "none" /\ expiry' = expiry /\ queued' = queued
          /\ (registered' = registered \/ registered' = FALSE)
      BY <1>6 DEF OnAccept, Results, Frames
    <2> QED
      BY <1>2, <2>1, OpsAfterDeadline, Zenon
  <1>7. CASE OnControlCallback \/ OnReadClosed
    <2>1. op["read"] # "none" /\ expiry' = "future" /\ queued' = queued /\ registered' = registered
      BY <1>7 DEF OnControlCallback, OnReadClosed, RemoteActivity
    <2> QED
      BY <1>2, <2>1, OpsAfterDeadline
  <1>8. ASSUME NEW p \in Pings, OnPing(p) PROVE Effects
    <2>1. op[p] # "none" /\ expiry' = expiry /\ queued' = queued
          /\ (registered' = registered \/ registered' = FALSE)
      BY <1>0, <1>8, ZenonT(30) DEF OnPing, Results, Frames
    <2> QED
      BY <1>2, <2>1, OpsAfterDeadline, Zenon
  <1>9. CASE OnWriteError
    <2>1. isOpen /\ expiry' = expiry /\ queued' = queued /\ registered' = FALSE
      BY <1>9 DEF OnWriteError
    <2>2. Started
      BY <2>1 DEF Started, isOpen, RoleInv, RolesTypeOK, AcceptedInv, NotStarted, OpenedInv
    <2> QED
      BY <1>0, <2>1, <2>2 DEF Effects, Leaves, Started
  <1>10. CASE Elapse \/ OnTimerPing \/ OnTimerClose
    BY <1>2, <1>10, ZenonT(30) DEF Elapse, OnTimerPing, OnTimerClose
  <1>11. CASE UNCHANGED vars
    BY <1>1, <1>11 DEF vars
  <1> QED
    BY <1>0, <1>1, <1>3, <1>4, <1>5, <1>6, <1>7, <1>8, <1>9, <1>10, <1>11, StepCases, ZenonT(30)
       DEF PeerSends, Completes, Complete, OnReadAborted, OnReadEmpty, OnTimerMoved

LEMMA StepEffects == ASSUME ViewInv, [RolesNext]_allVars PROVE Effects
  <1>1. CASE LinkStep
    <2>1. /\ expiry' = expiry /\ queued' = queued /\ main' = main
          /\ registered' \in BOOLEAN /\ (registered' => registered)
      BY <1>1, LinkChanges
         DEF ViewInv, LinkStep, onResolve, onConnect, onHandshake, LinkHandler, LinkEnds
    <2>2. linked # "none"
      BY <1>1 DEF LinkStep, onResolve, onConnect, onHandshake, LinkHandler, LinkEnds
    <2>3. Started
      BY <2>2 DEF Started, ViewInv, RolesIInv, RoleInv, AcceptedInv, OpenedInv
    <2> QED
      BY <2>1, <2>3, SMTT(20) DEF Effects, Keeps, Leaves, Started, ViewInv, RolesIInv, TypeOK
  <1>2. CASE ConnectAsClient
    BY <1>2 DEF ConnectAsClient, vars, Effects, Keeps, Starts, Started
  <1>3. CASE Main /\ ~ConnectAsClient
    BY <1>3 DEF Main, WaitForConnect, RunTimer, RunCancel, RunForget, RunExpiry, RunRead, MainStep,
                vars, Effects, Keeps, Started
  <1> QED
    BY <1>1, <1>2, <1>3, RolesCases, OwnEffects

-----------------------------------------------------------------------------
\* Each effect is a step of the server.
LEMMA ViewStep ==
    ASSUME ViewInv, [RolesNext]_allVars
    PROVE  [Server!SessionStep("self") \/ ReadErrorAtOnce]_Server!vars
  <1>0. queued \in Seq({"msg", "partial"}) /\ registered \in BOOLEAN
    BY DEF ViewInv, RolesIInv, TypeOK
  <1>1. CASE Keeps
    BY <1>1 DEF Keeps, Server!vars, AsQueued
  <1>2. CASE Starts
    <2>1. registered
      BY <1>2 DEF Starts, ViewInv, StartInv
    <2>2. Server!addSession("self")
      BY <1>2, <2>1 DEF Starts, Server!addSession, Server!tick, AsQueued
    <2> QED
      BY <2>2 DEF Server!SessionStep
  <1>3. CASE Leaves
    <2>1. Server!unregisterSession("self")
      BY <1>3 DEF Leaves, Server!unregisterSession, Server!removeSessById, Server!tick, AsQueued
    <2> QED
      BY <2>1 DEF Server!SessionStep
  <1>4. CASE Receives
    <2>1. AsQueued' = Append(AsQueued, "ping")
      BY <1>0, <1>4 DEF Receives, AsQueued
    <2>2. Len(queued') = Len(queued) + 1 /\ Len(queued) < MaxFrames + 1
      BY <1>0, <1>4, MaxFramesAssumption, SMTT(20) DEF Receives
    <2>3. Server!Dispatch("self", "ping")
      BY <1>4, <2>1, <2>2, Zenon DEF Receives, Server!Dispatch
    <2>4. Server!handleIncomingData("self", "ping")
      BY <1>4, <2>3 DEF Receives, Server!handleIncomingData, Server!tick
    <2> QED
      BY <2>4 DEF Server!SessionStep, Server!Messages
  <1>5. CASE Fails
    <2>1. AsQueued' = Append(AsQueued, "partial")
      BY <1>0, <1>5 DEF Fails, AsQueued
    <2>2. Len(queued') = Len(queued) + 1 /\ Len(queued) < MaxFrames + 1
      BY <1>0, <1>5, MaxFramesAssumption DEF Fails
    <2>3. Server!Dispatch("self", "partial")
      BY <1>5, <2>1, <2>2, Zenon DEF Fails, Server!Dispatch
    <2> QED
      BY <1>5, <2>3 DEF Fails, ReadErrorAtOnce, Server!removeSessById
  <1> QED
    BY <1>1, <1>2, <1>3, <1>4, <1>5, StepEffects, SMTT(20) DEF Effects

LEMMA StartStep == ASSUME ViewInv, [RolesNext]_allVars PROVE StartInv'
  BY StepEffects, ZenonT(30) DEF ViewInv, StartInv, Effects, Keeps, Starts, Leaves, Receives, Fails

\* on_timer starts no read, and ends those it does not abort later.
LEMMA TimerTouches ==
    ASSUME TypeOK, OnTimer
    PROVE  /\ op["read"] = "none" <=> op'["read"] = "none"
           /\ op["accept"] = "none" <=> op'["accept"] = "none"
           /\ op'["read"] \in Frames => op["read"] \in Frames
  <1> USE OpNames DEF TypeOK
  <1>1. CASE OnTimerMoved
    BY <1>1 DEF OnTimerMoved
  <1>2. CASE OnTimerPing
    <2>1. PICK p \in Pings : op' = [op EXCEPT !["timer"] = "pending", ![p] = "pending"]
      BY <1>2, ZenonT(30) DEF OnTimerPing
    <2> QED
      BY <2>1
  <1>3. CASE OnTimerClose
    BY <1>3 DEF OnTimerClose, Frames
  <1> QED
    BY <1>1, <1>2, <1>3 DEF OnTimer

LEMMA ReadsOnceStep == ASSUME ViewInv, [RolesNext]_allVars PROVE ReadsOnce'
  <1> USE OpNames DEF ViewInv, RolesIInv, ReadsOnce
  <1>0. op \in [Ops -> {"none", "pending"} \cup Results]
    BY DEF TypeOK
  <1>1. CASE LinkStep
    BY <1>1, LinkChanges, SMTT(20)
       DEF LinkStep, onResolve, onConnect, onHandshake, LinkHandler, LinkEnds
  <1>2. CASE Main
    BY <1>0, <1>2
       DEF Main, ConnectAsClient, WaitForConnect, RunTimer, RunCancel, RunForget, RunExpiry,
           RunRead, MainStep, WaitCancelled, vars, RoleInv, ConnectingInv, Arming
  <1>3. CASE OwnStep
    <2>1. main' = main
      BY <1>3 DEF OwnStep, roleVars
    <2>2. CASE /\ op["accept"] = "none" => op'["accept"] = "none"
               /\ op["read"] = "none" => op'["read"] = "none"
      BY <2>1, <2>2
    <2>3. CASE RunAsServer /\ main = "listener"
      BY <1>0, <2>1, <2>3, SMTT(20) DEF RunAsServer, RoleInv, AcceptedInv, NotStarted
    <2>4. CASE OnAccept
      BY <1>0, <2>1, <2>4, SMTT(20) DEF OnAccept, Results, Frames
    <2>5. CASE Network
      <3>1. CASE \E f \in Frames : PeerSends(f)
        BY <2>2, <3>1 DEF PeerSends
      <3>2. ASSUME NEW o \in Ops, NEW r \in Results, Completes(o, r) PROVE ReadsOnce'
        BY <1>0, <2>1, <3>2 DEF Completes, Complete
      <3> QED
        BY <2>5, <3>1, <3>2, NetworkCases, SMTT(20)
    <2>6. CASE OnControlCallback \/ OnRead
      BY <1>0, <2>2, <2>6
         DEF OnControlCallback, OnRead, OnReadClosed, OnReadAborted, OnReadError, OnReadEmpty,
             OnReadMessage, WaitCancelled
    <2>7. CASE OnTimer
      BY <1>0, <2>2, <2>7, TimerTouches, SMTT(20)
    <2>8. ASSUME NEW p \in Pings, OnPing(p) PROVE ReadsOnce'
      BY <1>0, <2>2, <2>8, SMTT(20) DEF OnPing
    <2>9. CASE Elapse
      BY <1>0, <2>2, <2>9, SMTT(20) DEF Elapse
    <2>10. CASE OnWriteError \/ UNCHANGED vars
      BY <2>2, <2>10 DEF OnWriteError, vars
    <2> QED
      BY <1>3, <2>3, <2>4, <2>5, <2>6, <2>7, <2>8, <2>9, <2>10, SMTT(20) DEF OwnStep, StrandHandler
  <1> QED
    BY <1>1, <1>2, <1>3, RolesCases, SMTT(20)

\* A step that receives nothing and starts no read keeps the count.
CountKept ==
    /\ UNCHANGED <<sent, inbox, queued>>
    /\ op["read"] = "none" => op'["read"] = "none"
    /\ op["accept"] = "none" => op'["accept"] = "none"
    /\ op'["read"] \in Frames => op["read"] \in Frames
    /\ expiry # "never" => expiry' # "never"

LEMMA CountKeptStep ==
    ASSUME ViewInv, CountKept, main' = main \/ main \notin {"listener", "running"}
    PROVE  CountInv'
  BY DEF ViewInv, RolesIInv, TypeOK, CountKept, CountInv, HasPartial, Reading

LEMMA OwnCount == ASSUME ViewInv, OwnStep PROVE CountInv'
  <1> USE OpNames DEF ViewInv, RolesIInv
  <1>0. /\ op \in [Ops -> {"none", "pending"} \cup Results] /\ main' = main
        /\ sent \in Nat /\ inbox \in Seq(Frames) /\ queued \in Seq({"msg", "partial"})
        /\ Len(inbox) \in Nat /\ Len(queued) \in Nat /\ MaxFrames \in Nat
    BY MaxFramesAssumption DEF TypeOK, OwnStep, roleVars
  <1>1. CASE CountKept
    BY <1>0, <1>1, CountKeptStep, SMTT(20)
  <1>2. ASSUME NEW f \in Frames, PeerSends(f) PROVE CountInv'
    <2>1. /\ sent' = sent + 1 /\ sent < MaxFrames /\ Len(inbox') = Len(inbox) + 1
          /\ UNCHANGED <<op, queued, expiry>>
      BY <1>0, <1>2 DEF PeerSends
    <2> QED
      BY <1>0, <2>1 DEF CountInv, HasPartial, Reading
  <1>3. CASE FrameArrives
    <2>1. /\ op["read"] = "pending" /\ op'["read"] = Head(inbox) /\ inbox # <<>>
          /\ Len(inbox') = Len(inbox) - 1 /\ UNCHANGED <<sent, queued>>
      BY <1>0, <1>3 DEF FrameArrives, Readable, Complete
    <2>2. ~HasPartial /\ ~HasPartial'
      BY <2>1 DEF CountInv, HasPartial
    <2>3. Reading = 0 /\ Reading' \in 0..1
      BY <2>1 DEF Reading, Frames
    <2> QED
      BY <1>0, <2>1, <2>2, <2>3, SMTT(20) DEF CountInv
  <1>4. CASE OpEnds \/ OpOnClosedSocket
    <2>1. PICK o \in Ops, r \in {"ok", "error", "aborted"} : Complete(o, r) /\ inbox' = inbox
      BY <1>4 DEF OpEnds, OpOnClosedSocket
    <2> QED
      BY <1>0, <1>1, <2>1 DEF CountKept, Complete, Frames
  <1>5. CASE OnReadMessage
    <2>1. /\ op["read"] \in {"msg", "junk"} /\ op'["read"] \in {"pending", "none"}
          /\ queued' = queued \/ queued' = Append(queued, "msg")
          /\ UNCHANGED <<sent, inbox>>
      BY <1>0, <1>5 DEF OnReadMessage
    <2>2. ~HasPartial /\ ~HasPartial'
      <3>1. ~HasPartial
        BY <2>1 DEF CountInv
      <3>2. \A i \in DOMAIN queued' :
               queued'[i] = "msg" \/ (i \in DOMAIN queued /\ queued'[i] = queued[i])
        BY <1>0, <2>1
      <3> QED
        BY <3>1, <3>2 DEF HasPartial
    <2>3. Reading = 1 /\ Reading' = 0 /\ Len(queued') <= Len(queued) + 1 /\ Len(queued') \in Nat
      BY <1>0, <2>1 DEF Reading, Frames
    <2> QED
      BY <1>0, <2>1, <2>2, <2>3 DEF CountInv
  <1>6. CASE OnReadError
    <2>1. /\ op["read"] = "error" /\ op'["read"] = "none" /\ op'["accept"] = op["accept"]
          /\ queued' = queued \/ queued' = Append(queued, "partial")
          /\ UNCHANGED <<sent, inbox, expiry>>
      BY <1>0, <1>6 DEF OnReadError
    <2>2. CASE queued' = queued
      BY <1>1, <2>1, <2>2, SMTT(20) DEF CountKept, Frames
    <2>3. CASE queued' = Append(queued, "partial")
      <3>1. HasPartial'
        BY <1>0, <2>3 DEF HasPartial
      <3>2. op["accept"] = "none" /\ main # "read"
        BY <2>1 DEF ReadsOnce
      <3>3. expiry # "never" /\ main \in {"listener", "running"}
        BY <2>1, <3>2, OpsAfterDeadline, SMTT(20)
      <3> QED
        BY <1>0, <2>1, <3>1, <3>2, <3>3, SMTT(20) DEF CountInv
    <2> QED
      BY <2>1, <2>2, <2>3, SMTT(20)
  <1>7. CASE RunAsServer /\ main = "listener"
    <2>1. op["read"] = "none" /\ op'["read"] = "none" /\ ~HasPartial
          /\ UNCHANGED <<sent, inbox, queued>>
      BY <1>0, <1>7 DEF RunAsServer, RoleInv, AcceptedInv, NotStarted, CountInv
    <2> QED
      BY <1>0, <2>1 DEF CountInv, HasPartial, Reading
  <1>8. CASE OnAccept
    <2>1. op["accept"] # "none" /\ op["read"] = "none" /\ op'["read"] \in {"none", "pending"}
          /\ UNCHANGED <<sent, inbox, queued>>
      BY <1>0, <1>8 DEF OnAccept, ReadsOnce, Results, Frames
    <2>2. ~HasPartial /\ ~HasPartial'
      BY <2>1 DEF CountInv, HasPartial
    <2> QED
      BY <1>0, <2>1, <2>2, SMTT(20) DEF CountInv, Reading, Frames
  <1>9. CASE OnControlCallback \/ OnReadClosed \/ OnReadAborted \/ OnReadEmpty
    BY <1>0, <1>1, <1>9, SMTT(20)
       DEF CountKept, OnControlCallback, OnReadClosed, OnReadAborted, OnReadEmpty, RemoteActivity,
           WaitCancelled, Frames
  <1>10. CASE OnTimer
    <2>1. UNCHANGED <<sent, inbox, queued>> /\ (expiry # "never" => expiry' # "never")
      BY <1>10 DEF OnTimer, OnTimerMoved, OnTimerPing, OnTimerClose
    <2> QED
      BY <1>1, <1>10, <2>1, TimerTouches, SMTT(20) DEF CountKept
  <1>11. ASSUME NEW p \in Pings, OnPing(p) PROVE CountInv'
    BY <1>0, <1>1, <1>11 DEF CountKept, OnPing
  <1>12. CASE Elapse
    BY <1>0, <1>1, <1>12 DEF CountKept, Elapse
  <1>13. CASE OnWriteError \/ UNCHANGED vars
    BY <1>1, <1>13 DEF CountKept, OnWriteError, vars
  <1> QED
    BY <1>2, <1>3, <1>4, <1>5, <1>6, <1>7, <1>8, <1>9, <1>10, <1>11, <1>12, <1>13, SMTT(20)
       DEF OwnStep, StrandHandler, OnRead, Network

LEMMA CountStep == ASSUME ViewInv, [RolesNext]_allVars PROVE CountInv'
  <1> USE OpNames DEF ViewInv, RolesIInv
  <1>1. CASE LinkStep
    <2>1. CountKept /\ main' = main
      BY <1>1, LinkChanges
         DEF CountKept, LinkStep, onResolve, onConnect, onHandshake, LinkHandler, LinkEnds
    <2> QED
      BY <2>1, CountKeptStep, SMTT(20)
  <1>2. CASE RunRead
    <2>1. /\ main = "read" /\ op["read"] = "none" /\ op'["read"] = "pending"
          /\ UNCHANGED <<sent, inbox, queued>>
      BY <1>2 DEF RunRead, MainStep, ReadsOnce, TypeOK
    <2>2. ~HasPartial /\ ~HasPartial'
      BY <2>1 DEF CountInv, HasPartial
    <2> QED
      BY <2>1, <2>2 DEF CountInv, Reading, Frames
  <1>3. CASE Main /\ ~RunRead
    <2>1. main \notin {"listener", "running"}
      BY <1>3, SMTT(20) DEF Main, ConnectAsClient, WaitForConnect, RunTimer, RunCancel, RunForget, RunExpiry,
                  MainStep
    <2>2. CountKept
      BY <1>3 DEF Main, ConnectAsClient, WaitForConnect, RunTimer, RunCancel, RunForget, RunExpiry,
                  CountKept, WaitCancelled, vars, TypeOK
    <2> QED
      BY <2>1, <2>2, CountKeptStep, SMTT(20)
  <1> QED
    BY <1>1, <1>2, <1>3, RolesCases, OwnCount, SMTT(20)

-----------------------------------------------------------------------------
\* A session in either role implements the session that WsServer has: it is added
\* once, receives only while started, and half a message leaves it unregistered.
THEOREM SessionRefinesServer == RolesSpec => SessionView
  <1>1. ViewInv /\ RolesIInv' /\ [RolesNext]_allVars => ViewInv'
    BY StartStep, ReadsOnceStep, CountStep DEF ViewInv
  <1>2. ViewInv /\ [RolesNext]_allVars =>
            [Server!SessionStep("self") \/ ReadErrorAtOnce]_Server!vars
    BY ViewStep
  <1>3. RolesInit => ViewInv /\ Server!Init
    BY ViewInit
  <1> QED
    BY <1>1, <1>2, <1>3, RolesIInvHolds, PTL DEF RolesSpec, SessionView
=============================================================================
