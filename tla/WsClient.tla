------------------------------ MODULE WsClient ------------------------------
(***************************************************************************)
(* Both ways a WsSession starts.  An accepted session is run by the        *)
(* listener (module WsSession).  A connecting one is made by the main      *)
(* thread of client/main.cpp, which calls addClientSession and             *)
(* connectAsClient, polls isOpen() in waitForConnect for a second, and     *)
(* then either gives up and calls nm->finish() or calls runAsClient.       *)
(*                                                                         *)
(* runAsClient works on ws_ and timer_ from the main thread, while the     *)
(* handlers run on the strand: that is a data race.  Its calls, and the    *)
(* three stores of expires_after, are steps of their own here, and any     *)
(* handler may run between two of them.  (A handler that spans two of the  *)
(* stores is left out: its wait would have the right deadline.)            *)
(***************************************************************************)
EXTENDS WsSession

VARIABLES
    main,    \* the thread that made the session: "listener", or where client/main.cpp is
    stage,   \* what connects the session: resolve, connect, handshake, or "none"
    linked   \* state of that operation

roleVars == <<main, stage, linked>>
allVars == <<vars, roleVars>>

RolesInit ==
    /\ Init
    /\ main \in {"listener", "created"}
    /\ stage = "none"
    /\ linked = "none"

-----------------------------------------------------------------------------
\* addClientSession, which registers the session, and connectAsClient.
ConnectAsClient ==
    /\ main = "created"
    /\ main' = "waiting"
    /\ stage' = "resolve"
    /\ linked' = "pending"
    /\ UNCHANGED vars

\* Resolving, connecting or the handshake ends.  The stream is open before the
\* handler of the handshake runs.  No timer is running yet.
LinkEnds(r) ==
    /\ linked = "pending"
    /\ linked' = r
    /\ stream' = IF stage = "handshake" /\ r = "ok" THEN "open" ELSE stream
    /\ UNCHANGED <<socket, op, registered, queued, peer, timing, seen, main, stage>>

\* The handler of a stage: on_session_fail, or start the next one.
LinkHandler(at, next) ==
    /\ stage = at
    /\ linked \in {"ok", "error"}
    /\ stage' = IF linked = "ok" THEN next ELSE "none"
    /\ linked' = IF stage' = "none" THEN "none" ELSE "pending"
    /\ registered' = (registered /\ linked = "ok")
    /\ UNCHANGED <<stream, socket, queued, peer, timing, seen, main>>

onResolve == LinkHandler("resolve", "connect") /\ UNCHANGED op

onConnect == LinkHandler("connect", "handshake") /\ UNCHANGED op

\* starts reading, as on_accept does
MutHandshakeReads ==
    /\ LinkHandler("handshake", "none")
    /\ op' = [op EXCEPT !["read"] = IF linked = "ok" THEN "pending" ELSE @]

onHandshake == LinkHandler("handshake", "none") /\ UNCHANGED op

\* waitForConnect returns isOpen(), at the latest after maxWait_ms.
WaitForConnect ==
    /\ main = "waiting"
    /\ main' = IF isOpen THEN "run" ELSE "gaveUp"
    /\ UNCHANGED <<vars, stage, linked>>

-----------------------------------------------------------------------------
\* runAsClient.
MainStep(from, to) == main = from /\ main' = to /\ UNCHANGED <<stage, linked>>

\* on_timer({}) waits for time_point::max ...
RunTimer ==
    /\ MainStep("run", "cancel")
    /\ op' = [op EXCEPT !["timer"] = "pending"]
    /\ wait' = WaitFor(expiry)
    /\ UNCHANGED <<stream, socket, expiry, pingState_, registered, queued, periods, peer, seen>>

\* ... expires_after cancels that wait, whose handler calls on_timer again, ...
RunCancel ==
    /\ MainStep("cancel", "forget")
    /\ op' = WaitCancelled
    /\ UNCHANGED <<stream, socket, registered, queued, peer, timing, seen>>

RunForget ==
    /\ MainStep("forget", "set")
    /\ wait' = WaitForgotten
    /\ UNCHANGED <<stream, socket, op, expiry, pingState_, registered, queued, periods,
                   peer, seen>>

\* ... and sets the deadline.
RunExpiry ==
    /\ MainStep("set", "read")
    /\ expiry' = "future"
    /\ UNCHANGED <<stream, socket, op, wait, pingState_, registered, queued, periods,
                   peer, seen>>

\* isFullyCreated_, do_read(); main goes on to send() and to the loop of ticks.
RunRead ==
    /\ MainStep("read", "running")
    /\ isFullyCreated_' = TRUE
    /\ op' = [op EXCEPT !["read"] = "pending"]
    /\ UNCHANGED <<stream, socket, registered, queued, sawEmpty, assertFailed, peer, timing>>

-----------------------------------------------------------------------------
Main ==
    \/ ConnectAsClient \/ WaitForConnect
    \/ RunTimer \/ RunCancel \/ RunForget \/ RunExpiry \/ RunRead

Running == main \in {"listener", "running"}

\* Everything on the strand; runAsServer only for an accepted session.
RolesHandler ==
    \/ onResolve \/ onConnect \/ onHandshake
    \/ main = "listener" /\ RunAsServer /\ UNCHANGED roleVars
    \/ StrandHandler /\ UNCHANGED roleVars

\* The main thread does not take fifteen seconds for runAsClient, and sends after it.
RolesElapse == Running /\ Elapse /\ UNCHANGED roleVars

\* No operation is left for the io threads, unless main starts one.
OutOfWork == linked = "none" /\ \A o \in Ops : op[o] = "none"

\* Nothing happens any more, or not before time_point::max.
RolesTerminated ==
    /\ \/ OutOfWork /\ (~registered \/ main = "gaveUp")
       \/ main = "running" /\ op["timer"] = "pending" /\ wait.till = "never"
    /\ UNCHANGED allVars

RolesNext ==
    \/ Main \/ RolesHandler \/ RolesElapse \/ RolesTerminated
    \/ \E r \in {"ok", "error"} : LinkEnds(r)
    \/ Network /\ UNCHANGED roleVars
    \/ Running /\ OnWriteError /\ UNCHANGED roleVars

RolesSpec == RolesInit /\ [][RolesNext]_allVars

\* As in WsSession, and the main thread goes on.  Connecting need not end: nothing
\* is assumed of the peer.
RolesFairSpec ==
    /\ RolesSpec
    /\ WF_allVars(Main)
    /\ WF_allVars(RolesHandler)
    /\ WF_allVars(FrameArrives /\ UNCHANGED roleVars)
    /\ WF_allVars(OpOnClosedSocket /\ UNCHANGED roleVars)
    /\ WF_allVars(RolesElapse)

-----------------------------------------------------------------------------
\* Whatever the peer does or fails to do, a session that is run is unregistered and
\* all its operations end, if on_timer waits for deadlines (see WaitsForDeadline).
SessionReleased ==
    <>[]WaitsForDeadline => (Running ~> Released /\ linked = "none")

\* A client that gave up has its io_context run out of work, so that nm->finish()
\* returns, if only the operation it gave up on ends: also when the handshake
\* succeeds after waitForConnect returned.
GiveUpEnds ==
    <>[](linked # "pending") => (main = "gaveUp" ~> []OutOfWork)
=============================================================================
