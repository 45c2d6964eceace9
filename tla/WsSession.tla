----------------------------- MODULE WsSession -----------------------------
(***************************************************************************)
(* The life of one session (src/net/websockets/WsSession.cpp): handshake,  *)
(* read loop, keep-alive pings, timeout and unregistration.  Spec is the   *)
(* life of an accepted session; module WsClient adds the connecting one.   *)
(* Its handlers run one at a time on strand_, so each handler is one step. *)
(* runAsServer is called on the strand of the listener; with the one io    *)
(* thread of ServerConfig::loadConf it is one step too.                    *)
(* An asynchronous operation is started ("pending"), completes with a      *)
(* result, and later its handler runs: between completion and handler      *)
(* other handlers may run.  What sending does is in module WsSend; here    *)
(* only the failure of a write is visible.                                 *)
(*                                                                         *)
(* Boost.Beast and Boost.Asio are external.  What is used of them:         *)
(* is_open() is the status of the stream, not of the socket; closing the   *)
(* socket completes its outstanding operations with operation_aborted;     *)
(* expires_after cancels a pending wait but not one already completed, and *)
(* a wait is for the deadline that was set when it was started;            *)
(* control frames are only seen while a read is outstanding.               *)
(***************************************************************************)
EXTENDS Naturals, Sequences

CONSTANTS
    Pings,       \* slots for outstanding async_ping operations; see PingsAssumption
    MaxFrames    \* bound on the frames the peer sends

Ops == {"accept", "read", "timer"} \cup Pings

ASSUME PingsAssumption ==
    /\ Pings # {}
    /\ Pings \cap {"accept", "read", "timer"} = {}

ASSUME MaxFramesAssumption == MaxFrames \in Nat

\* A message whose opcode has a callback, one that is too short or unknown, one
\* of length zero, a ping or pong, a close frame.
Frames == {"msg", "junk", "empty", "control", "close"}

VARIABLES
    stream,      \* status of ws_; is_open() is stream = "open"
    socket,      \* FALSE when the TCP socket under ws_ was closed by on_timer
    op,          \* state of every asynchronous operation
    expiry,      \* expiry() of timer_: time_point::max, ahead or behind now
    wait,        \* the last async_wait of timer_: its deadline, and whether timer_
                 \* still knows that it may have to be cancelled
    pingState_,
    isFullyCreated_,
    registered,  \* is the session in sessions_ of the server?
    inbox,       \* frames that arrived and were not read
    sent,        \* number of frames the peer sent
    queued,      \* what was dispatched to receivedMessagesQueue_
    sawEmpty,    \* history: on_read got an empty message
    periods,     \* history: deadlines passed since the last control frame, up to 2
    assertFailed \* history: the BOOST_ASSERT of on_ping failed

vars == <<stream, socket, op, expiry, wait, pingState_, isFullyCreated_, registered,
          inbox, sent, queued, sawEmpty, periods, assertFailed>>

peer == <<inbox, sent>>
timing == <<expiry, wait, pingState_, periods>>
seen == <<isFullyCreated_, sawEmpty, assertFailed>>

isOpen == stream = "open"

Results == Frames \cup {"ok", "error", "aborted"}

\* The constructor, and the registration by WsListener::on_accept.
Init ==
    /\ stream = "handshake"
    /\ socket = TRUE
    /\ op = [o \in Ops |-> "none"]
    /\ expiry = "never"
    /\ wait = [till |-> "never", cancellable |-> FALSE]
    /\ pingState_ = "ALIVE"
    /\ isFullyCreated_ = FALSE
    /\ registered = TRUE
    /\ inbox = <<>>
    /\ sent = 0
    /\ queued = <<>>
    /\ sawEmpty = FALSE
    /\ periods = 0
    /\ assertFailed = FALSE

\* Status of the stream after one of its operations failed.
Failed == IF isOpen THEN "failed" ELSE stream

\* The last shared_ptr is gone: not in sessions_, and no handler holds one.
Released == ~registered /\ \A o \in Ops : op[o] = "none"

\* timer_.expires_after() cancels a wait that is pending ...
WaitCancelled ==
    [op EXCEPT !["timer"] = IF @ = "pending" /\ wait.cancellable THEN "aborted" ELSE @]

\* ... notes that none is left, and sets the deadline.
WaitForgotten == [wait EXCEPT !.cancellable = FALSE]

\* timer_.async_wait(), when the deadline is d.
WaitFor(d) == [till |-> d, cancellable |-> TRUE]

-----------------------------------------------------------------------------
\* The peer and the operating system.

PeerSends(f) ==
    /\ isOpen /\ socket
    /\ sent < MaxFrames
    /\ "close" \notin {inbox[i] : i \in DOMAIN inbox}
    /\ sent' = sent + 1
    /\ inbox' = Append(inbox, f)
    /\ UNCHANGED <<stream, socket, op, registered, queued, timing, seen>>

Complete(o, r) ==
    /\ op[o] = "pending"
    /\ op' = [op EXCEPT ![o] = r]
    /\ UNCHANGED <<stream, socket, registered, sent, queued, timing, seen>>

Readable == op["read"] = "pending" /\ isOpen /\ socket /\ inbox # <<>>

FrameArrives ==
    /\ Readable
    /\ Complete("read", Head(inbox))
    /\ inbox' = Tail(inbox)

\* The handshake, a ping or a read ends by itself; a read only by a failure.
OpEnds ==
    /\ socket
    /\ \/ \E r \in {"ok", "error"} : Complete("accept", r)
       \/ isOpen /\ \E p \in Pings, r \in {"ok", "error"} : Complete(p, r)
       \/ isOpen /\ Complete("read", "error")
       \/ stream \in {"closed", "failed"} /\
             \E o \in Pings \cup {"read"}, r \in {"error", "aborted"} : Complete(o, r)
    /\ UNCHANGED inbox

\* An operation started on the closed socket fails.
OpOnClosedSocket ==
    /\ ~socket
    /\ \E o \in Ops \ {"timer"} : Complete(o, "error")
    /\ UNCHANGED inbox

\* Fifteen seconds are long compared with the work of the strand: the deadline
\* passes only when nothing is waiting to be run or read.
Quiescent ==
    /\ \A o \in Ops : op[o] \in {"none", "pending"}
    /\ ~Readable

Elapse ==
    /\ expiry = "future"
    /\ op["timer"] = "pending" /\ wait.till = "future"
    /\ Quiescent
    /\ expiry' = "past"
    /\ op' = [op EXCEPT !["timer"] = "ok"]
    /\ periods' = IF periods < 2 THEN periods + 1 ELSE 2
    /\ UNCHANGED <<stream, socket, wait, pingState_, registered, queued, peer, seen>>

-----------------------------------------------------------------------------
\* runAsServer: on_timer({}) starts the wait, expires_after cancels it at once.
RunAsServer ==
    /\ expiry = "never"
    /\ expiry' = "future"
    /\ wait' = [till |-> "never", cancellable |-> FALSE]
    /\ op' = [op EXCEPT !["timer"] = "aborted", !["accept"] = "pending"]
    /\ UNCHANGED <<stream, socket, pingState_, registered, queued, periods, peer, seen>>

\* on_session_fail() is unregisterSession(id): registered' = FALSE.
OnAccept ==
    /\ op["accept"] \in Results
    /\ \/ /\ op["accept"] = "aborted"
          /\ op' = [op EXCEPT !["accept"] = "none"]
          /\ UNCHANGED <<stream, isFullyCreated_, registered>>
       \/ /\ op["accept"] = "error"
          /\ op' = [op EXCEPT !["accept"] = "none"]
          /\ registered' = FALSE
          /\ UNCHANGED <<stream, isFullyCreated_>>
       \/ /\ op["accept"] = "ok"
          /\ stream' = "open"
          /\ isFullyCreated_' = TRUE
          /\ op' = [op EXCEPT !["accept"] = "none", !["read"] = "pending"]
          /\ UNCHANGED registered
    /\ UNCHANGED <<socket, queued, sawEmpty, assertFailed, peer, timing>>

\* The deadline moves.
Activity(ping) ==
    pingState_' = ping /\ expiry' = "future" /\ wait' = WaitForgotten /\ periods' = 0

MutActivityKeepsPing == Activity(pingState_)    \* forgets to reset pingState_

\* on_control_callback and onRemoteActivity.
RemoteActivity == Activity("ALIVE")

\* A ping or pong is handled inside the read, which goes on.
OnControlCallback ==
    /\ op["read"] = "control"
    /\ RemoteActivity
    /\ op' = [WaitCancelled EXCEPT !["read"] = "pending"]
    /\ UNCHANGED <<stream, socket, registered, queued, peer, seen>>

\* The peer closed: the callback is called, then on_read gets error::closed and
\* returns.  The session stays registered.
OnReadClosed ==
    /\ op["read"] = "close"
    /\ RemoteActivity
    /\ stream' = "closed"
    /\ op' = [WaitCancelled EXCEPT !["read"] = "none"]
    /\ UNCHANGED <<socket, registered, queued, peer, seen>>

OnReadAborted ==
    /\ op["read"] = "aborted"
    /\ stream' = Failed
    /\ op' = [op EXCEPT !["read"] = "none"]
    /\ UNCHANGED <<socket, registered, queued, peer, timing, seen>>

\* A read error does not make on_read return: the part of a message that is
\* already in the buffer is dispatched like a message.
ReadErrorThen(reg) ==
    /\ op["read"] = "error"
    /\ stream' = Failed
    /\ registered' = reg
    /\ op' = [op EXCEPT !["read"] = "none"]
    /\ queued' \in {queued, Append(queued, "partial")}
    /\ UNCHANGED <<socket, peer, timing, seen>>

MutReadErrorKeeps == ReadErrorThen(registered)  \* forgets on_session_fail

\* Any other error: on_session_fail before that.
OnReadError == ReadErrorThen(FALSE)

\* An empty buffer: on_read returns without another read.  (So it would for more
\* than maxReceiveMsgSizebyte, which read_message_max does not let through.)
OnReadEmpty ==
    /\ op["read"] = "empty"
    /\ op' = [op EXCEPT !["read"] = "none"]
    /\ sawEmpty' = TRUE
    /\ UNCHANGED <<stream, socket, isFullyCreated_, registered, queued, assertFailed,
                   peer, timing>>

\* handleIncomingData dispatches a known message; then maybe read again.
MessageThen(again) ==
    /\ op["read"] \in {"msg", "junk"}
    /\ queued' = IF op["read"] = "msg" THEN Append(queued, "msg") ELSE queued
    /\ op' = [op EXCEPT !["read"] = IF again THEN "pending" ELSE "none"]
    /\ UNCHANGED <<stream, socket, registered, peer, timing, seen>>

\* returns when handleIncomingData returns false
MutJunkEndsLoop == MessageThen(isOpen /\ op["read"] = "msg")

OnReadMessage == MessageThen(isOpen)

OnRead == OnReadClosed \/ OnReadAborted \/ OnReadError \/ OnReadEmpty \/ OnReadMessage

MutPingAdvances(p) ==       \* steps the enumeration instead of testing SENDING
    /\ op[p] \in Results
    /\ op' = [op EXCEPT ![p] = "none"]
    /\ pingState_' = CASE pingState_ = "ALIVE" -> "SENDING"
                       [] pingState_ = "SENDING" -> "SENT"
                       [] OTHER -> "TOTAL"
    /\ UNCHANGED <<stream, socket, expiry, wait, registered, queued, periods, peer, seen>>

\* The assertion is an observation: a build with NDEBUG goes on.
OnPing(p) ==
    /\ op[p] \in Results
    /\ op' = [op EXCEPT ![p] = "none"]
    /\ stream' = IF op[p] = "ok" THEN stream ELSE Failed
    /\ registered' = (registered /\ op[p] # "error")
    /\ pingState_' = IF op[p] = "ok" /\ pingState_ = "SENDING" THEN "SENT" ELSE pingState_
    /\ assertFailed' = (assertFailed \/ (op[p] = "ok" /\ pingState_ = "SENT"))
    /\ UNCHANGED <<socket, expiry, wait, isFullyCreated_, queued, sawEmpty, periods, peer>>

TimerMovedThen(again) ==
    /\ op["timer"] \in Results
    /\ expiry # "past"
    /\ op' = [op EXCEPT !["timer"] = IF again THEN "pending" ELSE "none"]
    /\ wait' = WaitFor(expiry)
    /\ UNCHANGED <<stream, socket, expiry, pingState_, registered, queued, periods, peer, seen>>

\* treats operation_aborted like the other handlers do
MutTimerAbortedReturns == TimerMovedThen(op["timer"] # "aborted")

\* The deadline has moved: wait again.
OnTimerMoved == TimerMovedThen(TRUE)

\* First expiry: send a ping and wait for another period.
OnTimerPing ==
    /\ op["timer"] \in Results
    /\ expiry = "past"
    /\ isOpen /\ pingState_ = "ALIVE"
    /\ pingState_' = "SENDING"
    /\ expiry' = "future"
    /\ wait' = WaitFor("future")
    /\ \E p \in Pings :       \* any slot that is free; they are all alike
          /\ op[p] = "none" /\ p = (CHOOSE q \in Pings : op[q] = "none")
          /\ op' = [op EXCEPT !["timer"] = "pending", ![p] = "pending"]
    /\ UNCHANGED <<stream, socket, registered, queued, periods, peer, seen>>

\* Closing the socket aborts what is pending.
TimerClosesThen(reg) ==
    /\ op["timer"] \in Results
    /\ expiry = "past"
    /\ ~(isOpen /\ pingState_ = "ALIVE")
    /\ socket' = FALSE
    /\ registered' = reg
    /\ op' = [o \in Ops |-> IF o = "timer" THEN "none"
                            ELSE IF op[o] = "pending" THEN "aborted" ELSE op[o]]
    /\ UNCHANGED <<stream, queued, peer, timing, seen>>

MutTimerCloseKeeps == TimerClosesThen(registered)   \* forgets unregisterSession

\* Second expiry, or not open: close, unregister, and leave without another wait.
OnTimerClose == TimerClosesThen(FALSE)

OnTimer == OnTimerMoved \/ OnTimerPing \/ OnTimerClose

\* on_write, which holds a shared_ptr, gets an error (see WsSend): on_session_fail.
OnWriteError ==
    /\ isOpen /\ ~Released
    /\ stream' = "failed"
    /\ registered' = FALSE
    /\ UNCHANGED <<socket, op, queued, peer, timing, seen>>

-----------------------------------------------------------------------------
Terminated == Released /\ UNCHANGED vars

StrandHandler ==
    \/ OnAccept \/ OnControlCallback \/ OnRead \/ OnTimer
    \/ \E p \in Pings : OnPing(p)

Handler == RunAsServer \/ StrandHandler

Network ==
    \/ \E f \in Frames : PeerSends(f)
    \/ FrameArrives \/ OpEnds \/ OpOnClosedSocket

Environment == Network \/ Elapse \/ OnWriteError

Next == Handler \/ Environment \/ Terminated

Spec == Init /\ [][Next]_vars

\* The io threads run the strand, arrived data is delivered, operations on a
\* closed socket end, and time passes.  Nothing is assumed of the peer: it may
\* fall silent and pings may never complete.
Fairness ==
    /\ WF_vars(Handler)
    /\ WF_vars(FrameArrives)
    /\ WF_vars(OpOnClosedSocket)
    /\ WF_vars(Elapse)

FairSpec == Spec /\ Fairness

-----------------------------------------------------------------------------
\* Types: PING_STATE::TOTAL is never a state.
TypeOK ==
    /\ stream \in {"handshake", "open", "closed", "failed"}
    /\ socket \in BOOLEAN
    /\ op \in [Ops -> {"none", "pending"} \cup Results]
    /\ op["timer"] \in {"none", "pending", "ok", "aborted"}
    /\ op["accept"] \in {"none", "pending", "ok", "error", "aborted"}
    /\ \A p \in Pings : op[p] \in {"none", "pending", "ok", "error", "aborted"}
    /\ expiry \in {"never", "future", "past"}
    /\ wait \in [till : {"never", "future"}, cancellable : BOOLEAN]
    /\ pingState_ \in {"ALIVE", "SENDING", "SENT"}
    /\ isFullyCreated_ \in BOOLEAN
    /\ registered \in BOOLEAN
    /\ inbox \in Seq(Frames)
    /\ sent \in Nat
    /\ queued \in Seq({"msg", "partial"})
    /\ sawEmpty \in BOOLEAN
    /\ periods \in 0..2
    /\ assertFailed \in BOOLEAN

\* A registered session is always watched: its timer is being waited for, or the
\* handler of a finished wait has yet to run.  on_read returns on a closed stream
\* without unregistering, so nothing else would ever remove such a session.
TimerGuards == registered /\ expiry # "never" => op["timer"] # "none"

\* "The timer is operated continuously" (runAsServer, runAsClient): once a deadline
\* is set, a pending wait is for a deadline, not for time_point::max, and can be
\* cancelled when the deadline moves.
WaitsForDeadline ==
    expiry # "never" /\ op["timer"] = "pending" => wait = WaitFor("future")

\* Until a message of length zero arrives, an open session that was set up has a read
\* outstanding, whatever mix of bad messages, pings and timeouts it has seen.
ReadLoopAlive == isOpen /\ isFullyCreated_ /\ ~sawEmpty => op["read"] # "none"

\* on_read goes on after a read error and may dispatch half a message, but only
\* after the session was unregistered: no tick that starts later finds the session
\* (for a tick already under way see PartialNeverRegistered of WsServer).
TruncatedNotServed ==
    (\E i \in DOMAIN queued : queued[i] = "partial") => ~registered

\* An open session is closed by its timer only if two whole periods passed since
\* the last control frame: one before the ping, one for the answer.  A deadline that
\* moved while the handler of the old one was queued does not count.
GraceBeforeClose == [][socket /\ ~socket' /\ isOpen => periods = 2]_vars

\* BOOST_ASSERT(pingState_ == PING_STATE::ALIVE) in on_ping holds.
PingAssertHolds == ~assertFailed

\* "[The control callback] will be called on every incoming ping, pong, and close
\* frame": a frame that arrived does not stay unread until the next deadline.
ControlCallbackOnEveryFrame ==
    [][isOpen /\ expiry = "future" /\ expiry' = "past"
          => \A i \in DOMAIN inbox : inbox[i] \notin {"control", "close"}]_vars
=============================================================================
