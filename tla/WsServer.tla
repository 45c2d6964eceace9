------------------------------ MODULE WsServer ------------------------------
(***************************************************************************)
(* WSServer and SessionManagerBase: the map of sessions, filled and        *)
(* emptied by the io thread, and the main thread, which on every tick      *)
(* copies the map and runs the queued callbacks of each session in it      *)
(* (main.cpp, TickManager, NetworkManager::handleIncomingMessages).        *)
(*                                                                         *)
(* A session lives as long as a shared_ptr to it does: in the map, in a    *)
(* handler of its strand, or in the copy of the map a tick works on.  Its  *)
(* callbacks are bound to a plain pointer.  Of the strand only what        *)
(* touches the map or the queue is kept, in any order: module              *)
(* SessionInServer shows that this covers what WsSession does.  An         *)
(* identifier is random (genGuid), so a session stands for its own.        *)
(***************************************************************************)
EXTENDS Naturals, SequencesExt

CONSTANTS
    Sessions,
    NoSession,
    MaxMessages    \* bound on the messages received by all sessions together

ASSUME ServerAssumption == NoSession \notin Sessions /\ MaxMessages \in Nat

\* What a message is to its callback: a ping, with or without a zero byte in it; a
\* csv file, with or without a row that cannot be evaluated; a csv answer; the
\* first part of a message whose read failed, which may be evaluated or not.
Messages == {"ping", "pingWithZero", "csv", "csvMalformed", "answer", "partial"}

VARIABLES
    sessions_,   \* the registered sessions
    strand,      \* handlers of each session: "running" from its registration on,
                 \* "failing" inside on_read, "ended" when none holds the session
    queue,       \* receivedMessagesQueue_ of each session
    received,    \* history: number of messages dispatched
    main,        \* the main thread: sleeping, in a tick, or terminated
    snapshot,    \* the copy of sessions_ that this tick works on
    todo,        \* sessions of the copy not yet served
    cur,         \* the session in DispatchQueued
    calling,     \* the message whose callback is about to run, or "none"
    served,      \* history: messages whose callbacks returned, by session
    replies      \* history: what send() was called with, by session

vars == <<sessions_, strand, queue, received, main, snapshot, todo, cur, calling,
          served, replies>>

tick == <<main, snapshot, todo, cur, calling, served, replies>>

Init ==
    /\ sessions_ = {}
    /\ strand = [s \in Sessions |-> "none"]
    /\ queue = [s \in Sessions |-> <<>>]
    /\ received = 0
    /\ main = "sleeping"
    /\ snapshot = {}
    /\ todo = {}
    /\ cur = NoSession
    /\ calling = "none"
    /\ served = [s \in Sessions |-> <<>>]
    /\ replies = [s \in Sessions |-> <<>>]

\* Sessions some handler still holds a shared_ptr to.
Held == {s \in Sessions : strand[s] \in {"running", "failing"}}

MutRefs == sessions_ \cup Held    \* the copy holds plain pointers

\* callbacks in the queue of a session are bound to a shared_ptr to it
MutRefsCycle == sessions_ \cup Held \cup snapshot \cup {s \in Sessions : queue[s] # <<>>}

\* getSessions() returns the map, shared_ptrs included, by value.
Refs == sessions_ \cup Held \cup snapshot

Destroyed(s) == strand[s] # "none" /\ s \notin Refs

-----------------------------------------------------------------------------
\* The io thread.

\* removeSessById
removeSessById(s) == sessions_' = sessions_ \ {s}

\* WsListener::on_accept or addClientSession: the session is registered and run.
addSession(s) ==
    /\ strand[s] = "none"
    /\ strand' = [strand EXCEPT ![s] = "running"]
    /\ sessions_' = sessions_ \cup {s}
    /\ UNCHANGED <<queue, received, tick>>

\* on_read: handleIncomingData dispatches a message that has a callback.
Dispatch(s, m) ==
    /\ received < MaxMessages
    /\ received' = received + 1
    /\ queue' = [queue EXCEPT ![s] = Append(@, m)]

handleIncomingData(s, m) ==
    /\ strand[s] = "running"
    /\ Dispatch(s, m)
    /\ UNCHANGED <<sessions_, strand, tick>>

\* on_session_fail of any handler, or on_timer closes.  Other handlers go on.
unregisterSession(s) ==
    /\ strand[s] = "running"
    /\ removeSessById(s)
    /\ UNCHANGED <<strand, queue, received, tick>>

MutPartialFirst(s) ==       \* dispatches what was read, and unregisters afterwards
    /\ strand[s] = "running"
    /\ strand' = [strand EXCEPT ![s] = "failing"]
    /\ Dispatch(s, "partial")
    /\ UNCHANGED <<sessions_, tick>>

\* on_read with an error: on_session_fail first ...
ReadFails(s) ==
    /\ strand[s] = "running"
    /\ strand' = [strand EXCEPT ![s] = "failing"]
    /\ removeSessById(s)
    /\ UNCHANGED <<queue, received, tick>>

\* ... and then what is in the buffer is dispatched, if there is any.
ReadFailed(s) ==
    /\ strand[s] = "failing"
    /\ strand' = [strand EXCEPT ![s] = "running"]
    /\ Dispatch(s, "partial") \/ UNCHANGED <<queue, received>>
    /\ UNCHANGED <<sessions_, tick>>

\* The last handler returns.  A registered session always has another one:
\* TimerGuards of WsSession.
HandlersEnd(s) ==
    /\ strand[s] = "running" /\ s \notin sessions_
    /\ strand' = [strand EXCEPT ![s] = "ended"]
    /\ UNCHANGED <<sessions_, queue, received, tick>>

-----------------------------------------------------------------------------
\* The main thread.
io == <<sessions_, strand, received>>

TickOver(copy) ==
    /\ main = "sleeping"
    /\ main' = "ticking"
    /\ snapshot' = copy
    /\ todo' = copy
    /\ UNCHANGED <<io, queue, cur, calling, served, replies>>

\* works on all sessions there ever were, by plain pointers
MutTickOverAll == TickOver({s \in Sessions : strand[s] # "none"})

\* tm.tick(), handleIncomingMessages, doToAllSessions: copy the map.
Tick == TickOver(sessions_)

\* The loop of doToAllSessions goes to some session it has not been to.
NextSession(s) ==
    /\ main = "ticking"
    /\ cur = NoSession
    /\ s \in todo
    /\ cur' = s
    /\ UNCHANGED <<io, queue, main, snapshot, todo, calling, served, replies>>

\* DispatchQueued (module DispatchQueue): take the oldest callback ...
DispatchQueued ==
    /\ cur # NoSession /\ calling = "none"
    /\ queue[cur] # <<>>
    /\ calling' = Head(queue[cur])
    /\ queue' = [queue EXCEPT ![cur] = Tail(@)]
    /\ UNCHANGED <<io, main, snapshot, todo, cur, served, replies>>

MutAnswerEchoesAll(m) == <<m>>      \* one callback for all opcodes

\* What each callback sends.  send(shared_ptr) passes c_str() on, so a message is
\* cut at its first zero byte.  csvAnswerCallback sends nothing.
Answer(m) ==
    CASE m = "ping" -> <<"ping">>
      [] m = "pingWithZero" -> <<"pingCut">>
      [] m = "partial" -> <<"partial">>
      [] m = "csv" -> <<"rows">>
      [] OTHER -> <<>>

\* ... and run it: pingCallback, csvAnalizeCallback or csvAnswerCallback.
CallbackReplies(to) ==
    /\ calling \notin {"none", "csvMalformed"}
    /\ calling' = "none"
    /\ served' = [served EXCEPT ![cur] = Append(@, calling)]
    /\ replies' = [s \in Sessions |-> IF s \in to THEN replies[s] \o Answer(calling)
                                      ELSE replies[s]]
    /\ UNCHANGED <<io, queue, main, snapshot, todo, cur>>

MutReplyToAll == CallbackReplies(sessions_ \cup {cur})   \* sendToAll, not send

Callback == CallbackReplies({cur})

\* lexical_cast, or the bare "throw;" of CSV::getAtRef: nobody catches it.
CallbackThrows ==
    /\ calling \in {"csvMalformed", "partial"}
    /\ main' = "terminated"
    /\ calling' = "none"
    /\ cur' = NoSession
    /\ UNCHANGED <<io, queue, snapshot, todo, served, replies>>

\* The loop of doToAllSessions moves on.
LeaveWhen(done) ==
    /\ cur # NoSession /\ calling = "none"
    /\ done
    /\ cur' = NoSession
    /\ todo' = todo \ {cur}
    /\ UNCHANGED <<io, queue, main, snapshot, calling, served, replies>>

\* goes on polling the queue of a session
MutNeverLeaves == LeaveWhen(FALSE)

\* DispatchQueued returns when it finds the queue empty.
SessionDone == LeaveWhen(queue[cur] = <<>>)

\* The end of the loop: the copy of the map goes away.
EndTick ==
    /\ main = "ticking"
    /\ cur = NoSession /\ todo = {}
    /\ main' = "sleeping"
    /\ snapshot' = {}
    /\ UNCHANGED <<io, queue, todo, cur, calling, served, replies>>

-----------------------------------------------------------------------------
Main ==
    \/ Tick \/ DispatchQueued \/ Callback \/ CallbackThrows \/ SessionDone \/ EndTick
    \/ \E s \in Sessions : NextSession(s)

SessionStep(s) ==
    \/ addSession(s) \/ unregisterSession(s)
    \/ ReadFails(s) \/ ReadFailed(s) \/ HandlersEnd(s)
    \/ \E m \in Messages \ {"partial"} : handleIncomingData(s, m)

Io == main # "terminated" /\ \E s \in Sessions : SessionStep(s)

Terminated == main = "terminated" /\ UNCHANGED vars

Next == Main \/ Io \/ Terminated

Spec == Init /\ [][Next]_vars

\* The main thread goes on ticking and its callbacks return.  Nothing is promised
\* of the sessions.
FairSpec == Spec /\ WF_vars(Main)

-----------------------------------------------------------------------------
\* Types.
TypeOK ==
    /\ sessions_ \subseteq Sessions
    /\ strand \in [Sessions -> {"none", "running", "failing", "ended"}]
    /\ queue \in [Sessions -> Seq(Messages)]
    /\ received \in Nat
    /\ main \in {"sleeping", "ticking", "terminated"}
    /\ snapshot \subseteq Sessions
    /\ todo \subseteq Sessions
    /\ cur \in Sessions \cup {NoSession}
    /\ calling \in Messages \cup {"none"}
    /\ served \in [Sessions -> Seq(Messages)]
    /\ replies \in [Sessions -> Seq({"ping", "pingCut", "partial", "rows"})]

\* The main thread never works on a session that was destroyed: callbacks hold a
\* plain pointer, and the session may be unregistered and closed by the io thread
\* at any moment of the tick.
CallbackOnLiveSession == cur # NoSession => cur \in todo /\ todo \subseteq Refs

\* A session that was destroyed is never found again.
NoResurrection == [][\A s \in Sessions : Destroyed(s) => Destroyed(s)']_vars

\* The part of a message that on_read dispatches after a read error can be served
\* by a tick that copied the map before, and by no later one.
PartialNeverRegistered ==
    \A s \in sessions_ : \A i \in DOMAIN queue[s] : queue[s][i] # "partial"

\* What a session is sent is what its own requests called for, in their order,
\* although all sessions share the main thread.
RepliesMatchRequests ==
    \A s \in Sessions :
        replies[s] = FoldLeft(LAMBDA sent, m : sent \o Answer(m), <<>>, served[s])

\* A queued message is served, unless its session is unregistered first or the
\* main thread terminates.
EveryMessageServed ==
    \A s \in Sessions :
        queue[s] # <<>> ~> queue[s] = <<>> \/ s \notin sessions_ \/ main = "terminated"

\* A session that is unregistered and has no handler left is destroyed: no tick
\* holds on to its copy.
SessionFreed ==
    \A s \in Sessions :
        strand[s] = "ended" ~> Destroyed(s) \/ main = "terminated"
=============================================================================
