----------------------------- MODULE WsListener -----------------------------
(***************************************************************************)
(* The listener (src/net/websockets/WsListener.cpp), the io_context its    *)
(* handlers run on, and the start and end of the server: NetworkManager    *)
(* run and finish.  Handlers of the listener run on its strand_, one step  *)
(* each; addClientSession is called by the main thread of the client.      *)
(* Sessions are counted; what one does is in module WsSession.             *)
(*                                                                         *)
(* External: ioc_.run() returns as soon as no operation is outstanding     *)
(* (there is no work guard), and handlers posted later are never run.      *)
(***************************************************************************)
EXTENDS Naturals

CONSTANT MaxSessions    \* bound on the number of connections that arrive

ASSUME SessionsAssumption == MaxSessions \in Nat

VARIABLES
    acceptor_,   \* "closed", "unbound" (open, but bind or listen failed), "listening"
    socket_,     \* is socket_ open, that is, does it hold a new connection?
    accept,      \* state of the async_accept: none, pending, or its result
    needClose_,
    stop,        \* the handler posted by stop(): none, posted, done
    live,        \* accepted sessions with an outstanding operation
    started,     \* sessions started for connections that arrived
    ioc,         \* the io threads: new, running, exited
    main,        \* the main thread: starting, running, finishing, joined
    client,      \* the session of addClientSession: none, live, ended
    disturbed    \* history: an accept failed, or socket_ was moved away full

vars == <<acceptor_, socket_, accept, needClose_, stop, live, started, ioc, main,
          client, disturbed>>

threads == <<stop, ioc, main, client>>
counts == <<live, started>>

isAccepting == acceptor_ # "closed"

Init ==
    /\ acceptor_ = "closed"
    /\ socket_ = FALSE
    /\ accept = "none"
    /\ needClose_ = FALSE
    /\ stop = "none"
    /\ live = 0
    /\ started = 0
    /\ ioc = "new"
    /\ main = "starting"
    /\ client = "none"
    /\ disturbed = FALSE

\* NetworkManager::run: configureAcceptor goes as far as it can, run() starts the
\* first accept if the acceptor is open, runThreads starts the io threads.
Run ==
    /\ main = "starting"
    /\ \E a \in {"closed", "unbound", "listening"} :
          /\ acceptor_' = a
          /\ accept' = IF a = "closed" THEN "none" ELSE "pending"
    /\ ioc' = "running"
    /\ main' = "running"
    /\ UNCHANGED <<socket_, needClose_, stop, client, disturbed, counts>>

\* A connection arrives.
Arrive ==
    /\ accept = "pending" /\ acceptor_ = "listening"
    /\ started < MaxSessions
    /\ accept' = "ok"
    /\ socket_' = TRUE
    /\ UNCHANGED <<acceptor_, needClose_, disturbed, counts, threads>>

\* async_accept fails (no descriptors left, not listening, ...); socket_ stays closed.
AcceptFails ==
    /\ accept = "pending"
    /\ accept' = "error"
    /\ disturbed' = TRUE
    /\ UNCHANGED <<acceptor_, socket_, needClose_, counts, threads>>

\* on_accept goes on only if this holds ...
Continues == isAccepting /\ socket_ /\ ~needClose_

\* ... and otherwise returns: the accept loop ends.
OnAcceptReturns ==
    /\ ioc = "running"
    /\ accept \in {"ok", "error", "aborted"}
    /\ ~Continues
    /\ accept' = "none"
    /\ UNCHANGED <<acceptor_, socket_, needClose_, disturbed, counts, threads>>

\* A session takes over socket_ and is started; then maybe another accept.
Accepted(start, next) ==
    /\ ioc = "running"
    /\ accept \in {"ok", "error", "aborted"}
    /\ IF start
       THEN live' = live + 1 /\ started' = started + 1 /\ socket_' = FALSE
       ELSE UNCHANGED <<live, started, socket_>>
    /\ accept' = next
    /\ UNCHANGED <<acceptor_, needClose_, threads, disturbed>>

MutAcceptOnce == Continues /\ Accepted(accept = "ok", "none")     \* forgets do_accept()

\* looks neither at the error nor at the three conditions
MutAcceptUnchecked == Accepted(TRUE, IF needClose_ THEN "none" ELSE "pending")

\* on_accept starts a session with the socket (if ec is clear) and accepts again.
OnAccept == Continues /\ Accepted(accept = "ok", "pending")

\* addClientSession and connectAsClient: the session takes over socket_, even one
\* that just received a connection, and starts to resolve.
AddClientSession ==
    /\ main = "running"
    /\ client = "none"
    /\ ~needClose_
    /\ client' = "live"
    /\ disturbed' = (disturbed \/ socket_)
    /\ socket_' = FALSE
    /\ UNCHANGED <<acceptor_, accept, needClose_, stop, ioc, main, counts>>

\* All operations of a session have ended (WsSession!Released).
SessionEnds ==
    /\ ioc = "running"
    /\ \/ live > 0 /\ live' = live - 1 /\ UNCHANGED client
       \/ client = "live" /\ client' = "ended" /\ UNCHANGED live
    /\ UNCHANGED <<acceptor_, socket_, accept, needClose_, stop, started, ioc, main, disturbed>>

\* NetworkManager::finish: stop() posts a handler, finishThreads waits for the
\* io threads.
Finish ==
    /\ main = "running"
    /\ main' = "finishing"
    /\ stop' = "posted"
    /\ UNCHANGED <<acceptor_, socket_, accept, needClose_, ioc, client, disturbed, counts>>

\* Closing the acceptor aborts a pending accept.
StopThen(a) ==
    /\ ioc = "running"
    /\ stop = "posted"
    /\ stop' = "done"
    /\ socket_' = FALSE
    /\ acceptor_' = a
    /\ accept' = IF accept = "pending" /\ a = "closed" THEN "aborted" ELSE accept
    /\ needClose_' = TRUE
    /\ UNCHANGED <<ioc, main, client, disturbed, counts>>

MutStopKeepsAcceptor == StopThen(acceptor_)         \* forgets acceptor_.close()

\* The posted handler: close socket_ and acceptor_.
RunStop == StopThen("closed")

\* Nothing outstanding: ioc_.run() returns in every io thread.
OutOfWork == accept = "none" /\ live = 0 /\ client # "live" /\ stop # "posted"

IocExits ==
    /\ ioc = "running"
    /\ OutOfWork
    /\ ioc' = "exited"
    /\ UNCHANGED <<acceptor_, socket_, accept, needClose_, stop, main, client, disturbed, counts>>

JoinWhen(exited) ==
    /\ main = "finishing"
    /\ exited
    /\ main' = "joined"
    /\ UNCHANGED <<acceptor_, socket_, accept, needClose_, stop, ioc, client, disturbed, counts>>

MutNoJoin == JoinWhen(TRUE)     \* does not wait for the io threads

Join == JoinWhen(ioc = "exited")

\* main() returns, or the main thread goes on ticking for an io_context that has
\* exited (needServerRun() is never false).
Terminated == (main = "joined" \/ ioc = "exited") /\ UNCHANGED vars

Listener == OnAcceptReturns \/ OnAccept \/ RunStop \/ IocExits
Next ==
    \/ Run \/ Finish \/ Join \/ AddClientSession
    \/ Arrive \/ AcceptFails \/ SessionEnds
    \/ Listener
    \/ Terminated

Spec == Init /\ [][Next]_vars

\* The io threads run handlers, and the main thread gets on.  Neither
\* connections nor the end of a session are promised.
FairSpec == Spec /\ WF_vars(Listener) /\ WF_vars(Run) /\ WF_vars(Join)

-----------------------------------------------------------------------------
\* Types.
TypeOK ==
    /\ acceptor_ \in {"closed", "unbound", "listening"}
    /\ socket_ \in BOOLEAN
    /\ accept \in {"none", "pending", "ok", "error", "aborted"}
    /\ needClose_ \in BOOLEAN
    /\ stop \in {"none", "posted", "done"}
    /\ live \in Nat
    /\ started \in 0..MaxSessions
    /\ ioc \in {"new", "running", "exited"}
    /\ main \in {"starting", "running", "finishing", "joined"}
    /\ client \in {"none", "live", "ended"}
    /\ disturbed \in BOOLEAN

\* Until an accept fails or the client takes a fresh connection away, an open
\* acceptor always has an accept outstanding or its handler about to run.
AcceptLoopAlive == isAccepting /\ ~disturbed => accept # "none"

\* Once the handler of stop() has run, a connection that was accepted at the same
\* moment starts no session.
NoSessionAfterStop == [][needClose_ => started' = started]_vars

\* The io threads outlive the last session: without a work guard it is the accept
\* loop alone that keeps ioc_.run() from returning while the acceptor is open.
ServesUntilStopped == ioc = "exited" => disturbed \/ ~isAccepting

\* When finish() returns the accept loop is over and no accepted session has an
\* operation outstanding, even if the handler of stop() never ran.
JoinedIsQuiet == main = "joined" => accept = "none" /\ live = 0

\* finish() returns if the sessions end; nothing else can hold it up.
FinishReturns == <>[](live = 0 /\ client # "live") => (main = "finishing" ~> main = "joined")

\* "checks whether server is accepting new connections": when isAccepting() says
\* so after run(), an accept is outstanding or being handled.
IsAcceptingIsTrue == main = "running" /\ isAccepting => accept # "none"
=============================================================================
