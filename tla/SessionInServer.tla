--------------------------- MODULE SessionInServer ---------------------------
(***************************************************************************)
(* WsSession and WsServer together.  WsServer sees of a session only when  *)
(* it is registered and unregistered and what it puts in its queue.  This  *)
(* module says that a session, accepted or connecting, shows the server    *)
(* nothing else than the steps WsServer has for it.                        *)
(*                                                                         *)
(* The server of the instance has this one session, and its main thread    *)
(* sleeps: serving the queue is no step of a session.                      *)
(***************************************************************************)
EXTENDS WsClient

\* addSession is called just before runAsServer, or with connectAsClient.
Started == expiry # "never" \/ main \notin {"listener", "created"}

\* The server tells more kinds of messages apart; a ping stands for them.
AsQueued == [i \in DOMAIN queued |-> IF queued[i] = "msg" THEN "ping" ELSE queued[i]]

\* The strand never gets to "ended" here: that a session is destroyed is what its
\* Released means, and is no step of it.
Server == INSTANCE WsServer WITH
    Sessions <- {"self"}, NoSession <- "none", MaxMessages <- MaxFrames + 1,
    sessions_ <- IF Started /\ registered THEN {"self"} ELSE {},
    strand <- [s \in {"self"} |-> IF Started THEN "running" ELSE "none"],
    queue <- [s \in {"self"} |-> AsQueued],
    received <- Len(queued),
    main <- "sleeping", snapshot <- {}, todo <- {}, cur <- "none", calling <- "none",
    served <- [s \in {"self"} |-> <<>>], replies <- [s \in {"self"} |-> <<>>]

\* on_read with an error is one step of WsSession: ReadFails and ReadFailed of the
\* server, with nothing in between.
ReadErrorAtOnce ==
    /\ Started /\ Started'
    /\ Server!removeSessById("self")
    /\ Server!Dispatch("self", "partial")

\* Every step of a session is one that WsServer expects of it, or changes nothing
\* that the server can see: no message enters the queue before the session is
\* registered, half a message only with or after its unregistration, and no
\* session is registered twice.
SessionView ==
    Server!Init /\ [][Server!SessionStep("self") \/ ReadErrorAtOnce]_Server!vars
=============================================================================
