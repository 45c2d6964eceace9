--------------------------- MODULE WsServer_proofs ---------------------------
(***************************************************************************)
(* Lifetimes in the server, for any sessions and any number of messages:   *)
(* the main thread works on live sessions only, a destroyed session stays  *)
(* destroyed, half a message is never in the queue of a session that a     *)
(* later tick can find, and what a session was sent answers its own        *)
(* messages, in their order.                                               *)
(***************************************************************************)
EXTENDS WsServer, WellFoundedInduction, TLAPS

USE DEF tick, io, TickOver, CallbackReplies, LeaveWhen

\* A tick works through its own copy.
TickInv ==
    /\ main # "ticking" => cur = NoSession
    /\ todo \subseteq snapshot
    /\ cur # NoSession => cur \in todo

\* A registered session is running, and one that was not yet added received nothing.
StrandInv ==
    /\ \A s \in sessions_ : strand[s] = "running"
    /\ \A s \in Sessions : strand[s] = "none" => queue[s] = <<>>

IInv == TypeOK /\ TickInv /\ StrandInv /\ PartialNeverRegistered

-----------------------------------------------------------------------------
LEMMA InitIInv == ASSUME Init PROVE IInv
  <1>1. TypeOK
    BY ServerAssumption DEF Init, TypeOK
  <1> QED
    BY <1>1 DEF Init, IInv, TickInv, StrandInv, PartialNeverRegistered

LEMMA AnswerType ==
    ASSUME NEW m \in Messages
    PROVE  Answer(m) \in Seq({"ping", "pingCut", "partial", "rows"})
  <1>1. CASE m = "ping"
    BY <1>1 DEF Answer
  <1>2. CASE m = "pingWithZero"
    BY <1>2 DEF Answer
  <1>3. CASE m = "partial"
    BY <1>3 DEF Answer
  <1>4. CASE m = "csv"
    BY <1>4 DEF Answer
  <1>5. CASE m \in {"csvMalformed", "answer"}
    BY <1>5 DEF Answer
  <1> QED
    BY <1>1, <1>2, <1>3, <1>4, <1>5 DEF Messages

LEMMA TypeStep == ASSUME TypeOK, [Next]_vars PROVE TypeOK'
  <1> USE ServerAssumption DEF TypeOK
  <1>1. ASSUME NEW s \in Sessions, SessionStep(s) PROVE TypeOK'
    <2>1. CASE addSession(s)
      BY <2>1 DEF addSession
    <2>2. CASE unregisterSession(s)
      BY <2>2 DEF unregisterSession, removeSessById
    <2>3. CASE ReadFails(s)
      BY <2>3 DEF ReadFails, removeSessById
    <2>4. ASSUME NEW m \in Messages, Dispatch(s, m)
          PROVE  queue' \in [Sessions -> Seq(Messages)] /\ received' \in Nat
      BY <2>4 DEF Dispatch
    <2>5. CASE ReadFailed(s)
      BY <2>4, <2>5, Zenon DEF ReadFailed, Messages
    <2>6. CASE HandlersEnd(s)
      BY <2>6 DEF HandlersEnd
    <2>7. ASSUME NEW m \in Messages, handleIncomingData(s, m) PROVE TypeOK'
      BY <2>4, <2>7, SMTT(20) DEF handleIncomingData
    <2> QED
      BY <1>1, <2>1, <2>2, <2>3, <2>5, <2>6, <2>7, Zenon DEF SessionStep
  <1>2. CASE Tick
    BY <1>2 DEF Tick
  <1>3. ASSUME NEW s \in Sessions, NextSession(s) PROVE TypeOK'
    BY <1>3 DEF NextSession
  <1>4. CASE DispatchQueued
    BY <1>4 DEF DispatchQueued
  <1>5. CASE Callback
    <2>1. calling \in Messages /\ cur \in Sessions \cup {NoSession}
      BY <1>5 DEF Callback
    <2>2. Answer(calling) \in Seq({"ping", "pingCut", "partial", "rows"})
      BY <2>1, AnswerType
    <2>3. replies' \in [Sessions -> Seq({"ping", "pingCut", "partial", "rows"})]
      <3>1. \A t \in Sessions : replies[t] \o Answer(calling) \in Seq({"ping", "pingCut", "partial", "rows"})
        BY <2>2
      <3> QED
        BY <1>5, <3>1 DEF Callback
    <2>4. served' \in [Sessions -> Seq(Messages)]
      <3>1. \A t \in Sessions : Append(served[t], calling) \in Seq(Messages)
        BY <2>1
      <3> QED
        BY <1>5, <3>1, Zenon DEF Callback
    <2> QED
      BY <1>5, <2>3, <2>4 DEF Callback
  <1>6. CASE CallbackThrows
    BY <1>6 DEF CallbackThrows
  <1>7. CASE SessionDone
    BY <1>7 DEF SessionDone
  <1>8. CASE EndTick
    BY <1>8 DEF EndTick
  <1>9. CASE UNCHANGED vars
    BY <1>9 DEF vars
  <1> QED
    BY <1>1, <1>2, <1>3, <1>4, <1>5, <1>6, <1>7, <1>8, <1>9, Zenon DEF Next, Main, Io, Terminated

LEMMA TickStep == ASSUME TypeOK, TickInv, [Next]_vars PROVE TickInv'
  <1> USE DEF TickInv
  <1>1. CASE Io \/ Terminated \/ UNCHANGED vars
    BY <1>1 DEF Io, SessionStep, addSession, unregisterSession, ReadFails, ReadFailed, HandlersEnd,
                handleIncomingData, Terminated, vars
  <1>2. CASE Main
    BY <1>2 DEF Main, Tick, NextSession, DispatchQueued, Callback, CallbackThrows, SessionDone,
                EndTick, TypeOK
  <1> QED
    BY <1>1, <1>2 DEF Next

\* The map, the strands and the queues change together, or the main thread takes
\* the front of a queue.
LEMMA StrandStep ==
    ASSUME TypeOK, StrandInv, PartialNeverRegistered, [Next]_vars
    PROVE  StrandInv' /\ PartialNeverRegistered'
  <1> USE DEF TypeOK, StrandInv, PartialNeverRegistered
  <1>1. ASSUME NEW s \in Sessions, addSession(s) PROVE StrandInv' /\ PartialNeverRegistered'
    BY <1>1, SMTT(20) DEF addSession
  <1>2. ASSUME NEW s \in Sessions, unregisterSession(s)
        PROVE  StrandInv' /\ PartialNeverRegistered'
    BY <1>2 DEF unregisterSession, removeSessById
  <1>3. ASSUME NEW s \in Sessions, ReadFails(s) PROVE StrandInv' /\ PartialNeverRegistered'
    BY <1>3 DEF ReadFails, removeSessById
  <1>4. ASSUME NEW s \in Sessions, ReadFailed(s) PROVE StrandInv' /\ PartialNeverRegistered'
    <2>1. s \notin sessions_ /\ sessions_' = sessions_
      BY <1>4 DEF ReadFailed
    <2>2. strand' = [strand EXCEPT ![s] = "running"]
      BY <1>4 DEF ReadFailed
    <2>3. \A t \in Sessions \ {s} : queue'[t] = queue[t]
      BY <1>4 DEF ReadFailed, Dispatch
    <2>4. StrandInv'
      BY <2>1, <2>2, <2>3
    <2>5. \A t \in sessions_' : t \in sessions_ /\ queue'[t] = queue[t]
      BY <2>1, <2>3
    <2> QED
      BY <2>4, <2>5
  <1>5. ASSUME NEW s \in Sessions, HandlersEnd(s) PROVE StrandInv' /\ PartialNeverRegistered'
    BY <1>5 DEF HandlersEnd
  <1>6. ASSUME NEW s \in Sessions, NEW m \in Messages \ {"partial"}, handleIncomingData(s, m)
        PROVE  StrandInv' /\ PartialNeverRegistered'
    <2>1. /\ queue' = [queue EXCEPT ![s] = Append(queue[s], m)]
          /\ strand[s] = "running" /\ UNCHANGED <<sessions_, strand>>
      BY <1>6 DEF handleIncomingData, Dispatch
    <2>2. \A i \in DOMAIN queue'[s] :
             queue'[s][i] = m \/ (i \in DOMAIN queue[s] /\ queue'[s][i] = queue[s][i])
      BY <2>1
    <2> QED
      BY <2>1, <2>2
  <1>7. CASE DispatchQueued
    <2>1. /\ queue' = [queue EXCEPT ![cur] = Tail(queue[cur])] /\ cur \in Sessions
          /\ queue[cur] # <<>> /\ UNCHANGED <<sessions_, strand>>
      BY <1>7 DEF DispatchQueued
    <2>2. \A i \in DOMAIN queue'[cur] :
             i + 1 \in DOMAIN queue[cur] /\ queue'[cur][i] = queue[cur][i + 1]
      BY <2>1
    <2> QED
      BY <2>1, <2>2
  <1>8. ASSUME UNCHANGED <<sessions_, strand, queue>>
        PROVE  StrandInv' /\ PartialNeverRegistered'
    BY <1>8
  <1> QED
    BY <1>1, <1>2, <1>3, <1>4, <1>5, <1>6, <1>7, <1>8, SMTT(20)
       DEF Next, Main, Io, SessionStep, Terminated, vars, Tick, NextSession, Callback,
           CallbackThrows, SessionDone, EndTick

\* A session whose last handler returned starts none.
LEMMA StrandsOfOthers ==
    ASSUME TypeOK, [Next]_vars, NEW s \in Sessions,
           strand[s] \notin {"none", "running", "failing"}
    PROVE  strand'[s] = strand[s]
  <1> USE DEF TypeOK
  <1>1. ASSUME NEW t \in Sessions, SessionStep(t) PROVE strand'[s] = strand[s]
    BY <1>1 DEF SessionStep, addSession, unregisterSession, ReadFails, ReadFailed, HandlersEnd,
                handleIncomingData
  <1>2. CASE Main \/ Terminated \/ UNCHANGED vars
    BY <1>2 DEF Main, Terminated, vars, Tick, NextSession, DispatchQueued, Callback,
                CallbackThrows, SessionDone, EndTick
  <1> QED
    BY <1>1, <1>2 DEF Next, Io

-----------------------------------------------------------------------------
\* The inductive invariant of the server.
THEOREM IInvHolds == Spec => []IInv
  <1>1. IInv /\ [Next]_vars => IInv'
    BY TypeStep, TickStep, StrandStep DEF IInv
  <1> QED
    BY <1>1, InitIInv, PTL DEF Spec

\* The types of the server, for any sessions and messages.
THEOREM TypeCorrect == Spec => []TypeOK
  BY IInvHolds, PTL DEF IInv

\* The main thread never works on a session that was destroyed, whenever the io thread
\* unregisters it: the tick's copy of the map keeps it.
THEOREM TickIsSafe == Spec => []CallbackOnLiveSession
  <1>1. IInv => CallbackOnLiveSession
    BY DEF IInv, TickInv, CallbackOnLiveSession, Refs
  <1> QED
    BY <1>1, IInvHolds, PTL

\* No tick that starts after a read error finds the part of a message it left behind.
THEOREM PartialIsHidden == Spec => []PartialNeverRegistered
  BY IInvHolds, PTL DEF IInv

\* A destroyed session is in no map, copy or handler ever again.
THEOREM DestroyedForGood == Spec => NoResurrection
  <1>1. ASSUME IInv, [Next]_vars
        PROVE  [\A s \in Sessions : Destroyed(s) => Destroyed(s)']_vars
    <2> SUFFICES ASSUME NEW s \in Sessions, Destroyed(s) PROVE Destroyed(s)'
      OBVIOUS
    <2>1. /\ strand[s] \notin {"none", "running", "failing"}
          /\ s \notin sessions_ /\ s \notin snapshot
      BY DEF Destroyed, Refs, Held
    <2>2. strand'[s] = strand[s]
      BY <1>1, <2>1, StrandsOfOthers, SMTT(20) DEF IInv
    <2>3. s \notin sessions_' /\ s \notin snapshot'
      BY <1>1, <2>1
         DEF Next, Main, Io, SessionStep, Terminated, vars, Tick, NextSession, DispatchQueued,
             Callback, CallbackThrows, SessionDone, EndTick, addSession, unregisterSession,
             removeSessById, ReadFails, ReadFailed, HandlersEnd, handleIncomingData
    <2> QED
      BY <2>1, <2>2, <2>3 DEF Destroyed, Refs, Held
  <1> QED
    BY <1>1, IInvHolds, PTL DEF Spec, NoResurrection

-----------------------------------------------------------------------------
\* What a session is sent.  FoldLeft is a recursive function on sets of indices; two
\* facts about it are needed, and they rest on induction over Nat, which here is the
\* least element of a set of counterexamples.
LEMMA NatInduct == ASSUME NEW T \in SUBSET Nat, 0 \in T, \A n \in T : n + 1 \in T PROVE T = Nat
  <1> SUFFICES ASSUME T # Nat PROVE FALSE
    OBVIOUS
  <1> DEFINE U == Nat \ T
             R == OpToRel(<, Nat)
  <1>1. IsWellFoundedOn(R, Nat)
    BY NatLessThanWellFounded, Zenon
  <1>2. \A x, y \in Nat : x < y => <<x, y>> \in R
    BY DEF OpToRel
  <1> HIDE DEF R
  <1>3. \E x \in U : \A y \in U : ~(<<y, x>> \in R)
    BY <1>1, WFMin, Zenon
  <1>4. PICK x \in U : \A y \in U : ~(<<y, x>> \in R)
    BY <1>3
  <1>5. \A y \in U : ~(y < x)
    BY <1>2, <1>4, Zenon
  <1>6. x - 1 \in Nat /\ x - 1 \notin U
    BY <1>4, <1>5
  <1> QED
    BY <1>4, <1>6

\* The replies to all of a sequence of messages, and the recursion it is defined by.
Answers(s) == FoldLeft(LAMBDA sent, m : sent \o Answer(m), <<>>, s)

IsFold(f, s, S) ==
    f = [t \in SUBSET S |-> IF t = {} THEN <<>>
                            ELSE f[t \ {Max(t)}] \o Answer(s[Max(t)])]

LEMMA AnswersIsFold ==
    ASSUME NEW s
    PROVE  Answers(s) = (CHOOSE f : IsFold(f, s, DOMAIN s))[DOMAIN s]
  BY DEF Answers, FoldLeft, MapThenFoldSet, IsFold

LEMMA MaxUpTo ==
    ASSUME NEW n \in Nat, NEW t \in SUBSET (1..(n + 1)), n + 1 \in t
    PROVE  Max(t) = n + 1
  <1>1. \A y \in t : n + 1 >= y
    OBVIOUS
  <1>2. \A x \in t : (\A y \in t : x >= y) => x = n + 1
    OBVIOUS
  <1> QED
    BY <1>1, <1>2, Zenon DEF Max

LEMMA FoldExists ==
    ASSUME NEW s, NEW n \in Nat
    PROVE  \E f : IsFold(f, s, 1..n)
  <1> DEFINE T == {k \in Nat : \E f : IsFold(f, s, 1..k)}
  <1>1. 0 \in T
    <2>1. SUBSET (1..0) = {{}}
      OBVIOUS
    <2>2. IsFold([t \in SUBSET (1..0) |-> <<>>], s, 1..0)
      BY <2>1, Zenon DEF IsFold
    <2> QED
      BY <2>2
  <1>2. ASSUME NEW k \in T PROVE k + 1 \in T
    <2>1. PICK f : IsFold(f, s, 1..k)
      OBVIOUS
    <2> DEFINE g == [t \in SUBSET (1..(k + 1)) |->
                        IF k + 1 \in t THEN f[t \ {k + 1}] \o Answer(s[k + 1]) ELSE f[t]]
    <2>2. ASSUME NEW t \in SUBSET (1..(k + 1))
          PROVE  g[t] = IF t = {} THEN <<>> ELSE g[t \ {Max(t)}] \o Answer(s[Max(t)])
      <3>1. CASE k + 1 \in t
        <4>1. Max(t) = k + 1 /\ t \ {k + 1} \in SUBSET (1..(k + 1)) /\ k + 1 \notin t \ {k + 1}
          BY <3>1, MaxUpTo
        <4>2. g[t \ {k + 1}] = f[t \ {k + 1}]
          BY <4>1
        <4> QED
          BY <3>1, <4>1, <4>2, Zenon
      <3>2. CASE k + 1 \notin t
        <4>1. t \in SUBSET (1..k) /\ g[t] = f[t]
          BY <3>2
        <4>2. f[t] = IF t = {} THEN <<>> ELSE f[t \ {Max(t)}] \o Answer(s[Max(t)])
          BY <2>1, <4>1, Zenon DEF IsFold
        <4>3. t \ {Max(t)} \in SUBSET (1..(k + 1)) /\ k + 1 \notin t \ {Max(t)}
          BY <3>2, ZenonT(30)
        <4>4. g[t \ {Max(t)}] = f[t \ {Max(t)}]
          BY <4>3
        <4> QED
          BY <4>1, <4>2, <4>4
      <3> QED
        BY <3>1, <3>2
    <2>3. IsFold(g, s, 1..(k + 1))
      BY <2>2, Zenon DEF IsFold
    <2> QED
      BY <2>3
  <1>3. T = Nat
    BY <1>1, <1>2, NatInduct, Zenon
  <1> QED
    BY <1>3

LEMMA AnswersToNone == Answers(<<>>) = <<>>
  <1>1. DOMAIN <<>> = 1..0 /\ 1..0 = {}
    OBVIOUS
  <1>2. \E f : IsFold(f, <<>>, DOMAIN <<>>)
    BY <1>1, FoldExists
  <1>3. PICK f : IsFold(f, <<>>, DOMAIN <<>>) /\ Answers(<<>>) = f[DOMAIN <<>>]
    BY <1>2, AnswersIsFold, SMTT(20)
  <1> QED
    BY <1>1, <1>3 DEF IsFold

\* One step of the recursion on an initial segment.
LEMMA FoldStep ==
    ASSUME NEW s, NEW n \in Nat, NEW f, IsFold(f, s, 1..n)
    PROVE  \A k \in Nat : k < n => f[1..(k + 1)] = f[1..k] \o Answer(s[k + 1])
  <1> SUFFICES ASSUME NEW k \in Nat, k < n
               PROVE  f[1..(k + 1)] = f[1..k] \o Answer(s[k + 1])
    BY Zenon
  <1>1. 1..(k + 1) \in SUBSET (1..n) /\ k + 1 \in 1..(k + 1)
    OBVIOUS
  <1>2. Max(1..(k + 1)) = k + 1
    BY <1>1, MaxUpTo
  <1>3. (1..(k + 1)) \ {k + 1} = 1..k
    OBVIOUS
  <1> QED
    BY <1>1, <1>2, <1>3, Zenon DEF IsFold

LEMMA AnswersGrow ==
    ASSUME NEW s \in Seq(Messages), NEW m \in Messages
    PROVE  Answers(Append(s, m)) = Answers(s) \o Answer(m)
  <1> DEFINE r == Append(s, m)
             n == Len(s)
  <1>1. /\ n \in Nat /\ DOMAIN s = 1..n /\ DOMAIN r = 1..(n + 1)
        /\ r[n + 1] = m /\ \A i \in 1..n : r[i] = s[i]
    OBVIOUS
  <1> HIDE DEF r, n
  <1>2. PICK f : IsFold(f, s, 1..n) /\ Answers(s) = f[1..n]
    <2>1. \E f : IsFold(f, s, 1..n)
      BY <1>1, FoldExists, Zenon
    <2> QED
      BY <1>1, <2>1, AnswersIsFold, Zenon
  <1>3. PICK g : IsFold(g, r, 1..(n + 1)) /\ Answers(r) = g[1..(n + 1)]
    <2>1. n + 1 \in Nat
      BY <1>1
    <2>2. \E g : IsFold(g, r, 1..(n + 1))
      BY <2>1, FoldExists, Zenon
    <2> QED
      BY <1>1, <2>2, AnswersIsFold, Zenon
  <1>4. \A k \in Nat : k < n => f[1..(k + 1)] = f[1..k] \o Answer(s[k + 1])
    <2>1. n \in Nat
      BY <1>1
    <2> QED
      BY <1>2, <2>1, FoldStep, ZenonT(30)
  <1>5. \A k \in Nat : k < n + 1 => g[1..(k + 1)] = g[1..k] \o Answer(r[k + 1])
    <2>1. n + 1 \in Nat
      BY <1>1
    <2> QED
      BY <1>3, <2>1, FoldStep, ZenonT(30)
  <1> DEFINE T == {k \in Nat : k <= n => f[1..k] = g[1..k]}
  <1>6. 0 \in T
    <2>1. 1..0 = {}
      OBVIOUS
    <2> QED
      BY <1>1, <1>2, <1>3, <2>1 DEF IsFold
  <1>7. ASSUME NEW k \in T PROVE k + 1 \in T
    <2> SUFFICES ASSUME k + 1 <= n PROVE f[1..(k + 1)] = g[1..(k + 1)]
      OBVIOUS
    <2>1. k < n /\ k < n + 1 /\ r[k + 1] = s[k + 1] /\ f[1..k] = g[1..k]
      BY <1>1
    <2> QED
      BY <1>4, <1>5, <2>1, Zenon
  <1>8. T = Nat
    BY <1>6, <1>7, NatInduct, Zenon
  <1>9. f[1..n] = g[1..n]
    BY <1>1, <1>8
  <1>10. g[1..(n + 1)] = g[1..n] \o Answer(m)
    <2> HIDE DEF T
    <2>1. n \in Nat /\ n < n + 1
      BY <1>1
    <2>2. g[1..(n + 1)] = g[1..n] \o Answer(r[n + 1])
      BY <1>5, <2>1, Zenon
    <2> QED
      BY <1>1, <2>2, Zenon
  <1> QED
    BY <1>2, <1>3, <1>9, <1>10 DEF r

\* RepliesMatchRequests, by Answers.
RepliesInv == \A s \in Sessions : replies[s] = Answers(served[s])

\* Only a callback that returns changes what was served and sent, and of one session.
LEMMA HistoryStep ==
    ASSUME TypeOK, [Next]_vars, ~Callback
    PROVE  served' = served /\ replies' = replies
  BY DEF Next, Main, Io, SessionStep, Terminated, vars, addSession, unregisterSession, ReadFails,
         ReadFailed, HandlersEnd, handleIncomingData, Tick, NextSession, DispatchQueued,
         CallbackThrows, SessionDone, EndTick

\* Every session is sent the answers to its own requests and to nothing else, in the
\* order in which they were served, whatever the other sessions do meanwhile.
THEOREM OwnReplies == Spec => []RepliesMatchRequests
  <1>1. Init => RepliesInv
    BY AnswersToNone DEF Init, RepliesInv
  <1>2. ASSUME IInv, RepliesInv, [Next]_vars PROVE RepliesInv'
    <2>1. CASE ~Callback
      BY <1>2, <2>1, HistoryStep DEF IInv, RepliesInv
    <2>2. CASE Callback
      <3>1. calling \in Messages /\ served \in [Sessions -> Seq(Messages)]
        BY <1>2, <2>2 DEF Callback, IInv, TypeOK
      <3>2. ASSUME NEW s \in Sessions, s = cur PROVE replies'[s] = Answers(served'[s])
        <4>1. served'[s] = Append(served[s], calling) /\ replies'[s] = replies[s] \o Answer(calling)
          BY <2>2, <3>1, <3>2 DEF Callback
        <4>2. Answers(Append(served[s], calling)) = Answers(served[s]) \o Answer(calling)
          BY <3>1, AnswersGrow
        <4> QED
          BY <1>2, <4>1, <4>2, Zenon DEF RepliesInv
      <3>3. ASSUME NEW s \in Sessions, s # cur PROVE replies'[s] = Answers(served'[s])
        <4>1. served'[s] = served[s] /\ replies'[s] = replies[s]
          BY <2>2, <3>1, <3>3 DEF Callback
        <4> QED
          BY <1>2, <4>1 DEF RepliesInv
      <3> QED
        BY <3>2, <3>3 DEF RepliesInv
    <2> QED
      BY <2>1, <2>2
  <1>3. RepliesInv => RepliesMatchRequests
    BY Zenon DEF RepliesInv, RepliesMatchRequests, Answers
  <1> QED
    BY <1>1, <1>2, <1>3, IInvHolds, PTL DEF Spec
=============================================================================
