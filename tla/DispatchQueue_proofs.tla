------------------------ MODULE DispatchQueue_proofs ------------------------
(***************************************************************************)
(* Proofs about DispatchQueue, for any number of workers, producers,       *)
(* drainers and dispatched callbacks: its safety invariants, that it       *)
(* implements CallbackQueue, and that a single consumer finishes callbacks *)
(* in the order of their dispatch.                                         *)
(*                                                                         *)
(* The invariants are proved together as IInv.  What they lack to be       *)
(* inductive is that a thread holds a moved callback exactly while it is   *)
(* calling it, and that the destructor runs once, when no other user is    *)
(* left.                                                                   *)
(***************************************************************************)
EXTENDS DispatchQueue, TLAPS

\* A thread holds a callback exactly between popping it and its return.
HeldWhileCalling == \A t \in Threads : pc[t] = "calling" <=> moved[t] # 0

\* ~DispatchQueue is run by one user, after all the others released the queue.
OneDestructor ==
    \A u \in Users : pc[u] \in Leaving \ {"released"}
        => \A v \in Users \ {u} : pc[v] = "released"

\* The destructor does not return before every worker left dispatch_loop.
JoinedWorkers == Destroyed => \A w \in Workers : pc[w] = "exited"

IInv ==
    /\ TypeOK
    /\ HeldWhileCalling
    /\ LockDiscipline
    /\ NoLostWakeup
    /\ OneDestructor
    /\ JoinedWorkers
    /\ NothingLostOrRepeated

-----------------------------------------------------------------------------
\* Facts about sequences: what push and pop do to the elements of the queue.

LEMMA ElementsAppend ==
    ASSUME NEW S, NEW s \in Seq(S), NEW x
    PROVE  Elements(Append(s, x)) = Elements(s) \cup {x}
  <1>1. DOMAIN Append(s, x) = DOMAIN s \cup {Len(s) + 1}
    OBVIOUS
  <1>2. \A i \in DOMAIN s : Append(s, x)[i] = s[i]
    OBVIOUS
  <1>3. Append(s, x)[Len(s) + 1] = x
    OBVIOUS
  <1> QED
    BY <1>1, <1>2, <1>3 DEF Elements

LEMMA ElementsTail ==
    ASSUME NEW S, NEW s \in Seq(S), s # <<>>
    PROVE  /\ Elements(s) = Elements(Tail(s)) \cup {Head(s)}
           /\ Tail(s) \in Seq(S)
           /\ Head(s) \in S
  <1>1. /\ Tail(s) \in Seq(S) /\ Head(s) \in S /\ Head(s) = s[1]
        /\ Len(s) \in Nat \ {0}
        /\ DOMAIN s = 1..Len(s)
        /\ DOMAIN Tail(s) = 1..(Len(s) - 1)
        /\ \A i \in 1..(Len(s) - 1) : Tail(s)[i] = s[i + 1]
    OBVIOUS
  <1>2. \A i \in DOMAIN s : i = 1 \/ (i - 1 \in DOMAIN Tail(s) /\ s[i] = Tail(s)[i - 1])
    BY <1>1
  <1>3. \A i \in DOMAIN Tail(s) : i + 1 \in DOMAIN s /\ Tail(s)[i] = s[i + 1]
    BY <1>1
  <1>4. 1 \in DOMAIN s
    BY <1>1
  <1>5. Elements(s) \subseteq Elements(Tail(s)) \cup {Head(s)}
    <2> SUFFICES ASSUME NEW i \in DOMAIN s
                 PROVE  s[i] \in Elements(Tail(s)) \cup {Head(s)}
      BY DEF Elements
    <2>1. CASE i = 1
      BY <2>1, <1>1
    <2>2. CASE i # 1
      <3>1. i - 1 \in DOMAIN Tail(s) /\ s[i] = Tail(s)[i - 1]
        BY <2>2, <1>2
      <3> QED
        BY <3>1 DEF Elements
    <2> QED
      BY <2>1, <2>2
  <1>6. Elements(Tail(s)) \cup {Head(s)} \subseteq Elements(s)
    BY <1>1, <1>3, <1>4 DEF Elements
  <1> QED
    BY <1>1, <1>5, <1>6

LEMMA ElementsIn ==
    ASSUME NEW S, NEW s \in Seq(S)
    PROVE  Elements(s) \subseteq S
  BY DEF Elements

LEMMA ElementsEmpty == Elements(<<>>) = {}
  BY DEF Elements

\* The elements of a sequence are pairwise different.
Distinct(s) == \A i, j \in DOMAIN s : s[i] = s[j] => i = j

LEMMA DistinctAppend ==
    ASSUME NEW S, NEW s \in Seq(S), NEW x, x \notin Elements(s), Distinct(s)
    PROVE  Distinct(Append(s, x))
  <1>1. DOMAIN Append(s, x) = DOMAIN s \cup {Len(s) + 1}
    OBVIOUS
  <1>2. \A i \in DOMAIN s : Append(s, x)[i] = s[i] /\ s[i] # x
    BY DEF Elements
  <1>3. Append(s, x)[Len(s) + 1] = x
    OBVIOUS
  <1> QED
    BY <1>1, <1>2, <1>3 DEF Distinct

LEMMA DistinctTail ==
    ASSUME NEW S, NEW s \in Seq(S), s # <<>>, Distinct(s)
    PROVE  Distinct(Tail(s)) /\ Head(s) \notin Elements(Tail(s))
  <1>1. /\ Len(s) \in Nat \ {0}
        /\ DOMAIN s = 1..Len(s)
        /\ DOMAIN Tail(s) = 1..(Len(s) - 1)
        /\ Head(s) = s[1]
        /\ \A i \in 1..(Len(s) - 1) : Tail(s)[i] = s[i + 1]
    OBVIOUS
  <1>2. Distinct(Tail(s))
    BY <1>1 DEF Distinct
  <1>3. \A i \in DOMAIN Tail(s) : Tail(s)[i] # Head(s)
    BY <1>1 DEF Distinct
  <1> QED
    BY <1>2, <1>3 DEF Elements
-----------------------------------------------------------------------------
\* The invariant holds initially.
LEMMA InitIInv == Init => IInv
  <1> SUFFICES ASSUME Init PROVE IInv
    OBVIOUS
  <1> USE DEF Init
  <1>1. TypeOK
    <2>1. callbacksQueue_ \in Seq(1..dispatched) /\ dispatched \in Nat
      OBVIOUS
    <2>2. pc \in [Threads -> Labels]
      BY DEF Labels
    <2>3. moved \in [Threads -> 0..dispatched]
      OBVIOUS
    <2> QED
      BY <2>1, <2>2, <2>3, Zenon DEF TypeOK
  <1>2. HeldWhileCalling
    BY DEF HeldWhileCalling
  <1>3. LockDiscipline
    BY ThreadsAssumption DEF LockDiscipline, Critical
  <1>4. NoLostWakeup
    BY DEF NoLostWakeup, Threads
  <1>5. OneDestructor
    BY DEF OneDestructor, Leaving, Threads
  <1>6. JoinedWorkers
    BY DEF JoinedWorkers, Destroyed, Threads
  <1>7. NothingLostOrRepeated
    BY ElementsEmpty DEF NothingLostOrRepeated
  <1> QED
    BY <1>1, <1>2, <1>3, <1>4, <1>5, <1>6, <1>7 DEF IInv
-----------------------------------------------------------------------------
\* The shapes that several actions share are always expanded.
USE DEF Push, Take, Return, GiveUp, Moving

\* Every step that only moves threads and the lock about.
Moves ==
    \/ \E p \in Producers : DispatchLock(p) \/ DispatchNotify(p)
    \/ \E w \in Workers : ConsumeLock(w) \/ Block(w) \/ ExitLoop(w) \/ SpuriousWakeup(w)
    \/ \E d \in Drainers : ConsumeLock(d) \/ ReturnFromDrain(d) \/ ClearLock(d)
    \/ \E u \in Users : Release(u) \/ Destroy(u)
    \/ UNCHANGED vars

\* Threads that run callbacks.
Consumers == Workers \cup Drainers

\* Every step is one of these five.
LEMMA StepCases ==
    ASSUME [Next]_vars
    PROVE  \/ \E p \in Producers : DispatchPush(p)
           \/ \E t \in Threads : t \in Consumers /\ (TakeFront(t) \/ CallBack(t))
           \/ \E d \in Drainers : ClearQueue(d)
           \/ Moves
  <1>1. CASE \E p \in Producers : Dispatch(p)
    BY <1>1 DEF Dispatch, Moves
  <1>2. CASE \E w \in Workers : DispatchLoop(w) \/ SpuriousWakeup(w)
    BY <1>2 DEF DispatchLoop, Consume, Moves, Threads, Consumers
  <1>3. CASE \E d \in Drainers : DispatchQueued(d) \/ Clear(d)
    BY <1>3 DEF DispatchQueued, Consume, Clear, Moves, Threads, Users, Consumers
  <1>4. CASE \E u \in Users : Release(u) \/ Destroy(u)
    BY <1>4 DEF Moves
  <1>5. CASE Terminated \/ UNCHANGED vars
    BY <1>5 DEF Terminated, Moves
  <1> QED
    BY <1>1, <1>2, <1>3, <1>4, <1>5 DEF Next

\* A step of Moves leaves the callbacks alone.
LEMMA MovesKeep ==
    ASSUME Moves
    PROVE  UNCHANGED <<callbacksQueue_, moved, dispatched, ran, dropped>>
  BY DEF Moves, DispatchLock, DispatchNotify, ConsumeLock, Block, ExitLoop, SpuriousWakeup,
         ReturnFromDrain, ClearLock, Release, Destroy, DestroyLock, SetQuit, QuitNotify,
         JoinWorkers, Acquire, vars

\* Types are preserved.
LEMMA TypeStep ==
    ASSUME TypeOK, HeldWhileCalling, [Next]_vars
    PROVE  TypeOK'
  <1> USE DEF TypeOK
  <1>0. /\ "idle" \in Labels /\ "relock" \in Labels /\ "calling" \in Labels
        /\ "blocked" \in Labels /\ "exited" \in Labels /\ "pushing" \in Labels
        /\ "clearing" \in Labels /\ "quitting" \in Labels /\ "holding" \in Labels
        /\ "released" \in Labels /\ "dtor" \in Labels /\ "quit_notify" \in Labels
        /\ "joining" \in Labels /\ "destroyed" \in Labels /\ "notifying" \in Labels
    BY DEF Labels, Critical, Leaving, Notifying
  <1>1. ASSUME NEW p \in Producers, DispatchPush(p) PROVE TypeOK'
    <2>1. dispatched' = dispatched + 1 /\ dispatched' \in Nat
      BY <1>1 DEF DispatchPush
    <2>2. callbacksQueue_' \in Seq(1..dispatched')
      <3>1. callbacksQueue_ \in Seq(1..(dispatched + 1))
        OBVIOUS
      <3> QED
        BY <3>1, <2>1, <1>1 DEF DispatchPush
    <2>3. moved' \in [Threads -> 0..dispatched']
      BY <2>1, <1>1 DEF DispatchPush
    <2>4. ran' \subseteq 1..dispatched' /\ dropped' \subseteq 1..dispatched'
      BY <2>1, <1>1 DEF DispatchPush
    <2>5. pc' \in [Threads -> Labels] /\ lock_' \in Threads \cup {NoThread} /\ quit_' \in BOOLEAN
      BY <1>0, <1>1, Zenon DEF DispatchPush, Unlock
    <2> QED
      BY <2>1, <2>2, <2>3, <2>4, <2>5
  <1>2. ASSUME NEW t \in Threads, TakeFront(t) PROVE TypeOK'
    <2>1. /\ callbacksQueue_' \in Seq(1..dispatched)
          /\ Head(callbacksQueue_) \in 1..dispatched
      BY <1>2, ElementsTail DEF TakeFront
    <2>2. moved' \in [Threads -> 0..dispatched]
      BY <2>1, <1>2 DEF TakeFront
    <2>3. pc' \in [Threads -> Labels] /\ lock_' \in Threads \cup {NoThread}
      BY <1>0, <1>2 DEF TakeFront, Unlock
    <2> QED
      BY <2>1, <2>2, <2>3, <1>2 DEF TakeFront
  <1>3. ASSUME NEW t \in Threads, CallBack(t) PROVE TypeOK'
    <2>1. moved[t] \in 1..dispatched
      BY <1>3 DEF CallBack, HeldWhileCalling
    <2>2. pc' \in [Threads -> Labels]
      BY <1>0, <1>3 DEF CallBack
    <2>3. moved' \in [Threads -> 0..dispatched]
      BY <1>3 DEF CallBack
    <2>4. ran' \subseteq 1..dispatched
      BY <2>1, <1>3, Zenon DEF CallBack
    <2>5. UNCHANGED <<lock_, callbacksQueue_, quit_, dispatched, dropped>>
      BY <1>3 DEF CallBack
    <2> QED
      BY <2>2, <2>3, <2>4, <2>5
  <1>4. ASSUME NEW d \in Drainers, ClearQueue(d) PROVE TypeOK'
    <2>1. dropped' \subseteq 1..dispatched /\ callbacksQueue_' \in Seq(1..dispatched)
      <3>1. Elements(callbacksQueue_) \subseteq 1..dispatched
        BY ElementsIn
      <3>2. dropped' = dropped \cup Elements(callbacksQueue_) /\ callbacksQueue_' = <<>>
        BY <1>4 DEF ClearQueue
      <3>3. <<>> \in Seq(1..dispatched)
        OBVIOUS
      <3>4. dropped \subseteq 1..dispatched
        OBVIOUS
      <3> QED
        BY ONLY <3>1, <3>2, <3>3, <3>4, Zenon
    <2>2. pc' \in [Threads -> Labels] /\ lock_' \in Threads \cup {NoThread}
      BY <1>0, <1>4, Zenon DEF ClearQueue, Unlock
    <2> QED
      BY <2>1, <2>2, <1>4 DEF ClearQueue
  <1>5. ASSUME Moves PROVE TypeOK'
    <2>1. pc' \in [Threads -> Labels]
      BY <1>0, <1>5, SMTT(20) DEF Moves, DispatchLock, DispatchNotify, ConsumeLock, Block, ExitLoop,
         SpuriousWakeup, ReturnFromDrain, ClearLock, Release, Destroy, DestroyLock, SetQuit,
         QuitNotify, JoinWorkers, Acquire, Unlock, NotifyAll, vars
    <2>2. lock_' \in Threads \cup {NoThread} /\ quit_' \in BOOLEAN
      BY <1>5, Zenon DEF Moves, DispatchLock, DispatchNotify, ConsumeLock, Block, ExitLoop,
         SpuriousWakeup, ReturnFromDrain, ClearLock, Release, Destroy, DestroyLock, SetQuit,
         QuitNotify, JoinWorkers, Acquire, Unlock, vars, Threads, Users
    <2> QED
      BY <2>1, <2>2, <1>5, MovesKeep, Zenon
  <1> QED
    BY <1>1, <1>2, <1>3, <1>4, <1>5, StepCases

-----------------------------------------------------------------------------
\* Where threads are: one step per action, for the five facts about pc.
PcInv == HeldWhileCalling /\ LockDiscipline /\ NoLostWakeup /\ OneDestructor /\ JoinedWorkers

LEMMA PcStep ==
    ASSUME TypeOK, PcInv, [Next]_vars
    PROVE  PcInv'
  <1> USE ThreadsAssumption DEF Threads, Users, TypeOK, PcInv, HeldWhileCalling, LockDiscipline,
          NoLostWakeup, OneDestructor, JoinedWorkers, Destroyed, Critical, Leaving, Notifying
  <1>1. ASSUME NEW t \in Threads, NEW from \in {"idle", "relock"},
               NEW to \in {"pushing", "holding", "clearing"}, Acquire(t, from, to)
        PROVE  PcInv'
    BY <1>1 DEF Acquire
  <1>2. ASSUME NEW p \in Producers, DispatchPush(p) PROVE PcInv'
    BY <1>2 DEF DispatchPush, Unlock
  <1>3. ASSUME NEW p \in Producers, DispatchNotify(p) PROVE PcInv'
    BY <1>3, Zenon DEF DispatchNotify, NotifyAll
  <1>4. ASSUME NEW t \in Threads, TakeFront(t) PROVE PcInv'
    BY <1>4, ElementsTail, SMTT(20) DEF TakeFront, Unlock
  <1>5. ASSUME NEW t \in Threads, CallBack(t) PROVE PcInv'
    BY <1>5 DEF CallBack
  <1>6. ASSUME NEW w \in Workers, Block(w) PROVE PcInv'
    BY <1>6 DEF Block, Unlock
  <1>7. ASSUME NEW w \in Workers, ExitLoop(w) PROVE PcInv'
    BY <1>7 DEF ExitLoop, Unlock
  <1>8. ASSUME NEW w \in Workers, SpuriousWakeup(w) PROVE PcInv'
    BY <1>8 DEF SpuriousWakeup
  <1>9. ASSUME NEW d \in Drainers, ReturnFromDrain(d) PROVE PcInv'
    BY <1>9 DEF ReturnFromDrain, Unlock
  <1>10. ASSUME NEW d \in Drainers, ClearQueue(d) PROVE PcInv'
    BY <1>10 DEF ClearQueue, Unlock
  <1>11. ASSUME NEW u \in Users, Release(u) PROVE PcInv'
    BY <1>11 DEF Release
  <1>12. ASSUME NEW u \in Users, DestroyLock(u) PROVE PcInv'
    BY <1>12 DEF DestroyLock, Acquire
  <1>13. ASSUME NEW u \in Users, SetQuit(u) PROVE PcInv'
    BY <1>13 DEF SetQuit, Unlock
  <1>14. ASSUME NEW u \in Users, QuitNotify(u) PROVE PcInv'
    BY <1>14, ZenonT(30) DEF QuitNotify, NotifyAll
  <1>15. ASSUME NEW u \in Users, JoinWorkers(u) PROVE PcInv'
    BY <1>15 DEF JoinWorkers
  <1>16. ASSUME UNCHANGED vars PROVE PcInv'
    BY <1>16 DEF vars
  <1> HIDE DEF Threads, Users, PcInv, TypeOK, HeldWhileCalling, LockDiscipline, NoLostWakeup,
           OneDestructor, JoinedWorkers, Destroyed, Critical, Leaving, Notifying
  <1> USE DEF Threads, Users
  <1>17. CASE \E p \in Producers : Dispatch(p)
    BY <1>17, <1>1, <1>2, <1>3 DEF Dispatch, DispatchLock
  <1>18. CASE \E w \in Workers : DispatchLoop(w) \/ SpuriousWakeup(w)
    BY <1>18, <1>1, <1>4, <1>5, <1>6, <1>7, <1>8 DEF DispatchLoop, Consume, ConsumeLock
  <1>19. CASE \E d \in Drainers : DispatchQueued(d) \/ Clear(d)
    BY <1>19, <1>1, <1>4, <1>5, <1>9, <1>10
       DEF DispatchQueued, Consume, ConsumeLock, Clear, ClearLock
  <1>20. CASE \E u \in Users : Release(u) \/ Destroy(u)
    BY <1>20, <1>11, <1>12, <1>13, <1>14, <1>15 DEF Destroy
  <1>21. CASE Terminated \/ UNCHANGED vars
    BY <1>21, <1>16 DEF Terminated
  <1> QED
    BY <1>17, <1>18, <1>19, <1>20, <1>21 DEF Next

-----------------------------------------------------------------------------
\* No callback is lost and none runs twice: one step per action that moves a
\* callback from one place to another.
LEMMA AccountStep ==
    ASSUME TypeOK, HeldWhileCalling, NothingLostOrRepeated, [Next]_vars
    PROVE  NothingLostOrRepeated'
  <1> DEFINE Q == Elements(callbacksQueue_)
  <1>0. /\ callbacksQueue_ \in Seq(1..dispatched) /\ dispatched \in Nat
        /\ Q \subseteq 1..dispatched
        /\ Distinct(callbacksQueue_)
    BY ElementsIn DEF TypeOK, NothingLostOrRepeated, Distinct
  <1>1. ASSUME NEW p \in Producers, DispatchPush(p) PROVE NothingLostOrRepeated'
    <2>1. Elements(callbacksQueue_') = Q \cup {dispatched + 1}
      BY <1>0, <1>1, ElementsAppend DEF DispatchPush
    <2>2. Distinct(callbacksQueue_')
      <3>1. dispatched + 1 \notin Q
        BY <1>0
      <3> QED
        BY <3>1, <1>0, <1>1, DistinctAppend DEF DispatchPush
    <2>3. /\ 1..dispatched' = (1..dispatched) \cup {dispatched + 1}
          /\ dispatched + 1 \notin 1..dispatched
          /\ dispatched + 1 \notin 0..dispatched
      BY <1>0, <1>1 DEF DispatchPush
    <2>4. UNCHANGED <<moved, ran, dropped>>
      BY <1>1 DEF DispatchPush
    <2>5. /\ dispatched + 1 \notin ran \cup dropped
          /\ \A t \in Threads : moved[t] # dispatched + 1
      BY <2>3 DEF TypeOK
    <2> QED
      BY <2>1, <2>2, <2>3, <2>4, <2>5 DEF NothingLostOrRepeated, Distinct
  <1>2. ASSUME NEW t \in Threads, TakeFront(t) PROVE NothingLostOrRepeated'
    <2> DEFINE c == Head(callbacksQueue_)
    <2>1. /\ Q = Elements(callbacksQueue_') \cup {c}
          /\ c \in 1..dispatched /\ c # 0
      BY <1>0, <1>2, ElementsTail DEF TakeFront
    <2>2. Distinct(callbacksQueue_') /\ c \notin Elements(callbacksQueue_')
      BY <1>0, <1>2, DistinctTail DEF TakeFront
    <2>3. moved[t] = 0 /\ moved' = [moved EXCEPT ![t] = c] /\ moved \in [Threads -> 0..dispatched]
      BY <1>2 DEF TakeFront, HeldWhileCalling, TypeOK
    <2>4. UNCHANGED <<dispatched, ran, dropped>>
      BY <1>2 DEF TakeFront
    <2> HIDE DEF c
    <2> QED
      BY <2>1, <2>2, <2>3, <2>4 DEF NothingLostOrRepeated, Distinct
  <1>3. ASSUME NEW t \in Threads, CallBack(t) PROVE NothingLostOrRepeated'
    <2>1. moved[t] # 0 /\ moved' = [moved EXCEPT ![t] = 0] /\ moved \in [Threads -> 0..dispatched]
      BY <1>3 DEF CallBack, HeldWhileCalling, TypeOK
    <2>2. ran' = ran \cup {moved[t]} /\ UNCHANGED <<callbacksQueue_, dispatched, dropped>>
      BY <1>3 DEF CallBack
    <2> QED
      BY <2>1, <2>2 DEF NothingLostOrRepeated
  <1>4. ASSUME NEW d \in Drainers, ClearQueue(d) PROVE NothingLostOrRepeated'
    <2>1. /\ callbacksQueue_' = <<>> /\ dropped' = dropped \cup Q
          /\ UNCHANGED <<moved, dispatched, ran>>
      BY <1>4 DEF ClearQueue
    <2>2. Elements(callbacksQueue_') = {}
      BY <2>1, ElementsEmpty
    <2> QED
      BY <2>1, <2>2 DEF NothingLostOrRepeated
  <1>5. ASSUME Moves PROVE NothingLostOrRepeated'
    BY <1>5, MovesKeep DEF NothingLostOrRepeated
  <1> QED
    BY <1>1, <1>2, <1>3, <1>4, <1>5, StepCases

-----------------------------------------------------------------------------
\* IInv is an invariant of the specification.
THEOREM IInvHolds == Spec => []IInv
  <1>1. Init => IInv
    BY InitIInv
  <1>2. IInv /\ [Next]_vars => IInv'
    BY TypeStep, PcStep, AccountStep DEF IInv, PcInv
  <1> QED
    BY <1>1, <1>2, PTL DEF Spec

\* Types hold for any threads and any number of callbacks.
THEOREM TypeCorrect == Spec => []TypeOK
  BY IInvHolds, PTL DEF IInv

\* callbacksQueue_ and quit_ are only touched under lock_.
THEOREM MutualExclusion == Spec => []LockDiscipline
  BY IInvHolds, PTL DEF IInv

\* No worker sleeps through work or quit_ with no notify_all to come.
THEOREM WakeupsNotLost == Spec => []NoLostWakeup
  BY IInvHolds, PTL DEF IInv

\* Every dispatched callback is in exactly one place.
THEOREM ExactlyOnce == Spec => []NothingLostOrRepeated
  BY IInvHolds, PTL DEF IInv

\* When the destructor returns, nobody uses the queue any more.
THEOREM DestructionIsSafe == Spec => []DestroyedIsQuiet
  <1>1. IInv => DestroyedIsQuiet
    <2> SUFFICES ASSUME IInv, NEW d \in Users, pc[d] = "destroyed"
                 PROVE  /\ lock_ = NoThread
                        /\ \A w \in Workers : pc[w] = "exited"
                        /\ \A u \in Users : pc[u] \in {"released", "destroyed"}
                        /\ \A t \in Threads : moved[t] = 0
      BY DEF DestroyedIsQuiet, Destroyed
    <2>1. \A w \in Workers : pc[w] = "exited"
      BY Zenon DEF IInv, JoinedWorkers, Destroyed
    <2>2. \A u \in Users : pc[u] \in {"released", "destroyed"}
      BY DEF IInv, OneDestructor, Leaving
    <2>3. \A t \in Threads : pc[t] \in {"exited", "released", "destroyed"}
      BY <2>1, <2>2 DEF Threads
    <2>4. \A t \in Threads : lock_ # t /\ moved[t] = 0
      BY <2>3 DEF IInv, LockDiscipline, Critical, HeldWhileCalling
    <2>5. lock_ = NoThread
      BY <2>4 DEF IInv, TypeOK
    <2> QED
      BY <2>1, <2>2, <2>4, <2>5
  <1> QED
    BY <1>1, IInvHolds, PTL

-----------------------------------------------------------------------------
\* Refinement: pops, pushes, returns, clear() and quit_ are the five actions of
\* CallbackQueue; everything that locks, waits and notifies is a stutter.

LEMMA InitRefines == Init => Contract!Init
  BY DEF Init, Contract!Init

LEMMA StepRefines ==
    ASSUME IInv, [Next]_vars
    PROVE  [Contract!Next]_(Contract!vars)
  <1> USE DEF Contract!Next, Contract!vars
  <1>0. TypeOK /\ HeldWhileCalling /\ NothingLostOrRepeated
    BY DEF IInv
  <1>1. ASSUME NEW p \in Producers, DispatchPush(p) PROVE Contract!Submit
    BY <1>1 DEF DispatchPush, Contract!Submit
  <1>2. ASSUME NEW t \in Threads, TakeFront(t) PROVE Contract!Start
    <2> DEFINE c == Head(callbacksQueue_)
    <2>1. c \in Elements(callbacksQueue_) /\ c # 0
      BY <1>0, <1>2, ElementsTail DEF TypeOK, TakeFront
    <2>2. c \notin ran \cup dropped /\ \A u \in Threads : moved[u] # c
      BY <2>1, <1>0 DEF NothingLostOrRepeated
    <2>3. moved[t] = 0 /\ moved' = [moved EXCEPT ![t] = c] /\ moved \in [Threads -> 0..dispatched]
      BY <1>0, <1>2 DEF TakeFront, HeldWhileCalling, TypeOK
    <2>4. {moved'[u] : u \in Threads} \ {0} = ({moved[u] : u \in Threads} \ {0}) \cup {c}
      BY <2>1, <2>3
    <2>5. c \notin {moved[u] : u \in Threads}
      BY <2>2
    <2> QED
      BY <2>2, <2>4, <2>5, <1>2, Zenon DEF TakeFront, Contract!Start
  <1>3. ASSUME NEW t \in Threads, CallBack(t) PROVE Contract!Finish
    <2>1. moved[t] # 0 /\ moved' = [moved EXCEPT ![t] = 0] /\ moved \in [Threads -> 0..dispatched]
      BY <1>0, <1>3 DEF CallBack, HeldWhileCalling, TypeOK
    <2>2. \A u \in Threads \ {t} : moved[u] # moved[t]
      BY <2>1, <1>0 DEF NothingLostOrRepeated
    <2>3. {moved'[u] : u \in Threads} \ {0} = ({moved[u] : u \in Threads} \ {0}) \ {moved[t]}
      BY <2>1, <2>2
    <2>4. moved[t] \in {moved[u] : u \in Threads} \ {0}
      BY <2>1
    <2> QED
      BY <2>3, <2>4, <1>3, Zenon DEF CallBack, Contract!Finish
  <1>4. ASSUME NEW d \in Drainers, ClearQueue(d) PROVE Contract!Discard
    BY <1>4 DEF ClearQueue, Elements, Contract!Discard
  <1>5. ASSUME Moves PROVE Contract!Close \/ UNCHANGED Contract!vars
    <2>1. UNCHANGED <<callbacksQueue_, moved, dispatched, ran, dropped>>
      BY <1>5, MovesKeep
    <2>2. quit_' \in {quit_, TRUE}
      BY <1>5, Zenon DEF Moves, DispatchLock, DispatchNotify, ConsumeLock, Block, ExitLoop,
         SpuriousWakeup, ReturnFromDrain, ClearLock, Release, Destroy, DestroyLock, SetQuit,
         QuitNotify, JoinWorkers, Acquire, vars
    <2> QED
      BY <2>1, <2>2, Zenon DEF Contract!Close
  <1> QED
    BY <1>1, <1>2, <1>3, <1>4, <1>5, StepCases

\* DispatchQueue implements CallbackQueue: callbacks start in the order of
\* dispatch, at most once, and never after quit_ is set.
THEOREM Refinement == Spec => ImplementsContract
  <1>1. Init => Contract!Init
    BY InitRefines
  <1>2. IInv /\ [Next]_vars => [Contract!Next]_(Contract!vars)
    BY StepRefines
  <1> QED
    BY <1>1, <1>2, IInvHolds, PTL DEF Spec, ImplementsContract, Contract!Spec

-----------------------------------------------------------------------------
\* Order.  The queue holds the last callbacks that were dispatched, without a gap:
\* all older ones were taken or dropped.  This needs no assumption on the threads.
Taken == dispatched - Len(callbacksQueue_)

QueueIsLatest ==
    /\ Len(callbacksQueue_) <= dispatched
    /\ \A i \in DOMAIN callbacksQueue_ : callbacksQueue_[i] = Taken + i

\* With one consumer, the callback that runs is the last one that left the queue.
OneConsumer == \A t, u \in Consumers : t = u

HeldIsLast == \A t \in Threads : moved[t] # 0 => t \in Consumers /\ moved[t] = Taken

LEMMA OrderStep ==
    ASSUME IInv, QueueIsLatest, [Next]_vars
    PROVE  QueueIsLatest'
  <1>0. callbacksQueue_ \in Seq(1..dispatched) /\ dispatched \in Nat
    BY DEF IInv, TypeOK
  <1>1. ASSUME NEW p \in Producers, DispatchPush(p) PROVE QueueIsLatest'
    BY <1>0, <1>1 DEF DispatchPush, QueueIsLatest, Taken
  <1>2. ASSUME NEW t \in Threads, TakeFront(t) PROVE QueueIsLatest'
    <2> DEFINE q == callbacksQueue_
    <2>1. q # <<>> /\ q' = Tail(q) /\ dispatched' = dispatched
      BY <1>2 DEF TakeFront
    <2>2. /\ Len(q) \in Nat \ {0} /\ Len(q') = Len(q) - 1
          /\ DOMAIN q = 1..Len(q) /\ DOMAIN q' = 1..(Len(q) - 1)
          /\ \A i \in DOMAIN q' : q'[i] = q[i + 1]
      BY <1>0, <2>1
    <2>3. Taken' = Taken + 1 /\ Taken \in Nat
      BY <1>0, <2>1, <2>2 DEF QueueIsLatest, Taken
    <2>4. ASSUME NEW i \in DOMAIN q' PROVE q'[i] = Taken' + i
      <3>1. i \in Nat /\ i + 1 \in DOMAIN q /\ q'[i] = q[i + 1]
        BY <2>2
      <3>2. q[i + 1] = Taken + (i + 1)
        BY <3>1 DEF QueueIsLatest
      <3> HIDE DEF q
      <3> QED
        BY <2>3, <3>1, <3>2
    <2> QED
      BY <1>0, <2>1, <2>2, <2>4 DEF QueueIsLatest
  <1>3. ASSUME NEW t \in Threads, CallBack(t) PROVE QueueIsLatest'
    BY <1>3 DEF CallBack, QueueIsLatest, Taken
  <1>4. ASSUME NEW d \in Drainers, ClearQueue(d) PROVE QueueIsLatest'
    BY <1>0, <1>4 DEF ClearQueue, QueueIsLatest, Taken
  <1>5. ASSUME Moves PROVE QueueIsLatest'
    BY <1>5, MovesKeep DEF QueueIsLatest, Taken
  <1> QED
    BY <1>1, <1>2, <1>3, <1>4, <1>5, StepCases

LEMMA HeldStep ==
    ASSUME OneConsumer, IInv, QueueIsLatest, HeldIsLast, [Next]_vars
    PROVE  HeldIsLast'
  <1>0. /\ callbacksQueue_ \in Seq(1..dispatched) /\ dispatched \in Nat
        /\ moved \in [Threads -> 0..dispatched]
    BY DEF IInv, TypeOK
  <1>1. ASSUME NEW p \in Producers, DispatchPush(p) PROVE HeldIsLast'
    <2>1. Taken' = Taken
      BY <1>0, <1>1 DEF DispatchPush, Taken
    <2> QED
      BY <1>1, <2>1 DEF DispatchPush, HeldIsLast
  <1>2. ASSUME NEW t \in Threads, t \in Consumers, TakeFront(t) PROVE HeldIsLast'
    <2>1. Head(callbacksQueue_) = Taken + 1 /\ Taken' = Taken + 1
      BY <1>0, <1>2 DEF TakeFront, QueueIsLatest, Taken
    <2>2. \A u \in Threads \ {t} : moved[u] = 0
      BY <1>2 DEF HeldIsLast, OneConsumer
    <2> QED
      BY <1>0, <1>2, <2>1, <2>2 DEF TakeFront, HeldIsLast
  <1>3. ASSUME NEW t \in Threads, CallBack(t) PROVE HeldIsLast'
    <2>1. Taken' = Taken
      BY <1>3 DEF CallBack, Taken
    <2> QED
      BY <1>0, <1>3, <2>1 DEF CallBack, HeldIsLast
  <1>4. ASSUME NEW d \in Drainers, ClearQueue(d) PROVE HeldIsLast'
    <2>1. d \in Threads /\ d \in Consumers
      BY <1>4 DEF Threads, Users, Consumers
    <2>2. moved[d] = 0
      BY <1>4, <2>1 DEF ClearQueue, IInv, HeldWhileCalling
    <2>3. \A u \in Threads : moved[u] = 0
      BY <2>1, <2>2 DEF HeldIsLast, OneConsumer
    <2> QED
      BY <1>4, <2>3 DEF ClearQueue, HeldIsLast
  <1>5. ASSUME Moves PROVE HeldIsLast'
    BY <1>5, MovesKeep DEF HeldIsLast, Taken
  <1> QED
    BY <1>1, <1>2, <1>3, <1>4, <1>5, StepCases

\* A session's queue, drained by the main thread alone: callbacks return in the order
\* of their dispatch, through pushes and clear() at any moment.
THEOREM OneConsumerInOrder == OneConsumer /\ Spec => []InOrder
  <1> SUFFICES ASSUME OneConsumer PROVE Spec => []InOrder
    OBVIOUS
  <1>1. Init => QueueIsLatest /\ HeldIsLast
    BY DEF Init, QueueIsLatest, HeldIsLast, Taken
  <1>2. IInv /\ QueueIsLatest /\ HeldIsLast /\ [Next]_vars => QueueIsLatest' /\ HeldIsLast'
    BY OrderStep, HeldStep
  <1>3. IInv /\ QueueIsLatest /\ HeldIsLast => InOrder
    <2> SUFFICES ASSUME IInv, QueueIsLatest, HeldIsLast, NEW c \in ran, NEW b \in 1..(c - 1)
                 PROVE  b \in ran \cup dropped
      BY DEF InOrder
    <2>1. /\ callbacksQueue_ \in Seq(1..dispatched) /\ dispatched \in Nat /\ c \in 1..dispatched
          /\ Taken \in Nat
      BY DEF IInv, TypeOK, QueueIsLatest, Taken
    <2>2. c \notin Elements(callbacksQueue_)
      BY DEF IInv, NothingLostOrRepeated
    <2>3. c <= Taken
      <3> SUFFICES ASSUME c > Taken PROVE FALSE
        BY <2>1
      <3>1. c - Taken \in DOMAIN callbacksQueue_
        BY <2>1 DEF Taken
      <3>2. callbacksQueue_[c - Taken] = c
        BY <2>1, <3>1 DEF QueueIsLatest
      <3> QED
        BY <2>2, <3>1, <3>2 DEF Elements
    <2>4. b < Taken /\ b \in 1..dispatched
      BY <2>1, <2>3
    <2>5. \A i \in DOMAIN callbacksQueue_ : callbacksQueue_[i] # b
      BY <2>1, <2>4 DEF QueueIsLatest
    <2>6. b \notin Elements(callbacksQueue_)
      BY <2>5 DEF Elements
    <2>7. \A t \in Threads : moved[t] # b
      BY <2>1, <2>4 DEF HeldIsLast
    <2> QED
      BY <2>4, <2>6, <2>7 DEF IInv, NothingLostOrRepeated
  <1> QED
    BY <1>1, <1>2, <1>3, IInvHolds, PTL DEF Spec
=============================================================================
