--------------------------- MODULE DispatchQueue ---------------------------
(***************************************************************************)
(* algo::DispatchQueue (src/algo/DispatchQueue.{hpp,cpp}): a queue of      *)
(* callbacks guarded by the mutex lock_ and the condition variable cv_.    *)
(* Workers run dispatch_loop.  Users own the queue through a shared_ptr:   *)
(* Producers call dispatch, Drainers call DispatchQueued and clear, and    *)
(* the user that drops the last reference runs the destructor.  A session  *)
(* (WsSession.cpp:49) creates its queue with no workers; its strand is the *)
(* producer and the main thread the drainer.                               *)
(*                                                                         *)
(* One step is one stretch of code between two points where another thread *)
(* can intervene: acquiring lock_, the critical section up to its unlock,  *)
(* a notify_all, one callback.                                             *)
(***************************************************************************)
EXTENDS Naturals, Sequences

CONSTANTS
    Workers,      \* the threads of threads_; may be empty
    Producers,    \* users that call dispatch
    Drainers,     \* users that call DispatchQueued and clear
    NoThread,     \* lock_ is free
    MaxDispatch   \* bound on the number of dispatch calls

Users == Producers \cup Drainers
Threads == Workers \cup Users

ASSUME ThreadsAssumption ==
    /\ Users # {}
    /\ Workers \cap Users = {}
    /\ NoThread \notin Threads

ASSUME BoundAssumption == MaxDispatch \in Nat

VARIABLES
    lock_,            \* the thread that owns the mutex, or NoThread
    callbacksQueue_,  \* callbacks, named by the order of their dispatch
    quit_,
    pc,               \* where each thread is
    moved,            \* the callback a thread moved out of the queue, or 0
    dispatched,       \* number of callbacks pushed so far
    ran,              \* history: callbacks that returned
    dropped           \* history: callbacks popped by clear()

vars == <<lock_, callbacksQueue_, quit_, pc, moved, dispatched, ran, dropped>>

\* Labels at which the thread owns lock_: in dispatch before the push, in
\* clear, in the destructor, and in either consumer loop.
Critical == {"pushing", "clearing", "quitting", "holding"}

\* Labels of a user that no longer refers to the queue, or destroys it.
Leaving == {"released", "dtor", "quitting", "quit_notify", "joining", "destroyed"}

\* Between publishing a change (push, quit_) and its notify_all.
Notifying == {"notifying", "quit_notify"}

Labels == {"idle", "relock", "calling", "blocked", "exited"}
              \cup Critical \cup Leaving \cup Notifying

Elements(s) == {s[i] : i \in DOMAIN s}

Init ==
    /\ lock_ = NoThread
    /\ callbacksQueue_ = <<>>
    /\ quit_ = FALSE
    /\ pc = [t \in Threads |-> "idle"]
    /\ moved = [t \in Threads |-> 0]
    /\ dispatched = 0
    /\ ran = {}
    /\ dropped = {}

-----------------------------------------------------------------------------
\* std::unique_lock lock(lock_), lock.lock(), and the re-acquisition in wait.
Acquire(t, from, to) ==
    /\ pc[t] = from
    /\ lock_ = NoThread
    /\ lock_' = t
    /\ pc' = [pc EXCEPT ![t] = to]
    /\ UNCHANGED <<callbacksQueue_, quit_, moved, dispatched, ran, dropped>>

\* lock.unlock(), or the end of the scope of lock.
Unlock(t, to) ==
    /\ lock_' = NoThread
    /\ pc' = [pc EXCEPT ![t] = to]

\* A step that only moves threads.
Moving == UNCHANGED <<lock_, callbacksQueue_, quit_, moved, dispatched, ran, dropped>>

\* cv_.notify_all(): every blocked worker goes for the lock again.
NotifyAll(t, to) ==
    pc' = [u \in Threads |-> IF u = t THEN to
                             ELSE IF pc[u] = "blocked" THEN "relock" ELSE pc[u]]

-----------------------------------------------------------------------------
\* dispatch(), both overloads: push under the lock, unlock, notify_all.
DispatchLock(p) == dispatched < MaxDispatch /\ Acquire(p, "idle", "pushing")

\* Push c under the lock and unlock.
Push(p, c, to) ==
    /\ pc[p] = "pushing"
    /\ dispatched' = dispatched + 1
    /\ callbacksQueue_' = Append(callbacksQueue_, c)
    /\ Unlock(p, to)
    /\ UNCHANGED <<quit_, moved, ran, dropped>>

\* Mutants: push a callback that was moved from; forget cv_.notify_all().
MutPushMovedFrom(p) == Push(p, 0, "notifying")
MutPushNoNotify(p) == Push(p, dispatched + 1, "idle")

DispatchPush(p) == Push(p, dispatched + 1, "notifying")

DispatchNotify(p) == pc[p] = "notifying" /\ NotifyAll(p, "idle") /\ Moving

-----------------------------------------------------------------------------
\* The body shared by dispatch_loop and DispatchQueued: move the front
\* callback out, unlock, call it, lock again and look at the queue again.
ConsumeLock(t) == Acquire(t, "idle", "holding") \/ Acquire(t, "relock", "holding")

\* Move c out, leave rest in the queue, unlock.
Take(t, c, rest) ==
    /\ pc[t] = "holding"
    /\ callbacksQueue_ # <<>>
    /\ moved' = [moved EXCEPT ![t] = c]
    /\ callbacksQueue_' = rest
    /\ Unlock(t, "calling")
    /\ UNCHANGED <<quit_, dispatched, ran, dropped>>

\* Mutants: forget pop(); do not look at quit_; take back() instead of front().
MutTakeNoPop(t) == ~quit_ /\ Take(t, Head(callbacksQueue_), callbacksQueue_)
MutTakeAfterQuit(t) == Take(t, Head(callbacksQueue_), Tail(callbacksQueue_))
MutTakeBack(t) ==
    LET n == Len(callbacksQueue_)
    IN  ~quit_ /\ Take(t, callbacksQueue_[n], SubSeq(callbacksQueue_, 1, n - 1))

TakeFront(t) == ~quit_ /\ Take(t, Head(callbacksQueue_), Tail(callbacksQueue_))

Return(t, to) ==
    /\ pc[t] = "calling"
    /\ ran' = ran \cup {moved[t]}
    /\ moved' = [moved EXCEPT ![t] = 0]
    /\ pc' = [pc EXCEPT ![t] = to]
    /\ UNCHANGED <<lock_, callbacksQueue_, quit_, dispatched, dropped>>

MutCallNoRelock(t) == Return(t, "holding")      \* forgets lock.lock()

CallBack(t) == Return(t, "relock")

\* A consumer that owns the lock gives it up without taking a callback.
GiveUp(t, to) ==
    /\ pc[t] = "holding"
    /\ Unlock(t, to)
    /\ UNCHANGED <<callbacksQueue_, quit_, moved, dispatched, ran, dropped>>

\* dispatch_loop with nothing to do: cv_.wait releases the lock and blocks.
Block(w) == ~quit_ /\ callbacksQueue_ = <<>> /\ GiveUp(w, "blocked")

SpuriousWakeup(w) == pc[w] = "blocked" /\ pc' = [pc EXCEPT ![w] = "relock"] /\ Moving

\* dispatch_loop leaves when it sees quit_.
ExitLoop(w) == quit_ /\ GiveUp(w, "exited")

\* Mutant: returns although callbacks are still queued.
MutDrainReturnsEarly(d) == GiveUp(d, "idle")

\* DispatchQueued returns once the queue is empty (or quit_).
ReturnFromDrain(d) == (quit_ \/ callbacksQueue_ = <<>>) /\ GiveUp(d, "idle")

-----------------------------------------------------------------------------
ClearLock(d) == Acquire(d, "idle", "clearing")

ClearQueue(d) ==
    /\ pc[d] = "clearing"
    /\ dropped' = dropped \cup Elements(callbacksQueue_)
    /\ callbacksQueue_' = <<>>
    /\ Unlock(d, "idle")
    /\ UNCHANGED <<quit_, moved, dispatched, ran>>

-----------------------------------------------------------------------------
\* A user drops its shared_ptr; the last one runs ~DispatchQueue.
Release(u) ==
    /\ pc[u] = "idle"
    /\ pc' = [pc EXCEPT ![u] = IF \A v \in Users \ {u} : pc[v] \in Leaving
                               THEN "dtor" ELSE "released"]
    /\ Moving

DestroyLock(u) == Acquire(u, "dtor", "quitting")

SetQuit(u) ==
    /\ pc[u] = "quitting"
    /\ quit_' = TRUE
    /\ Unlock(u, "quit_notify")
    /\ UNCHANGED <<callbacksQueue_, moved, dispatched, ran, dropped>>

MutQuitSilently(u) ==       \* forgets cv_.notify_all()
    pc[u] = "quit_notify" /\ pc' = [pc EXCEPT ![u] = "joining"] /\ Moving

QuitNotify(u) == pc[u] = "quit_notify" /\ NotifyAll(u, "joining") /\ Moving

MutNoJoin(u) ==             \* lets the queue die under its workers
    pc[u] = "joining" /\ pc' = [pc EXCEPT ![u] = "destroyed"] /\ Moving

JoinWorkers(u) ==
    /\ pc[u] = "joining"
    /\ \A w \in Workers : pc[w] = "exited"
    /\ pc' = [pc EXCEPT ![u] = "destroyed"]
    /\ Moving

-----------------------------------------------------------------------------
Dispatch(p) == DispatchLock(p) \/ DispatchPush(p) \/ DispatchNotify(p)
Consume(t) == ConsumeLock(t) \/ TakeFront(t) \/ CallBack(t)
DispatchLoop(w) == Consume(w) \/ Block(w) \/ ExitLoop(w)
DispatchQueued(d) == Consume(d) \/ ReturnFromDrain(d)
Clear(d) == ClearLock(d) \/ ClearQueue(d)
Destroy(u) == DestroyLock(u) \/ SetQuit(u) \/ QuitNotify(u) \/ JoinWorkers(u)

\* The queue is gone and every thread is done with it.
Destroyed == \E u \in Users : pc[u] = "destroyed"
Terminated == Destroyed /\ UNCHANGED vars

Next ==
    \/ \E p \in Producers : Dispatch(p)
    \/ \E w \in Workers : DispatchLoop(w) \/ SpuriousWakeup(w)
    \/ \E d \in Drainers : DispatchQueued(d) \/ Clear(d)
    \/ \E u \in Users : Release(u) \/ Destroy(u)
    \/ Terminated

Spec == Init /\ [][Next]_vars

\* Scheduling the code relies on: threads keep running, callbacks return, and
\* the owner keeps draining (main.cpp ticks for ever).  Nobody has to dispatch,
\* clear or release.  The strong fairness says that the mutex does not starve the
\* destructor while workers keep being woken for nothing.
Fairness ==
    /\ \A p \in Producers : WF_vars(DispatchPush(p) \/ DispatchNotify(p))
    /\ \A w \in Workers : WF_vars(DispatchLoop(w))
    /\ \A d \in Drainers : WF_vars(DispatchQueued(d)) /\ WF_vars(ClearQueue(d))
    /\ \A u \in Users : WF_vars(Destroy(u)) /\ SF_vars(DestroyLock(u))

FairSpec == Spec /\ Fairness

-----------------------------------------------------------------------------
\* Types: the queue holds dispatched callbacks only, never an empty one.
TypeOK ==
    /\ lock_ \in Threads \cup {NoThread}
    /\ callbacksQueue_ \in Seq(1..dispatched)
    /\ quit_ \in BOOLEAN
    /\ pc \in [Threads -> Labels]
    /\ moved \in [Threads -> 0..dispatched]
    /\ dispatched \in Nat
    /\ ran \subseteq 1..dispatched
    /\ dropped \subseteq 1..dispatched

\* Mutual exclusion: a thread that touches callbacksQueue_ or quit_ (push, pop,
\* clear, the predicates of the two loops) owns lock_, through every unlock and
\* re-lock around a callback and inside cv_.wait.
LockDiscipline == \A t \in Threads : pc[t] \in Critical <=> lock_ = t

\* Every dispatched callback is in exactly one place: queued, in the hands of one
\* thread, run, or thrown away by clear().  None is lost and none runs twice.
NothingLostOrRepeated ==
    /\ \A c \in 1..dispatched :
          \/ c \in Elements(callbacksQueue_) \cup ran \cup dropped
          \/ \E t \in Threads : moved[t] = c
    /\ \A i, j \in DOMAIN callbacksQueue_ : callbacksQueue_[i] = callbacksQueue_[j] => i = j
    /\ Elements(callbacksQueue_) \cap (ran \cup dropped) = {}
    /\ ran \cap dropped = {}
    /\ \A t \in Threads : moved[t] # 0 =>
          /\ moved[t] \notin Elements(callbacksQueue_) \cup ran \cup dropped
          /\ \A u \in Threads \ {t} : moved[u] # moved[t]

\* No lost wakeup: while a worker sleeps in cv_.wait although there is work or
\* quit_ is set, somebody is on the way to the notify_all that will wake it.
NoLostWakeup ==
    (\E w \in Workers : pc[w] = "blocked") /\ (callbacksQueue_ # <<>> \/ quit_)
        => \E u \in Users : pc[u] \in Notifying

\* When the destructor returns nobody uses the queue: the workers have left
\* dispatch_loop, no user holds a reference, and no callback is being run.
DestroyedIsQuiet ==
    Destroyed => /\ lock_ = NoThread
                 /\ \A w \in Workers : pc[w] = "exited"
                 /\ \A u \in Users : pc[u] \in {"released", "destroyed"}
                 /\ \A t \in Threads : moved[t] = 0

\* With a single consumer (a session's queue) callbacks complete in the order of
\* their dispatch: a request is never answered before an earlier one.
InOrder == \A c \in ran : 1..(c - 1) \subseteq ran \cup dropped

\* Every queued callback is eventually run, unless clear() drops it, the queue
\* dies, or (no workers) all drainers dropped the queue.
EveryCallbackServed ==
    \A c \in 1..MaxDispatch :
        c \in Elements(callbacksQueue_)
            ~> \/ c \in ran \cup dropped
               \/ quit_
               \/ Workers = {} /\ \A d \in Drainers : pc[d] \in Leaving

\* ~DispatchQueue returns: sleeping and busy workers all notice quit_.
DestructorReturns == (\E u \in Users : pc[u] = "dtor") ~> Destroyed

\* DispatchQueue implements the contract of CallbackQueue.
Contract == INSTANCE CallbackQueue WITH
    submitted <- dispatched,
    pending   <- callbacksQueue_,
    running   <- {moved[t] : t \in Threads} \ {0},
    finished  <- ran,
    discarded <- dropped,
    closed    <- quit_

\* Callbacks start in dispatch order, at most once, and never after quit_.
ImplementsContract == Contract!Spec
=============================================================================
