--------------------------- MODULE CallbackQueue ---------------------------
(***************************************************************************)
(* What DispatchQueue promises to its users, with no threads, lock or      *)
(* condition variable: callbacks are started in the order they were        *)
(* submitted, each at most once, until the queue is closed.  A callback is *)
(* named by the position of its submission: 1, 2, 3, ...                   *)
(***************************************************************************)
EXTENDS Naturals, Sequences

VARIABLES
    submitted,   \* how many callbacks were submitted so far
    pending,     \* submitted and not yet started, oldest first
    running,     \* started and not yet returned
    finished,    \* returned
    discarded,   \* thrown away without being run
    closed       \* no callback may start any more

vars == <<submitted, pending, running, finished, discarded, closed>>

Init ==
    /\ submitted = 0
    /\ pending = <<>>
    /\ running = {}
    /\ finished = {}
    /\ discarded = {}
    /\ closed = FALSE

Submit ==
    /\ submitted' = submitted + 1
    /\ pending' = Append(pending, submitted + 1)
    /\ UNCHANGED <<running, finished, discarded, closed>>

\* Only the oldest pending callback may start, and only if it never started.
Start ==
    /\ ~closed
    /\ pending # <<>>
    /\ Head(pending) \notin running \cup finished \cup discarded
    /\ pending' = Tail(pending)
    /\ running' = running \cup {Head(pending)}
    /\ UNCHANGED <<submitted, finished, discarded, closed>>

Finish ==
    \E c \in running :
        /\ running' = running \ {c}
        /\ finished' = finished \cup {c}
        /\ UNCHANGED <<submitted, pending, discarded, closed>>

Discard ==
    /\ pending' = <<>>
    /\ discarded' = discarded \cup {pending[i] : i \in DOMAIN pending}
    /\ UNCHANGED <<submitted, running, finished, closed>>

Close ==
    /\ closed' = TRUE
    /\ UNCHANGED <<submitted, pending, running, finished, discarded>>

Next == Submit \/ Start \/ Finish \/ Discard \/ Close

Spec == Init /\ [][Next]_vars
=============================================================================
