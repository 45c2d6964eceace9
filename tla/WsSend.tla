------------------------------- MODULE WsSend -------------------------------
(***************************************************************************)
(* Sending on one open session: WsSession::send, called by the main thread *)
(* (from the callbacks that handleIncomingMessages runs, and by the        *)
(* client), against WsSession::on_write, run by an io thread on strand_.   *)
(* Both use sendQueue_ and isSendBusy_ without a lock, so accesses of the  *)
(* two threads are separate steps.                                         *)
(*                                                                         *)
(* Messages are named by the order of the calls: 1, 2, 3, ...; 0 is a      *)
(* shared_ptr that was moved from.  A call that send() refuses (an empty   *)
(* or too large string) changes nothing and is left out.                   *)
(***************************************************************************)
EXTENDS Naturals, Sequences

CONSTANTS
    MaxSends           \* bound on the number of calls of send()

ASSUME SendAssumption == MaxSends \in Nat

VARIABLES
    isOpen,       \* ws_.is_open()
    sendQueue_,
    isSendBusy_,
    mainPc,       \* where the main thread is in send()
    mainSeen,     \* sendQueue_ when its push_back began
    strandPc,     \* where the io thread is on strand_
    strandSeen,   \* sendQueue_ when its erase began
    asked,        \* number of send() calls so far
    writes,       \* async_write operations in flight, oldest first
    wire,         \* history: messages written completely
    raced         \* history: a push_back and an erase overlapped

vars == <<isOpen, sendQueue_, isSendBusy_, mainPc, mainSeen, strandPc, strandSeen,
          asked, writes, wire, raced>>

Elements(s) == {s[i] : i \in DOMAIN s}

\* on_write() from its first to its last use of sendQueue_ and isSendBusy_.
InOnWrite == {"erasing", "next", "clearing"}

Init ==
    /\ isOpen = TRUE
    /\ sendQueue_ = <<>>
    /\ isSendBusy_ = FALSE
    /\ mainPc = "idle"
    /\ mainSeen = <<>>
    /\ strandPc = "idle"
    /\ strandSeen = <<>>
    /\ asked = 0
    /\ writes = <<>>
    /\ wire = <<>>
    /\ raced = FALSE

-----------------------------------------------------------------------------
\* The std::vector under unsynchronised use.  An operation that overlapped no
\* other has its effect.  Otherwise the end of the vector, its elements and its
\* storage were read before and written after the other operation changed them:
\* both may take effect, one may be lost, or a moved-from element stays behind.
\* (Reading freed storage may also crash, which is the behaviour stopping.)

PushOutcomes(seen, now, m) ==
    IF now = seen THEN {Append(now, m)}
    ELSE {Append(now, m), Append(seen, m), Append(Append(now, 0), m)}

EraseOutcomes(seen, now) ==
    IF now = seen THEN {Tail(now)}
    ELSE {Tail(now), Tail(seen), Append(Tail(seen), 0), seen}

-----------------------------------------------------------------------------
\* send(), on the main thread.
PushBegin ==
    /\ mainPc = "idle"
    /\ asked < MaxSends
    /\ asked' = asked + 1
    /\ mainSeen' = sendQueue_
    /\ mainPc' = "pushing"
    /\ raced' = (raced \/ strandPc = "erasing")
    /\ UNCHANGED <<isOpen, sendQueue_, isSendBusy_, strandPc, strandSeen, writes, wire>>

PushEnd ==
    /\ mainPc = "pushing"
    /\ sendQueue_' \in PushOutcomes(mainSeen, sendQueue_, asked)
    /\ mainSeen' = <<>>
    /\ mainPc' = "checking"
    /\ UNCHANGED <<isOpen, isSendBusy_, strandPc, strandSeen, asked, writes, wire, raced>>

MutIgnoresBusy ==           \* forgets to look at isSendBusy_
    /\ mainPc = "checking"
    /\ IF isOpen /\ sendQueue_ # <<>>
       THEN isSendBusy_' = TRUE /\ mainPc' = "starting"
       ELSE mainPc' = "idle" /\ UNCHANGED isSendBusy_
    /\ UNCHANGED <<isOpen, sendQueue_, mainSeen, strandPc, strandSeen, asked, writes, wire, raced>>

\* if (!isOpen()) return; if (!isSendBusy_ && !sendQueue_.empty()) isSendBusy_ = true
TestBusy ==
    /\ mainPc = "checking"
    /\ IF isOpen /\ ~isSendBusy_ /\ sendQueue_ # <<>>
       THEN isSendBusy_' = TRUE /\ mainPc' = "starting"
       ELSE mainPc' = "idle" /\ UNCHANGED isSendBusy_
    /\ UNCHANGED <<isOpen, sendQueue_, mainSeen, strandPc, strandSeen, asked, writes, wire, raced>>

MutWriteNull ==             \* forgets to look for a moved-from front
    writes' = Append(writes, Head(sendQueue_))

MutWriteBack ==             \* writes sendQueue_.back()
    LET m == sendQueue_[Len(sendQueue_)]
    IN  writes' = IF m = 0 THEN writes ELSE Append(writes, m)

\* async_write of the front; a front that was moved from ends the call.
WriteFront == writes' = IF Head(sendQueue_) = 0 THEN writes ELSE Append(writes, Head(sendQueue_))

MutStartPops ==             \* takes the message out of the queue when writing it
    /\ mainPc = "starting"
    /\ WriteFront
    /\ sendQueue_' = Tail(sendQueue_)
    /\ mainPc' = "idle"
    /\ UNCHANGED <<isOpen, isSendBusy_, mainSeen, strandPc, strandSeen, asked, wire, raced>>

StartWrite ==
    /\ mainPc = "starting"
    /\ WriteFront
    /\ mainPc' = "idle"
    /\ UNCHANGED <<isOpen, sendQueue_, isSendBusy_, mainSeen, strandPc, strandSeen, asked,
                   wire, raced>>

-----------------------------------------------------------------------------
\* on_write(), on the strand.
OnWrite ==
    /\ strandPc = "idle"
    /\ writes # <<>>
    /\ writes' = Tail(writes)
    /\ wire' = Append(wire, Head(writes))
    /\ \/ ~isOpen /\ UNCHANGED <<strandPc, strandSeen, raced>>
       \/ isOpen /\ sendQueue_ = <<>> /\ strandPc' = "next" /\ UNCHANGED <<strandSeen, raced>>
       \/ /\ isOpen /\ sendQueue_ # <<>>
          /\ strandPc' = "erasing"
          /\ strandSeen' = sendQueue_
          /\ raced' = (raced \/ mainPc = "pushing")
    /\ UNCHANGED <<isOpen, sendQueue_, isSendBusy_, mainPc, mainSeen, asked>>

\* operation_aborted, or an error that ends in on_session_fail.
OnWriteFailed ==
    /\ strandPc = "idle"
    /\ writes # <<>>
    /\ writes' = Tail(writes)
    /\ isOpen' = FALSE
    /\ UNCHANGED <<sendQueue_, isSendBusy_, mainPc, mainSeen, strandPc, strandSeen, asked,
                   wire, raced>>

EraseEnd ==
    /\ strandPc = "erasing"
    /\ sendQueue_' \in EraseOutcomes(strandSeen, sendQueue_)
    /\ strandSeen' = <<>>
    /\ strandPc' = "next"
    /\ UNCHANGED <<isOpen, isSendBusy_, mainPc, mainSeen, asked, writes, wire, raced>>

WriteNext ==
    /\ strandPc = "next"
    /\ IF sendQueue_ = <<>>
       THEN strandPc' = "clearing" /\ UNCHANGED writes
       ELSE strandPc' = "idle" /\ WriteFront
    /\ UNCHANGED <<isOpen, sendQueue_, isSendBusy_, mainPc, mainSeen, strandSeen, asked,
                   wire, raced>>

ClearBusy ==
    /\ strandPc = "clearing"
    /\ isSendBusy_' = FALSE
    /\ strandPc' = "idle"
    /\ UNCHANGED <<isOpen, sendQueue_, mainPc, mainSeen, strandSeen, asked, writes, wire, raced>>

\* Another handler of the strand (on_read with an error, on_timer after its
\* shutdown) leaves the stream closed.
StreamCloses ==
    /\ strandPc = "idle"
    /\ isOpen' = FALSE
    /\ UNCHANGED <<sendQueue_, isSendBusy_, mainPc, mainSeen, strandPc, strandSeen, asked,
                   writes, wire, raced>>

-----------------------------------------------------------------------------
Send == PushBegin \/ PushEnd \/ TestBusy \/ StartWrite
OnWriteSteps == EraseEnd \/ WriteNext \/ ClearBusy
Strand == OnWrite \/ OnWriteFailed \/ OnWriteSteps \/ StreamCloses

Next == Send \/ Strand

Spec == Init /\ [][Next]_vars

\* The main thread finishes a call of send(), the io thread finishes a handler,
\* and a write in flight completes or fails.
Fairness ==
    /\ WF_vars(PushEnd \/ TestBusy \/ StartWrite)
    /\ WF_vars(OnWriteSteps)
    /\ WF_vars(OnWrite \/ OnWriteFailed)

FairSpec == Spec /\ Fairness

-----------------------------------------------------------------------------
\* Types.
TypeOK ==
    /\ isOpen \in BOOLEAN
    /\ sendQueue_ \in Seq(0..asked)
    /\ isSendBusy_ \in BOOLEAN
    /\ mainPc \in {"idle", "pushing", "checking", "starting"}
    /\ mainSeen \in Seq(0..asked)
    /\ strandPc \in {"idle"} \cup InOnWrite
    /\ strandSeen \in Seq(0..asked)
    /\ asked \in Nat
    /\ writes \in Seq(1..asked)
    /\ wire \in Seq(1..asked)
    /\ raced \in BOOLEAN

\* isSendBusy_ works as a token in spite of the races: at most one of "a write is
\* in flight", "on_write is at work" and "send is about to write" holds, once, as
\* websocket::stream requires of its callers.
AtMostOneWrite ==
    /\ Len(writes) <= 1
    /\ writes # <<>> => strandPc \notin InOnWrite /\ mainPc # "starting"
    /\ strandPc \in InOnWrite => mainPc # "starting"

\* async_write gets net::buffer(*dp), which does not own the string: as long as
\* the write is in flight, sendQueue_ must keep the message alive.
BufferAlive == \A i \in DOMAIN writes : writes[i] \in Elements(sendQueue_)

\* As long as no push_back overlaps an erase, an open session has written, or
\* still holds, exactly the messages it was given, in their order.
FifoUnlessRaced ==
    isOpen /\ ~raced =>
        LET given == IF mainPc = "pushing" THEN asked - 1 ELSE asked
            left == IF strandPc = "erasing" THEN Tail(sendQueue_) ELSE sendQueue_
        IN  wire \o left = [i \in 1..given |-> i]

\* "starts async writing to client": every message given to an open session is
\* eventually written, unless the session stops being open.
SendStartsWriting ==
    \A m \in 1..MaxSends : asked >= m ~> m \in Elements(wire) \/ ~isOpen
=============================================================================
