---------------------------- MODULE WsSend_proofs ----------------------------
(***************************************************************************)
(* Proofs about WsSend, for any number of calls of send(): its types, that *)
(* at most one async_write is in flight, and that its buffer stays alive,  *)
(* although sendQueue_ and isSendBusy_ are shared without a lock; and that *)
(* as long as push_back and erase did not overlap, messages are written in *)
(* order, isSendBusy_ is not left set, and only on_write clearing it can   *)
(* leave a message behind.                                                 *)
(***************************************************************************)
EXTENDS WsSend, SequenceTheorems, TLAPS

\* Whoever writes, or is about to, has found or left isSendBusy_ set.
TokenIsBusy ==
    writes # <<>> \/ strandPc \in InOnWrite \/ mainPc = "starting" => isSendBusy_

\* Where the code looks at the front of sendQueue_ there is one: send() has seen
\* a queue that only on_write, which is not running, could empty.  The same holds
\* for what on_write saw before its erase.
FrontExists ==
    /\ mainPc = "starting" => sendQueue_ # <<>>
    /\ strandPc = "erasing" => sendQueue_ # <<>> /\ strandSeen # <<>>

IInv == TypeOK /\ AtMostOneWrite /\ TokenIsBusy /\ FrontExists

-----------------------------------------------------------------------------
\* Sequences of messages stay so when asked grows, and under push and pop.
LEMMA SeqGrows ==
    ASSUME NEW n \in Nat, NEW lo \in {0, 1}, NEW s \in Seq(lo..n)
    PROVE  s \in Seq(lo..(n + 1))
  <1>1. lo..n \subseteq lo..(n + 1)
    OBVIOUS
  <1> QED
    BY <1>1

LEMMA AppendType ==
    ASSUME NEW S, NEW s \in Seq(S), NEW x \in S
    PROVE  /\ Append(s, x) \in Seq(S)
           /\ Append(s, x) # <<>>
           /\ Len(Append(s, x)) = Len(s) + 1
  <1>1. Append(s, x) \in Seq(S) /\ Len(Append(s, x)) = Len(s) + 1 /\ Len(s) \in Nat
    OBVIOUS
  <1>2. Len(<<>>) = 0
    OBVIOUS
  <1> QED
    BY <1>1, <1>2

LEMMA TailType ==
    ASSUME NEW S, NEW s \in Seq(S), s # <<>>
    PROVE  /\ Tail(s) \in Seq(S) /\ Head(s) \in S
           /\ Len(s) \in Nat \ {0} /\ Len(Tail(s)) = Len(s) - 1
  OBVIOUS

LEMMA LenZero ==
    ASSUME NEW S, NEW s \in Seq(S)
    PROVE  Len(s) \in Nat /\ (Len(s) = 0 <=> s = <<>>)
  OBVIOUS

\* Whatever a race does to push_back, the queue ends non-empty and well typed.
LEMMA PushType ==
    ASSUME NEW n \in Nat, NEW seen \in Seq(0..n), NEW now \in Seq(0..n), NEW m \in 0..n,
           NEW q \in PushOutcomes(seen, now, m)
    PROVE  q \in Seq(0..n) /\ q # <<>>
  <1>1. 0 \in 0..n
    OBVIOUS
  <1>2. /\ Append(now, m) \in Seq(0..n) /\ Append(now, m) # <<>>
        /\ Append(seen, m) \in Seq(0..n) /\ Append(seen, m) # <<>>
        /\ Append(now, 0) \in Seq(0..n)
    BY <1>1, AppendType, Zenon
  <1>3. Append(Append(now, 0), m) \in Seq(0..n) /\ Append(Append(now, 0), m) # <<>>
    BY <1>2, AppendType, SMTT(20)
  <1> QED
    BY <1>2, <1>3, Zenon DEF PushOutcomes

\* Whatever a race does to erase, the queue stays well typed.
LEMMA EraseType ==
    ASSUME NEW n \in Nat, NEW seen \in Seq(0..n), NEW now \in Seq(0..n), seen # <<>>, now # <<>>,
           NEW q \in EraseOutcomes(seen, now)
    PROVE  q \in Seq(0..n)
  <1>1. 0 \in 0..n
    OBVIOUS
  <1>2. Tail(now) \in Seq(0..n) /\ Tail(seen) \in Seq(0..n)
    BY TailType
  <1>3. Append(Tail(seen), 0) \in Seq(0..n)
    BY <1>1, <1>2, AppendType
  <1> QED
    BY <1>2, <1>3, Zenon DEF EraseOutcomes

-----------------------------------------------------------------------------
LEMMA InitIInv == Init => IInv
  <1> SUFFICES ASSUME Init PROVE IInv
    OBVIOUS
  <1>1. TypeOK
    <2>1. <<>> \in Seq(0..0) /\ <<>> \in Seq(1..0)
      OBVIOUS
    <2> QED
      BY <2>1, Zenon DEF Init, TypeOK
  <1>2. AtMostOneWrite /\ TokenIsBusy /\ FrontExists
    BY DEF Init, AtMostOneWrite, TokenIsBusy, FrontExists, InOnWrite
  <1> QED
    BY <1>1, <1>2 DEF IInv

\* Starting a write of the front: at most one more message is in flight.
LEMMA WriteFrontType ==
    ASSUME TypeOK, writes = <<>>, sendQueue_ # <<>>, WriteFront
    PROVE  writes' \in Seq(1..asked) /\ Len(writes') <= 1
  <1>1. Head(sendQueue_) \in 0..asked /\ asked \in Nat
    BY TailType DEF TypeOK
  <1>2. CASE Head(sendQueue_) = 0
    BY <1>2 DEF WriteFront, TypeOK
  <1>3. CASE Head(sendQueue_) # 0
    <2>1. Head(sendQueue_) \in 1..asked
      BY <1>1, <1>3
    <2>2. Len(writes) = 0 /\ writes \in Seq(1..asked)
      BY DEF TypeOK
    <2> QED
      BY <2>1, <2>2, <1>3, AppendType DEF WriteFront
  <1> QED
    BY <1>2, <1>3

\* One step per action of the two threads.
LEMMA StepIInv ==
    ASSUME IInv, [Next]_vars
    PROVE  IInv'
  <1> USE DEF IInv
  <1>1. CASE PushBegin
    <2>1. asked' \in Nat /\ asked' = asked + 1
      BY <1>1 DEF PushBegin, TypeOK
    <2>2. /\ sendQueue_ \in Seq(0..asked') /\ mainSeen' \in Seq(0..asked')
          /\ strandSeen \in Seq(0..asked')
          /\ writes \in Seq(1..asked') /\ wire \in Seq(1..asked')
      BY <1>1, <2>1, SeqGrows DEF PushBegin, TypeOK
    <2>3. TypeOK'
      BY <1>1, <2>1, <2>2 DEF PushBegin, TypeOK
    <2> QED
      BY <1>1, <2>3 DEF PushBegin, AtMostOneWrite, TokenIsBusy, FrontExists
  <1>2. CASE PushEnd
    <2>1. sendQueue_' \in Seq(0..asked) /\ sendQueue_' # <<>>
      <3>1. asked \in 0..asked
        BY DEF TypeOK
      <3> QED
        BY <1>2, <3>1, PushType DEF PushEnd, TypeOK
    <2>2. TypeOK'
      BY <1>2, <2>1 DEF PushEnd, TypeOK
    <2> QED
      BY <1>2, <2>1, <2>2 DEF PushEnd, AtMostOneWrite, TokenIsBusy, FrontExists
  <1>3. CASE TestBusy
    BY <1>3, Zenon DEF TestBusy, TypeOK, AtMostOneWrite, TokenIsBusy, FrontExists
  <1>4. CASE StartWrite
    <2>1. writes = <<>> /\ sendQueue_ # <<>> /\ strandPc \notin InOnWrite /\ isSendBusy_
      BY <1>4 DEF StartWrite, AtMostOneWrite, FrontExists, TokenIsBusy
    <2>2. writes' \in Seq(1..asked) /\ Len(writes') <= 1
      BY <1>4, <2>1, WriteFrontType DEF StartWrite
    <2> QED
      BY <1>4, <2>1, <2>2 DEF StartWrite, TypeOK, AtMostOneWrite, TokenIsBusy, FrontExists
  <1>5. CASE OnWrite
    <2>1. /\ writes' \in Seq(1..asked) /\ Len(writes') = Len(writes) - 1
          /\ Len(writes) = 1 /\ wire' \in Seq(1..asked)
      <3>1. /\ Tail(writes) \in Seq(1..asked) /\ Head(writes) \in 1..asked
            /\ Len(writes) \in Nat \ {0} /\ Len(Tail(writes)) = Len(writes) - 1
        BY <1>5, TailType DEF OnWrite, TypeOK
      <3> QED
        BY <1>5, <3>1, AppendType, SMTT(20) DEF OnWrite, TypeOK, AtMostOneWrite
    <2>2. writes' = <<>>
      BY <2>1, LenZero
    <2>3. TypeOK'
      BY <1>5, <2>1 DEF OnWrite, TypeOK, InOnWrite
    <2> QED
      BY <1>5, <2>1, <2>2, <2>3 DEF OnWrite, AtMostOneWrite, TokenIsBusy, FrontExists, InOnWrite
  <1>6. CASE OnWriteFailed
    <2>1. /\ writes' \in Seq(1..asked) /\ Len(writes') = Len(writes) - 1 /\ Len(writes) = 1
      <3>1. /\ Tail(writes) \in Seq(1..asked)
            /\ Len(writes) \in Nat \ {0} /\ Len(Tail(writes)) = Len(writes) - 1
        BY <1>6, TailType DEF OnWriteFailed, TypeOK
      <3> QED
        BY <1>6, <3>1 DEF OnWriteFailed, AtMostOneWrite
    <2>2. writes' = <<>>
      BY <2>1, LenZero
    <2>3. TypeOK'
      BY <1>6, <2>1, Zenon DEF OnWriteFailed, TypeOK
    <2>4. mainPc # "starting" /\ strandPc = "idle"
      BY <1>6 DEF OnWriteFailed, AtMostOneWrite
    <2>5. UNCHANGED <<sendQueue_, isSendBusy_, mainPc, strandPc, strandSeen>>
      BY <1>6 DEF OnWriteFailed
    <2>6. AtMostOneWrite'
      BY <2>1, <2>2, <2>4, <2>5 DEF AtMostOneWrite, InOnWrite
    <2>7. TokenIsBusy' /\ FrontExists'
      BY <2>2, <2>4, <2>5 DEF TokenIsBusy, FrontExists, InOnWrite
    <2> QED
      BY <2>3, <2>6, <2>7
  <1>7. CASE EraseEnd
    <2>1. sendQueue_' \in Seq(0..asked)
      BY <1>7, EraseType DEF EraseEnd, TypeOK, FrontExists
    <2>2. TypeOK'
      BY <1>7, <2>1 DEF EraseEnd, TypeOK, InOnWrite
    <2> QED
      BY <1>7, <2>2 DEF EraseEnd, AtMostOneWrite, TokenIsBusy, FrontExists, InOnWrite
  <1>8. CASE WriteNext
    <2>1. writes = <<>> /\ mainPc # "starting" /\ isSendBusy_
      BY <1>8 DEF WriteNext, AtMostOneWrite, TokenIsBusy, InOnWrite
    <2>2. CASE sendQueue_ = <<>>
      BY <1>8, <2>1, <2>2 DEF WriteNext, TypeOK, AtMostOneWrite, TokenIsBusy, FrontExists, InOnWrite
    <2>3. CASE sendQueue_ # <<>>
      <3>1. writes' \in Seq(1..asked) /\ Len(writes') <= 1
        BY <1>8, <2>1, <2>3, WriteFrontType DEF WriteNext
      <3> QED
        BY <1>8, <2>1, <2>3, <3>1
           DEF WriteNext, TypeOK, AtMostOneWrite, TokenIsBusy, FrontExists, InOnWrite
    <2> QED
      BY <2>2, <2>3
  <1>9. CASE ClearBusy
    BY <1>9, Zenon DEF ClearBusy, TypeOK, AtMostOneWrite, TokenIsBusy, FrontExists, InOnWrite
  <1>10. CASE StreamCloses
    BY <1>10, Zenon DEF StreamCloses, TypeOK, AtMostOneWrite, TokenIsBusy, FrontExists, InOnWrite
  <1>11. CASE UNCHANGED vars
    BY <1>11 DEF vars, TypeOK, AtMostOneWrite, TokenIsBusy, FrontExists
  <1> QED
    BY <1>1, <1>2, <1>3, <1>4, <1>5, <1>6, <1>7, <1>8, <1>9, <1>10, <1>11
       DEF Next, Send, Strand, OnWriteSteps

\* The inductive invariant of send() and on_write().
THEOREM IInvHolds == Spec => []IInv
  <1>1. IInv /\ [Next]_vars => IInv'
    BY StepIInv
  <1> QED
    BY <1>1, InitIInv, PTL DEF Spec

\* Types hold for any number of calls; in particular no message in flight is null.
THEOREM TypeCorrect == Spec => []TypeOK
  BY IInvHolds, PTL DEF IInv

\* send() and on_write() never have two writes in flight, as Beast requires,
\* whatever the race on sendQueue_ does.
THEOREM OneWriteAtATime == Spec => []AtMostOneWrite
  BY IInvHolds, PTL DEF IInv

-----------------------------------------------------------------------------
\* What the two threads saw of sendQueue_ when push_back and erase began: until
\* they end, the queue has nothing that send() did not see, and has all that
\* on_write saw.  (0, which was moved from, is no message.)
Live(s) == Elements(s) \ {0}

SeenInv ==
    /\ mainPc = "pushing" => Live(sendQueue_) \subseteq Live(mainSeen)
    /\ strandPc = "erasing" => Live(strandSeen) \subseteq Live(sendQueue_)

LEMMA AppendElements ==
    ASSUME NEW S, NEW s \in Seq(S), NEW x \in S
    PROVE  Elements(Append(s, x)) = Elements(s) \cup {x}
  <1>1. /\ Len(s) \in Nat /\ DOMAIN s = 1..Len(s)
        /\ DOMAIN Append(s, x) = 1..(Len(s) + 1)
        /\ Append(s, x)[Len(s) + 1] = x
        /\ \A i \in DOMAIN s : Append(s, x)[i] = s[i]
    OBVIOUS
  <1>2. DOMAIN Append(s, x) = DOMAIN s \cup {Len(s) + 1}
    BY <1>1
  <1> QED
    BY <1>1, <1>2 DEF Elements

LEMMA TailElements ==
    ASSUME NEW S, NEW s \in Seq(S), s # <<>>
    PROVE  Elements(Tail(s)) \subseteq Elements(s) /\ Head(s) \in Elements(s)
  <1>1. Len(s) \in Nat \ {0} /\ DOMAIN s = 1..Len(s) /\ Head(s) = s[1]
    OBVIOUS
  <1>2. \A i \in DOMAIN Tail(s) : i + 1 \in DOMAIN s /\ Tail(s)[i] = s[i + 1]
    BY <1>1
  <1>3. 1 \in DOMAIN s
    BY <1>1
  <1> QED
    BY <1>1, <1>2, <1>3 DEF Elements

\* A push_back loses no message that is still in the queue.
LEMMA PushKeeps ==
    ASSUME NEW n \in Nat, NEW seen \in Seq(0..n), NEW now \in Seq(0..n), NEW m \in 0..n,
           Live(now) \subseteq Live(seen), NEW q \in PushOutcomes(seen, now, m)
    PROVE  Live(now) \subseteq Live(q)
  <1> DEFINE M == 0..n
  <1>0. 0 \in M /\ m \in M /\ now \in Seq(M) /\ seen \in Seq(M)
    OBVIOUS
  <1> HIDE DEF M
  <1>1. Append(now, 0) \in Seq(M)
    BY <1>0, AppendType
  <1>2. \A s \in Seq(M), x \in M : Elements(Append(s, x)) = Elements(s) \cup {x}
    BY AppendElements, Zenon
  <1>3. q \in {Append(now, m), Append(seen, m), Append(Append(now, 0), m)}
    BY DEF PushOutcomes
  <1>4. CASE q = Append(now, m)
    BY <1>0, <1>2, <1>4 DEF Live
  <1>5. CASE q = Append(seen, m)
    BY <1>0, <1>2, <1>5 DEF Live
  <1>6. CASE q = Append(Append(now, 0), m)
    BY <1>0, <1>1, <1>2, <1>6, Zenon DEF Live
  <1> QED
    BY <1>3, <1>4, <1>5, <1>6, Zenon

\* An erase brings back no message that had left the queue.
LEMMA EraseAddsNone ==
    ASSUME NEW n \in Nat, NEW seen \in Seq(0..n), NEW now \in Seq(0..n), seen # <<>>, now # <<>>,
           Live(seen) \subseteq Live(now), NEW q \in EraseOutcomes(seen, now)
    PROVE  Live(q) \subseteq Live(now)
  <1> DEFINE M == 0..n
  <1>0. 0 \in M /\ now \in Seq(M) /\ seen \in Seq(M)
    OBVIOUS
  <1> HIDE DEF M
  <1>1. Tail(seen) \in Seq(M)
    BY <1>0, TailType
  <1>2. Elements(Tail(now)) \subseteq Elements(now) /\ Elements(Tail(seen)) \subseteq Elements(seen)
    BY <1>0, TailElements, Zenon
  <1>3. \A s \in Seq(M), x \in M : Elements(Append(s, x)) = Elements(s) \cup {x}
    BY AppendElements, Zenon
  <1>4. q \in {Tail(now), Tail(seen), Append(Tail(seen), 0), seen}
    BY DEF EraseOutcomes
  <1>5. CASE q = Tail(now)
    BY <1>2, <1>5 DEF Live
  <1>6. CASE q \in {Tail(seen), seen}
    BY <1>2, <1>6, Zenon DEF Live
  <1>7. CASE q = Append(Tail(seen), 0)
    BY <1>0, <1>1, <1>2, <1>3, <1>7, Zenon DEF Live
  <1> QED
    BY <1>4, <1>5, <1>6, <1>7, SMTT(20)

\* Starting a write of the front, when none is in flight.
LEMMA WriteFrontAlive ==
    ASSUME TypeOK, writes = <<>>, sendQueue_ # <<>>, WriteFront
    PROVE  Elements(writes') \subseteq Live(sendQueue_)
  <1> DEFINE front == Head(sendQueue_)
  <1>1. front \in Elements(sendQueue_)
    BY TailElements, Zenon DEF TypeOK
  <1>2. CASE front = 0
    BY <1>2 DEF WriteFront, Elements
  <1>3. CASE front # 0
    <2>1. writes' = <<front>>
      BY <1>3 DEF WriteFront
    <2>2. Elements(writes') = {front}
      BY <2>1 DEF Elements
    <2> QED
      BY <1>1, <1>3, <2>2 DEF Live
  <1> QED
    BY <1>2, <1>3

\* BufferAlive, by sets.
AliveInv == Elements(writes) \subseteq Live(sendQueue_)

LEMMA StepAlive ==
    ASSUME IInv, SeenInv, AliveInv, [Next]_vars
    PROVE  SeenInv' /\ AliveInv'
  <1> USE DEF IInv
  <1>1. CASE PushBegin
    BY <1>1 DEF PushBegin, SeenInv, AliveInv
  <1>2. CASE PushEnd
    <2>1. asked \in Nat /\ asked \in 0..asked
      BY DEF TypeOK
    <2>2. Live(sendQueue_) \subseteq Live(sendQueue_')
      BY <1>2, <2>1, PushKeeps, Zenon DEF PushEnd, SeenInv, TypeOK
    <2>3. mainPc' # "pushing" /\ UNCHANGED <<strandPc, strandSeen, writes>>
      BY <1>2 DEF PushEnd
    <2> QED
      BY <2>2, <2>3 DEF SeenInv, AliveInv
  <1>3. CASE TestBusy
    BY <1>3 DEF TestBusy, SeenInv, AliveInv
  <1>4. CASE StartWrite
    <2>1. writes = <<>> /\ sendQueue_ # <<>>
      BY <1>4 DEF StartWrite, AtMostOneWrite, FrontExists
    <2>2. Elements(writes') \subseteq Live(sendQueue_)
      BY <1>4, <2>1, WriteFrontAlive DEF StartWrite
    <2> QED
      BY <1>4, <2>2 DEF StartWrite, SeenInv, AliveInv
  <1>5. CASE OnWrite \/ OnWriteFailed
    <2>1. Elements(writes') \subseteq Elements(writes) /\ UNCHANGED <<sendQueue_, mainPc, mainSeen>>
      BY <1>5, TailElements, Zenon DEF OnWrite, OnWriteFailed, TypeOK
    <2>2. strandPc' = "erasing" => strandSeen' = sendQueue_
      BY <1>5 DEF OnWrite, OnWriteFailed
    <2> QED
      BY <2>1, <2>2 DEF SeenInv, AliveInv
  <1>6. CASE EraseEnd
    <2>1. Live(sendQueue_') \subseteq Live(sendQueue_)
      BY <1>6, EraseAddsNone, Zenon DEF EraseEnd, SeenInv, FrontExists, TypeOK
    <2>2. writes' = <<>>
      BY <1>6 DEF EraseEnd, AtMostOneWrite, InOnWrite
    <2>3. strandPc' = "next" /\ UNCHANGED <<mainPc, mainSeen>>
      BY <1>6 DEF EraseEnd
    <2> QED
      BY <2>1, <2>2, <2>3 DEF SeenInv, AliveInv, Elements
  <1>7. CASE WriteNext
    <2>1. writes = <<>>
      BY <1>7 DEF WriteNext, AtMostOneWrite, InOnWrite
    <2>2. Elements(writes') \subseteq Live(sendQueue_)
      BY <1>7, <2>1, WriteFrontAlive DEF WriteNext, AliveInv
    <2> QED
      BY <1>7, <2>2 DEF WriteNext, SeenInv, AliveInv
  <1>8. CASE ClearBusy \/ StreamCloses \/ UNCHANGED vars
    BY <1>8 DEF ClearBusy, StreamCloses, vars, SeenInv, AliveInv
  <1> QED
    BY <1>1, <1>2, <1>3, <1>4, <1>5, <1>6, <1>7, <1>8 DEF Next, Send, Strand, OnWriteSteps

\* The string that async_write works on stays in sendQueue_ until on_write, also
\* when a push_back of send() overlaps the erase before: the race can lose messages
\* and leave empty ones, but it cannot free the one in flight.
THEOREM InFlightIsOwned == Spec => []BufferAlive
  <1>1. Init => SeenInv /\ AliveInv
    BY DEF Init, SeenInv, AliveInv, Elements
  <1>2. IInv /\ SeenInv /\ AliveInv /\ [Next]_vars => SeenInv' /\ AliveInv'
    BY StepAlive
  <1>3. IInv /\ AliveInv => BufferAlive
    BY DEF IInv, AliveInv, BufferAlive, Elements, Live
  <1> QED
    BY <1>1, <1>2, <1>3, IInvHolds, PTL DEF Spec

-----------------------------------------------------------------------------
\* Order, as long as no push_back overlaps an erase.  Then each of the two finds the
\* queue as it saw it when it began, and the write in flight is of the front.
UndisturbedInv ==
    isOpen /\ ~raced =>
        /\ mainPc = "pushing" => asked > 0 /\ mainSeen = sendQueue_ /\ strandPc # "erasing"
        /\ strandPc = "erasing" => strandSeen = sendQueue_
        /\ writes # <<>> => sendQueue_ # <<>> /\ writes = <<Head(sendQueue_)>>

FifoInv == UndisturbedInv /\ FifoUnlessRaced

Numbers(n) == [i \in 1..n |-> i]

\* A message that moves from the front of the queue to the end of the wire.
LEMMA ConcatMoves ==
    ASSUME NEW S, NEW s \in Seq(S), NEW t \in Seq(S), t # <<>>
    PROVE  Append(s, Head(t)) \o Tail(t) = s \o t
  <1>1. /\ Append(s, Head(t)) \in Seq(S) /\ Len(Append(s, Head(t))) = Len(s) + 1
        /\ \A i \in 1..Len(s) : Append(s, Head(t))[i] = s[i]
        /\ Append(s, Head(t))[Len(s) + 1] = t[1]
        /\ Tail(t) \in Seq(S) /\ Len(Tail(t)) = Len(t) - 1
        /\ \A i \in 1..(Len(t) - 1) : Tail(t)[i] = t[i + 1]
        /\ Len(s) \in Nat /\ Len(t) \in Nat \ {0}
    OBVIOUS
  <1> DEFINE l == Append(s, Head(t)) \o Tail(t)
             r == s \o t
  <1>2. /\ l \in Seq(S) /\ r \in Seq(S) /\ Len(l) = Len(s) + Len(t) /\ Len(r) = Len(s) + Len(t)
        /\ \A i \in 1..Len(l) : l[i] = IF i <= Len(s) + 1 THEN Append(s, Head(t))[i]
                                       ELSE Tail(t)[i - (Len(s) + 1)]
        /\ \A i \in 1..Len(r) : r[i] = IF i <= Len(s) THEN s[i] ELSE t[i - Len(s)]
    BY <1>1, ConcatProperties
  <1>3. ASSUME NEW i \in 1..Len(l) PROVE l[i] = r[i]
    <2>1. CASE i <= Len(s)
      BY <1>1, <1>2, <2>1
    <2>2. CASE i = Len(s) + 1
      BY <1>1, <1>2, <2>2
    <2>3. CASE i > Len(s) + 1
      <3>1. i - (Len(s) + 1) \in 1..(Len(t) - 1) /\ (i - (Len(s) + 1)) + 1 = i - Len(s)
        BY <1>1, <1>2, <2>3
      <3>2. Tail(t)[i - (Len(s) + 1)] = t[i - Len(s)]
        BY <1>1, <3>1
      <3> QED
        BY <1>1, <1>2, <2>3, <3>2
    <2> QED
      BY <1>1, <1>2, <2>1, <2>2, <2>3
  <1> QED
    BY <1>2, <1>3, SeqEqual

\* The next message behind those that are there.
LEMMA ConcatGrows ==
    ASSUME NEW S, NEW s \in Seq(S), NEW t \in Seq(S), NEW n \in Nat \ {0}, n \in S,
           s \o t = Numbers(n - 1)
    PROVE  s \o Append(t, n) = Numbers(n)
  <1>1. /\ Append(t, n) \in Seq(S) /\ Len(Append(t, n)) = Len(t) + 1
        /\ \A i \in 1..Len(t) : Append(t, n)[i] = t[i]
        /\ Append(t, n)[Len(t) + 1] = n
        /\ Len(s) \in Nat /\ Len(t) \in Nat
    OBVIOUS
  <1> DEFINE l == s \o Append(t, n)
             r == s \o t
  <1>2. /\ l \in Seq(S) /\ Len(l) = Len(s) + Len(t) + 1 /\ Len(r) = Len(s) + Len(t)
        /\ \A i \in 1..Len(l) : l[i] = IF i <= Len(s) THEN s[i] ELSE Append(t, n)[i - Len(s)]
        /\ \A i \in 1..Len(r) : r[i] = IF i <= Len(s) THEN s[i] ELSE t[i - Len(s)]
    BY <1>1, ConcatProperties
  <1>3. Len(r) = n - 1 /\ \A i \in 1..(n - 1) : r[i] = i
    BY DEF Numbers
  <1>4. DOMAIN l = 1..n
    BY <1>2, <1>3
  <1>5. ASSUME NEW i \in 1..n PROVE l[i] = i
    <2>1. CASE i <= Len(s)
      BY <1>1, <1>2, <1>3, <2>1
    <2>2. CASE i > Len(s) /\ i < n
      BY <1>1, <1>2, <1>3, <2>2, SMTT(20)
    <2>3. CASE i > Len(s) /\ i = n
      BY <1>1, <1>2, <1>3, <2>3
    <2> HIDE DEF l
    <2> QED
      BY <1>1, <2>1, <2>2, <2>3
  <1>6. l \in Seq(S)
    BY <1>2
  <1> HIDE DEF l
  <1>7. l = [i \in DOMAIN l |-> l[i]]
    BY <1>6
  <1> QED
    BY <1>4, <1>5, <1>7, Zenon DEF Numbers, l

\* What is left of the queue once on_write's erase has ended.
Left == IF strandPc = "erasing" THEN Tail(sendQueue_) ELSE sendQueue_
Given == IF mainPc = "pushing" THEN asked - 1 ELSE asked

LEMMA StepFifo ==
    ASSUME IInv, IInv', FifoInv, [Next]_vars
    PROVE  FifoInv'
  <1> SUFFICES ASSUME isOpen', ~raced'
               PROVE  /\ mainPc' = "pushing" => asked' > 0 /\ mainSeen' = sendQueue_'
                                                /\ strandPc' # "erasing"
                      /\ strandPc' = "erasing" => strandSeen' = sendQueue_'
                      /\ writes' # <<>> => sendQueue_' # <<>> /\ writes' = <<Head(sendQueue_')>>
                      /\ (wire \o Left = Numbers(Given))'
    BY Zenon DEF FifoInv, UndisturbedInv, FifoUnlessRaced, Left, Given, Numbers
  <1>0. isOpen /\ ~raced
    BY Zenon DEF Next, Send, Strand, OnWriteSteps, PushBegin, PushEnd, TestBusy, StartWrite, OnWrite,
           OnWriteFailed, EraseEnd, WriteNext, ClearBusy, StreamCloses, vars, IInv, TypeOK
  <1>1. /\ mainPc = "pushing" => asked > 0 /\ mainSeen = sendQueue_ /\ strandPc # "erasing"
        /\ strandPc = "erasing" => strandSeen = sendQueue_
        /\ writes # <<>> => sendQueue_ # <<>> /\ writes = <<Head(sendQueue_)>>
    BY <1>0 DEF FifoInv, UndisturbedInv
  <1>2. wire \o Left = Numbers(Given)
    BY <1>0, Zenon DEF FifoInv, FifoUnlessRaced, Left, Given, Numbers
  <1>3. CASE PushBegin
    <2>1. strandPc # "erasing" /\ asked' = asked + 1 /\ asked \in Nat
      BY <1>0, <1>3, Zenon DEF PushBegin, IInv, TypeOK
    <2>2. Left' = Left /\ Given' = Given /\ wire' = wire
      BY <1>3, <2>1 DEF PushBegin, Left, Given
    <2> QED
      BY <1>1, <1>2, <1>3, <2>1, <2>2 DEF PushBegin, Numbers
  <1>4. CASE PushEnd
    <2>1. /\ strandPc # "erasing" /\ asked \in Nat \ {0} /\ mainPc = "pushing"
          /\ sendQueue_' = Append(sendQueue_, asked) /\ asked \in 0..asked
          /\ sendQueue_ \in Seq(0..asked) /\ wire \in Seq(1..asked)
      BY <1>1, <1>4 DEF PushEnd, PushOutcomes, IInv, TypeOK
    <2>2. wire \in Seq(0..asked)
      <3>1. 1..asked \subseteq 0..asked
        BY <2>1
      <3> QED
        BY <2>1, <3>1
    <2>3. wire \o sendQueue_ = Numbers(asked - 1)
      BY <1>2, <2>1 DEF Left, Given
    <2>4. wire \o sendQueue_' = Numbers(asked)
      <3> DEFINE M == 0..asked
      <3>1. wire \in Seq(M) /\ sendQueue_ \in Seq(M) /\ asked \in M
        BY <2>1, <2>2
      <3> HIDE DEF M
      <3> QED
        BY <2>1, <2>3, <3>1, ConcatGrows, Zenon
    <2>5. UNCHANGED <<strandPc, strandSeen, asked, wire, writes>> /\ mainPc' = "checking"
      BY <1>4 DEF PushEnd
    <2>6. sendQueue_' # <<>> /\ (sendQueue_ # <<>> => Head(sendQueue_') = Head(sendQueue_))
      BY <2>1
    <2>7. (wire \o Left)' = Numbers(Given)'
      BY <2>1, <2>4, <2>5 DEF Left, Given, Numbers
    <2> QED
      BY <1>1, <2>1, <2>5, <2>6, <2>7
  <1>5. CASE TestBusy
    <2>1. Left' = Left /\ Given' = Given /\ wire' = wire
      BY <1>5 DEF TestBusy, Left, Given
    <2> QED
      BY <1>1, <1>2, <1>5, <2>1 DEF TestBusy, Numbers
  <1>6. CASE StartWrite
    <2>1. writes = <<>> /\ sendQueue_ # <<>>
      BY <1>6 DEF StartWrite, IInv, AtMostOneWrite, FrontExists
    <2>2. Left' = Left /\ Given' = Given /\ wire' = wire
      BY <1>6 DEF StartWrite, Left, Given
    <2>3. writes' # <<>> => writes' = <<Head(sendQueue_)>>
      BY <1>6, <2>1 DEF StartWrite, WriteFront
    <2> QED
      BY <1>1, <1>2, <1>6, <2>1, <2>2, <2>3 DEF StartWrite, Numbers
  <1>7. CASE OnWrite
    <2>1. sendQueue_ # <<>> /\ writes = <<Head(sendQueue_)>> /\ strandPc = "idle"
      BY <1>1, <1>7 DEF OnWrite
    <2>2. /\ strandPc' = "erasing" /\ strandSeen' = sendQueue_ /\ mainPc # "pushing"
          /\ wire' = Append(wire, Head(sendQueue_)) /\ writes' = <<>>
          /\ UNCHANGED <<sendQueue_, mainPc, mainSeen, asked>>
      <3>1. /\ strandPc' = "erasing" /\ strandSeen' = sendQueue_ /\ mainPc # "pushing"
            /\ wire' = Append(wire, Head(writes)) /\ writes' = Tail(writes)
            /\ UNCHANGED <<sendQueue_, mainPc, mainSeen, asked>>
        BY <1>0, <1>7, <2>1, Zenon DEF OnWrite
      <3> QED
        BY <2>1, <3>1
    <2>3. Append(wire, Head(sendQueue_)) \o Tail(sendQueue_) = wire \o sendQueue_
      <3> DEFINE M == 0..asked
      <3>1. 1..asked \subseteq M
        BY DEF IInv, TypeOK
      <3>2. wire \in Seq(M) /\ sendQueue_ \in Seq(M)
        BY <3>1 DEF IInv, TypeOK
      <3> HIDE DEF M
      <3> QED
        BY <2>1, <3>2, ConcatMoves
    <2>4. (wire \o Left)' = wire \o Left /\ Given' = Given
      BY <2>1, <2>2, <2>3 DEF Left, Given
    <2> QED
      BY <1>2, <2>2, <2>4 DEF Numbers
  <1>8. CASE EraseEnd
    <2>1. /\ sendQueue_' = Tail(sendQueue_) /\ strandPc = "erasing" /\ strandPc' = "next"
          /\ UNCHANGED <<mainPc, mainSeen, asked, wire, writes>>
      BY <1>1, <1>8 DEF EraseEnd, EraseOutcomes
    <2>2. writes = <<>> /\ mainPc # "pushing"
      BY <1>1, <2>1 DEF IInv, AtMostOneWrite, InOnWrite
    <2>3. Left' = Left /\ Given' = Given
      BY <2>1 DEF Left, Given
    <2> QED
      BY <1>2, <2>1, <2>2, <2>3 DEF Numbers
  <1>9. CASE WriteNext
    <2>1. writes = <<>> /\ strandPc = "next" /\ strandPc' # "erasing"
      BY <1>9 DEF WriteNext, IInv, AtMostOneWrite, InOnWrite
    <2>2. Left' = Left /\ Given' = Given /\ wire' = wire
      BY <1>9, <2>1 DEF WriteNext, Left, Given
    <2>3. writes' # <<>> => sendQueue_ # <<>> /\ writes' = <<Head(sendQueue_)>>
      BY <1>9, <2>1 DEF WriteNext, WriteFront
    <2> QED
      BY <1>1, <1>2, <1>9, <2>1, <2>2, <2>3 DEF WriteNext, Numbers
  <1>10. CASE ClearBusy \/ UNCHANGED vars
    <2>1. /\ UNCHANGED <<sendQueue_, mainPc, mainSeen, asked, wire, writes, strandSeen>>
          /\ strandPc' = "erasing" <=> strandPc = "erasing"
      BY <1>10, Zenon DEF ClearBusy, vars
    <2>2. Left' = Left /\ Given' = Given
      BY <2>1 DEF Left, Given
    <2> QED
      BY <1>1, <1>2, <2>1, <2>2 DEF Numbers
  <1>11. CASE OnWriteFailed \/ StreamCloses
    BY <1>11 DEF OnWriteFailed, StreamCloses
  <1> QED
    BY <1>3, <1>4, <1>5, <1>6, <1>7, <1>8, <1>9, <1>10, <1>11
       DEF Next, Send, Strand, OnWriteSteps

\* Undisturbed, push_back and erase work on the queue they saw, and nothing is lost.
THEOREM FifoInvHolds == Spec => []FifoInv
  <1>1. Init => FifoInv
    <2>1. Init => UndisturbedInv
      BY DEF Init, UndisturbedInv
    <2>2. <<>> \o <<>> = [i \in 1..0 |-> i]
      OBVIOUS
    <2>3. Init => FifoUnlessRaced
      BY <2>2 DEF Init, FifoUnlessRaced
    <2> QED
      BY <2>1, <2>3 DEF FifoInv
  <1>2. IInv /\ IInv' /\ FifoInv /\ [Next]_vars => FifoInv'
    BY StepFifo
  <1> QED
    BY <1>1, <1>2, IInvHolds, PTL DEF Spec

\* The race on sendQueue_ is the only thing that can lose, repeat or reorder messages
\* of an open session: in every execution in which no push_back of send() overlaps an
\* erase of on_write(), what was written followed by what is queued is what send() was
\* given, in that order.
THEOREM OrderUnlessRaced == Spec => []FifoUnlessRaced
  BY FifoInvHolds, PTL DEF FifoInv

-----------------------------------------------------------------------------
\* isSendBusy_ and the messages that wait.

\* isSendBusy_ is not left set: unless a race has put a moved-from message at the
\* front, which neither send() nor on_write() gets past, a set isSendBusy_ of an open
\* session means that a write is in flight or that one of them is about to go on.
BusyIsHeld ==
    isOpen /\ ~raced /\ isSendBusy_ =>
        writes # <<>> \/ strandPc \in InOnWrite \/ mainPc = "starting"

\* Messages are waiting and nobody is at work on them.
Unattended ==
    isOpen /\ sendQueue_ # <<>> /\ mainPc = "idle" /\ strandPc = "idle" /\ writes = <<>>

\* Without such a race there is one way in which a message is left behind: on_write
\* clears isSendBusy_ after it saw an empty queue and send() saw it busy.
LeftBehindByClear == [][~raced /\ Unattended' => Unattended \/ strandPc = "clearing"]_vars

\* The front of an undisturbed queue is a message that send() was given.
LEMMA FrontIsMessage ==
    ASSUME IInv, FifoInv, isOpen, ~raced, strandPc # "erasing", sendQueue_ # <<>>
    PROVE  Head(sendQueue_) # 0
  <1> DEFINE M == 0..asked
             n == Len(wire) + 1
  <1>1. wire \o sendQueue_ = Numbers(Given)
    BY Zenon DEF FifoInv, FifoUnlessRaced, Given, Numbers
  <1>2. wire \in Seq(M) /\ sendQueue_ \in Seq(M)
    <2>1. 1..asked \subseteq M
      BY DEF IInv, TypeOK
    <2> QED
      BY <2>1 DEF IInv, TypeOK
  <1> HIDE DEF M
  <1>3. /\ n \in Nat \ {0} /\ n \in 1..(Len(wire) + Len(sendQueue_)) /\ ~(n <= Len(wire))
        /\ n - Len(wire) = 1 /\ Head(sendQueue_) = sendQueue_[1]
    BY <1>2
  <1>4. /\ Len(wire \o sendQueue_) = Len(wire) + Len(sendQueue_)
        /\ (wire \o sendQueue_)[n] = sendQueue_[1]
    BY <1>2, <1>3, ConcatProperties
  <1>5. DOMAIN (wire \o sendQueue_) = 1..(Len(wire) + Len(sendQueue_))
    BY <1>2, <1>4
  <1> HIDE DEF n
  <1>6. Numbers(Given)[n] = n
    BY <1>1, <1>3, <1>5, Zenon DEF Numbers
  <1> QED
    BY <1>1, <1>3, <1>4, <1>6

\* So an undisturbed queue that is not empty is written from.
LEMMA FrontIsWritten ==
    ASSUME IInv, FifoInv, isOpen, ~raced, strandPc # "erasing", sendQueue_ # <<>>, WriteFront
    PROVE  writes' # <<>>
  <1>1. writes' = Append(writes, Head(sendQueue_))
    BY FrontIsMessage DEF WriteFront
  <1>2. writes \in Seq(1..asked) /\ Len(writes) \in Nat
    BY DEF IInv, TypeOK
  <1> QED
    BY <1>1, <1>2

LEMMA StepBusy ==
    ASSUME IInv, FifoInv, BusyIsHeld, [Next]_vars
    PROVE  BusyIsHeld'
  <1> SUFFICES ASSUME isOpen', ~raced', isSendBusy_'
               PROVE  writes' # <<>> \/ strandPc' \in InOnWrite \/ mainPc' = "starting"
    BY DEF BusyIsHeld
  <1>0. isOpen /\ ~raced
    BY Zenon DEF Next, Send, Strand, OnWriteSteps, PushBegin, PushEnd, TestBusy, StartWrite, OnWrite,
           OnWriteFailed, EraseEnd, WriteNext, ClearBusy, StreamCloses, vars, IInv, TypeOK
  <1>1. isSendBusy_ => writes # <<>> \/ strandPc \in InOnWrite \/ mainPc = "starting"
    BY <1>0 DEF BusyIsHeld
  <1>2. CASE PushBegin \/ PushEnd \/ TestBusy \/ UNCHANGED vars
    BY <1>1, <1>2, Zenon DEF PushBegin, PushEnd, TestBusy, vars
  <1>3. CASE StartWrite
    <2>1. sendQueue_ # <<>> /\ strandPc # "erasing"
      BY <1>3 DEF StartWrite, IInv, FrontExists, AtMostOneWrite, InOnWrite
    <2> QED
      BY <1>0, <1>3, <2>1, FrontIsWritten DEF StartWrite
  <1>4. CASE OnWrite \/ EraseEnd
    BY <1>0, <1>4, Zenon DEF OnWrite, EraseEnd, InOnWrite
  <1>5. CASE WriteNext
    <2>1. CASE sendQueue_ = <<>>
      BY <1>5, <2>1 DEF WriteNext, InOnWrite
    <2>2. CASE sendQueue_ # <<>>
      BY <1>0, <1>5, <2>2, FrontIsWritten DEF WriteNext
    <2> QED
      BY <2>1, <2>2
  <1>6. CASE ClearBusy \/ OnWriteFailed \/ StreamCloses
    BY <1>6 DEF ClearBusy, OnWriteFailed, StreamCloses
  <1> QED
    BY <1>2, <1>3, <1>4, <1>5, <1>6 DEF Next, Send, Strand, OnWriteSteps

\* isSendBusy_ is never left set on an open session whose queue was not raced: whoever
\* leaves it set has a write in flight, so a later on_write() goes on or clears it.
THEOREM BusyMeansWork == Spec => []BusyIsHeld
  <1>1. Init => BusyIsHeld
    BY DEF Init, BusyIsHeld
  <1>2. IInv /\ FifoInv /\ BusyIsHeld /\ [Next]_vars => BusyIsHeld'
    BY StepBusy
  <1> QED
    BY <1>1, <1>2, IInvHolds, FifoInvHolds, PTL DEF Spec

\* send() called on an open session whose queue was not raced leaves a message without
\* a writer only through on_write's last step: it found the queue empty, send() then
\* pushed and found isSendBusy_ still set, and on_write cleared it.
THEOREM OneWayToStick == Spec => LeftBehindByClear
  <1>1. IInv /\ FifoInv /\ BusyIsHeld /\ [Next]_vars
          => [~raced /\ Unattended' => Unattended \/ strandPc = "clearing"]_vars
    <2> SUFFICES ASSUME IInv, FifoInv, BusyIsHeld, Next, ~raced, Unattended'
                 PROVE  Unattended \/ strandPc = "clearing"
      BY DEF Unattended, vars
    <2>1. isOpen' /\ sendQueue_' # <<>> /\ mainPc' = "idle" /\ strandPc' = "idle" /\ writes' = <<>>
      BY DEF Unattended
    <2>2. isOpen
      BY <2>1, Zenon DEF Next, Send, Strand, OnWriteSteps, PushBegin, PushEnd, TestBusy, StartWrite,
             OnWrite, OnWriteFailed, EraseEnd, WriteNext, ClearBusy, StreamCloses
    <2>3. CASE TestBusy
      BY <2>1, <2>2, <2>3 DEF TestBusy, BusyIsHeld, InOnWrite
    <2>4. CASE StartWrite
      <3>1. sendQueue_ # <<>> /\ strandPc # "erasing"
        BY <2>4 DEF StartWrite, IInv, FrontExists, AtMostOneWrite, InOnWrite
      <3> QED
        BY <2>1, <2>2, <2>4, <3>1, FrontIsWritten DEF StartWrite
    <2>5. CASE WriteNext
      BY <2>1, <2>2, <2>5, FrontIsWritten DEF WriteNext
    <2>6. CASE PushBegin \/ PushEnd \/ OnWriteFailed \/ StreamCloses \/ OnWrite \/ EraseEnd
      BY <2>1, <2>2, <2>6 DEF PushBegin, PushEnd, OnWriteFailed, StreamCloses, OnWrite, EraseEnd
    <2>7. CASE ClearBusy
      BY <2>7 DEF ClearBusy
    <2> QED
      BY <2>3, <2>4, <2>5, <2>6, <2>7 DEF Next, Send, Strand, OnWriteSteps
  <1> QED
    BY <1>1, IInvHolds, FifoInvHolds, BusyMeansWork, PTL DEF Spec, LeftBehindByClear
=============================================================================
