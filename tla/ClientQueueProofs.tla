-------------------------- MODULE ClientQueueProofs --------------------------
(***************************************************************************)
(* Proofs about ClientQueue for any packets and any bounds.                *)
(*                                                                         *)
(* That a set m_sending is carried by someone holds of every behaviour of  *)
(* the two threads.  That one chain sends holds until both threads have    *)
(* found m_sending reset, and that packets are written in order until      *)
(* then, or until a thread has come to an empty deque.                     *)
(***************************************************************************)
EXTENDS ClientQueue, QueueLemmas

-----------------------------------------------------------------------------
(* Types *)

\* A thread goes somewhere, the other one stays.
LEMMA GotoEffect ==
    ASSUME TypeOK, NEW t \in Thread, NEW place \in Place, Goto(t, place)
    PROVE  /\ at' \in [Thread -> Place]
           /\ at'[t] = place
           /\ \A u \in Thread \ {t} : at'[u] = at[u]
  BY DEF TypeOK, Goto

\* The names of the places and of the threads.
LEMMA Names ==
    /\ "ui" \in Thread /\ "asio" \in Thread
    /\ \A t \in Thread : t = "ui" \/ t = "asio"
    /\ Place = {"idle", "push", "test", "start", "first", "handler", "empty", "send", "clear"}
  BY DEF Thread, Place

\* Where queuePacket may return to.
LEMMA ReturnEffect ==
    ASSUME TypeOK, NEW t \in Thread, Return(t)
    PROVE  /\ at' \in [Thread -> Place]
           /\ arg' \in [Thread -> AnyPacket]
           /\ greeted' \in BOOLEAN
           /\ \A u \in Thread \ {t} : at'[u] = at[u]
           /\ \/ t = "ui" /\ at'[t] = "idle" /\ UNCHANGED <<arg, greeted>>
              \/ /\ t = "asio" /\ arg[t] = UserInfo /\ at'[t] = "push"
                 /\ arg'[t] = Rate /\ UNCHANGED greeted
              \/ /\ t = "asio" /\ arg[t] # UserInfo /\ ~greeted /\ at'[t] = "idle"
                 /\ greeted' = TRUE /\ UNCHANGED arg
              \/ /\ t = "asio" /\ arg[t] # UserInfo /\ greeted /\ at'[t] = "empty"
                 /\ UNCHANGED <<arg, greeted>>
<1>1. t = "ui" \/ t = "asio"
  BY Names
<1>2. CASE t = "ui"
  <2>1. Goto(t, "idle") /\ UNCHANGED <<arg, greeted>>
    BY <1>2 DEF Return
  <2>2. QED
    BY <1>2, <2>1, GotoEffect, Names DEF TypeOK
<1>3. CASE t = "asio" /\ arg[t] = UserInfo
  <2>1. Goto(t, "push") /\ arg' = [arg EXCEPT ![t] = Rate] /\ UNCHANGED greeted
    BY <1>3 DEF Return
  <2>2. Rate \in AnyPacket
    BY DEF AnyPacket
  <2>3. QED
    BY <1>3, <2>1, <2>2, GotoEffect, Names DEF TypeOK
<1>4. CASE t = "asio" /\ arg[t] # UserInfo /\ ~greeted
  <2>1. Goto(t, "idle") /\ greeted' = TRUE /\ UNCHANGED arg
    BY <1>4 DEF Return
  <2>2. QED
    BY <1>4, <2>1, GotoEffect, Names DEF TypeOK
<1>5. CASE t = "asio" /\ arg[t] # UserInfo /\ greeted
  <2>1. Goto(t, "empty") /\ UNCHANGED <<arg, greeted>>
    BY <1>5 DEF Return
  <2>2. QED
    BY <1>5, <2>1, GotoEffect, Names DEF TypeOK
<1>6. QED
  BY <1>1, <1>2, <1>3, <1>4, <1>5

\* queuePacket is called with p.
LEMMA CallEffect ==
    ASSUME TypeOK, NEW t \in Thread, NEW p \in Packet, Call(t, p)
    PROVE  /\ at' \in [Thread -> Place]
           /\ arg' \in [Thread -> AnyPacket]
           /\ at'[t] = "push" /\ arg'[t] = p
           /\ \A u \in Thread \ {t} : at'[u] = at[u] /\ arg'[u] = arg[u]
<1>1. p \in AnyPacket /\ Goto(t, "push") /\ arg' = [arg EXCEPT ![t] = p]
  BY DEF Call, AnyPacket
<1>2. QED
  BY <1>1, GotoEffect, Names DEF TypeOK

\* Appending an element keeps the type.
LEMMA Appending ==
    ASSUME NEW S, NEW q \in Seq(S), NEW e \in S
    PROVE  /\ Append(q, e) \in Seq(S)
           /\ Append(q, e) # <<>>
           /\ q # <<>> => Head(Append(q, e)) = Head(q)
           /\ Tail(<<e>>) = <<>>
           /\ Append(<<>>, e) = <<e>>
           /\ Head(<<e>>) = e
  BY AppendProperties, EmptySeq

\* So does taking the front away.
LEMMA FrontTaken ==
    ASSUME NEW S, NEW q \in Seq(S), q # <<>>
    PROVE  /\ Head(q) \in S
           /\ Tail(q) \in Seq(S)
  BY HeadTailProperties

\* What front returns is a packet, that of the front if there is one.
LEMMA FrontsType ==
    ASSUME TypeOK
    PROVE  /\ Fronts \subseteq AnyPacket
           /\ queue # <<>> => Fronts = {Head(queue)}
<1>1. CASE queue # <<>>
  BY <1>1, FrontTaken DEF Fronts, TypeOK
<1>2. CASE queue = <<>>
  <2>1. Fronts = {pushed[i] : i \in DOMAIN pushed}
    BY <1>2 DEF Fronts, Range
  <2>2. DOMAIN pushed = 1..Len(pushed) /\ \A i \in 1..Len(pushed) : pushed[i] \in AnyPacket
    BY DEF TypeOK
  <2>3. QED
    BY <1>2, <2>1, <2>2
<1>3. QED
  BY <1>1, <1>2

\* A write is appended to those in flight.
LEMMA WriteType ==
    ASSUME TypeOK, NEW p \in Fronts, writes' = Append(writes, p)
    PROVE  writes' \in Seq(AnyPacket) /\ writes' # <<>>
<1>1. p \in AnyPacket
  BY FrontsType
<1>2. writes \in Seq(AnyPacket)
  BY DEF TypeOK
<1>3. Append(writes, p) \in Seq(AnyPacket) /\ Append(writes, p) # <<>>
  BY <1>1, <1>2, Appending
<1>4. QED
  BY <1>3

LEMMA InitTypes == Init => TypeOK
<1> SUFFICES ASSUME Init PROVE TypeOK
  OBVIOUS
<1>1. at \in [Thread -> Place]
  BY DEF Init, Place
<1>2. UserInfo \in AnyPacket
  BY DEF AnyPacket
<1>3. arg \in [Thread -> AnyPacket]
  BY <1>2 DEF Init
<1>4. <<>> \in Seq(AnyPacket)
  OBVIOUS
<1>5. queue \in Seq(AnyPacket) /\ writes \in Seq(AnyPacket)
      /\ pushed \in Seq(AnyPacket) /\ wire \in Seq(AnyPacket)
  BY <1>4 DEF Init
<1>6. missing \in 0..MaxMissing /\ waits \in 0..1 /\ aborted \in Nat
  BY BoundAssumption DEF Init
<1>7. QED
  BY <1>1, <1>3, <1>5, <1>6 DEF Init, TypeOK

LEMMA TypesKept == TypeOK /\ [Next]_vars => TypeOK'
<1> SUFFICES ASSUME TypeOK, [Next]_vars PROVE TypeOK'
  OBVIOUS
<1> USE BoundAssumption DEF TypeOK, deque, ops, ends
<1>1. ASSUME NEW p \in Packet, UiQueues(p) PROVE TypeOK'
  BY <1>1, CallEffect, Names DEF UiQueues
<1>2. ASSUME NEW t \in Thread, Push(t) PROVE TypeOK'
  <2>1. arg[t] \in AnyPacket
    OBVIOUS
  <2>2. PushBack(arg[t])
    BY <1>2 DEF Push
  <2>3. pushed' \in Seq(AnyPacket)
    BY <2>1, <2>2, Appending DEF PushBack
  <2>4. queue' \in Seq(AnyPacket) /\ missing' \in 0..MaxMissing
    <3>1. CASE missing = 0
      <4>1. queue' = Append(queue, arg[t]) /\ UNCHANGED missing
        BY <2>2, <3>1 DEF PushBack
      <4>2. Append(queue, arg[t]) \in Seq(AnyPacket)
        BY <2>1, Appending
      <4>3. QED
        BY <4>1, <4>2
    <3>2. CASE missing # 0
      BY <2>2, <3>2 DEF PushBack
    <3>3. QED
      BY <3>1, <3>2
  <2>5. at' \in [Thread -> Place]
    BY <1>2, GotoEffect, Names DEF Push
  <2>6. QED
    BY <1>2, <2>3, <2>4, <2>5 DEF Push
<1>3. ASSUME NEW t \in Thread, Test(t) PROVE TypeOK'
  <2>1. at' \in [Thread -> Place] /\ arg' \in [Thread -> AnyPacket] /\ greeted' \in BOOLEAN
    BY <1>3, GotoEffect, ReturnEffect, Names DEF Test
  <2>2. QED
    BY <1>3, <2>1 DEF Test
<1>4. ASSUME NEW t \in Thread, Start(t) PROVE TypeOK'
  BY <1>4, GotoEffect, Names DEF Start
<1>5. ASSUME NEW t \in Thread, SendFromQueuePacket(t) PROVE TypeOK'
  <2>1. at' \in [Thread -> Place] /\ arg' \in [Thread -> AnyPacket] /\ greeted' \in BOOLEAN
    BY <1>5, ReturnEffect DEF SendFromQueuePacket
  <2>2. writes' \in Seq(AnyPacket)
    BY <1>5, WriteType DEF SendFromQueuePacket, Write
  <2>3. strayed' \in BOOLEAN /\ UNCHANGED <<waits, aborted>>
    BY <1>5 DEF SendFromQueuePacket, Write
  <2>4. QED
    BY <1>5, <2>1, <2>2, <2>3 DEF SendFromQueuePacket
<1>6. CASE SendFromHandler
  <2>1. at' \in [Thread -> Place]
    BY <1>6, GotoEffect, Names DEF SendFromHandler
  <2>2. CASE Write
    <3>1. writes' \in Seq(AnyPacket)
      BY <2>2, WriteType DEF Write
    <3>2. QED
      BY <1>6, <2>1, <2>2, <3>1 DEF SendFromHandler, Write
  <2>3. CASE Wait
    <3>1. waits' \in 0..1 /\ aborted' \in Nat /\ UNCHANGED <<writes, strayed>>
      BY <2>3 DEF Wait
    <3>2. QED
      BY <1>6, <2>1, <3>1 DEF SendFromHandler
  <2>4. QED
    BY <1>6, <2>2, <2>3 DEF SendFromHandler
<1>7. CASE WriteSucceeds
  <2>1. at' \in [Thread -> Place]
    BY <1>7, GotoEffect, Names DEF WriteSucceeds
  <2>2. Head(writes) \in AnyPacket /\ writes' \in Seq(AnyPacket)
    BY <1>7, FrontTaken DEF WriteSucceeds
  <2>3. wire' \in Seq(AnyPacket)
    BY <1>7, <2>2, Appending DEF WriteSucceeds
  <2>4. PopFront
    BY <1>7 DEF WriteSucceeds
  <2>5. /\ queue' \in Seq(AnyPacket) /\ missing' \in 0..MaxMissing
        /\ strayed' \in BOOLEAN /\ UNCHANGED pushed
    <3>1. CASE queue # <<>>
      BY <2>4, <3>1, FrontTaken DEF PopFront
    <3>2. CASE queue = <<>>
      BY <2>4, <3>2 DEF PopFront
    <3>3. QED
      BY <3>1, <3>2
  <2>6. QED
    BY <1>7, <2>1, <2>2, <2>3, <2>5 DEF WriteSucceeds
<1>8. CASE SendHandlerReturns
  BY <1>8, GotoEffect, Names DEF SendHandlerReturns
<1>9. ASSUME NEW p \in Packet, SendHandlerQueues(p) PROVE TypeOK'
  BY <1>9, CallEffect, Names DEF SendHandlerQueues
<1>10. CASE TestEmpty
  BY <1>10, GotoEffect, Names DEF TestEmpty
<1>11. CASE Clear
  BY <1>11, GotoEffect, Names DEF Clear
<1>12. CASE WriteFails
  BY <1>12, FrontTaken DEF WriteFails
<1>13. CASE TimerFires
  <2>1. writes' \in Seq(AnyPacket)
    BY <1>13, WriteType DEF TimerFires
  <2>2. waits' \in 0..1 /\ strayed' \in BOOLEAN
    BY <1>13 DEF TimerFires
  <2>3. QED
    BY <1>13, <2>1, <2>2 DEF TimerFires
<1>14. CASE TimerAborted
  <2>1. aborted' \in Nat
    BY <1>14 DEF TimerAborted
  <2>2. QED
    BY <1>14, <2>1 DEF TimerAborted
<1>15. CASE Crash
  BY <1>15 DEF Crash
<1>16. CASE UNCHANGED vars
  BY <1>16 DEF vars
<1>17. QED
  BY <1>1, <1>2, <1>3, <1>4, <1>5, <1>6, <1>7, <1>8, <1>9, <1>10, <1>11, <1>12, <1>13,
     <1>14, <1>15, <1>16 DEF Next, QueuePacket, Completion

\* The types, for both threads and whatever the user does; the timer's one
\* wait is part of them.
THEOREM TypesHold == Spec => []TypeOK
<1>1. QED
  BY InitTypes, TypesKept, PTL DEF Spec

-----------------------------------------------------------------------------
(* Whoever set m_sending goes on, whatever the user does *)

\* The asio thread is in a completion handler, outside of queuePacket.
InHandler == at["asio"] \in {"handler", "empty", "send", "clear"}

\* The handlers run, and the asio thread waits, only after onConnect.
Onwards == (InHandler \/ at["asio"] = "idle") => greeted

\* SendingIsCarried says that the asio thread is somewhere; this says where:
\* in doSend, in a handler, or in the queuePacket that a handler calls, from
\* which it returns to the handler.
Carried ==
    sending => \/ writes # <<>> \/ waits > 0 \/ failed \/ crashed
               \/ at["ui"] = "first" \/ at["asio"] = "first" \/ InHandler
               \/ greeted /\ at["asio"] \in {"push", "test", "start"}

LEMMA CarriedKept == TypeOK /\ Onwards /\ Carried /\ [Next]_vars => Onwards' /\ Carried'
<1> SUFFICES ASSUME TypeOK, Onwards, Carried, [Next]_vars PROVE Onwards' /\ Carried'
  OBVIOUS
<1> USE Names DEF Onwards, Carried, InHandler, At, ops, ends, deque
<1>1. ASSUME NEW p \in Packet, UiQueues(p) PROVE Onwards' /\ Carried'
  <2>1. at["ui"] = "idle" /\ at'["asio"] = at["asio"]
        /\ UNCHANGED <<sending, writes, waits, greeted, failed, crashed>>
    BY <1>1, CallEffect DEF UiQueues
  <2>2. QED
    BY <2>1
<1>2. ASSUME NEW t \in Thread, Push(t) PROVE Onwards' /\ Carried'
  <2>1. at[t] = "push" /\ at'[t] = "test" /\ \A u \in Thread \ {t} : at'[u] = at[u]
    BY <1>2, GotoEffect DEF Push
  <2>2. UNCHANGED <<sending, writes, waits, greeted, failed, crashed>>
    BY <1>2 DEF Push
  <2>3. QED
    BY <2>1, <2>2
<1>3. ASSUME NEW t \in Thread, Test(t) PROVE Onwards' /\ Carried'
  <2>1. at[t] = "test" /\ \A u \in Thread \ {t} : at'[u] = at[u]
    BY <1>3, GotoEffect, ReturnEffect DEF Test
  <2>2. UNCHANGED <<sending, writes, waits, failed, crashed>>
    BY <1>3 DEF Test
  <2>3. \/ at'[t] = "start" /\ UNCHANGED greeted /\ ~sending
        \/ sending /\ t = "ui" /\ at'[t] = "idle" /\ UNCHANGED greeted
        \/ sending /\ t = "asio" /\ at'[t] = "push" /\ UNCHANGED greeted
        \/ sending /\ t = "asio" /\ at'[t] = "idle" /\ ~greeted /\ greeted'
        \/ sending /\ t = "asio" /\ at'[t] = "empty" /\ greeted /\ UNCHANGED greeted
    BY <1>3, GotoEffect, ReturnEffect DEF Test
  <2>4. QED
    BY <2>1, <2>2, <2>3
<1>4. ASSUME NEW t \in Thread, Start(t) PROVE Onwards' /\ Carried'
  <2>1. at[t] = "start" /\ at'[t] = "first" /\ \A u \in Thread \ {t} : at'[u] = at[u]
    BY <1>4, GotoEffect DEF Start
  <2>2. UNCHANGED <<writes, waits, greeted, failed, crashed>>
    BY <1>4 DEF Start
  <2>3. QED
    BY <2>1, <2>2
<1>5. ASSUME NEW t \in Thread, SendFromQueuePacket(t) PROVE Onwards' /\ Carried'
  <2>1. writes' # <<>>
    BY <1>5, WriteType DEF SendFromQueuePacket, Write
  <2>2. \A u \in Thread \ {t} : at'[u] = at[u]
    BY <1>5, ReturnEffect DEF SendFromQueuePacket
  <2>3. \/ t = "ui" /\ at'[t] = "idle" /\ UNCHANGED greeted
        \/ t = "asio" /\ at'[t] = "push" /\ UNCHANGED greeted
        \/ t = "asio" /\ greeted'
        \/ t = "asio" /\ at'[t] = "empty" /\ greeted /\ UNCHANGED greeted
    BY <1>5, ReturnEffect DEF SendFromQueuePacket
  <2>4. QED
    BY <2>1, <2>2, <2>3
<1>6. CASE SendFromHandler
  <2>1. at["asio"] = "send" /\ at'["asio"] = "idle" /\ at'["ui"] = at["ui"]
    BY <1>6, GotoEffect DEF SendFromHandler
  <2>2. UNCHANGED <<sending, greeted, failed, crashed>>
    BY <1>6 DEF SendFromHandler
  <2>3. Write => writes' # <<>>
    BY WriteType DEF Write
  <2>4. writes' # <<>> \/ waits' > 0
    BY <1>6, <2>3 DEF SendFromHandler, Wait
  <2>5. QED
    BY <2>1, <2>2, <2>4
<1>7. CASE WriteSucceeds
  <2>1. at["asio"] = "idle" /\ at'["asio"] = "handler"
    BY <1>7, GotoEffect DEF WriteSucceeds
  <2>2. QED
    BY <1>7, <2>1 DEF WriteSucceeds
<1>8. CASE SendHandlerReturns
  <2>1. at["asio"] = "handler" /\ at'["asio"] = "empty"
    BY <1>8, GotoEffect DEF SendHandlerReturns
  <2>2. QED
    BY <1>8, <2>1 DEF SendHandlerReturns
<1>9. ASSUME NEW p \in Packet, SendHandlerQueues(p) PROVE Onwards' /\ Carried'
  <2>1. at["asio"] = "handler" /\ at'["asio"] = "push"
    BY <1>9, CallEffect DEF SendHandlerQueues
  <2>2. QED
    BY <1>9, <2>1 DEF SendHandlerQueues
<1>10. CASE TestEmpty
  <2>1. at["asio"] = "empty" /\ at'["asio"] \in {"clear", "send"}
    BY <1>10, GotoEffect DEF TestEmpty
  <2>2. QED
    BY <1>10, <2>1 DEF TestEmpty
<1>11. CASE Clear
  BY <1>11, GotoEffect DEF Clear
<1>12. CASE WriteFails
  BY <1>12 DEF WriteFails
<1>13. CASE TimerFires
  <2>1. writes' # <<>>
    BY <1>13, WriteType DEF TimerFires
  <2>2. QED
    BY <1>13, <2>1 DEF TimerFires
<1>14. CASE TimerAborted
  BY <1>14 DEF TimerAborted
<1>15. CASE Crash
  BY <1>15 DEF Crash
<1>16. CASE UNCHANGED vars
  BY <1>16 DEF vars
<1>17. QED
  BY <1>1, <1>2, <1>3, <1>4, <1>5, <1>6, <1>7, <1>8, <1>9, <1>10, <1>11, <1>12, <1>13,
     <1>14, <1>15, <1>16 DEF Next, QueuePacket, Completion

LEMMA InitCarried == Init => Onwards /\ Carried
  BY Names DEF Init, Onwards, Carried, InHandler

\* A set m_sending is always carried by a write, a wait or a thread that
\* will go on with the queue or reset it, unless a write failed: for both
\* threads, also when they have started two chains or come to an empty deque.
THEOREM SendingHasCarrier == Spec => []SendingIsCarried
<1>1. Init => Onwards /\ Carried
  BY InitCarried
<1>2. Carried => SendingIsCarried
  BY DEF Carried, InHandler, SendingIsCarried
<1>3. QED
  BY <1>1, <1>2, CarriedKept, TypesHold, PTL DEF Spec

-----------------------------------------------------------------------------
(* One chain, until both threads have found m_sending reset *)

Single(s) == s # <<>> /\ Tail(s) = <<>>

\* Nothing is pending, or one write or wait is.
NoOperation == writes = <<>> /\ waits = 0
OneOperation == (Single(writes) /\ waits = 0) \/ (writes = <<>> /\ waits = 1)

\* A thread goes on with the chain: it starts doSend in queuePacket, or runs
\* the handler of a completion, or the queuePacket which that calls.
UiSends == at["ui"] = "first"
AsioSends == at["asio"] = "first" \/ InHandler \/ (greeted /\ at["asio"] \in {"push", "test"})

\* Who has the chain: nobody, when m_sending is reset; or one thread, or one
\* operation; or it ended with a failed write.  After onConnect the asio
\* thread finds m_sending set, since it has the chain itself.
Nobody == ~sending /\ NoOperation /\ ~UiSends /\ ~AsioSends
UiHasIt == sending /\ NoOperation /\ UiSends /\ ~AsioSends
AsioHasIt == sending /\ NoOperation /\ ~UiSends /\ AsioSends
Pends == sending /\ OneOperation /\ ~UiSends /\ ~AsioSends
Ended == sending /\ failed /\ NoOperation /\ ~UiSends /\ ~AsioSends

Chain ==
    ~raced => /\ aborted = 0
              /\ greeted => at["asio"] \notin {"start", "first"}
              /\ Nobody \/ UiHasIt \/ AsioHasIt \/ Pends \/ Ended

\* Appending to an empty sequence.
LEMMA Singleton ==
    ASSUME NEW S, NEW e \in S
    PROVE  Single(Append(<<>>, e)) /\ Head(Append(<<>>, e)) = e
  BY EmptySeq, Appending DEF Single

\* doSend's write, when nothing is pending, is the one write in flight.
LEMMA WriteAlone ==
    ASSUME TypeOK, writes = <<>>, NEW p \in Fronts, writes' = Append(writes, p)
    PROVE  Single(writes') /\ Head(writes') = p
<1>1. p \in AnyPacket
  BY FrontsType
<1>2. writes' = Append(<<>>, p)
  OBVIOUS
<1>3. QED
  BY <1>1, <1>2, Singleton

\* An operation completes while the asio thread waits, and it is the one.
LEMMA CompletesAlone ==
    ASSUME TypeOK, Chain, ~raced, at["asio"] = "idle", writes # <<>> \/ waits > 0
    PROVE  Pends
  BY DEF Chain, Nobody, UiHasIt, AsioHasIt, Ended, NoOperation

\* That two threads raced is not forgotten.
LEMMA RacedStays == TypeOK /\ [Next]_vars /\ ~raced' => ~raced
<1> SUFFICES ASSUME TypeOK, [Next]_vars, ~raced' PROVE ~raced
  OBVIOUS
<1>1. raced' = raced \/ raced' = (raced \/ sending)
  BY DEF Next, QueuePacket, Completion, UiQueues, Push, Test, Start, SendFromQueuePacket,
         SendFromHandler, WriteSucceeds, SendHandlerReturns, SendHandlerQueues, TestEmpty,
         Clear, WriteFails, TimerFires, TimerAborted, Crash, vars
<1>2. QED
  BY <1>1 DEF TypeOK

LEMMA ChainKept == TypeOK /\ Onwards /\ Chain /\ [Next]_vars => Chain'
<1> SUFFICES ASSUME TypeOK, Onwards, Chain, [Next]_vars, ~raced' PROVE Chain'
  BY DEF Chain
<1>0. ~raced
  BY RacedStays
<1> USE <1>0, Names DEF Chain, Nobody, UiHasIt, AsioHasIt, Pends, Ended, NoOperation,
                        UiSends, AsioSends, InHandler, Onwards, At, ops, ends
<1>1. ASSUME NEW p \in Packet, UiQueues(p) PROVE Chain'
  <2>1. /\ at["ui"] = "idle" /\ at'["ui"] = "push" /\ at'["asio"] = at["asio"]
        /\ UNCHANGED <<sending, writes, waits, aborted, greeted, failed>>
    BY <1>1, CallEffect DEF UiQueues
  <2>2. QED
    BY <2>1 DEF OneOperation, Single
<1>2. ASSUME NEW t \in Thread, Push(t) PROVE Chain'
  <2>1. at[t] = "push" /\ at'[t] = "test" /\ \A u \in Thread \ {t} : at'[u] = at[u]
    BY <1>2, GotoEffect DEF Push
  <2>2. UNCHANGED <<sending, writes, waits, aborted, greeted, failed>>
    BY <1>2 DEF Push
  <2>3. QED
    BY <2>1, <2>2 DEF OneOperation, Single
<1>3. ASSUME NEW t \in Thread, Test(t) PROVE Chain'
  <2>1. at[t] = "test" /\ \A u \in Thread \ {t} : at'[u] = at[u]
    BY <1>3, GotoEffect, ReturnEffect DEF Test
  <2>2. UNCHANGED <<sending, writes, waits, aborted, failed>>
    BY <1>3 DEF Test
  <2>3. \/ at'[t] = "start" /\ UNCHANGED greeted /\ ~sending
        \/ sending /\ t = "ui" /\ at'[t] = "idle" /\ UNCHANGED greeted
        \/ sending /\ t = "asio" /\ at'[t] = "push" /\ UNCHANGED greeted
        \/ sending /\ t = "asio" /\ at'[t] = "idle" /\ ~greeted /\ greeted'
        \/ sending /\ t = "asio" /\ at'[t] = "empty" /\ greeted /\ UNCHANGED greeted
    BY <1>3, GotoEffect, ReturnEffect DEF Test
  <2>4. QED
    BY <2>1, <2>2, <2>3 DEF OneOperation, Single
<1>4. ASSUME NEW t \in Thread, Start(t) PROVE Chain'
  <2>1. at[t] = "start" /\ at'[t] = "first" /\ \A u \in Thread \ {t} : at'[u] = at[u]
    BY <1>4, GotoEffect DEF Start
  <2>2. sending' /\ UNCHANGED <<writes, waits, aborted, greeted, failed>>
    BY <1>4 DEF Start
  <2>3. ~sending
    BY <1>4 DEF Start
  <2>4. QED
    BY <2>1, <2>2, <2>3
<1>5. ASSUME NEW t \in Thread, SendFromQueuePacket(t) PROVE Chain'
  <2>1. at[t] = "first" /\ \A u \in Thread \ {t} : at'[u] = at[u]
    BY <1>5, ReturnEffect DEF SendFromQueuePacket
  <2>2. writes = <<>> /\ waits = 0 /\ sending /\ (t = "ui" => ~AsioSends) /\ (t = "asio" => ~UiSends)
    BY <2>1
  <2>3. Single(writes') /\ UNCHANGED <<waits, aborted>>
    BY <1>5, <2>2, WriteAlone DEF SendFromQueuePacket, Write
  <2>4. UNCHANGED <<sending, failed>>
    BY <1>5 DEF SendFromQueuePacket
  <2>5. \/ t = "ui" /\ at'[t] = "idle" /\ UNCHANGED greeted
        \/ t = "asio" /\ at'[t] = "push" /\ UNCHANGED greeted
        \/ t = "asio" /\ at'[t] = "idle" /\ ~greeted /\ greeted'
        \/ t = "asio" /\ at'[t] = "empty" /\ greeted /\ UNCHANGED greeted
    BY <1>5, ReturnEffect DEF SendFromQueuePacket
  <2>6. Pends'
    BY <2>1, <2>2, <2>3, <2>4, <2>5 DEF OneOperation
  <2>7. QED
    BY <2>1, <2>3, <2>5, <2>6
<1>6. CASE SendFromHandler
  <2>1. at["asio"] = "send" /\ at'["asio"] = "idle" /\ at'["ui"] = at["ui"]
    BY <1>6, GotoEffect DEF SendFromHandler
  <2>2. UNCHANGED <<sending, greeted, failed>>
    BY <1>6 DEF SendFromHandler
  <2>3. AsioHasIt
    BY <2>1
  <2>4. Write => Single(writes') /\ waits' = 0 /\ aborted' = 0
    BY <2>3, WriteAlone DEF Write
  <2>5. Wait => writes' = <<>> /\ waits' = 1 /\ aborted' = 0
    BY <2>3 DEF Wait
  <2>6. Pends' /\ aborted' = 0
    BY <1>6, <2>1, <2>2, <2>3, <2>4, <2>5 DEF SendFromHandler, OneOperation
  <2>7. QED
    BY <2>1, <2>6
<1>7. CASE WriteSucceeds
  <2>1. at["asio"] = "idle" /\ at'["asio"] = "handler" /\ at'["ui"] = at["ui"]
    BY <1>7, GotoEffect DEF WriteSucceeds
  <2>2. UNCHANGED <<sending, waits, aborted, greeted, failed>> /\ writes # <<>> /\ writes' = Tail(writes)
    BY <1>7 DEF WriteSucceeds
  <2>3. Pends
    BY <2>1, <2>2, CompletesAlone
  <2>4. AsioHasIt'
    BY <2>1, <2>2, <2>3 DEF OneOperation, Single
  <2>5. QED
    BY <2>1, <2>2, <2>4
<1>8. CASE SendHandlerReturns
  <2>1. at["asio"] = "handler" /\ at'["asio"] = "empty" /\ at'["ui"] = at["ui"]
    BY <1>8, GotoEffect DEF SendHandlerReturns
  <2>2. UNCHANGED <<sending, writes, waits, aborted, greeted, failed>>
    BY <1>8 DEF SendHandlerReturns
  <2>3. QED
    BY <2>1, <2>2
<1>9. ASSUME NEW p \in Packet, SendHandlerQueues(p) PROVE Chain'
  <2>1. at["asio"] = "handler" /\ at'["asio"] = "push" /\ at'["ui"] = at["ui"]
    BY <1>9, CallEffect DEF SendHandlerQueues
  <2>2. UNCHANGED <<sending, writes, waits, aborted, greeted, failed>>
    BY <1>9 DEF SendHandlerQueues
  <2>3. QED
    BY <2>1, <2>2
<1>10. CASE TestEmpty
  <2>1. /\ at["asio"] = "empty" /\ at'["asio"] \in {"clear", "send"}
        /\ at'["ui"] = at["ui"]
    BY <1>10, GotoEffect DEF TestEmpty
  <2>2. UNCHANGED <<sending, writes, waits, aborted, greeted, failed>>
    BY <1>10 DEF TestEmpty
  <2>3. QED
    BY <2>1, <2>2
<1>11. CASE Clear
  <2>1. at["asio"] = "clear" /\ at'["asio"] = "idle" /\ at'["ui"] = at["ui"]
    BY <1>11, GotoEffect DEF Clear
  <2>2. ~sending' /\ UNCHANGED <<writes, waits, aborted, greeted, failed>>
    BY <1>11 DEF Clear
  <2>3. QED
    BY <2>1, <2>2
<1>12. CASE WriteFails
  <2>1. at["asio"] = "idle" /\ writes # <<>> /\ writes' = Tail(writes) /\ failed'
        /\ UNCHANGED <<sending, waits, aborted, at, greeted>>
    BY <1>12 DEF WriteFails
  <2>2. Pends
    BY <2>1, CompletesAlone
  <2>3. Ended'
    BY <2>1, <2>2 DEF OneOperation, Single
  <2>4. QED
    BY <2>1, <2>3
<1>13. CASE TimerFires
  <2>1. at["asio"] = "idle" /\ waits > 0 /\ waits' = waits - 1
        /\ UNCHANGED <<sending, aborted, at, greeted, failed>>
    BY <1>13 DEF TimerFires
  <2>2. Pends
    BY <2>1, CompletesAlone
  <2>3. writes = <<>> /\ waits = 1
    BY <2>1, <2>2 DEF OneOperation
  <2>4. Single(writes')
    BY <1>13, <2>3, WriteAlone DEF TimerFires
  <2>5. Pends'
    BY <2>1, <2>2, <2>3, <2>4 DEF OneOperation
  <2>6. QED
    BY <2>1, <2>5
<1>14. CASE TimerAborted
  <2>1. aborted > 0
    BY <1>14 DEF TimerAborted
  <2>2. QED
    BY <2>1
<1>15. CASE Crash
  <2>1. UNCHANGED <<sending, writes, waits, aborted, at, greeted, failed>>
    BY <1>15 DEF Crash
  <2>2. QED
    BY <2>1 DEF OneOperation, Single
<1>16. CASE UNCHANGED vars
  <2>1. UNCHANGED <<sending, writes, waits, aborted, at, greeted, failed>>
    BY <1>16 DEF vars
  <2>2. QED
    BY <2>1 DEF OneOperation, Single
<1>17. QED
  BY <1>1, <1>2, <1>3, <1>4, <1>5, <1>6, <1>7, <1>8, <1>9, <1>10, <1>11, <1>12, <1>13,
     <1>14, <1>15, <1>16 DEF Next, QueuePacket, Completion

LEMMA InitChain == Init => Onwards /\ Chain
<1> SUFFICES ASSUME Init PROVE Onwards /\ Chain
  OBVIOUS
<1>1. at["asio"] = "push" /\ at["ui"] = "idle"
  BY Names DEF Init
<1>2. Onwards /\ Nobody
  BY <1>1 DEF Init, Onwards, InHandler, Nobody, NoOperation, UiSends, AsioSends
<1>3. QED
  BY <1>1, <1>2 DEF Init, Chain

\* At most one write or wait is pending, of both threads together, until they
\* have both found m_sending reset, which is what client_connection.cpp:9
\* lets them do.  Nothing else makes two chains.
THEOREM ChainsAreSingle == Spec => []OneChain
<1>1. TypeOK /\ Chain => OneChain
  <2> SUFFICES ASSUME TypeOK, Chain, ~raced PROVE Len(writes) + waits <= 1
    BY DEF OneChain
  <2>1. NoOperation \/ OneOperation
    BY DEF Chain, Nobody, UiHasIt, AsioHasIt, Pends, Ended
  <2>2. CASE writes = <<>>
    <3>1. Len(writes) = 0
      BY <2>2, EmptySeq
    <3>2. QED
      BY <3>1 DEF TypeOK
  <2>3. CASE Single(writes) /\ waits = 0
    <3>1. writes \in Seq(AnyPacket) /\ writes # <<>> /\ Tail(writes) = <<>>
      BY <2>3 DEF TypeOK, Single
    <3>2. Len(Tail(writes)) = Len(writes) - 1
      BY <3>1, HeadTailProperties
    <3>3. Len(writes) \in Nat
      BY <3>1, LenProperties
    <3>4. Len(Tail(writes)) = 0
      BY <3>1, EmptySeq
    <3>5. Len(writes) = 1
      BY <3>2, <3>3, <3>4
    <3>6. QED
      BY <2>3, <3>5
  <2>4. QED
    BY <2>1, <2>2, <2>3 DEF NoOperation, OneOperation
<1>2. TypeOK /\ Onwards /\ Carried /\ Chain /\ [Next]_vars => (Onwards /\ Carried /\ Chain)'
  BY ChainKept, CarriedKept
<1>3. Init => Onwards /\ Carried /\ Chain
  BY InitChain, InitCarried
<1>4. QED
  BY <1>1, <1>2, <1>3, TypesHold, PTL DEF Spec

-----------------------------------------------------------------------------
(* First in, first out *)

\* InOrder, with the front of the deque in its place.
Kept ==
    ~raced /\ ~strayed =>
        /\ missing = 0
        /\ pushed = wire \o queue
        /\ writes # <<>> => queue # <<>> /\ Head(writes) = Head(queue)

\* Nor is it forgotten that a thread came to an empty deque.
LEMMA StrayedStays == TypeOK /\ [Next]_vars /\ ~strayed' => ~strayed
<1> SUFFICES ASSUME TypeOK, [Next]_vars, ~strayed' PROVE ~strayed
  OBVIOUS
<1>1. strayed' \/ UNCHANGED strayed \/ strayed' = (strayed \/ queue = <<>>)
  BY DEF Next, QueuePacket, Completion, UiQueues, Push, Test, Start, SendFromQueuePacket,
         SendFromHandler, WriteSucceeds, SendHandlerReturns, SendHandlerQueues, TestEmpty,
         Clear, WriteFails, TimerFires, TimerAborted, Crash, vars, Write, Wait, PopFront
<1>2. QED
  BY <1>1 DEF TypeOK

\* A step in which doSend starts the one write, of a front that is there.
LEMMA WriteOfFront ==
    ASSUME TypeOK, Kept, ~raced, ~strayed, writes = <<>>,
           NEW p \in Fronts, writes' = Append(writes, p),
           strayed' = (strayed \/ queue = <<>>), ~strayed',
           UNCHANGED <<queue, missing, pushed, wire>>
    PROVE  Kept'
<1>1. queue # <<>>
  OBVIOUS
<1>2. p = Head(queue)
  BY <1>1, FrontsType
<1>3. Head(writes') = Head(queue)
  BY <1>2, WriteAlone
<1>4. QED
  BY <1>1, <1>3 DEF Kept

LEMMA PushKeeps ==
    ASSUME TypeOK, Kept, ~raced, ~strayed, NEW t \in Thread, Push(t)
    PROVE  Kept'
<1>1. arg[t] \in AnyPacket
  BY DEF TypeOK
<1>2. missing = 0 /\ pushed = wire \o queue
  BY DEF Kept
<1>3. /\ queue' = Append(queue, arg[t]) /\ pushed' = Append(pushed, arg[t])
      /\ UNCHANGED <<missing, writes, wire>>
  BY <1>2 DEF Push, PushBack, ops
<1>4. wire \o Append(queue, arg[t]) = Append(wire \o queue, arg[t])
  BY <1>1, AppendToConcat DEF TypeOK
<1>5. Append(queue, arg[t]) # <<>> /\ (queue # <<>> => Head(Append(queue, arg[t])) = Head(queue))
  BY <1>1, Appending DEF TypeOK
<1>6. QED
  BY <1>2, <1>3, <1>4, <1>5 DEF Kept

\* The completion pops what it wrote.
LEMMA PopKeeps ==
    ASSUME TypeOK, Chain, Kept, ~raced, ~strayed, WriteSucceeds
    PROVE  Kept'
<1>1. /\ at["asio"] = "idle" /\ writes # <<>> /\ PopFront /\ writes' = Tail(writes)
      /\ wire' = Append(wire, Head(writes))
  BY DEF WriteSucceeds, At
<1>2. writes' = <<>>
  BY <1>1, CompletesAlone DEF Pends, OneOperation, Single
<1>3. queue # <<>> /\ Head(writes) = Head(queue) /\ pushed = wire \o queue /\ missing = 0
  BY <1>1 DEF Kept
<1>4. queue' = Tail(queue) /\ UNCHANGED <<missing, pushed>>
  BY <1>1, <1>3 DEF PopFront
<1>5. wire' = Append(wire, Head(queue))
  BY <1>1, <1>3
<1>6. Append(wire, Head(queue)) \o Tail(queue) = wire \o queue
  BY <1>3, MoveFront DEF TypeOK
<1>7. QED
  BY <1>2, <1>3, <1>4, <1>5, <1>6 DEF Kept

LEMMA OrderKept == TypeOK /\ Chain /\ Kept /\ [Next]_vars => Kept'
<1> SUFFICES ASSUME TypeOK, Chain, Kept, [Next]_vars, ~raced', ~strayed' PROVE Kept'
  BY DEF Kept
<1>0. ~raced /\ ~strayed
  BY RacedStays, StrayedStays
<1> USE <1>0 DEF deque, ops
<1>1. CASE \/ \E p \in Packet : UiQueues(p) \/ SendHandlerQueues(p)
           \/ \E t \in Thread : Test(t) \/ Start(t)
           \/ SendHandlerReturns \/ TestEmpty \/ Clear \/ TimerAborted \/ UNCHANGED vars
  <2>1. UNCHANGED <<queue, missing, pushed, wire, writes>>
    BY <1>1 DEF UiQueues, SendHandlerQueues, Test, Start, SendHandlerReturns, TestEmpty,
                Clear, TimerAborted, vars
  <2>2. QED
    BY <2>1 DEF Kept
<1>2. ASSUME NEW t \in Thread, Push(t) PROVE Kept'
  BY <1>2, PushKeeps
<1>3. ASSUME NEW t \in Thread, SendFromQueuePacket(t) PROVE Kept'
  <2>1. writes = <<>>
    BY <1>3, Names DEF SendFromQueuePacket, At, Chain, Nobody, UiHasIt, AsioHasIt, Pends, Ended,
                       NoOperation, UiSends, AsioSends
  <2>2. UNCHANGED <<queue, missing, pushed, wire>> /\ Write
    BY <1>3 DEF SendFromQueuePacket
  <2>3. QED
    BY <2>1, <2>2, WriteOfFront DEF Write
<1>4. CASE SendFromHandler
  <2>1. writes = <<>>
    BY <1>4 DEF SendFromHandler, At, Chain, Nobody, UiHasIt, AsioHasIt, Pends, Ended,
                NoOperation, UiSends, AsioSends, InHandler
  <2>2. UNCHANGED <<queue, missing, pushed, wire>> /\ (Write \/ Wait)
    BY <1>4 DEF SendFromHandler
  <2>3. CASE Write
    BY <2>1, <2>2, <2>3, WriteOfFront DEF Write
  <2>4. CASE Wait
    BY <2>2, <2>4 DEF Wait, Kept
  <2>5. QED
    BY <2>2, <2>3, <2>4
<1>5. CASE WriteSucceeds
  BY <1>5, PopKeeps
<1>6. CASE WriteFails
  <2>1. /\ at["asio"] = "idle" /\ writes # <<>> /\ writes' = Tail(writes)
        /\ UNCHANGED <<queue, missing, pushed, wire>>
    BY <1>6 DEF WriteFails, At
  <2>2. writes' = <<>>
    BY <2>1, CompletesAlone DEF Pends, OneOperation, Single
  <2>3. QED
    BY <2>1, <2>2 DEF Kept
<1>7. CASE TimerFires
  <2>1. at["asio"] = "idle" /\ waits > 0
    BY <1>7 DEF TimerFires, At
  <2>2. writes = <<>>
    BY <2>1, CompletesAlone DEF Pends, OneOperation
  <2>3. QED
    BY <1>7, <2>2, WriteOfFront DEF TimerFires
<1>8. CASE Crash
  BY <1>8 DEF Crash
<1>9. QED
  BY <1>1, <1>2, <1>3, <1>4, <1>5, <1>6, <1>7, <1>8 DEF Next, QueuePacket, Completion

\* The two threads write what was pushed, in the order it was pushed, each
\* packet once, until they have started two chains or one has come to an
\* empty deque.
THEOREM ThreadsKeepOrder == Spec => []InOrder
<1>1. Init => Kept
  <2> SUFFICES ASSUME Init PROVE Kept
    OBVIOUS
  <2>1. pushed = <<>> /\ wire = <<>> /\ queue = <<>> /\ writes = <<>> /\ missing = 0
    BY DEF Init
  <2>2. wire \o queue = <<>>
    BY <2>1
  <2>3. QED
    BY <2>1, <2>2 DEF Kept
<1>2. Kept => InOrder
  BY DEF Kept, InOrder
<1>3. TypeOK /\ Onwards /\ Carried /\ Chain /\ [Next]_vars => (Onwards /\ Carried /\ Chain)'
  BY ChainKept, CarriedKept
<1>4. Init => Onwards /\ Carried /\ Chain
  BY InitChain, InitCarried
<1>5. QED
  BY <1>1, <1>2, <1>3, <1>4, OrderKept, TypesHold, PTL DEF Spec
=============================================================================
