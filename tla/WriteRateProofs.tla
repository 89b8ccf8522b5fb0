--------------------------- MODULE WriteRateProofs ---------------------------
(***************************************************************************)
(* Proofs about WriteRate for any packets, sizes, rates and window length: *)
(* the rate is kept within a chain, no wait is longer than it must be, and *)
(* with its clock it does what the packet manager that chooses may do.     *)
(***************************************************************************)
EXTENDS WriteRate, QueueLemmas

WriteType == [packet : Packet, on : {"open"}]

PmType ==
    [queue : Seq(Packet), sending : BOOLEAN, writes : Seq(WriteType), waits : Nat,
     recieveing : BOOLEAN, reads : Nat]

TypeInv ==
    /\ pm \in PmType
    /\ rate \in Rates
    /\ nextWaitTime \in Int /\ owed \in Int
    /\ checkIn \in Nat /\ timerIn \in Nat /\ elapsed \in Nat

\* What a packet manager has pending: nothing, one write or one wait.
Quiet(m) == m.waits = 0 /\ m.writes = <<>>
Writing(m) == m.waits = 0 /\ Len(m.writes) = 1 /\ m.sending /\ m.queue # <<>>
Waiting(m) == m.waits = 1 /\ m.writes = <<>> /\ m.sending /\ m.queue # <<>>

OneChain == Quiet(pm) \/ Writing(pm) \/ Waiting(pm)

\* The time of the window is up to t, or is not watched any longer.
Watched(t) == elapsed >= t \/ elapsed >= MaxElapsed

\* While a window is open, what is owed is counted, and m_next_upload_check
\* is where the window ends.
WindowCounts == Writing(pm) => nextWaitTime = owed /\ Watched(Window - checkIn)

\* While a wait is pending, it covers what is owed, and only that.
WaitCovers == Waiting(pm) => Watched(owed - timerIn) /\ WaitIsOwed

IInv == TypeInv /\ OneChain /\ (~pm.sending => Quiet(pm)) /\ WindowCounts /\ WaitCovers

-----------------------------------------------------------------------------
(* Operators *)

\* Of the writes that are pending, taking the only one leaves none.
LEMMA OneElement ==
    ASSUME NEW S, NEW s \in Seq(S), Len(s) = 1
    PROVE  s # <<>> /\ Tail(s) = <<>>
<1>1. s # <<>>
  BY EmptySeq
<1>2. Tail(s) \in Seq(S) /\ Len(Tail(s)) = 0
  BY <1>1, HeadTailProperties
<1>3. QED
  BY <1>1, <1>2, EmptySeq

\* With nothing pending, or a wait, no write is pending.
LEMMA Exclusive ==
    ASSUME NEW m
    PROVE  /\ Quiet(m) => ~Writing(m) /\ ~Waiting(m)
           /\ Waiting(m) => ~Writing(m) /\ ~Quiet(m)
<1>1. m.writes = <<>> => Len(m.writes) = 0
  OBVIOUS
<1>2. QED
  BY <1>1 DEF Quiet, Writing, Waiting

\* The time of a packet is an integer at every rate that can be set.
LEMMA DurationType ==
    ASSUME TypeInv, NEW p \in Packet
    PROVE  Duration(p) \in Int
<1>1. Bits[p] \in Nat /\ rate \in Nat /\ rate > 0
  BY PacketAssumption, RatesAssumption DEF TypeInv
<1>2. QED
  BY <1>1 DEF Duration

\* asyncSend with nothing pending: one write, or none of an oversized packet.
LEMMA AsyncSendEffect ==
    ASSUME NEW m \in PmType, m.queue # <<>>, m.sending, Quiet(m)
    PROVE  /\ AsyncSend(m, "open") \in PmType
           /\ AsyncSend(m, "open").sending
           /\ Quiet(AsyncSend(m, "open")) \/ Writing(AsyncSend(m, "open"))
<1> DEFINE w == [packet |-> Head(m.queue), on |-> "open"]
<1> DEFINE n == [m EXCEPT !.writes = Append(m.writes, w)]
<1>1. CASE Head(m.queue) \in Oversized
  BY <1>1 DEF AsyncSend
<1>2. CASE Head(m.queue) \notin Oversized
  <2>1. AsyncSend(m, "open") = n
    BY <1>2 DEF AsyncSend
  <2>2. m.queue \in Seq(Packet) /\ m.writes \in Seq(WriteType)
    BY DEF PmType
  <2>3. w \in WriteType
    BY <2>2, HeadTailProperties DEF WriteType
  <2>4. /\ Append(m.writes, w) \in Seq(WriteType)
        /\ Len(Append(m.writes, w)) = 1
    BY <2>2, <2>3, AppendProperties, EmptySeq DEF Quiet
  <2> HIDE DEF w
  <2>5. /\ n \in PmType
        /\ n.sending = m.sending /\ n.queue = m.queue /\ n.waits = m.waits
        /\ n.writes = Append(m.writes, w)
    BY <2>4 DEF PmType
  <2> HIDE DEF n
  <2>6. Writing(n)
    BY <2>4, <2>5 DEF Writing, Quiet
  <2>7. QED
    BY <2>1, <2>5, <2>6
<1>3. QED
  BY <1>1, <1>2

\* The packet manager after m_send_handler has nothing pending.
LEMMA AfterHandlerEffect ==
    ASSUME pm \in PmType, Writing(pm), NEW m \in AfterHandler
    PROVE  m \in PmType /\ m.sending /\ Quiet(m)
<1>1. /\ Tail(pm.writes) = <<>>
      /\ Tail(pm.queue) \in Seq(Packet)
  <2>1. /\ pm.writes \in Seq(WriteType) /\ Len(pm.writes) = 1
        /\ pm.queue \in Seq(Packet) /\ pm.queue # <<>>
    BY DEF Writing, PmType
  <2>2. QED
    BY <2>1, OneElement, HeadTailProperties
<1>2. PopFront = [pm EXCEPT !.writes = <<>>, !.queue = Tail(pm.queue)]
  BY <1>1 DEF PopFront, PopSent
<1>3. PopFront \in PmType /\ PopFront.sending /\ Quiet(PopFront)
  <2>1. <<>> \in Seq(WriteType)
    BY EmptySeq
  <2>2. QED
    BY <1>1, <1>2, <2>1 DEF PmType, Quiet, Writing
<1>4. CASE m = PopFront
  BY <1>3, <1>4
<1>5. ASSUME NEW p \in Packet, m = Enqueue(PopFront, p)
      PROVE  m \in PmType /\ m.sending /\ Quiet(m)
  <2>1. Append(PopFront.queue, p) \in Seq(Packet)
    BY <1>3, AppendProperties DEF PmType
  <2>2. QED
    BY <1>3, <1>5, <2>1 DEF Enqueue, PmType, Quiet
<1>6. QED
  BY <1>4, <1>5 DEF AfterHandler

-----------------------------------------------------------------------------
(* The invariant *)

\* At the start nothing is pending.
LEMMA InitInv == Init => IInv
<1> SUFFICES ASSUME Init PROVE IInv
  OBVIOUS
<1>1. PICK n : n = NewPacketManager
  OBVIOUS
<1>2. /\ n \in PmType /\ ~n.sending /\ n.writes = <<>> /\ n.waits = 0 /\ n.reads = 0
  <2>1. <<>> \in Seq(Packet) /\ <<>> \in Seq(WriteType)
    BY EmptySeq
  <2>2. QED
    BY <1>1, <2>1 DEF NewPacketManager, PmType
<1>3. /\ pm \in PmType /\ ~pm.sending /\ pm.writes = <<>> /\ pm.waits = 0
  <2>1. pm = [n EXCEPT !.recieveing = TRUE, !.reads = n.reads + 1]
    BY <1>1 DEF Init, StartReceive
  <2>2. n.reads + 1 = 1
    BY <1>2
  <2>3. pm = [n EXCEPT !.recieveing = TRUE, !.reads = 1]
    BY <2>1, <2>2
  <2>4. QED
    BY <1>2, <2>3 DEF PmType
<1>4. TypeInv /\ Quiet(pm) /\ ~Writing(pm) /\ ~Waiting(pm)
  BY <1>3 DEF TypeInv, Init, Quiet, Writing, Waiting
<1>5. QED
  BY <1>4 DEF IInv, OneChain, WindowCounts, WaitCovers

\* A window that was just opened, with its first packet sent or dropped.
LEMMA OpenWindowInv ==
    ASSUME TypeInv, NEW m, m.queue \in Seq(Packet), m.queue # <<>>, OpenWindow(m), rate' = rate,
           pm' \in PmType, pm'.sending, (Quiet(pm) \/ Writing(pm))'
    PROVE  IInv'
<1>1. Duration(Head(m.queue)) \in Int
  BY DurationType, HeadTailProperties
<1>2. TypeInv'
  BY <1>1, BoundAssumption DEF TypeInv, OpenWindow, StartTime
<1>3. WindowCounts'
  BY <1>1, BoundAssumption DEF WindowCounts, OpenWindow, StartTime, Watched
<1>4. WaitCovers'
  BY DEF WaitCovers, Waiting, Quiet, Writing
<1>5. QED
  BY <1>2, <1>3, <1>4 DEF IInv, OneChain

\* A chain is started in a new window.
LEMMA QueueStartsInv ==
    ASSUME IInv, NEW p \in Packet, QueueStarts(p)
    PROVE  IInv'
<1> DEFINE m == EnqueueFirst(pm, p)
<1>1. TypeInv /\ ~pm.sending /\ Quiet(pm)
  BY DEF IInv, QueueStarts
<1>2. m \in PmType /\ m.queue \in Seq(Packet) /\ m.queue # <<>> /\ m.sending /\ Quiet(m)
  <2>1. Append(pm.queue, p) \in Seq(Packet) /\ Append(pm.queue, p) # <<>>
    BY <1>1, AppendProperties, EmptySeq DEF TypeInv, PmType
  <2>2. QED
    BY <1>1, <2>1 DEF EnqueueFirst, TypeInv, PmType, Quiet
<1>3. pm' = AsyncSend(m, "open") /\ OpenWindow(m) /\ rate' = rate
  BY <1>1 DEF QueueStarts, QueuePacket
<1> HIDE DEF m
<1>4. pm' \in PmType /\ pm'.sending /\ (Quiet(pm) \/ Writing(pm))'
  BY <1>2, <1>3, AsyncSendEffect DEF Quiet, Writing
<1>5. QED
  BY <1>1, <1>2, <1>3, <1>4, OpenWindowInv

\* A packet joins a chain.
LEMMA QueueJoinsInv ==
    ASSUME IInv, NEW p \in Packet, QueueJoins(p)
    PROVE  IInv'
<1>1. Append(pm.queue, p) \in Seq(Packet) /\ Append(pm.queue, p) # <<>>
  BY AppendProperties, EmptySeq DEF IInv, TypeInv, PmType
<1>2. pm' = [pm EXCEPT !.queue = Append(pm.queue, p)]
  BY DEF QueueJoins, QueuePacket, Enqueue
<1>3. /\ pm' \in PmType /\ pm'.sending /\ pm.sending
      /\ pm'.writes = pm.writes /\ pm'.waits = pm.waits /\ pm'.queue # <<>>
  BY <1>1, <1>2 DEF IInv, TypeInv, PmType, QueueJoins
<1>4. (Quiet(pm)' <=> Quiet(pm)) /\ (Writing(pm) => Writing(pm)') /\ (Waiting(pm) => Waiting(pm)')
  BY <1>3 DEF Quiet, Writing, Waiting
<1>5. TypeInv' /\ OneChain' /\ (~pm.sending => Quiet(pm))'
  BY <1>3, <1>4 DEF IInv, TypeInv, OneChain, QueueJoins, window
<1>6. (Writing(pm)' => Writing(pm)) /\ (Waiting(pm)' => Waiting(pm))
  <2>1. (Writing(pm)' => ~Quiet(pm) /\ ~Waiting(pm)) /\ (Waiting(pm)' => ~Quiet(pm))
    BY <1>3, Exclusive DEF Quiet, Writing, Waiting
  <2>2. Waiting(pm)' => ~Writing(pm)
    BY <1>3 DEF Writing, Waiting
  <2>3. QED
    BY <2>1, <2>2 DEF IInv, OneChain
<1>7. WindowCounts' /\ WaitCovers'
  BY <1>3, <1>6 DEF IInv, WindowCounts, WaitCovers, WaitIsOwed, Watched, QueueJoins, window
<1>8. QED
  BY <1>5, <1>7 DEF IInv

\* doSend after a write, in the window or after its end.
LEMMA DoSendInv ==
    ASSUME IInv, Writing(pm), NEW m \in PmType, m.sending, Quiet(m), m.queue # <<>>,
           DoSendInTime(m), rate' = rate
    PROVE  IInv'
<1>1. TypeInv /\ nextWaitTime = owed /\ Watched(Window - checkIn)
  BY DEF IInv, WindowCounts
<1>2. CASE Send(m)
  <2>1. Duration(Head(m.queue)) \in Int
    BY <1>1, DurationType, HeadTailProperties DEF PmType
  <2>2. pm' \in PmType /\ pm'.sending /\ (Quiet(pm) \/ Writing(pm))'
    BY <1>2, AsyncSendEffect DEF Send, Quiet, Writing
  <2>3. TypeInv' /\ WindowCounts'
    BY <1>1, <1>2, <2>1, <2>2 DEF TypeInv, WindowCounts, Watched, Send
  <2>4. QED
    BY <2>2, <2>3 DEF IInv, OneChain, WaitCovers, Waiting, Quiet, Writing
<1>3. CASE Wait(m) /\ ~(checkIn > 0)
  <2>1. /\ pm' \in PmType /\ pm'.sending /\ pm'.waits = 1 /\ pm'.writes = <<>>
        /\ pm'.queue # <<>>
    BY <1>3 DEF Wait, ArmTimer, PmType, Quiet
  <2>2. Waiting(pm)' /\ ~Writing(pm)'
    BY <2>1 DEF Waiting, Writing
  <2>3. TypeInv'
    BY <1>1, <1>3, <2>1, BoundAssumption DEF TypeInv, Wait, Due, ExpiresAfter
  <2>4. WaitCovers'
    BY <1>1, <1>3, BoundAssumption DEF WaitCovers, WaitIsOwed, Watched, Wait, Due, ExpiresAfter, TypeInv
  <2>5. QED
    BY <2>1, <2>2, <2>3, <2>4 DEF IInv, OneChain, WindowCounts
<1>4. QED
  BY <1>2, <1>3 DEF DoSendInTime

\* A write has completed.
LEMMA WriteSucceedsInv ==
    ASSUME IInv, WriteSucceeds
    PROVE  IInv'
<1>1. TypeInv /\ Writing(pm)
  BY DEF IInv, OneChain, WriteSucceeds, Quiet, Waiting
<1>2. PICK m \in AfterHandler :
        \/ /\ m.queue = <<>>
           /\ pm' = [m EXCEPT !.sending = FALSE]
           /\ UNCHANGED <<window, timerIn>>
        \/ /\ m.queue # <<>>
           /\ DoSendInTime(m)
  BY DEF WriteSucceeds
<1>3. m \in PmType /\ m.sending /\ Quiet(m)
  BY <1>1, AfterHandlerEffect DEF TypeInv
<1>4. rate' = rate
  BY DEF WriteSucceeds
<1>5. CASE m.queue = <<>>
  <2>1. pm' = [m EXCEPT !.sending = FALSE] /\ UNCHANGED <<window, timerIn>>
    BY <1>2, <1>5
  <2>2. pm' \in PmType /\ Quiet(pm)' /\ ~Writing(pm)' /\ ~Waiting(pm)'
    BY <1>3, <2>1 DEF PmType, Quiet, Writing, Waiting
  <2>3. TypeInv'
    BY <1>1, <1>4, <2>1, <2>2 DEF TypeInv, window
  <2>4. QED
    BY <2>2, <2>3 DEF IInv, OneChain, WindowCounts, WaitCovers
<1>6. CASE m.queue # <<>>
  BY <1>1, <1>2, <1>3, <1>4, <1>6, DoSendInv
<1>7. QED
  BY <1>5, <1>6

\* A write has failed: nothing is pending any more.
LEMMA WriteFailsInv ==
    ASSUME IInv, WriteFails
    PROVE  IInv'
<1>1. TypeInv /\ Writing(pm)
  BY DEF IInv, OneChain, WriteFails, Quiet, Waiting
<1>2. Tail(pm.writes) = <<>> /\ <<>> \in Seq(WriteType)
  <2>1. pm.writes \in Seq(WriteType) /\ pm.writes # <<>>
    BY <1>1 DEF TypeInv, PmType, WriteFails
  <2>2. Tail(pm.writes) \in Seq(WriteType) /\ Len(Tail(pm.writes)) = 0
    BY <1>1, <2>1, HeadTailProperties DEF Writing
  <2>3. QED
    BY <2>2, EmptySeq
<1>3. /\ pm' \in PmType /\ pm'.writes = <<>> /\ pm'.waits = 0 /\ pm'.sending
  BY <1>1, <1>2 DEF WriteFails, SendFailed, StopReceive, TypeInv, PmType, Writing
<1>4. Quiet(pm)' /\ ~Writing(pm)' /\ ~Waiting(pm)'
  <2>1. Quiet(pm')
    BY <1>3 DEF Quiet
  <2>2. ~Writing(pm') /\ ~Waiting(pm')
    BY <2>1, Exclusive
  <2>3. QED
    BY <2>1, <2>2 DEF Quiet, Writing, Waiting
<1>5. TypeInv'
  BY <1>1, <1>3 DEF TypeInv, WriteFails, window
<1>6. QED
  BY <1>3, <1>4, <1>5 DEF IInv, OneChain, WindowCounts, WaitCovers

\* A wait is over: the chain goes on in a new window.
LEMMA TimerFiresInv ==
    ASSUME IInv, TimerFires
    PROVE  IInv'
<1> DEFINE m == [pm EXCEPT !.waits = 0]
<1>1. TypeInv /\ Waiting(pm)
  BY DEF IInv, OneChain, TimerFires, Quiet, Writing
<1>2. m \in PmType /\ m.queue = pm.queue /\ m.queue # <<>> /\ m.sending /\ Quiet(m)
  BY <1>1 DEF TypeInv, PmType, Waiting, Quiet
<1>3. pm' = AsyncSend(m, "open") /\ OpenWindow(pm) /\ rate' = rate
  <2>1. pm.waits - 1 = 0
    BY <1>1 DEF Waiting
  <2>2. QED
    BY <2>1 DEF TimerFires, TimerFired
<1> HIDE DEF m
<1>4. pm' \in PmType /\ pm'.sending /\ (Quiet(pm) \/ Writing(pm))'
  BY <1>2, <1>3, AsyncSendEffect DEF Quiet, Writing
<1>5. pm.queue \in Seq(Packet) /\ pm.queue # <<>>
  BY <1>1, <1>2 DEF TypeInv, PmType
<1>6. QED
  BY <1>1, <1>3, <1>4, <1>5, OpenWindowInv

\* The rate changes; nothing that is counted or pending does.
LEMMA SetWriteBitRateInv ==
    ASSUME IInv, NEW r \in Rates, SetWriteBitRate(r)
    PROVE  IInv'
BY DEF IInv, TypeInv, OneChain, Quiet, Writing, Waiting, WindowCounts, WaitCovers, WaitIsOwed,
       Watched, SetWriteBitRate, window

\* Time passes: what is left until the end of the window, or of the wait,
\* and what has passed of it change together.
LEMMA TickInv ==
    ASSUME IInv, Tick
    PROVE  IInv'
<1>1. TypeInv
  BY DEF IInv
<1>2. UNCHANGED <<pm, rate, nextWaitTime, owed>>
  BY DEF Tick
<1>3. TypeInv'
  BY <1>1, <1>2, BoundAssumption DEF TypeInv, Tick
<1>4. WindowCounts'
  BY <1>1, <1>2, BoundAssumption DEF IInv, TypeInv, WindowCounts, Writing, Watched, Tick
<1>5. WaitCovers'
  BY <1>1, <1>2, BoundAssumption DEF IInv, TypeInv, WaitCovers, WaitIsOwed, Waiting, Watched, Tick
<1>6. QED
  BY <1>2, <1>3, <1>4, <1>5 DEF IInv, OneChain, Quiet, Writing, Waiting

\* Every step keeps the invariant.
LEMMA NextInv == IInv /\ [Next]_vars => IInv'
<1> SUFFICES ASSUME IInv, [Next]_vars PROVE IInv'
  OBVIOUS
<1>1. CASE UNCHANGED vars
  BY <1>1 DEF IInv, TypeInv, OneChain, Quiet, Writing, Waiting, WindowCounts, WaitCovers,
              WaitIsOwed, Watched, vars, window
<1>2. CASE Next
  BY <1>2, QueueStartsInv, QueueJoinsInv, WriteSucceedsInv, WriteFailsInv, TimerFiresInv,
     SetWriteBitRateInv, TickInv DEF Next
<1>3. QED
  BY <1>1, <1>2

\* The invariant holds in every state.
LEMMA Invariance == Spec => []IInv
<1>1. QED
  BY InitInv, NextInv, PTL DEF Spec

-----------------------------------------------------------------------------
(* Theorems *)

\* The wait that doSend asks the timer for is never longer than what the
\* packets of this window owe: no earlier window or chain is paid for twice.
THEOREM WaitIsWhatIsOwed == Spec => []WaitIsOwed
<1>1. IInv => WaitIsOwed
  <2>1. IInv /\ pm.waits > 0 => Waiting(pm)
    BY DEF IInv, OneChain, Quiet, Writing
  <2>2. QED
    BY <2>1 DEF IInv, WaitCovers, WaitIsOwed
<1>2. QED
  BY <1>1, Invariance, PTL

\* The step that ends a wait is the timer's, and it comes when the time of
\* what was sent is over.
LEMMA WaitEndsInTime ==
    ASSUME IInv, [Next]_vars, pm.waits > 0, pm'.waits = 0
    PROVE  elapsed >= IF owed < MaxElapsed THEN owed ELSE MaxElapsed
<1>1. TypeInv /\ Waiting(pm) /\ Watched(owed - timerIn)
  BY DEF IInv, OneChain, WaitCovers, Quiet, Writing
<1>2. TimerFires
  <2>1. pm' # pm
    OBVIOUS
  <2>2. ~WriteSucceeds /\ ~WriteFails
    BY <1>1 DEF WriteSucceeds, WriteFails, Waiting
  <2>3. ASSUME NEW p \in Packet
        PROVE  ~QueueStarts(p) /\ ~QueueJoins(p)
    <3>1. ~QueueStarts(p)
      BY <1>1 DEF QueueStarts, Waiting
    <3>2. QueueJoins(p) => pm'.waits = pm.waits
      BY <1>1 DEF QueueJoins, QueuePacket, Enqueue, TypeInv, PmType
    <3>3. QED
      BY <3>1, <3>2
  <2>4. QED
    BY <2>1, <2>2, <2>3 DEF Next, SetWriteBitRate, Tick, vars
<1>3. timerIn = 0
  BY <1>2 DEF TimerFires
<1>4. QED
  BY <1>1, <1>3, BoundAssumption DEF TypeInv, Watched

\* "Configurable upload and download rate limits" (README.md:29), for every
\* two windows of one chain: a window is not followed by the next one before
\* what was sent in it has taken its time, at the rates it was sent with.
THEOREM RateIsKept == Spec => RateKept
<1>1. IInv /\ [Next]_vars =>
        [pm.waits > 0 /\ pm'.waits = 0
            => elapsed >= IF owed < MaxElapsed THEN owed ELSE MaxElapsed]_vars
  BY WaitEndsInTime
<1>2. QED
  BY <1>1, Invariance, PTL DEF Spec, RateKept

\* The packet manager with its clock has one operation pending at a time:
\* a window is not left before its write has completed or its wait is over.
THEOREM OneOperation == Spec => []OneChain
<1>1. IInv => OneChain
  BY DEF IInv
<1>2. QED
  BY <1>1, Invariance, PTL

-----------------------------------------------------------------------------
(* The refinement of PacketManager *)

\* What the clock has no part in: the write in flight is that of the front of
\* the queue, and after a failed write nothing is pending for good.
Carried ==
    /\ pm.writes # <<>> => Head(pm.writes).packet = Head(pm.queue)
    /\ sendFailed => Quiet(pm) /\ pm.sending

\* asyncSend leaves the queue alone, and writes its front.
LEMMA AsyncSendFront ==
    ASSUME NEW m \in PmType, Quiet(m)
    PROVE  /\ AsyncSend(m, "open").queue = m.queue
           /\ AsyncSend(m, "open").writes # <<>>
                => Head(AsyncSend(m, "open").writes).packet = Head(m.queue)
<1> DEFINE w == [packet |-> Head(m.queue), on |-> "open"]
<1>1. CASE Head(m.queue) \in Oversized
  BY <1>1 DEF AsyncSend, Quiet
<1>2. CASE Head(m.queue) \notin Oversized
  <2>1. Append(m.writes, w) = <<w>>
    BY DEF Quiet
  <2>2. AsyncSend(m, "open") = [m EXCEPT !.writes = <<w>>]
    BY <1>2, <2>1 DEF AsyncSend
  <2>3. AsyncSend(m, "open").queue = m.queue /\ AsyncSend(m, "open").writes = <<w>>
    BY <2>2 DEF PmType
  <2>4. Head(<<w>>) = w /\ w.packet = Head(m.queue)
    OBVIOUS
  <2>5. QED
    BY <2>3, <2>4
<1>3. QED
  BY <1>1, <1>2

\* A write that is in flight is of the front of the queue, and none has failed.
LEMMA WriteInFlight ==
    ASSUME IInv, Carried, pm.writes # <<>>
    PROVE  /\ Writing(pm) /\ ~sendFailed
           /\ pm.queue \in Seq(Packet) /\ pm.queue # <<>>
           /\ Head(pm.writes).packet = Head(pm.queue)
           /\ Head(pm.writes).packet \in Packet
           /\ Head(pm.writes).on = "open"
<1>1. Writing(pm) /\ ~sendFailed /\ pm.queue \in Seq(Packet) /\ pm.queue # <<>>
  BY DEF IInv, TypeInv, OneChain, Quiet, Waiting, Writing, Carried, PmType
<1>2. Head(pm.writes) \in WriteType
  <2>1. pm.writes \in Seq(WriteType)
    BY DEF IInv, TypeInv, PmType
  <2>2. QED
    BY <2>1, HeadTailProperties
<1>3. QED
  BY <1>1, <1>2 DEF Carried, WriteType

\* The packet manager when m_send_handler has returned: its queue is what was
\* behind the packet that was written, and perhaps one more.
LEMMA AfterHandlerQueue ==
    ASSUME pm \in PmType, Writing(pm), NEW m \in AfterHandler
    PROVE  \/ m = PopSent(pm) /\ m.queue = Tail(pm.queue)
           \/ \E p \in Packet : /\ MayAccept
                                /\ m = Enqueue(PopSent(pm), p)
                                /\ m.queue = Append(Tail(pm.queue), p)
<1>1. PopSent(pm) = [pm EXCEPT !.writes = Tail(pm.writes), !.queue = Tail(pm.queue)]
  BY DEF PopSent
<1>2. PopSent(pm).queue = Tail(pm.queue)
  BY <1>1 DEF PmType
<1>3. CASE m = PopFront
  BY <1>2, <1>3 DEF PopFront
<1>4. ASSUME NEW p \in Packet, MayAccept, m = Enqueue(PopFront, p)
      PROVE  m = Enqueue(PopSent(pm), p) /\ m.queue = Append(Tail(pm.queue), p)
  <2>1. m = [PopSent(pm) EXCEPT !.queue = Append(Tail(pm.queue), p)]
    BY <1>2, <1>4 DEF Enqueue, PopFront
  <2>2. QED
    BY <1>1, <1>4, <2>1 DEF PopFront, PmType
<1>5. m = PopFront \/ \E p \in Packet : MayAccept /\ m = Enqueue(PopFront, p)
  BY DEF AfterHandler
<1>6. QED
  BY <1>3, <1>4, <1>5

\* What a step that ends a write leaves of the packet manager.
LEMMA WriteSucceedsEffect ==
    ASSUME IInv, Carried, WriteSucceeds
    PROVE  \E m \in AfterHandler :
              /\ m \in PmType /\ m.sending /\ Quiet(m)
              /\ pm' \in AfterSent(m, "open")
              /\ pm'.queue = m.queue
              /\ pm'.writes # <<>> => Head(pm'.writes).packet = Head(pm'.queue)
<1>1. pm \in PmType /\ Writing(pm)
  BY WriteInFlight DEF WriteSucceeds, IInv, TypeInv
<1>2. PICK m \in AfterHandler :
        \/ /\ m.queue = <<>>
           /\ pm' = [m EXCEPT !.sending = FALSE]
           /\ UNCHANGED <<window, timerIn>>
        \/ /\ m.queue # <<>>
           /\ DoSendInTime(m)
  BY DEF WriteSucceeds
<1>3. m \in PmType /\ m.sending /\ Quiet(m)
  BY <1>1, AfterHandlerEffect
<1>4. CASE m.queue = <<>>
  <2>1. pm' = [m EXCEPT !.sending = FALSE]
    BY <1>2, <1>4
  <2>2. pm'.queue = m.queue /\ pm'.writes = <<>>
    BY <1>3, <2>1 DEF PmType, Quiet
  <2>3. pm' \in AfterSent(m, "open")
    BY <1>4, <2>1 DEF AfterSent
  <2>4. QED
    BY <1>3, <2>2, <2>3
<1>5. CASE m.queue # <<>>
  <2>1. pm' = AsyncSend(m, "open") \/ pm' = ArmTimer(m)
    BY <1>2, <1>5 DEF DoSendInTime, Send, Wait
  <2>2. pm' \in AfterSent(m, "open")
    BY <1>5, <2>1 DEF AfterSent, DoSend
  <2>3. pm' = ArmTimer(m) => pm'.queue = m.queue /\ pm'.writes = <<>>
    BY <1>3 DEF ArmTimer, PmType, Quiet
  <2>4. pm' = AsyncSend(m, "open")
          => /\ pm'.queue = m.queue
             /\ pm'.writes # <<>> => Head(pm'.writes).packet = Head(pm'.queue)
    BY <1>3, AsyncSendFront
  <2>5. QED
    BY <1>3, <2>1, <2>2, <2>3, <2>4
<1>6. QED
  BY <1>4, <1>5

\* A packet that starts a chain is behind nothing but what a failure left.
LEMMA QueueEffect ==
    ASSUME IInv, NEW p \in Packet, QueueStarts(p) \/ QueueJoins(p)
    PROVE  /\ pm' = QueuePacket(pm, "open", p)
           /\ pm'.queue = Append(pm.queue, p)
           /\ QueueJoins(p) => pm'.writes = pm.writes /\ pm'.waits = pm.waits /\ pm'.sending
           /\ QueueStarts(p) /\ pm'.writes # <<>> => Head(pm'.writes).packet = Head(pm'.queue)
<1> DEFINE m == EnqueueFirst(pm, p)
<1>1. pm \in PmType
  BY DEF IInv, TypeInv
<1>2. pm' = QueuePacket(pm, "open", p)
  BY DEF QueueStarts, QueueJoins
<1>3. CASE QueueJoins(p)
  <2>1. pm.sending /\ pm' = [pm EXCEPT !.queue = Append(pm.queue, p)]
    BY <1>3 DEF QueueJoins, QueuePacket, Enqueue
  <2>2. ~QueueStarts(p)
    BY <1>3 DEF QueueJoins, QueueStarts
  <2>3. QED
    BY <1>1, <1>2, <2>1, <2>2 DEF PmType
<1>4. CASE QueueStarts(p)
  <2>1. ~pm.sending /\ Quiet(pm)
    BY <1>4 DEF QueueStarts, IInv
  <2>2. m \in PmType /\ m.queue = Append(pm.queue, p) /\ Quiet(m)
    <3>1. Append(pm.queue, p) \in Seq(Packet)
      BY <1>1, AppendProperties DEF PmType
    <3>2. m = [pm EXCEPT !.queue = Append(pm.queue, p), !.sending = TRUE]
      BY DEF EnqueueFirst
    <3>3. QED
      BY <1>1, <2>1, <3>1, <3>2 DEF PmType, Quiet
  <2>3. pm' = AsyncSend(m, "open")
    BY <1>2, <2>1 DEF QueuePacket
  <2>4. ~QueueJoins(p)
    BY <2>1 DEF QueueJoins
  <2> HIDE DEF m
  <2>5. QED
    BY <1>2, <2>2, <2>3, <2>4, AsyncSendFront
<1>5. QED
  BY <1>3, <1>4

\* When a wait is over, the front of the same queue is written.
LEMMA TimerFiresEffect ==
    ASSUME IInv, TimerFires
    PROVE  /\ pm'.queue = pm.queue
           /\ pm'.writes # <<>> => Head(pm'.writes).packet = Head(pm'.queue)
<1> DEFINE m == [pm EXCEPT !.waits = pm.waits - 1]
<1>1. pm \in PmType /\ Waiting(pm)
  BY DEF IInv, TypeInv, OneChain, TimerFires, Quiet, Writing
<1>2. m \in PmType /\ m.queue = pm.queue /\ Quiet(m)
  BY <1>1 DEF PmType, Waiting, Quiet
<1>3. pm' = AsyncSend(m, "open")
  BY DEF TimerFires, TimerFired
<1> HIDE DEF m
<1>4. QED
  BY <1>2, <1>3, AsyncSendFront

\* A failed write takes nothing from the queue.
LEMMA WriteFailsEffect ==
    ASSUME IInv, Carried, WriteFails
    PROVE  pm'.queue = pm.queue /\ pm'.sending /\ Quiet(pm)'
<1>1. pm \in PmType /\ Writing(pm) /\ pm.writes \in Seq(WriteType)
  BY WriteInFlight DEF WriteFails, IInv, TypeInv, PmType
<1>2. Tail(pm.writes) = <<>>
  BY <1>1, OneElement DEF Writing
<1>3. pm' = [pm EXCEPT !.recieveing = FALSE, !.writes = <<>>]
  BY <1>2 DEF WriteFails, SendFailed, StopReceive
<1>4. QED
  BY <1>1, <1>3 DEF PmType, Quiet, Writing

\* Every step keeps what the clock has no part in.
LEMMA CarriedInv ==
    ASSUME IInv, Carried, [Next]_vars
    PROVE  Carried'
<1>1. pm \in PmType
  BY DEF IInv, TypeInv
<1>2. ASSUME NEW p \in Packet, QueueStarts(p) PROVE Carried'
  <2>1. ~sendFailed /\ sendFailed' = sendFailed
    BY <1>2 DEF QueueStarts, Carried
  <2>2. QED
    BY <1>2, <2>1, QueueEffect DEF Carried
<1>3. ASSUME NEW p \in Packet, QueueJoins(p) PROVE Carried'
  <2>1. /\ pm'.writes = pm.writes /\ pm'.waits = pm.waits /\ pm'.sending
        /\ pm'.queue = Append(pm.queue, p) /\ sendFailed' = sendFailed
    BY <1>3, QueueEffect DEF QueueJoins
  <2>2. pm.writes # <<>> => Head(pm'.queue) = Head(pm.queue)
    <3>1. SUFFICES ASSUME pm.writes # <<>> PROVE Head(pm'.queue) = Head(pm.queue)
      OBVIOUS
    <3>2. pm.queue \in Seq(Packet) /\ pm.queue # <<>>
      BY <3>1, WriteInFlight
    <3>3. QED
      BY <2>1, <3>2
  <2>3. QED
    BY <2>1, <2>2 DEF Carried, Quiet
<1>4. CASE WriteSucceeds
  <2>1. ~sendFailed /\ sendFailed' = sendFailed
    BY <1>4, WriteInFlight DEF WriteSucceeds
  <2>2. QED
    BY <1>4, <2>1, WriteSucceedsEffect DEF Carried
<1>5. CASE WriteFails
  BY <1>5, WriteFailsEffect DEF Carried, Quiet
<1>6. CASE TimerFires
  <2>1. ~sendFailed /\ sendFailed' = sendFailed
    BY <1>6 DEF TimerFires, Carried, Quiet
  <2>2. QED
    BY <1>6, <2>1, TimerFiresEffect DEF Carried
<1>7. CASE Tick \/ UNCHANGED vars \/ \E r \in Rates : SetWriteBitRate(r)
  BY <1>7 DEF Carried, Quiet, Tick, SetWriteBitRate, vars
<1>8. QED
  BY <1>2, <1>3, <1>4, <1>5, <1>6, <1>7 DEF Next

\* The invariants of the clock and of what it has no part in together.
LEMMA CarriedInvariance == Spec => [](IInv /\ Carried)
<1>1. Init => IInv /\ Carried
  <2>1. ASSUME Init PROVE pm.writes = <<>> /\ ~sendFailed
    BY <2>1 DEF Init, StartReceive, NewPacketManager
  <2>2. QED
    BY <2>1, InitInv DEF Carried
<1>2. IInv /\ Carried /\ [Next]_vars => (IInv /\ Carried)'
  BY NextInv, CarriedInv
<1>3. QED
  BY <1>1, <1>2, PTL DEF Spec

\* The operations of both packet managers are the same.
LEMMA SameOperations ==
    ASSUME NEW m, NEW p, NEW s
    PROVE  /\ Chosen!QueuePacket(m, s, p) = QueuePacket(m, s, p)
           /\ Chosen!PopSent(m) = PopSent(m)
           /\ Chosen!AfterSent(m, s) = AfterSent(m, s)
           /\ Chosen!SendFailed(m) = SendFailed(m)
           /\ Chosen!TimerFired(m, s) = TimerFired(m, s)
           /\ Chosen!StartReceive(m, s) = StartReceive(m, s)
           /\ Chosen!NewPacketManager = NewPacketManager
BY DEF Chosen!QueuePacket, QueuePacket, Chosen!Enqueue, Enqueue,
       Chosen!EnqueueFirst, EnqueueFirst, Chosen!AsyncSend, AsyncSend,
       Chosen!PopSent, PopSent, Chosen!AfterSent, AfterSent, Chosen!DoSend, DoSend,
       Chosen!ArmTimer, ArmTimer, Chosen!SendFailed, SendFailed,
       Chosen!StopReceive, StopReceive, Chosen!TimerFired, TimerFired,
       Chosen!StartReceive, StartReceive, Chosen!NewPacketManager, NewPacketManager

\* The places in a queue of every packet, which is what m_queued_count holds.
Counts(s) == [p \in Packet |-> Places(s, p)]

\* Counting a packet is appending it, ...
LEMMA CountsAppend ==
    ASSUME NEW s \in Seq(Packet), NEW e \in Packet
    PROVE  Counts(Append(s, e)) = [Counts(s) EXCEPT ![e] = @ + 1]
<1>1. \A p \in Packet : Places(Append(s, e), p) = IF p = e THEN Places(s, p) + 1 ELSE Places(s, p)
  BY PlacesAppend
<1>2. QED
  BY <1>1 DEF Counts

\* ... and taking it off its counter is taking it from the front.
LEMMA CountsTail ==
    ASSUME NEW s \in Seq(Packet), s # <<>>
    PROVE  Counts(Tail(s)) = [Counts(s) EXCEPT ![Head(s)] = @ - 1]
<1>1. \A p \in Packet : Places(Tail(s), p) = IF p = Head(s) THEN Places(s, p) - 1 ELSE Places(s, p)
  BY PlacesTail
<1>2. QED
  BY <1>1 DEF Counts

\* A packet that is queued, whether it starts a window or not.
LEMMA QueueIsChosen ==
    ASSUME IInv, NEW p \in Packet, QueueStarts(p) \/ QueueJoins(p)
    PROVE  Chosen!Queue(p)
<1>1. /\ pm' = Chosen!QueuePacket(pm, "open", p)
      /\ pm'.queue = Append(pm.queue, p)
  BY QueueEffect, SameOperations
<1>2. Counts(pm'.queue) = [Counts(pm.queue) EXCEPT ![p] = @ + 1]
  <2>1. pm.queue \in Seq(Packet)
    BY DEF IInv, TypeInv, PmType
  <2>2. QED
    BY <1>1, <2>1, CountsAppend
<1>3. MayAccept /\ UNCHANGED <<wire, sendFailed>>
  BY DEF QueueStarts, QueueJoins
<1>4. Chosen!MayAccept
  BY <1>3 DEF MayAccept, Chosen!MayAccept
<1>5. QED
  BY <1>1, <1>2, <1>3, <1>4 DEF Chosen!Queue, Counts, Places

\* A write that succeeds: whether doSend waits is what the clock decides, and
\* what m_send_handler queues is one of the packets it may queue.
LEMMA WriteSucceedsIsChosen ==
    ASSUME IInv, Carried, WriteSucceeds
    PROVE  Chosen!WriteSucceeds
<1>1. /\ pm \in PmType /\ Writing(pm)
      /\ pm.queue \in Seq(Packet) /\ pm.queue # <<>>
      /\ Head(pm.writes).packet = Head(pm.queue)
      /\ Head(pm.writes).packet \in Packet
      /\ Head(pm.writes).on = "open"
  BY WriteInFlight DEF WriteSucceeds, IInv, TypeInv
<1>2. PICK m \in AfterHandler :
        m.sending /\ pm' \in AfterSent(m, "open") /\ pm'.queue = m.queue
  BY WriteSucceedsEffect
<1> DEFINE popped == [Counts(pm.queue) EXCEPT ![Head(pm.writes).packet] = @ - 1]
<1>3. Tail(pm.queue) \in Seq(Packet) /\ Counts(Tail(pm.queue)) = popped
  BY <1>1, CountsTail, HeadTailProperties
<1>4. Chosen!CountAfterPop = popped
  BY DEF Chosen!CountAfterPop, Chosen!Sent, Counts, Places
<1>5. Chosen!SendHandled \/ \E p \in Packet : Chosen!SendHandlerQueues(p)
  <2>1. CASE m = PopSent(pm) /\ m.queue = Tail(pm.queue)
    <3>1. pm' \in Chosen!AfterSent(Chosen!PopSent(pm), "open")
      BY <1>2, <2>1, SameOperations
    <3>2. Counts(pm'.queue) = Chosen!CountAfterPop
      BY <1>2, <1>3, <1>4, <2>1
    <3>3. QED
      BY <3>1, <3>2 DEF Chosen!SendHandled, Counts, Places
  <2>2. ASSUME NEW p \in Packet, MayAccept, m = Enqueue(PopSent(pm), p),
               m.queue = Append(Tail(pm.queue), p)
        PROVE  Chosen!SendHandlerQueues(p)
    <3>1. PopSent(pm).sending
      BY <1>1 DEF PopSent, PmType, Writing
    <3>2. m = QueuePacket(PopSent(pm), "open", p)
      BY <2>2, <3>1 DEF QueuePacket
    <3>3. pm' \in Chosen!AfterSent(Chosen!QueuePacket(Chosen!PopSent(pm), "open", p), "open")
      BY <1>2, <3>2, SameOperations
    <3>4. Counts(pm'.queue) = [Chosen!CountAfterPop EXCEPT ![p] = @ + 1]
      <4>1. Counts(Append(Tail(pm.queue), p)) = [Counts(Tail(pm.queue)) EXCEPT ![p] = @ + 1]
        BY <1>3, CountsAppend
      <4>2. pm'.queue = Append(Tail(pm.queue), p) /\ Chosen!CountAfterPop = Counts(Tail(pm.queue))
        BY <1>2, <1>3, <1>4, <2>2
      <4>3. QED
        BY <4>1, <4>2
    <3>5. Chosen!MayAccept
      BY <2>2 DEF MayAccept, Chosen!MayAccept
    <3>6. QED
      BY <3>3, <3>4, <3>5 DEF Chosen!SendHandlerQueues, Counts, Places
  <2>3. QED
    BY <1>1, <2>1, <2>2, AfterHandlerQueue
<1>6. QED
  BY <1>1, <1>5 DEF WriteSucceeds, Chosen!WriteSucceeds, Chosen!Sent

\* A write that fails is the first to fail: the owner is told once.
LEMMA WriteFailsIsChosen ==
    ASSUME IInv, Carried, WriteFails
    PROVE  Chosen!WriteFails
<1>1. pm.writes # <<>> /\ ~sendFailed /\ sendFailed' = TRUE /\ wire' = wire
  BY WriteInFlight DEF WriteFails
<1>2. pm' = Chosen!SendFailed(pm) /\ pm'.queue = pm.queue
  BY SameOperations, WriteFailsEffect DEF WriteFails
<1>3. QED
  BY <1>1, <1>2 DEF Chosen!WriteFails

\* A wait that is over is one that was pending.
LEMMA TimerFiresIsChosen ==
    ASSUME IInv, TimerFires
    PROVE  Chosen!TimerFires
<1>1. pm' = Chosen!TimerFired(pm, "open") /\ pm'.queue = pm.queue
  BY SameOperations, TimerFiresEffect DEF TimerFires
<1>2. QED
  BY <1>1 DEF TimerFires, Chosen!TimerFires

\* At the start no packet is counted.
LEMMA InitIsChosen ==
    ASSUME Init
    PROVE  Chosen!Init
<1>1. pm = Chosen!StartReceive(Chosen!NewPacketManager, "open") /\ wire = <<>> /\ ~sendFailed
  BY SameOperations DEF Init
<1>2. pm.queue = <<>>
  BY DEF Init, StartReceive, NewPacketManager
<1>3. ASSUME NEW p \in Packet
      PROVE  Cardinality({i \in 1..Len(pm.queue) : pm.queue[i] = p}) = 0
  <2>1. {i \in 1..Len(pm.queue) : pm.queue[i] = p} = {}
    BY <1>2
  <2>2. QED
    BY <2>1, FS_EmptySet
<1>4. sendFailed = FALSE
  BY DEF Init
<1>5. QED
  BY <1>1, <1>3, <1>4 DEF Chosen!Init

\* With its clock the packet manager is one that chooses when to wait, seen
\* without the clock: its windows, waits and rates make it do nothing that
\* PacketManager's invariants are not about.
THEOREM ImplementsPacketManager == Spec => Chosen!Spec
<1>1. Init => Chosen!Init
  BY InitIsChosen
<1>2. IInv /\ Carried /\ [Next]_vars => [Chosen!Next]_(Chosen!vars)
  <2> SUFFICES ASSUME IInv, Carried, [Next]_vars
               PROVE  Chosen!Next \/ UNCHANGED Chosen!vars
    OBVIOUS
  <2>1. ASSUME NEW p \in Packet, QueueStarts(p) \/ QueueJoins(p) PROVE Chosen!Next
    BY <2>1, QueueIsChosen DEF Chosen!Next
  <2>2. CASE WriteSucceeds
    BY <2>2, WriteSucceedsIsChosen DEF Chosen!Next
  <2>3. CASE WriteFails
    BY <2>3, WriteFailsIsChosen DEF Chosen!Next
  <2>4. CASE TimerFires
    BY <2>4, TimerFiresIsChosen DEF Chosen!Next
  <2>5. CASE Tick \/ UNCHANGED vars \/ \E r \in Rates : SetWriteBitRate(r)
    <3>1. UNCHANGED <<pm, wire, sendFailed>>
      BY <2>5 DEF Tick, SetWriteBitRate, vars
    <3>2. QED
      BY <3>1 DEF Chosen!vars
  <2>6. QED
    BY <2>1, <2>2, <2>3, <2>4, <2>5 DEF Next
<1>3. QED
  BY <1>1, <1>2, CarriedInvariance, PTL DEF Spec, Chosen!Spec
==============================================================================
