------------------------ MODULE PacketManagerProofs ------------------------
(***************************************************************************)
(* Proofs about PacketManager for any set of packets and any bounds.       *)
(***************************************************************************)
EXTENDS PacketManager, QueueLemmas, FiniteSetTheorems, TLAPS

\* What a call of doSend leaves behind, on the send side: a wait, a write of
\* the front packet, or nothing when the front packet is oversized.
Continues(m) ==
    \/ Waiting(m)
    \/ Writing(m) /\ Head(m.writes).packet = Head(m.queue)
    \/ Idle(m) /\ Head(m.queue) \in Oversized

\* The fields of n that a step of the send chain must not touch.
SameOwner(n, m) ==
    /\ n.queue = m.queue
    /\ n.recieveing = m.recieveing
    /\ n.reads = m.reads

-----------------------------------------------------------------------------
(* Sequences *)

\* Appending keeps the front of a sequence, and adds one to an empty one.
LEMMA AppendFacts ==
    ASSUME NEW S, NEW s \in Seq(S), NEW e \in S
    PROVE  /\ Append(s, e) \in Seq(S)
           /\ Append(s, e) # <<>>
           /\ s # <<>> => Head(Append(s, e)) = Head(s)
           /\ s = <<>> => /\ Head(Append(s, e)) = e
                          /\ Len(Append(s, e)) = 1
  BY AppendProperties, EmptySeq

-----------------------------------------------------------------------------
(* The operators of PacketManagerState: each returns a well-typed record    *)
(* and changes only the fields it is meant to.                              *)

\* asyncSend with nothing pending: one write of the front, or none when it
\* is oversized.
LEMMA AsyncSendEffect ==
    ASSUME NEW m \in PmType, NEW o \in SocketState, m.queue # <<>>, Idle(m)
    PROVE  /\ AsyncSend(m, o) \in PmType
           /\ AsyncSend(m, o).sending = m.sending
           /\ SameOwner(AsyncSend(m, o), m)
           /\ Continues(AsyncSend(m, o))
<1> DEFINE w == [packet |-> Head(m.queue), on |-> o]
<1> DEFINE n == [m EXCEPT !.writes = Append(m.writes, w)]
<1>1. CASE Head(m.queue) \in Oversized
  <2>1. AsyncSend(m, o) = m
    BY <1>1 DEF AsyncSend
  <2>2. QED
    BY <1>1, <2>1 DEF SameOwner, Continues
<1>2. CASE Head(m.queue) \notin Oversized
  <2>1. AsyncSend(m, o) = n
    BY <1>2 DEF AsyncSend
  <2>2. Head(m.queue) \in Packet /\ m.writes \in Seq([packet : Packet, on : SocketState])
    BY HeadTailProperties DEF PmType
  <2>3. w \in [packet : Packet, on : SocketState]
    BY <2>2
  <2>4. /\ Append(m.writes, w) \in Seq([packet : Packet, on : SocketState])
        /\ Head(Append(m.writes, w)) = w
        /\ Len(Append(m.writes, w)) = 1
    BY <2>2, <2>3, AppendFacts DEF Idle
  <2> HIDE DEF w
  <2>5. /\ n \in PmType
        /\ n.sending = m.sending
        /\ n.queue = m.queue
        /\ n.recieveing = m.recieveing
        /\ n.reads = m.reads
        /\ n.waits = m.waits
        /\ n.writes = Append(m.writes, w)
    BY <2>4 DEF PmType
  <2>6. w.packet = Head(m.queue)
    BY DEF w
  <2> HIDE DEF n
  <2>7. Writing(n) /\ Head(n.writes).packet = Head(n.queue)
    BY <2>4, <2>5, <2>6 DEF Writing, Idle
  <2>8. QED
    BY <2>1, <2>5, <2>7 DEF SameOwner, Continues
<1>3. QED
  BY <1>1, <1>2

\* doSend with nothing pending.
LEMMA DoSendEffect ==
    ASSUME NEW m \in PmType, NEW o \in SocketState, m.queue # <<>>, Idle(m),
           NEW n \in DoSend(m, o)
    PROVE  /\ n \in PmType
           /\ n.sending = m.sending
           /\ SameOwner(n, m)
           /\ Continues(n)
<1>1. CASE n = ArmTimer(m)
  BY <1>1 DEF ArmTimer, PmType, SameOwner, Continues, Idle, Waiting
<1>2. CASE n = AsyncSend(m, o)
  BY <1>2, AsyncSendEffect
<1>3. QED
  BY <1>1, <1>2 DEF DoSend

\* The completion handler of a write, after the send handler: the chain is
\* given up when the queue is empty and goes on otherwise.
LEMMA AfterSentEffect ==
    ASSUME NEW m \in PmType, NEW o \in SocketState, Idle(m), m.sending,
           NEW n \in AfterSent(m, o)
    PROVE  /\ n \in PmType
           /\ SameOwner(n, m)
           /\ \/ n.queue = <<>> /\ Idle(n) /\ ~n.sending
              \/ n.queue # <<>> /\ Continues(n) /\ n.sending
<1>1. CASE m.queue = <<>>
  <2>1. n = [m EXCEPT !.sending = FALSE]
    BY <1>1 DEF AfterSent
  <2>2. QED
    BY <1>1, <2>1 DEF PmType, SameOwner, Idle
<1>2. CASE m.queue # <<>>
  <2>1. n \in DoSend(m, o)
    BY <1>2 DEF AfterSent
  <2>2. QED
    BY <1>2, <2>1, DoSendEffect DEF SameOwner
<1>3. QED
  BY <1>1, <1>2

\* queuePacket while a chain is active only appends.
LEMMA QueuePacketBusy ==
    ASSUME NEW m \in PmType, NEW p \in Packet, m.sending
    PROVE  /\ QueuePacket(m, "open", p) = [m EXCEPT !.queue = Append(m.queue, p)]
           /\ QueuePacket(m, "open", p) \in PmType
<1>1. Append(m.queue, p) \in Seq(Packet)
  BY AppendFacts DEF PmType
<1>2. QED
  BY <1>1 DEF QueuePacket, Enqueue, PmType

\* queuePacket while nothing is sent starts a chain.
LEMMA QueuePacketIdle ==
    ASSUME NEW m \in PmType, NEW p \in Packet, ~m.sending, Idle(m),
           NEW n, n = QueuePacket(m, "open", p)
    PROVE  /\ n \in PmType
           /\ n.queue = Append(m.queue, p)
           /\ n.sending
           /\ n.recieveing = m.recieveing
           /\ n.reads = m.reads
           /\ Continues(n)
<1>1. /\ Append(m.queue, p) \in Seq(Packet)
      /\ Append(m.queue, p) # <<>>
  BY AppendFacts DEF PmType
<1>2. PICK b \in PmType : b = EnqueueFirst(m, p)
  BY <1>1 DEF EnqueueFirst, PmType
<1>3. /\ b.queue = Append(m.queue, p)
      /\ b.recieveing = m.recieveing
      /\ b.reads = m.reads
      /\ b.sending
      /\ Idle(b)
  BY <1>2 DEF EnqueueFirst, Idle, PmType
<1>4. n = AsyncSend(b, "open")
  BY <1>2 DEF QueuePacket
<1>5. n \in PmType /\ n.sending = b.sending /\ SameOwner(n, b) /\ Continues(n)
  BY <1>1, <1>3, <1>4, AsyncSendEffect DEF SocketState
<1>6. QED
  BY <1>3, <1>5 DEF SameOwner

-----------------------------------------------------------------------------
(* The inductive invariant *)

\* The state of the send side in the three situations it can be in: nothing
\* to send, a chain at work, a chain that died of a failed write.
SendSide ==
    \/ pm.queue = <<>> /\ Idle(pm) /\ ~pm.sending /\ ~sendFailed
    \/ pm.queue # <<>> /\ Continues(pm) /\ pm.sending /\ ~sendFailed
    \/ pm.queue # <<>> /\ Idle(pm) /\ pm.sending /\ sendFailed

\* The invariants of the send side say exactly this.
LEMMA SendSideFacts ==
    ASSUME TypeOK
    PROVE  SendSide <=> OneSendChain /\ InFlightIsFront /\ NoSilentStall /\ FailureIsFinal
<1>1. pm.writes \in Seq([packet : Packet, on : SocketState]) /\ pm.waits \in Nat
  BY DEF TypeOK, PmType
<1>2. Writing(pm) => pm.writes # <<>> /\ ~Idle(pm) /\ ~Waiting(pm)
  <2>1. Len(pm.writes) = 1 => pm.writes # <<>>
    BY <1>1, EmptySeq
  <2>2. QED
    BY <2>1 DEF Writing, Idle, Waiting
<1>3. Waiting(pm) => pm.writes = <<>> /\ ~Idle(pm)
  BY DEF Waiting, Idle
<1>4. Idle(pm) => pm.writes = <<>>
  BY DEF Idle
<1>5. QED
  BY <1>2, <1>3, <1>4
     DEF SendSide, Continues, OneSendChain, InFlightIsFront, NoSilentStall, FailureIsFinal, Sent

\* The inductive invariant.
IInv == TypeOK /\ SendSide /\ ReceiveEnds

LEMMA InitIInv == Init => IInv
<1> SUFFICES ASSUME Init PROVE IInv
  OBVIOUS
<1>1. PICK n : n = NewPacketManager
  OBVIOUS
<1>2. /\ n \in PmType
      /\ n.queue = <<>>
      /\ ~n.sending
      /\ n.writes = <<>>
      /\ n.waits = 0
      /\ n.reads = 0
  BY <1>1 DEF NewPacketManager, PmType
<1>3. pm = [n EXCEPT !.recieveing = TRUE, !.reads = 1]
  <2>1. pm = [n EXCEPT !.recieveing = TRUE, !.reads = n.reads + 1]
    BY <1>1 DEF Init, StartReceive
  <2>2. n.reads + 1 = 1
    BY <1>2
  <2>3. QED
    BY <2>1, <2>2
<1>4. /\ pm \in PmType
      /\ pm.queue = <<>>
      /\ ~pm.sending
      /\ pm.writes = <<>>
      /\ pm.waits = 0
      /\ pm.reads = 1
  <2>1. 1 \in 0..1 /\ TRUE \in BOOLEAN
    OBVIOUS
  <2> DEFINE r == [n EXCEPT !.recieveing = TRUE]
  <2>2. /\ r \in PmType /\ r.queue = <<>> /\ ~r.sending /\ r.writes = <<>> /\ r.waits = 0
    BY <1>2 DEF PmType
  <2>3. pm = [r EXCEPT !.reads = 1]
    BY <1>3
  <2> HIDE DEF r
  <2>4. QED
    BY <2>1, <2>2, <2>3 DEF PmType
<1>5. TypeOK
  <2>1. wire = <<>> /\ <<>> \in Seq(Packet)
    BY DEF Init
  <2>2. queuedCount \in [Packet -> Int]
    BY DEF Init
  <2>3. QED
    BY <1>4, <2>1, <2>2 DEF Init, TypeOK, SocketState
<1>6. SendSide
  BY <1>4 DEF Init, SendSide, Idle
<1>7. ReceiveEnds
  BY <1>4 DEF Init, ReceiveEnds
<1>8. QED
  BY <1>5, <1>6, <1>7 DEF IInv

LEMMA QueuePreserves ==
    ASSUME IInv, NEW p \in Packet, Queue(p)
    PROVE  IInv'
<1>1. pm \in PmType /\ TypeOK /\ SendSide /\ ReceiveEnds
  BY DEF IInv, TypeOK
<1>2. pm' = QueuePacket(pm, "open", p)
  BY DEF Queue
<1>3. Append(pm.queue, p) # <<>> /\ (pm.queue # <<>> => Head(Append(pm.queue, p)) = Head(pm.queue))
  BY <1>1, AppendFacts DEF PmType
<1>4. /\ pm' \in PmType
      /\ pm'.recieveing = pm.recieveing
      /\ pm'.reads = pm.reads
  <2>1. CASE pm.sending
    BY <1>1, <1>2, <2>1, QueuePacketBusy DEF PmType
  <2>2. CASE ~pm.sending
    BY <1>1, <1>2, <2>2, QueuePacketIdle DEF SendSide
  <2>3. QED
    BY <2>1, <2>2
<1>5. TypeOK'
  BY <1>1, <1>4 DEF Queue, TypeOK
<1>6. SendSide'
  <2>1. CASE pm.sending
    <3>1. pm' = [pm EXCEPT !.queue = Append(pm.queue, p)]
      BY <1>1, <1>2, <2>1, QueuePacketBusy
    <3>2. /\ pm'.queue = Append(pm.queue, p)
          /\ pm'.writes = pm.writes
          /\ pm'.waits = pm.waits
          /\ pm'.sending = pm.sending
      BY <1>1, <3>1 DEF PmType
    <3>3. QED
      BY <1>1, <1>3, <2>1, <3>2 DEF SendSide, Continues, Idle, Writing, Waiting, Queue
  <2>2. CASE ~pm.sending
    BY <1>1, <1>2, <1>3, <2>2, QueuePacketIdle DEF SendSide, Queue
  <2>3. QED
    BY <2>1, <2>2
<1>7. ReceiveEnds'
  BY <1>1, <1>4 DEF Queue, ReceiveEnds
<1>8. QED
  BY <1>5, <1>6, <1>7 DEF IInv

LEMMA ClosePreserves ==
    ASSUME IInv, Close
    PROVE  IInv'
<1>1. pm \in PmType /\ pm' = [pm EXCEPT !.recieveing = FALSE]
  BY DEF IInv, TypeOK, Close, StopReceive
<1>2. /\ pm' \in PmType
      /\ pm'.queue = pm.queue
      /\ pm'.sending = pm.sending
      /\ pm'.writes = pm.writes
      /\ pm'.waits = pm.waits
      /\ pm'.reads = pm.reads
      /\ ~pm'.recieveing
  BY <1>1 DEF PmType
<1>3. TypeOK'
  BY <1>2 DEF IInv, TypeOK, Close, SocketState
<1>4. SendSide'
  BY <1>2 DEF IInv, SendSide, Close, Continues, Idle, Writing, Waiting
<1>5. ReceiveEnds'
  BY <1>2 DEF IInv, ReceiveEnds
<1>6. QED
  BY <1>3, <1>4, <1>5 DEF IInv

\* What is known when a write completes: it is the only pending operation and
\* it wrote the front of the queue.
LEMMA WriteInFlight ==
    ASSUME IInv, pm.writes # <<>>
    PROVE  /\ Writing(pm)
           /\ Tail(pm.writes) = <<>>
           /\ Tail(pm.writes) \in Seq([packet : Packet, on : SocketState])
           /\ pm.queue # <<>>
           /\ pm.sending
           /\ ~sendFailed
           /\ Sent = Head(pm.queue)
           /\ Sent \in Packet
<1>1. /\ pm.writes \in Seq([packet : Packet, on : SocketState])
      /\ pm.queue \in Seq(Packet)
  BY DEF IInv, TypeOK, PmType
<1>2. ~Idle(pm) /\ ~Waiting(pm)
  BY DEF Idle, Waiting
<1>3. /\ Writing(pm)
      /\ pm.queue # <<>>
      /\ pm.sending
      /\ ~sendFailed
      /\ Sent = Head(pm.queue)
  BY <1>2 DEF IInv, SendSide, Continues, Sent
<1>4. Tail(pm.writes) = <<>> /\ Tail(pm.writes) \in Seq([packet : Packet, on : SocketState])
  <2>1. /\ Tail(pm.writes) \in Seq([packet : Packet, on : SocketState])
        /\ Len(Tail(pm.writes)) = Len(pm.writes) - 1
    BY <1>1, HeadTailProperties
  <2>2. Len(Tail(pm.writes)) = 0
    BY <2>1, <1>3 DEF Writing
  <2>3. QED
    BY <2>1, <2>2, EmptySeq
<1>5. QED
  BY <1>1, <1>3, <1>4, HeadTailProperties

\* The packet manager the send handler works on.
LEMMA PopSentEffect ==
    ASSUME IInv, pm.writes # <<>>
    PROVE  /\ PopSent(pm) \in PmType
           /\ PopSent(pm).queue = Tail(pm.queue)
           /\ PopSent(pm).recieveing = pm.recieveing
           /\ PopSent(pm).reads = pm.reads
           /\ PopSent(pm).sending
           /\ Idle(PopSent(pm))
<1>1. pm \in PmType
  BY DEF IInv, TypeOK
<1>2. Tail(pm.queue) \in Seq(Packet)
  BY <1>1, WriteInFlight, HeadTailProperties DEF PmType
<1>3. Tail(pm.writes) = <<>> /\ Tail(pm.writes) \in Seq([packet : Packet, on : SocketState])
  BY WriteInFlight
<1>4. PopSent(pm) = [pm EXCEPT !.writes = Tail(pm.writes), !.queue = Tail(pm.queue)]
  BY DEF PopSent
<1>5. /\ PopSent(pm) \in PmType
      /\ PopSent(pm).queue = Tail(pm.queue)
      /\ PopSent(pm).recieveing = pm.recieveing
      /\ PopSent(pm).reads = pm.reads
      /\ PopSent(pm).sending = pm.sending
      /\ PopSent(pm).writes = Tail(pm.writes)
      /\ PopSent(pm).waits = pm.waits
  BY <1>1, <1>2, <1>3, <1>4 DEF PmType
<1>6. QED
  BY <1>3, <1>5, WriteInFlight DEF Idle, Writing

\* n is what the send handler made of the packet manager it was called on.
HandlerLeft(n) ==
    /\ Idle(n)
    /\ n.sending
    /\ \/ n.queue = Tail(pm.queue) /\ queuedCount' = CountAfterPop
       \/ \E p \in Packet : /\ n.queue = Append(Tail(pm.queue), p)
                            /\ queuedCount' = [CountAfterPop EXCEPT ![p] = @ + 1]
    /\ n.reads = pm.reads
    /\ n.recieveing \in {pm.recieveing, FALSE}
    /\ socket' = "closed" => socket = "closed" \/ ~n.recieveing
    /\ socket' \in SocketState
    /\ pm' \in AfterSent(n, socket')

\* The send handler leaves the send chain, which is its caller, alone.
LEMMA SendHandlerEffect ==
    ASSUME IInv, WriteSucceeds
    PROVE  \E n \in PmType : HandlerLeft(n)
<1> DEFINE m == PopSent(pm)
<1>1. /\ m \in PmType
      /\ m.queue = Tail(pm.queue)
      /\ m.sending
      /\ Idle(m)
      /\ m.recieveing = pm.recieveing
      /\ m.reads = pm.reads
  BY PopSentEffect DEF WriteSucceeds
<1>2. socket \in SocketState /\ pm \in PmType
  BY DEF IInv, TypeOK
<1> HIDE DEF m
<1>3. CASE SendHandled
  <2>1. /\ pm' \in AfterSent(m, socket')
        /\ socket' = socket
        /\ queuedCount' = CountAfterPop
    BY <1>3 DEF SendHandled, m
  <2>2. QED
    BY <1>1, <1>2, <2>1 DEF HandlerLeft
<1>4. ASSUME NEW p \in Packet, SendHandlerQueues(p)
      PROVE  \E n \in PmType : HandlerLeft(n)
  <2> DEFINE n == QueuePacket(m, "open", p)
  <2>1. /\ pm' \in AfterSent(n, socket')
        /\ socket' = "open"
        /\ queuedCount' = [CountAfterPop EXCEPT ![p] = @ + 1]
    BY <1>4 DEF SendHandlerQueues, m
  <2>2. n = [m EXCEPT !.queue = Append(m.queue, p)] /\ n \in PmType
    BY <1>1, QueuePacketBusy
  <2>3. /\ n.queue = Append(m.queue, p)
        /\ n.sending = m.sending
        /\ n.recieveing = m.recieveing
        /\ n.reads = m.reads
        /\ n.writes = m.writes
        /\ n.waits = m.waits
    BY <1>1, <2>2 DEF PmType
  <2> HIDE DEF n
  <2>4. Idle(n)
    BY <1>1, <2>3 DEF Idle
  <2>5. QED
    BY <1>1, <2>1, <2>2, <2>3, <2>4 DEF SocketState, HandlerLeft
<1>5. CASE SendHandlerCloses
  <2> DEFINE n == StopReceive(m)
  <2>1. /\ pm' \in AfterSent(n, "closed")
        /\ socket' = "closed"
        /\ queuedCount' = CountAfterPop
    BY <1>5 DEF SendHandlerCloses, m
  <2>2. /\ n \in PmType
        /\ n.queue = m.queue
        /\ n.sending = m.sending
        /\ n.recieveing = FALSE
        /\ n.reads = m.reads
        /\ n.writes = m.writes
        /\ n.waits = m.waits
    BY <1>1 DEF PmType, StopReceive
  <2> HIDE DEF n
  <2>3. Idle(n)
    BY <1>1, <2>2 DEF Idle
  <2>4. QED
    BY <1>1, <2>1, <2>2, <2>3 DEF SocketState, HandlerLeft
<1>6. QED
  BY <1>3, <1>4, <1>5 DEF WriteSucceeds

\* The queue after a write completed: the front is gone, and the owner may
\* have queued one packet.
LEMMA WriteSucceedsEffect ==
    ASSUME IInv, WriteSucceeds
    PROVE  /\ pm' \in PmType
           /\ \/ pm'.queue = Tail(pm.queue) /\ queuedCount' = CountAfterPop
              \/ \E p \in Packet : /\ pm'.queue = Append(Tail(pm.queue), p)
                                   /\ queuedCount' = [CountAfterPop EXCEPT ![p] = @ + 1]
           /\ \/ pm'.queue = <<>> /\ Idle(pm') /\ ~pm'.sending
              \/ pm'.queue # <<>> /\ Continues(pm') /\ pm'.sending
           /\ pm'.reads = pm.reads
           /\ pm'.recieveing \in {pm.recieveing, FALSE}
           /\ socket' = "closed" => socket = "closed" \/ ~pm'.recieveing
           /\ socket' \in SocketState
<1>1. PICK n \in PmType : HandlerLeft(n)
  BY SendHandlerEffect
<1>2. /\ pm' \in PmType
      /\ SameOwner(pm', n)
      /\ \/ pm'.queue = <<>> /\ Idle(pm') /\ ~pm'.sending
         \/ pm'.queue # <<>> /\ Continues(pm') /\ pm'.sending
  BY <1>1, AfterSentEffect DEF HandlerLeft
<1>3. QED
  BY <1>1, <1>2 DEF HandlerLeft, SameOwner

LEMMA WriteSucceedsPreserves ==
    ASSUME IInv, WriteSucceeds
    PROVE  IInv'
<1>1. pm.writes # <<>> /\ wire' = Append(wire, Sent) /\ UNCHANGED <<sendFailed, received, disconnects>>
  BY DEF WriteSucceeds
<1>2. ~sendFailed /\ Sent \in Packet
  BY <1>1, WriteInFlight
<1>3. TypeOK'
  <2>1. wire' \in Seq(Packet)
    BY <1>1, <1>2, AppendFacts DEF IInv, TypeOK
  <2>2. CountAfterPop \in [Packet -> Int]
    BY <1>2 DEF IInv, TypeOK, CountAfterPop
  <2>3. queuedCount' \in [Packet -> Int]
    BY <2>2, WriteSucceedsEffect
  <2>4. QED
    BY <1>1, <2>1, <2>3, WriteSucceedsEffect DEF IInv, TypeOK
<1>4. SendSide'
  BY <1>1, <1>2, WriteSucceedsEffect DEF SendSide
<1>5. ReceiveEnds'
  BY <1>1, WriteSucceedsEffect DEF IInv, TypeOK, PmType, ReceiveEnds
<1>6. QED
  BY <1>3, <1>4, <1>5 DEF IInv

LEMMA WriteFailsPreserves ==
    ASSUME IInv, WriteFails
    PROVE  IInv'
<1>1. /\ pm \in PmType
      /\ pm.writes # <<>>
      /\ pm' = [StopReceive(pm) EXCEPT !.writes = Tail(pm.writes)]
  BY DEF IInv, TypeOK, WriteFails, SendFailed, StopReceive
<1>2. /\ Tail(pm.writes) = <<>>
      /\ Tail(pm.writes) \in Seq([packet : Packet, on : SocketState])
      /\ pm.queue # <<>>
      /\ pm.sending
      /\ pm.waits = 0
  BY <1>1, WriteInFlight DEF Writing
<1>3. /\ pm' \in PmType
      /\ pm'.queue = pm.queue
      /\ pm'.writes = Tail(pm.writes)
      /\ pm'.waits = pm.waits
      /\ pm'.sending = pm.sending
      /\ pm'.reads = pm.reads
      /\ ~pm'.recieveing
  BY <1>1, <1>2 DEF PmType, StopReceive
<1>4. TypeOK'
  BY <1>3 DEF IInv, TypeOK, WriteFails
<1>5. SendSide'
  BY <1>2, <1>3 DEF SendSide, WriteFails, Idle
<1>6. ReceiveEnds'
  BY <1>3 DEF IInv, ReceiveEnds, WriteFails
<1>7. QED
  BY <1>4, <1>5, <1>6 DEF IInv

\* A timer that fires goes on with the front of the queue it was armed for.
LEMMA TimerFiresEffect ==
    ASSUME IInv, TimerFires
    PROVE  /\ pm' \in PmType
           /\ pm'.queue # <<>>
           /\ pm'.sending
           /\ SameOwner(pm', pm)
           /\ Continues(pm')
           /\ ~sendFailed
<1>1. pm \in PmType /\ socket \in SocketState
  BY DEF IInv, TypeOK
<1>2. ~Idle(pm) /\ ~Writing(pm)
  BY DEF TimerFires, Idle, Writing
<1>3. Waiting(pm) /\ pm.queue # <<>> /\ pm.sending /\ ~sendFailed
  BY <1>2 DEF IInv, SendSide, Continues
<1>4. PICK n \in PmType : n = [pm EXCEPT !.waits = 0]
  BY <1>1 DEF PmType
<1>5. /\ Idle(n)
      /\ n.sending = pm.sending
      /\ SameOwner(n, pm)
  BY <1>1, <1>3, <1>4 DEF PmType, Idle, Waiting, SameOwner
<1>6. pm' = AsyncSend(n, socket)
  <2>1. pm' = AsyncSend([pm EXCEPT !.waits = pm.waits - 1], socket)
    BY DEF TimerFires, TimerFired
  <2>2. pm.waits - 1 = 0
    BY <1>3 DEF Waiting
  <2>3. QED
    BY <1>4, <2>1, <2>2
<1>7. /\ pm' \in PmType
      /\ pm'.sending = n.sending
      /\ SameOwner(pm', n)
      /\ Continues(pm')
  BY <1>1, <1>3, <1>5, <1>6, AsyncSendEffect DEF SameOwner
<1>8. QED
  BY <1>3, <1>5, <1>7 DEF SameOwner

LEMMA TimerFiresPreserves ==
    ASSUME IInv, TimerFires
    PROVE  IInv'
<1>1. TypeOK'
  BY TimerFiresEffect DEF IInv, TypeOK, TimerFires
<1>2. SendSide'
  BY TimerFiresEffect DEF SendSide, TimerFires
<1>3. ReceiveEnds'
  BY TimerFiresEffect DEF IInv, ReceiveEnds, TimerFires, SameOwner
<1>4. QED
  BY <1>1, <1>2, <1>3 DEF IInv

\* The end of the read chain, whether it reports the disconnect or not.
LEMMA ReceiveSidePreserves ==
    ASSUME IInv, PacketArrives \/ ReadFails \/ ReadStops
    PROVE  IInv'
<1>1. pm \in PmType /\ TypeOK /\ SendSide /\ ReceiveEnds
  BY DEF IInv, TypeOK
<1>2. CASE PacketArrives
  BY <1>1, <1>2
     DEF IInv, PacketArrives, TypeOK, SendSide, ReceiveEnds, Continues, Idle, Writing, Waiting
<1>3. CASE ReadFails \/ ReadStops
  <2>1. pm.reads = 1 /\ pm' = [pm EXCEPT !.reads = pm.reads - 1]
    BY <1>1, <1>3 DEF ReadFails, ReadStops, EndReceive, ReceiveEnds, PmType
  <2>2. pm' = [pm EXCEPT !.reads = 0]
    BY <2>1
  <2>3. /\ pm' \in PmType
        /\ pm'.queue = pm.queue
        /\ pm'.sending = pm.sending
        /\ pm'.writes = pm.writes
        /\ pm'.waits = pm.waits
        /\ pm'.recieveing = pm.recieveing
        /\ pm'.reads = 0
    BY <1>1, <2>2 DEF PmType
  <2>4. TypeOK'
    BY <1>1, <1>3, <2>3 DEF TypeOK, ReadFails, ReadStops
  <2>5. SendSide'
    BY <1>1, <1>3, <2>3
       DEF SendSide, Continues, Idle, Writing, Waiting, ReadFails, ReadStops
  <2>6. ReceiveEnds'
    BY <1>1, <1>3, <2>3 DEF ReceiveEnds, ReadFails, ReadStops
  <2>7. QED
    BY <2>4, <2>5, <2>6 DEF IInv
<1>4. QED
  BY <1>2, <1>3

LEMMA StepPreserves == IInv /\ [Next]_vars => IInv'
<1> SUFFICES ASSUME IInv, [Next]_vars PROVE IInv'
  OBVIOUS
<1>1. ASSUME NEW p \in Packet, Queue(p) PROVE IInv'
  BY <1>1, QueuePreserves
<1>2. CASE Close
  BY <1>2, ClosePreserves
<1>3. CASE WriteSucceeds
  BY <1>3, WriteSucceedsPreserves
<1>4. CASE WriteFails
  BY <1>4, WriteFailsPreserves
<1>5. CASE TimerFires
  BY <1>5, TimerFiresPreserves
<1>6. CASE PacketArrives \/ ReadFails \/ ReadStops
  BY <1>6, ReceiveSidePreserves
<1>7. CASE UNCHANGED vars
  BY <1>7 DEF vars, IInv, TypeOK, SendSide, ReceiveEnds, Continues, Idle, Writing, Waiting
<1>8. QED
  BY <1>1, <1>2, <1>3, <1>4, <1>5, <1>6, <1>7 DEF Next

LEMMA Invariance == Spec => []IInv
<1>1. QED
  BY InitIInv, StepPreserves, PTL DEF Spec

LEMMA SendSideInvariants ==
    IInv => OneSendChain /\ InFlightIsFront /\ NoSilentStall /\ FailureIsFinal
  BY SendSideFacts DEF IInv

-----------------------------------------------------------------------------
(* Theorems *)

\* The variables of a packet manager (packet_manager.hpp) keep their types.
THEOREM TypeCorrect == Spec => []TypeOK
<1>1. IInv => TypeOK
  BY DEF IInv
<1>2. QED
  BY <1>1, Invariance, PTL

\* m_sending is a lock: doSend never has two operations on one socket, and
\* never looks for the front of an empty queue.
THEOREM SendChainIsSingle == Spec => []OneSendChain
<1>1. IInv => OneSendChain
  BY SendSideInvariants
<1>2. QED
  BY <1>1, Invariance, PTL

\* The completion handler of a write pops the packet that was written.
THEOREM PopsWhatWasSent == Spec => []InFlightIsFront
<1>1. IInv => InFlightIsFront
  BY SendSideInvariants
<1>2. QED
  BY <1>1, Invariance, PTL

\* Packets wait in the queue only behind a pending operation, a failed write
\* or an oversized packet.
THEOREM NeverStallsSilently == Spec => []NoSilentStall
<1>1. IInv => NoSilentStall
  BY SendSideInvariants
<1>2. QED
  BY <1>1, Invariance, PTL

\* After a failed write queuePacket can no longer start the send chain.
THEOREM FailureEndsSending == Spec => []FailureIsFinal
<1>1. IInv => FailureIsFinal
  BY SendSideInvariants
<1>2. QED
  BY <1>1, Invariance, PTL

\* doReceive hands no packet to an owner that was told of the disconnect, by
\* either side, or that closed the connection.
THEOREM DisconnectEndsReceiving == Spec => NoReceiveAfterDisconnect
<1>1. IInv /\ [Next]_vars =>
        [received' # received => disconnects = 0 /\ socket = "open"]_vars
  <2> SUFFICES ASSUME IInv, [Next]_vars, received' # received
               PROVE  disconnects = 0 /\ socket = "open"
    OBVIOUS
  <2>1. PacketArrives
    BY DEF Next, Queue, Close, WriteSucceeds, WriteFails, TimerFires, ReadFails,
           ReadStops, vars
  <2>2. pm.recieveing /\ pm.reads > 0 /\ disconnects \in Nat /\ socket \in SocketState
    BY <2>1 DEF PacketArrives, IInv, TypeOK
  <2>3. QED
    BY <2>2 DEF IInv, ReceiveEnds, SocketState
<1>2. QED
  BY <1>1, Invariance, PTL DEF Spec, NoReceiveAfterDisconnect

-----------------------------------------------------------------------------
(* The abstract channel *)

\* A step that leaves the wire, the queue and the failure flag alone.
LEMMA ChannelStutters ==
    ASSUME UNCHANGED <<wire, sendFailed>>, pm'.queue = pm.queue
    PROVE  [Channel!Next]_(Channel!vars)
  BY DEF Channel!vars

LEMMA QueueAppends ==
    ASSUME IInv, NEW p \in Packet, Queue(p)
    PROVE  pm'.queue = Append(pm.queue, p)
<1>1. pm \in PmType
  BY DEF IInv, TypeOK
<1>2. pm' = QueuePacket(pm, "open", p)
  BY DEF Queue
<1>3. CASE pm.sending
  <2>1. pm' = [pm EXCEPT !.queue = Append(pm.queue, p)]
    BY <1>1, <1>2, <1>3, QueuePacketBusy
  <2>2. QED
    BY <1>1, <2>1 DEF PmType
<1>4. CASE ~pm.sending
  BY <1>1, <1>2, <1>4, QueuePacketIdle DEF IInv, SendSide
<1>5. QED
  BY <1>3, <1>4

LEMMA QueueAccepts ==
    ASSUME IInv, NEW p \in Packet, Queue(p)
    PROVE  [Channel!Next]_(Channel!vars)
<1>1. pm \in PmType /\ wire \in Seq(Packet) /\ UNCHANGED <<wire, sendFailed>>
  BY DEF IInv, TypeOK, Queue
<1>2. pm'.queue = Append(pm.queue, p)
  BY QueueAppends
<1>3. wire' \o pm'.queue = Append(wire \o pm.queue, p)
  BY <1>1, <1>2, AppendToConcat DEF PmType
<1>4. Channel!Accept(p)
  BY <1>1, <1>3 DEF Channel!Accept
<1>5. QED
  BY <1>4 DEF Channel!Next

LEMMA WriteDelivers ==
    ASSUME IInv, WriteSucceeds
    PROVE  [Channel!Next]_(Channel!vars)
<1>1. /\ pm \in PmType
      /\ pm.queue \in Seq(Packet)
      /\ wire \in Seq(Packet)
      /\ wire' = Append(wire, Sent)
      /\ sendFailed' = sendFailed
  BY DEF IInv, TypeOK, PmType, WriteSucceeds
<1>2. pm.queue # <<>> /\ ~sendFailed /\ Sent = Head(pm.queue) /\ Sent \in Packet
  BY WriteInFlight DEF WriteSucceeds
<1>3. /\ Append(wire, Sent) \o Tail(pm.queue) = wire \o pm.queue
      /\ Len(wire) < Len(wire \o pm.queue)
      /\ (wire \o pm.queue)[Len(wire) + 1] = Sent
  BY <1>1, <1>2, MoveFront
<1>4. wire' \in Seq(Packet) /\ Tail(pm.queue) \in Seq(Packet)
  BY <1>1, <1>2, AppendFacts, HeadTailProperties
<1>5. \/ wire' \o pm'.queue = wire \o pm.queue
      \/ \E p \in Packet : wire' \o pm'.queue = Append(wire \o pm.queue, p)
  <2>1. CASE pm'.queue = Tail(pm.queue)
    BY <1>1, <1>3, <2>1
  <2>2. ASSUME NEW p \in Packet, pm'.queue = Append(Tail(pm.queue), p)
        PROVE  wire' \o pm'.queue = Append(wire \o pm.queue, p)
    <3>1. wire' \o Append(Tail(pm.queue), p) = Append(wire' \o Tail(pm.queue), p)
      BY <1>4, AppendToConcat
    <3>2. QED
      BY <1>1, <1>3, <2>2, <3>1
  <2>3. \/ pm'.queue = Tail(pm.queue)
        \/ \E p \in Packet : pm'.queue = Append(Tail(pm.queue), p)
    BY WriteSucceedsEffect
  <2>4. QED
    BY <2>1, <2>2, <2>3
<1>6. Channel!Deliver
  BY <1>1, <1>2, <1>3, <1>5 DEF Channel!Deliver
<1>7. QED
  BY <1>6 DEF Channel!Next

LEMMA WriteFailureBreaks ==
    ASSUME IInv, WriteFails
    PROVE  [Channel!Next]_(Channel!vars)
<1>1. pm'.queue = pm.queue /\ wire' = wire /\ sendFailed' = TRUE
  BY DEF IInv, TypeOK, PmType, WriteFails, SendFailed, StopReceive
<1>2. Channel!Break
  BY <1>1 DEF Channel!Break
<1>3. QED
  BY <1>2 DEF Channel!Next

LEMMA OthersStutter ==
    ASSUME IInv, Close \/ TimerFires \/ PacketArrives \/ ReadFails \/ ReadStops
    PROVE  [Channel!Next]_(Channel!vars)
<1>1. UNCHANGED <<wire, sendFailed>>
  BY DEF Close, TimerFires, PacketArrives, ReadFails, ReadStops
<1>2. CASE TimerFires
  BY <1>1, <1>2, TimerFiresEffect, ChannelStutters DEF SameOwner
<1>3. CASE Close \/ PacketArrives \/ ReadFails \/ ReadStops
  <2>1. pm'.queue = pm.queue
    BY <1>3 DEF IInv, TypeOK, PmType, Close, PacketArrives, ReadFails, ReadStops,
                StopReceive, EndReceive
  <2>2. QED
    BY <1>1, <2>1, ChannelStutters
<1>4. QED
  BY <1>2, <1>3

\* A packet manager implements the abstract channel: what it writes to the
\* socket is what its owner queued, in that order, without a gap or a repeat,
\* until a write fails, and nothing after that.
THEOREM ImplementsChannel == Spec => ChannelSpec
<1>1. Init => Channel!Init
  <2> SUFFICES ASSUME Init PROVE Channel!Init
    OBVIOUS
  <2>1. wire = <<>> /\ sendFailed = FALSE /\ pm.queue = <<>>
    BY DEF Init, StartReceive, NewPacketManager
  <2>2. wire \o pm.queue = <<>>
    BY <2>1
  <2>3. QED
    BY <2>1, <2>2 DEF Channel!Init
<1>2. IInv /\ [Next]_vars => [Channel!Next]_(Channel!vars)
  <2> SUFFICES ASSUME IInv, [Next]_vars
               PROVE  [Channel!Next]_(Channel!vars)
    OBVIOUS
  <2>1. ASSUME NEW p \in Packet, Queue(p) PROVE [Channel!Next]_(Channel!vars)
    BY <2>1, QueueAccepts
  <2>2. CASE WriteSucceeds
    BY <2>2, WriteDelivers
  <2>3. CASE WriteFails
    BY <2>3, WriteFailureBreaks
  <2>4. CASE Close \/ TimerFires \/ PacketArrives \/ ReadFails \/ ReadStops
    BY <2>4, OthersStutter
  <2>5. CASE UNCHANGED vars
    BY <2>5, ChannelStutters DEF vars
  <2>6. QED
    BY <2>1, <2>2, <2>3, <2>4, <2>5 DEF Next
<1>3. QED
  BY <1>1, <1>2, Invariance, PTL DEF Spec, ChannelSpec, Channel!Spec

-----------------------------------------------------------------------------
(* m_queued_count *)

LEMMA OccurrencesArePlaces == \A s, p : Occurrences(s, p) = Places(s, p)
BY DEF Occurrences, Places

\* Popping the packet that was sent and taking it off its counter go together,
\* as do pushing a packet and counting it.
LEMMA CountsStayExact ==
    ASSUME IInv, QueuedCountExact, [Next]_vars
    PROVE  QueuedCountExact'
<1>1. pm \in PmType /\ pm.queue \in Seq(Packet) /\ queuedCount \in [Packet -> Int]
  BY DEF IInv, TypeOK, PmType
<1>2. ASSUME NEW p \in Packet, Queue(p) PROVE QueuedCountExact'
  <2>1. pm'.queue = Append(pm.queue, p)
    BY <1>2, QueueAppends
  <2>2. queuedCount' = [queuedCount EXCEPT ![p] = @ + 1]
    BY <1>2 DEF Queue
  <2>3. ASSUME NEW q \in Packet
        PROVE  queuedCount'[q] = Occurrences(pm'.queue, q)
    <3>1. /\ p = q => Occurrences(pm'.queue, q) = queuedCount[q] + 1
          /\ p # q => Occurrences(pm'.queue, q) = queuedCount[q]
      BY <1>1, <2>1, PlacesAppend, OccurrencesArePlaces DEF QueuedCountExact
    <3>2. QED
      BY <1>1, <2>2, <3>1
  <2>4. QED
    BY <2>3 DEF QueuedCountExact
<1>3. CASE WriteSucceeds
  <2>1. pm.queue # <<>> /\ Sent = Head(pm.queue) /\ Sent \in Packet
    BY <1>3, WriteInFlight DEF WriteSucceeds
  <2>2. Tail(pm.queue) \in Seq(Packet)
    BY <1>1, <2>1, HeadTailProperties
  <2>3. CountAfterPop \in [Packet -> Int]
    BY <1>1, <2>1 DEF CountAfterPop
  <2>4. ASSUME NEW q \in Packet PROVE CountAfterPop[q] = Occurrences(Tail(pm.queue), q)
    <3>1. /\ Sent = q => Occurrences(Tail(pm.queue), q) = queuedCount[q] - 1
          /\ Sent # q => Occurrences(Tail(pm.queue), q) = queuedCount[q]
      BY <1>1, <2>1, PlacesTail, OccurrencesArePlaces DEF QueuedCountExact
    <3>2. QED
      BY <1>1, <3>1 DEF CountAfterPop
  <2>5. CASE pm'.queue = Tail(pm.queue) /\ queuedCount' = CountAfterPop
    BY <2>4, <2>5 DEF QueuedCountExact
  <2>6. ASSUME NEW p \in Packet,
               pm'.queue = Append(Tail(pm.queue), p),
               queuedCount' = [CountAfterPop EXCEPT ![p] = @ + 1],
               NEW q \in Packet
        PROVE  queuedCount'[q] = Occurrences(pm'.queue, q)
    <3>1. /\ p = q => Occurrences(pm'.queue, q) = CountAfterPop[q] + 1
          /\ p # q => Occurrences(pm'.queue, q) = CountAfterPop[q]
      <4>1. PICK t \in Seq(Packet) : t = Tail(pm.queue)
        BY <2>2
      <4>2. pm'.queue = Append(t, p) /\ CountAfterPop[q] = Occurrences(t, q)
        BY <2>4, <2>6, <4>1
      <4>3. /\ p = q => Occurrences(Append(t, p), q) = Occurrences(t, q) + 1
            /\ p # q => Occurrences(Append(t, p), q) = Occurrences(t, q)
        BY PlacesAppend, OccurrencesArePlaces
      <4>4. QED
        BY <4>2, <4>3
    <3>2. QED
      BY <2>3, <2>6, <3>1
  <2>7. QED
    BY <1>3, <2>5, <2>6, WriteSucceedsEffect DEF QueuedCountExact
<1>4. CASE WriteFails \/ Close \/ TimerFires \/ PacketArrives \/ ReadFails \/ ReadStops \/ UNCHANGED vars
  <2>1. pm'.queue = pm.queue
    <3>1. CASE TimerFires
      BY <3>1, TimerFiresEffect DEF SameOwner
    <3>2. CASE WriteFails \/ Close \/ PacketArrives \/ ReadFails \/ ReadStops \/ UNCHANGED vars
      BY <1>1, <3>2 DEF PmType, WriteFails, SendFailed, Close, PacketArrives, ReadFails,
                        ReadStops, StopReceive, EndReceive, vars
    <3>3. QED
      BY <1>4, <3>1, <3>2
  <2>2. queuedCount' = queuedCount
    BY <1>4 DEF WriteFails, Close, TimerFires, PacketArrives, ReadFails, ReadStops, vars
  <2>3. QED
    BY <2>1, <2>2 DEF QueuedCountExact
<1>5. QED
  BY <1>2, <1>3, <1>4 DEF Next

\* isQueued answers for the queue as it is: m_queued_count is the number of
\* places a packet has in the queue, in every state.
THEOREM QueuedCountCorrect == Spec => []QueuedCountExact
<1>1. Init => QueuedCountExact
  <2> SUFFICES ASSUME Init, NEW p \in Packet
               PROVE  queuedCount[p] = Occurrences(pm.queue, p)
    BY DEF QueuedCountExact
  <2>1. pm.queue = <<>> /\ queuedCount[p] = 0
    BY DEF Init, StartReceive, NewPacketManager
  <2>2. {i \in 1..Len(<<>>) : <<>>[i] = p} = {}
    OBVIOUS
  <2>3. QED
    BY <2>1, <2>2, FS_EmptySet DEF Occurrences
<1>2. IInv /\ QueuedCountExact /\ [Next]_vars => QueuedCountExact'
  BY CountsStayExact
<1>3. QED
  BY <1>1, <1>2, Invariance, PTL DEF Spec
=============================================================================
