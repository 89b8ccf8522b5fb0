---------------------------- MODULE ClientProofs ----------------------------
(***************************************************************************)
(* Proofs about Client for any number of connections and acts and for      *)
(* files of any size: the types, what is left when there is no connection, *)
(* and that the two packet objects the client uses again, m_chat_packet    *)
(* and m_file_packet, are queued once.                                     *)
(*                                                                         *)
(* The first lemmas say what the operators of PacketManagerState do to one *)
(* packet manager, the next ones what becomes of a queue.                  *)
(***************************************************************************)
EXTENDS Client, SequenceTheorems, NaturalsInduction, WellFoundedInduction, TLAPS

Writing == [packet : PacketType, on : SocketState]

\* One write, of the front of the queue.
WritesFront(m) == \E o \in SocketState : m.writes = <<[packet |-> Head(m.queue), on |-> o]>>

\* The packet manager a send handler is called on.
Handling(m) == m.writes = <<>> /\ m.waits = 0 /\ m.sending

\* The send side of a packet manager: nothing to send, or a chain that
\* waits or writes the front, or one that died of a failed write and keeps
\* its queue.
SendSide(m) ==
    \/ m.queue = <<>> /\ m.writes = <<>> /\ m.waits = 0 /\ ~m.sending
    \/ /\ m.queue # <<>> /\ m.sending
       /\ \/ m.writes = <<>> /\ m.waits \in {0, 1}
          \/ WritesFront(m) /\ m.waits = 0

\* The receive side is the same.
SameReads(n, m) == n.recieveing = m.recieveing /\ n.reads = m.reads

-----------------------------------------------------------------------------
(* The operators on one packet manager *)

\* Appending keeps the type of a queue, and its front.
LEMMA AppendFacts ==
    ASSUME NEW S, NEW q \in Seq(S), NEW e \in S
    PROVE  /\ Append(q, e) \in Seq(S)
           /\ Append(q, e) # <<>>
           /\ q # <<>> => Head(Append(q, e)) = Head(q)
  BY AppendProperties, EmptySeq

\* asyncSend of the front, when nothing is being written.
LEMMA AsyncSendEffect ==
    ASSUME NEW m \in PmState, NEW o \in SocketState, m.queue # <<>>, Handling(m)
    PROVE  /\ PM!AsyncSend(m, o) \in PmState
           /\ SendSide(PM!AsyncSend(m, o))
           /\ PM!AsyncSend(m, o).queue = m.queue
           /\ SameReads(PM!AsyncSend(m, o), m)
<1> DEFINE w == [packet |-> Head(m.queue), on |-> o]
<1> DEFINE n == [m EXCEPT !.writes = <<w>>]
<1>1. PM!AsyncSend(m, o) = n
  BY DEF PM!AsyncSend, Handling
<1>2. w \in Writing
  BY HeadTailProperties DEF PmState, Writing
<1>3. <<w>> \in Seq(Writing)
  BY <1>2
<1> HIDE DEF w
<1>4. /\ n \in PmState
      /\ n.queue = m.queue
      /\ n.sending = m.sending
      /\ n.recieveing = m.recieveing
      /\ n.reads = m.reads
      /\ n.waits = m.waits
      /\ n.writes = <<w>>
  BY <1>3 DEF PmState, Writing
<1> HIDE DEF n
<1>5. WritesFront(n)
  BY <1>4 DEF WritesFront, w
<1>6. QED
  BY <1>1, <1>4, <1>5 DEF SendSide, SameReads, Handling

\* queuePacket appends to the queue unless the socket is closed, and starts
\* a chain when there is none.
LEMMA QueuePacketEffect ==
    ASSUME NEW m \in PmState, NEW o \in SocketState, NEW p \in PacketType,
           SendSide(m) \/ Handling(m)
    PROVE  /\ PM!QueuePacket(m, o, p) \in PmState
           /\ PM!QueuePacket(m, o, p).queue = IF o = "closed" THEN m.queue ELSE Append(m.queue, p)
           /\ SameReads(PM!QueuePacket(m, o, p), m)
           /\ SendSide(m) => SendSide(PM!QueuePacket(m, o, p))
           /\ Handling(m) => Handling(PM!QueuePacket(m, o, p))
<1>1. /\ Append(m.queue, p) \in Seq(PacketType)
      /\ Append(m.queue, p) # <<>>
      /\ m.queue # <<>> => Head(Append(m.queue, p)) = Head(m.queue)
  BY AppendFacts DEF PmState
<1>2. CASE o = "closed"
  BY <1>2 DEF PM!QueuePacket, SameReads
<1>3. CASE o # "closed" /\ m.sending
  <2> DEFINE n == [m EXCEPT !.queue = Append(m.queue, p)]
  <2>1. PM!QueuePacket(m, o, p) = n
    BY <1>3 DEF PM!QueuePacket, PM!Enqueue
  <2>2. /\ n \in PmState
        /\ n.queue = Append(m.queue, p)
        /\ n.sending = m.sending
        /\ n.writes = m.writes
        /\ n.waits = m.waits
        /\ SameReads(n, m)
    BY <1>1 DEF PmState, SameReads
  <2> HIDE DEF n
  <2>3. SendSide(m) => SendSide(n)
    BY <1>1, <1>3, <2>2 DEF SendSide, WritesFront
  <2>4. Handling(m) => Handling(n)
    BY <2>2 DEF Handling
  <2>5. QED
    BY <1>3, <2>1, <2>2, <2>3, <2>4
<1>4. CASE o # "closed" /\ ~m.sending
  <2> DEFINE n == [m EXCEPT !.queue = Append(m.queue, p), !.sending = TRUE]
  <2>1. PM!QueuePacket(m, o, p) = PM!AsyncSend(n, o)
    BY <1>4 DEF PM!QueuePacket, PM!EnqueueFirst
  <2>2. /\ n \in PmState
        /\ n.queue = Append(m.queue, p)
        /\ n.sending
        /\ n.writes = m.writes
        /\ n.waits = m.waits
        /\ SameReads(n, m)
    BY <1>1 DEF PmState, SameReads
  <2> HIDE DEF n
  <2>3. SendSide(m) /\ ~Handling(m)
    BY <1>4 DEF Handling
  <2>4. Handling(n)
    BY <1>4, <2>2, <2>3 DEF SendSide, Handling
  <2>5. QED
    BY <1>1, <1>4, <2>1, <2>2, <2>3, <2>4, AsyncSendEffect DEF SameReads
<1>5. QED
  BY <1>2, <1>3, <1>4

\* The rest of doSend's completion handler: the chain ends, waits or writes.
LEMMA AfterSentEffect ==
    ASSUME NEW m \in PmState, NEW o \in SocketState, Handling(m),
           NEW r \in PM!AfterSent(m, o)
    PROVE  /\ r \in PmState
           /\ SendSide(r)
           /\ r.queue = m.queue
           /\ SameReads(r, m)
<1>1. CASE m.queue = <<>>
  <2>1. r = [m EXCEPT !.sending = FALSE]
    BY <1>1 DEF PM!AfterSent
  <2>2. /\ r \in PmState
        /\ r.queue = m.queue
        /\ r.writes = m.writes
        /\ r.waits = m.waits
        /\ ~r.sending
        /\ SameReads(r, m)
    BY <2>1 DEF PmState, SameReads
  <2>3. QED
    BY <1>1, <2>2 DEF SendSide, Handling
<1>2. CASE m.queue # <<>> /\ r = PM!AsyncSend(m, o)
  BY <1>2, AsyncSendEffect
<1>3. CASE m.queue # <<>> /\ r = PM!ArmTimer(m)
  <2>1. m.waits = 0 /\ m.waits + 1 = 1
    BY DEF Handling
  <2>2. r = [m EXCEPT !.waits = 1]
    BY <1>3, <2>1 DEF PM!ArmTimer
  <2>3. /\ r \in PmState
        /\ r.queue = m.queue
        /\ r.writes = m.writes
        /\ r.sending = m.sending
        /\ r.waits = 1
        /\ SameReads(r, m)
    BY <2>2 DEF PmState, SameReads
  <2>4. QED
    BY <1>3, <2>3 DEF SendSide, Handling
<1>4. m.queue # <<>> => r = PM!AsyncSend(m, o) \/ r = PM!ArmTimer(m)
  BY DEF PM!AfterSent, PM!DoSend
<1>5. QED
  BY <1>1, <1>2, <1>3, <1>4

\* A write that is in flight is of the front, and popping it leaves the
\* packet manager to the send handler.
LEMMA PopSentEffect ==
    ASSUME NEW m \in PmState, SendSide(m), m.writes # <<>>
    PROVE  /\ m.queue # <<>>
           /\ Head(m.writes).packet = Head(m.queue)
           /\ Head(m.queue) \in PacketType
           /\ PM!PopSent(m) \in PmState
           /\ Handling(PM!PopSent(m))
           /\ PM!PopSent(m).queue = Tail(m.queue)
           /\ SameReads(PM!PopSent(m), m)
<1>1. m.queue # <<>> /\ m.sending /\ m.waits = 0 /\ WritesFront(m)
  BY DEF SendSide
<1>2. PICK o \in SocketState : m.writes = <<[packet |-> Head(m.queue), on |-> o]>>
  BY <1>1 DEF WritesFront
<1>3. Head(m.queue) \in PacketType /\ Tail(m.queue) \in Seq(PacketType)
  BY <1>1, HeadTailProperties DEF PmState
<1>4. Head(m.writes).packet = Head(m.queue) /\ Tail(m.writes) = <<>>
  BY <1>2
<1>5. <<>> \in Seq([packet : PacketType, on : SocketState])
  OBVIOUS
<1>6. QED
  BY <1>1, <1>3, <1>4, <1>5 DEF PM!PopSent, PmState, Handling, SameReads

\* A failed write ends receiving and leaves the chain dead.
LEMMA SendFailedEffect ==
    ASSUME NEW m \in PmState, SendSide(m), m.writes # <<>>
    PROVE  /\ PM!SendFailed(m) \in PmState
           /\ SendSide(PM!SendFailed(m))
           /\ PM!SendFailed(m).queue = m.queue
           /\ ~PM!SendFailed(m).recieveing
           /\ PM!SendFailed(m).reads = m.reads
           /\ PM!SendFailed(m).writes = <<>>
<1>1. m.queue # <<>> /\ m.sending /\ m.waits = 0 /\ WritesFront(m)
  BY DEF SendSide
<1>2. PICK o \in SocketState : m.writes = <<[packet |-> Head(m.queue), on |-> o]>>
  BY <1>1 DEF WritesFront
<1>3. Tail(m.writes) = <<>>
  BY <1>2
<1>4. <<>> \in Seq([packet : PacketType, on : SocketState])
  OBVIOUS
<1> DEFINE n == [m EXCEPT !.recieveing = FALSE, !.writes = <<>>]
<1>5. PM!SendFailed(m) = n
  BY <1>3 DEF PM!SendFailed, PM!StopReceive
<1>6. /\ n \in PmState
      /\ n.queue = m.queue
      /\ n.sending = m.sending
      /\ n.waits = m.waits
      /\ n.writes = <<>>
      /\ ~n.recieveing
      /\ n.reads = m.reads
  BY <1>4 DEF PmState
<1> HIDE DEF n
<1>7. QED
  BY <1>1, <1>5, <1>6 DEF SendSide

\* The pacing wait is over, and the front is written.
LEMMA TimerFiredEffect ==
    ASSUME NEW m \in PmState, NEW o \in SocketState, SendSide(m), m.waits > 0
    PROVE  /\ PM!TimerFired(m, o) \in PmState
           /\ SendSide(PM!TimerFired(m, o))
           /\ PM!TimerFired(m, o).queue = m.queue
           /\ SameReads(PM!TimerFired(m, o), m)
<1>1. m.queue # <<>> /\ m.sending /\ m.writes = <<>> /\ m.waits = 1
  BY DEF SendSide
<1>2. m.waits - 1 = 0
  BY <1>1
<1> DEFINE n == [m EXCEPT !.waits = 0]
<1>3. PM!TimerFired(m, o) = PM!AsyncSend(n, o)
  BY <1>2 DEF PM!TimerFired
<1>4. /\ n \in PmState
      /\ n.queue = m.queue
      /\ n.sending = m.sending
      /\ n.writes = m.writes
      /\ n.waits = 0
      /\ SameReads(n, m)
  BY DEF PmState, SameReads
<1> HIDE DEF n
<1>5. Handling(n) /\ n.queue # <<>>
  BY <1>1, <1>4 DEF Handling
<1>6. /\ PM!AsyncSend(n, o) \in PmState
      /\ SendSide(PM!AsyncSend(n, o))
      /\ PM!AsyncSend(n, o).queue = n.queue
      /\ SameReads(PM!AsyncSend(n, o), n)
  BY <1>4, <1>5, AsyncSendEffect
<1>7. SameReads(PM!AsyncSend(n, o), m)
  BY <1>4, <1>6 DEF SameReads
<1>8. QED
  BY <1>3, <1>4, <1>6, <1>7

\* The receive chain is told to stop, or ends; sending is not touched.
LEMMA ReceiveEffect ==
    ASSUME NEW m \in PmState, SendSide(m)
    PROVE  /\ PM!StopReceive(m) \in PmState
           /\ SendSide(PM!StopReceive(m))
           /\ PM!StopReceive(m).queue = m.queue
           /\ ~PM!StopReceive(m).recieveing
           /\ PM!StopReceive(m).reads = m.reads
           /\ PM!StopReceive(m).writes = m.writes
           /\ m.reads > 0 => /\ PM!EndReceive(m) \in PmState
                             /\ SendSide(PM!EndReceive(m))
                             /\ PM!EndReceive(m).queue = m.queue
                             /\ PM!EndReceive(m).recieveing = m.recieveing
                             /\ PM!EndReceive(m).reads = 0
                             /\ PM!EndReceive(m).writes = m.writes
<1> DEFINE s == PM!StopReceive(m)
<1> DEFINE e == PM!EndReceive(m)
<1>1. /\ s \in PmState
      /\ s.queue = m.queue /\ s.sending = m.sending
      /\ s.writes = m.writes /\ s.waits = m.waits
      /\ ~s.recieveing /\ s.reads = m.reads
  BY DEF PM!StopReceive, PmState
<1>2. m.reads > 0 => /\ e \in PmState
                     /\ e.queue = m.queue /\ e.sending = m.sending
                     /\ e.writes = m.writes /\ e.waits = m.waits
                     /\ e.recieveing = m.recieveing /\ e.reads = 0
  <2>1. m.reads > 0 => m.reads - 1 = 0
    BY DEF PmState
  <2>2. QED
    BY <2>1 DEF PM!EndReceive, PmState
<1> HIDE DEF s, e
<1>3. SendSide(s) /\ (m.reads > 0 => SendSide(e))
  BY <1>1, <1>2 DEF SendSide, WritesFront
<1>4. QED
  BY <1>1, <1>2, <1>3 DEF s, e

\* A packet manager that nobody has used.
LEMMA NewEffect ==
    /\ PM!NewPacketManager \in PmState
    /\ SendSide(PM!NewPacketManager)
    /\ PM!NewPacketManager.queue = <<>>
    /\ PM!NewPacketManager.writes = <<>>
    /\ PM!NewPacketManager.reads = 0
<1>1. <<>> \in Seq(PacketType) /\ <<>> \in Seq([packet : PacketType, on : SocketState])
  OBVIOUS
<1>2. QED
  BY <1>1 DEF PM!NewPacketManager, PmState, SendSide

\* startReceive, of one that does not read yet.
LEMMA StartReceiveEffect ==
    ASSUME NEW m \in PmState, SendSide(m), m.reads = 0, NEW o \in {"open", "closed"}
    PROVE  /\ PM!StartReceive(m, o) \in PmState
           /\ SendSide(PM!StartReceive(m, o))
           /\ PM!StartReceive(m, o).queue = m.queue
           /\ PM!StartReceive(m, o).writes = m.writes
<1> DEFINE s == [m EXCEPT !.recieveing = TRUE, !.reads = 1]
<1>1. m.reads + 1 = 1 /\ 1 \in 0..1
  OBVIOUS
<1>2. PM!StartReceive(m, o) = IF o = "open" THEN s ELSE m
  BY <1>1 DEF PM!StartReceive
<1>3. /\ s \in PmState
      /\ s.queue = m.queue /\ s.sending = m.sending
      /\ s.writes = m.writes /\ s.waits = m.waits
  BY <1>1 DEF PmState
<1> HIDE DEF s
<1>4. SendSide(s)
  BY <1>3 DEF SendSide, WritesFront
<1>5. QED
  BY <1>2, <1>3, <1>4

-----------------------------------------------------------------------------
(* Packets of a kind in a queue *)

Free(q, K) == \A i \in 1..Len(q) : q[i] \notin K
Once(q, K) == \A i, j \in 1..Len(q) : {q[i], q[j]} \subseteq K => i = j

\* The queue r that q has become has no packets of the kind that q had not.
Keeps(q, r, K) == (Free(q, K) => Free(r, K)) /\ (Once(q, K) => Once(r, K))

LEMMA KeepsTail ==
    ASSUME NEW q \in Seq(PacketType), q # <<>>, NEW K
    PROVE  /\ Keeps(q, Tail(q), K)
           /\ Head(q) \in K /\ Once(q, K) => Free(Tail(q), K)
           /\ Free(q, K) => Head(q) \notin K
<1>1. /\ Len(q) \in Nat /\ Len(q) >= 1
      /\ Len(Tail(q)) = Len(q) - 1
      /\ \A i \in 1..Len(Tail(q)) : i + 1 \in 1..Len(q) /\ Tail(q)[i] = q[i + 1]
      /\ Head(q) = q[1] /\ 1 \in 1..Len(q)
  BY HeadTailProperties, EmptySeq, LenProperties
<1> DEFINE t == Tail(q)
<1> HIDE DEF t
<1>2. Free(q, K) => Free(t, K)
  BY <1>1 DEF Free, t
<1>3. Once(q, K) => Once(t, K)
  <2>1. SUFFICES ASSUME Once(q, K), NEW i \in 1..Len(t), NEW j \in 1..Len(t),
                        {t[i], t[j]} \subseteq K
                 PROVE  i = j
    BY DEF Once
  <2> DEFINE k == i + 1
  <2> DEFINE l == j + 1
  <2>2. k \in 1..Len(q) /\ l \in 1..Len(q) /\ t[i] = q[k] /\ t[j] = q[l]
    BY <1>1 DEF t
  <2>3. i = j <=> k = l
    OBVIOUS
  <2> HIDE DEF k, l
  <2>4. QED
    BY <2>1, <2>2, <2>3 DEF Once
<1>4. Head(q) \in K /\ Once(q, K) => Free(t, K)
  <2>1. SUFFICES ASSUME Head(q) \in K, Once(q, K), NEW i \in 1..Len(t), t[i] \in K
                 PROVE  FALSE
    BY DEF Free
  <2> DEFINE k == i + 1
  <2>2. k \in 1..Len(q) /\ t[i] = q[k] /\ k # 1
    BY <1>1 DEF t
  <2> HIDE DEF k
  <2>3. {q[1], q[k]} \subseteq K
    BY <1>1, <2>1, <2>2
  <2>4. QED
    BY <1>1, <2>1, <2>2, <2>3 DEF Once
<1>5. Free(q, K) => Head(q) \notin K
  BY <1>1 DEF Free
<1>6. QED
  BY <1>2, <1>3, <1>4, <1>5 DEF Keeps, t

LEMMA KeepsAppend ==
    ASSUME NEW q \in Seq(PacketType), NEW p \in PacketType, NEW K
    PROVE  /\ p \notin K => Keeps(q, Append(q, p), K)
           /\ Free(q, K) => Once(Append(q, p), K)
<1> DEFINE r == Append(q, p)
<1>1. /\ Len(q) \in Nat /\ Len(r) = Len(q) + 1
      /\ \A i \in 1..Len(q) : r[i] = q[i]
      /\ r[Len(q) + 1] = p
  BY AppendProperties, LenProperties
<1>2. ASSUME NEW i \in 1..Len(r)
      PROVE  (i \in 1..Len(q) /\ r[i] = q[i]) \/ (i = Len(q) + 1 /\ r[i] = p)
  <2> HIDE DEF r
  <2>1. i \in 1..Len(q) \/ i = Len(q) + 1
    BY <1>1
  <2>2. QED
    BY <1>1, <2>1
<1> HIDE DEF r
<1>3. p \notin K /\ Free(q, K) => Free(r, K)
  BY <1>2 DEF Free
<1>4. p \notin K /\ Once(q, K) => Once(r, K)
  <2>1. SUFFICES ASSUME p \notin K, Once(q, K), NEW i \in 1..Len(r), NEW j \in 1..Len(r),
                        {r[i], r[j]} \subseteq K
                 PROVE  i = j
    BY DEF Once
  <2>2. i \in 1..Len(q) /\ j \in 1..Len(q) /\ r[i] = q[i] /\ r[j] = q[j]
    BY <1>2, <2>1
  <2>3. QED
    BY <2>1, <2>2 DEF Once
<1>5. Free(q, K) => Once(r, K)
  <2>1. SUFFICES ASSUME Free(q, K), NEW i \in 1..Len(r), NEW j \in 1..Len(r),
                        {r[i], r[j]} \subseteq K
                 PROVE  i = j
    BY DEF Once
  <2>2. i = Len(q) + 1 /\ j = Len(q) + 1
    BY <1>2, <2>1 DEF Free
  <2>3. QED
    BY <2>2
<1>6. QED
  BY <1>3, <1>4, <1>5 DEF Keeps, r

LEMMA KeepsEmpty == \A K : Free(<<>>, K) /\ Once(<<>>, K)
<1>1. Len(<<>>) = 0
  OBVIOUS
<1>2. QED
  BY <1>1 DEF Free, Once

LEMMA KeepsMore ==
    ASSUME NEW q, NEW r, NEW s, NEW K, Keeps(q, r, K), Keeps(r, s, K)
    PROVE  Keeps(q, s, K)
  BY DEF Keeps

Chat == {"MessageChat"}
Upload == {"FileDataHeader", "FileDataChunk"}

-----------------------------------------------------------------------------
(* The inductive invariant *)

Queue(n) == pms[n].queue

Pms(f) == f \in [Connection -> PmState] /\ \A n \in Connection : SendSide(f[n])

FileType == [stream : [mode : {"closed", "in", "out", "bad"}, pos : Nat], size : Nat \cup {-1}]
ServerType == [Connection -> [requests : Nat, sending : BOOLEAN]]
HandlerType ==
    [does : {"nothing", "startReceive", "greet", "updateReadRate"} \cup Handled,
     of : Connection \cup {NoPM}]

\* The rest of TypeOK.
Others ==
    /\ socket \in SocketState
    /\ resolving \in Nat /\ connecting \in BOOLEAN
    /\ made \subseteq Connection /\ current \in made \cup {NoPM}
    /\ file \in FileType
    /\ fileList \in BOOLEAN /\ selected \in BOOLEAN
    /\ doing \in CheckedAct \cup UncheckedAct \cup {"close", "onDisconnect", "nothing"}
    /\ acts \in 0..MaxActs
    /\ handler \in HandlerType
    /\ server \in ServerType
    /\ crashed \in {"no", "checked act", "button", "send handler", "onConnect"}
    /\ crossed \in BOOLEAN /\ mixed \in BOOLEAN /\ late \in BOOLEAN

\* A connection not yet made has done nothing.  The client's connection has
\* the socket, or the socket is being opened again, or disconnect has closed
\* it; and the reads of every connection before it are over.
Reading ==
    /\ \A n \in Connection \ made : pms[n] = PM!NewPacketManager /\ ~server[n].sending
    /\ connecting => socket \notin Connection
    /\ current # NoPM => /\ socket \in {current, "opening", "closed"}
                         /\ doing # "onDisconnect" => socket # "closed"
                         /\ \A n \in Connection \ {current} : pms[n].reads = 0

\* A handler is of the client's connection, if there is still one: onConnect
\* begins before the first read, and what is handled has been read.
Busy ==
    handler # Nothing =>
        /\ handler.of \in made /\ current \in {handler.of, NoPM}
        /\ handler.does \in Handled => pms[handler.of].reads = 1
        /\ handler.does = "startReceive" => pms[handler.of].reads = 0
        /\ handler.does = "FileDataHeader" => server[handler.of].requests > 0
        /\ handler.does \in {"FileDataChunk", "FileDataEnd"} => server[handler.of].sending

\* Without a connection no file is read.
NoUpload == current = NoPM => file.stream.mode \in {"closed", "out"}

\* While there is a connection no packet manager of the past writes, but to
\* a socket that is closed.
On(m) == {m.writes[i].on : i \in 1..Len(m.writes)}
Alone == current # NoPM => \A n \in Connection \ {current} : On(pms[n]) \subseteq {"closed"}

\* Nor does one receive; without a connection there is no transfer and no
\* list.
Resting ==
    /\ \A n \in Connection : pms[n].recieveing /\ pms[n].reads > 0 => n = current
    /\ current = NoPM => file.stream.mode = "closed" /\ ~fileList

\* The chat packet is queued once, and not while Send is about to queue it.
Chats ==
    /\ \A n \in Connection : Once(Queue(n), Chat)
    /\ \A n, m \in Connection : n # m => Free(Queue(n), Chat) \/ Free(Queue(m), Chat)
    /\ doing = "Send" => \A n \in Connection : Free(Queue(n), Chat)

\* A packet of an upload is queued once, and only while m_file is read;
\* m_file is written while the server sends a file.
Uploading ==
    /\ \A n \in Connection : Once(Queue(n), Upload)
    /\ file.stream.mode # "bad"
    /\ doing = "Drop" => file.stream.mode # "in"
    /\ current # NoPM => /\ file.stream.mode # "in" => Free(Queue(current), Upload)
                         /\ server[current].sending => file.stream.mode = "out"

IInv ==
    /\ Others /\ Pms(pms) /\ Reading /\ Busy /\ NoUpload /\ Chats
    /\ ~crossed => Alone
    /\ ~crossed /\ ~late => Resting
    /\ ~crossed /\ ~mixed => Uploading

LEMMA TypesSplit == TypeOK <=> Others /\ pms \in [Connection -> PmState]
  BY DEF TypeOK, Others, FileType, ServerType, HandlerType

LEMMA NoPMIsNone == NoPM \notin Connection
  BY ConnectionAssumption

LEMMA SocketNames ==
    /\ "closed" \notin Connection /\ "opening" \notin Connection
    /\ "closed" \in SocketState /\ "opening" \in SocketState /\ Connection \subseteq SocketState
  BY ConnectionAssumption DEF SocketState

LEMMA CurrentIsMade == ASSUME Others PROVE current = NoPM \/ (current \in made /\ current \in Connection)
  BY DEF Others

\* What the asio thread does next.
LEMMA HandlerIs ==
    ASSUME NEW step \in {"startReceive", "greet", "updateReadRate"} \cup Handled, NEW n, At(step, n)
    PROVE  handler # Nothing /\ handler.does = step /\ handler.of = n
  BY DEF At, Nothing, Handled

LEMMA HandlerNext ==
    ASSUME NEW n \in Connection
    PROVE  /\ Nothing \in HandlerType
           /\ \A step \in {"startReceive", "greet", "updateReadRate"} \cup Handled :
                [does |-> step, of |-> n] \in HandlerType
  BY DEF HandlerType, Nothing

-----------------------------------------------------------------------------
(* What the steps do to the packet managers *)

\* A packet is queued on the client's packet manager.
LEMMA QueueOnEffect ==
    ASSUME Others, Pms(pms), current # NoPM, NEW p \in PacketType, pms' = QueueOn(current, p)
    PROVE  /\ Pms(pms')
           /\ SameReads(pms'[current], pms[current])
           /\ \A n \in Connection \ {current} : pms'[n] = pms[n]
           /\ pms'[current].queue =
                IF socket = "closed" THEN Queue(current) ELSE Append(Queue(current), p)
<1>1. current \in Connection /\ socket \in SocketState
  BY CurrentIsMade DEF Others
<1> DEFINE m == PM!QueuePacket(pms[current], socket, p)
<1>2. pms[current] \in PmState /\ SendSide(pms[current])
  BY <1>1 DEF Pms
<1>3. /\ m \in PmState /\ SendSide(m) /\ SameReads(m, pms[current])
      /\ m.queue = IF socket = "closed" THEN Queue(current) ELSE Append(Queue(current), p)
  BY <1>1, <1>2, QueuePacketEffect DEF Queue
<1>4. pms' = [pms EXCEPT ![current] = m]
  BY DEF QueueOn
<1> HIDE DEF m
<1>5. QED
  BY <1>1, <1>3, <1>4 DEF Queue, Pms

\* The completion of a write, with nothing more to send: the front goes.
LEMMA NothingToSendEffect ==
    ASSUME Others, Pms(pms), NEW n \in Connection, pms[n].writes # <<>>, NothingToSend(n)
    PROVE  /\ Pms(pms')
           /\ SameReads(pms'[n], pms[n])
           /\ \A c \in Connection \ {n} : pms'[c] = pms[c]
           /\ Queue(n) # <<>> /\ Sent(n) = Head(Queue(n))
           /\ Queue(n)' = Tail(Queue(n))
<1> DEFINE q == PM!PopSent(pms[n])
<1> DEFINE f == [pms EXCEPT ![n] = q]
<1>1. pms[n] \in PmState /\ SendSide(pms[n]) /\ socket \in SocketState
  BY DEF Pms, Others
<1>2. /\ Queue(n) # <<>> /\ Sent(n) = Head(Queue(n))
      /\ q \in PmState /\ Handling(q) /\ q.queue = Tail(Queue(n)) /\ SameReads(q, pms[n])
  BY <1>1, PopSentEffect DEF Queue, Sent
<1>3. f = Popped(n) /\ f[n] = q
  BY DEF Popped, Pms
<1>4. PICK m \in PM!AfterSent(q, socket) : pms' = [f EXCEPT ![n] = m]
  BY <1>3 DEF NothingToSend, Continuations
<1>5. m \in PmState /\ SendSide(m) /\ m.queue = q.queue /\ SameReads(m, q)
  BY <1>1, <1>2, AfterSentEffect
<1>6. pms' = [pms EXCEPT ![n] = m]
  BY <1>4 DEF Pms
<1> HIDE DEF q, f
<1>7. QED
  BY <1>2, <1>5, <1>6 DEF Queue, SameReads, Pms

\* The completion of a write whose handler queues p on the client's packet
\* manager, which need not be the one that wrote.
LEMMA SendsNextEffect ==
    ASSUME Others, Pms(pms), NEW n \in Connection, pms[n].writes # <<>>,
           current # NoPM, NEW p \in PacketType, SendsNext(n, p)
    PROVE  /\ Pms(pms')
           /\ \A c \in Connection : SameReads(pms'[c], pms[c])
           /\ \A c \in Connection \ {n, current} : pms'[c] = pms[c]
           /\ Queue(n) # <<>> /\ Sent(n) = Head(Queue(n))
           /\ current = n =>
                Queue(n)' = IF socket = "closed" THEN Tail(Queue(n)) ELSE Append(Tail(Queue(n)), p)
           /\ current # n =>
                /\ Queue(n)' = Tail(Queue(n))
                /\ pms'[current].queue =
                     IF socket = "closed" THEN Queue(current) ELSE Append(Queue(current), p)
<1> DEFINE q == PM!PopSent(pms[n])
<1> DEFINE f == [pms EXCEPT ![n] = q]
<1>1. /\ pms[n] \in PmState /\ SendSide(pms[n])
      /\ socket \in SocketState /\ current \in Connection
  BY CurrentIsMade DEF Pms, Others
<1>2. /\ Queue(n) # <<>> /\ Sent(n) = Head(Queue(n))
      /\ q \in PmState /\ Handling(q) /\ q.queue = Tail(Queue(n)) /\ SameReads(q, pms[n])
  BY <1>1, PopSentEffect DEF Queue, Sent
<1>3. f = Popped(n) /\ f[n] = q
  BY DEF Popped, Pms
<1>4. CASE current = n
  <2> DEFINE r == PM!QueuePacket(q, socket, p)
  <2>1. /\ r \in PmState /\ Handling(r) /\ SameReads(r, q)
        /\ r.queue = IF socket = "closed" THEN q.queue ELSE Append(q.queue, p)
    BY <1>1, <1>2, QueuePacketEffect
  <2>2. PICK m \in PM!AfterSent(r, socket) : pms' = [[f EXCEPT ![n] = r] EXCEPT ![n] = m]
    BY <1>3, <1>4 DEF SendsNext, Continuations, Pms
  <2>3. m \in PmState /\ SendSide(m) /\ m.queue = r.queue /\ SameReads(m, r)
    BY <1>1, <2>1, AfterSentEffect
  <2>4. pms' = [pms EXCEPT ![n] = m]
    BY <2>2 DEF Pms
  <2> HIDE DEF q, f, r
  <2>5. QED
    BY <1>2, <1>4, <2>1, <2>3, <2>4 DEF Queue, SameReads, Pms
<1>5. CASE current # n
  <2> DEFINE r == PM!QueuePacket(pms[current], socket, p)
  <2>1. pms[current] \in PmState /\ SendSide(pms[current])
    BY <1>1 DEF Pms
  <2>2. /\ r \in PmState /\ SendSide(r) /\ SameReads(r, pms[current])
        /\ r.queue = IF socket = "closed" THEN Queue(current) ELSE Append(Queue(current), p)
    BY <1>1, <2>1, QueuePacketEffect DEF Queue
  <2>3. f[current] = pms[current] /\ [f EXCEPT ![current] = r][n] = q
    BY <1>1, <1>3, <1>5 DEF Pms
  <2>4. PICK m \in PM!AfterSent(q, socket) : pms' = [[f EXCEPT ![current] = r] EXCEPT ![n] = m]
    BY <1>3, <2>3 DEF SendsNext, Continuations
  <2>5. m \in PmState /\ SendSide(m) /\ m.queue = q.queue /\ SameReads(m, q)
    BY <1>1, <1>2, AfterSentEffect
  <2> DEFINE g == [pms EXCEPT ![current] = r]
  <2>6. pms' = [g EXCEPT ![n] = m]
    BY <1>5, <2>4 DEF Pms
  <2> HIDE DEF q, f, r
  <2>7. Pms(g) /\ g[current] = r /\ \A c \in Connection \ {current} : g[c] = pms[c]
    BY <1>1, <2>2 DEF g, Pms
  <2> HIDE DEF g
  <2>8. Pms(pms') /\ pms'[n] = m /\ \A c \in Connection \ {n} : pms'[c] = g[c]
    BY <2>5, <2>6, <2>7 DEF Pms
  <2>9. \A c \in Connection : SameReads(pms'[c], pms[c])
    BY <1>2, <1>5, <2>2, <2>5, <2>7, <2>8 DEF SameReads
  <2>10. QED
    BY <1>1, <1>2, <1>5, <2>2, <2>5, <2>7, <2>8, <2>9 DEF Queue
<1>6. QED
  BY <1>4, <1>5

\* The completion of a failed write.
LEMMA WriteFailsEffect ==
    ASSUME Pms(pms), NEW n \in Connection, WriteFails(n)
    PROVE  /\ Pms(pms')
           /\ ~pms'[n].recieveing /\ pms'[n].reads = pms[n].reads /\ pms'[n].writes = <<>>
           /\ \A c \in Connection \ {n} : pms'[c] = pms[c]
           /\ Queue(n)' = Queue(n)
<1> DEFINE m == PM!SendFailed(pms[n])
<1>1. pms[n] \in PmState /\ SendSide(pms[n]) /\ pms[n].writes # <<>>
  BY DEF Pms, WriteFails
<1>2. /\ m \in PmState /\ SendSide(m) /\ m.queue = pms[n].queue
      /\ ~m.recieveing /\ m.reads = pms[n].reads /\ m.writes = <<>>
  BY <1>1, SendFailedEffect
<1>3. pms' = [pms EXCEPT ![n] = m]
  BY DEF WriteFails
<1> HIDE DEF m
<1>4. QED
  BY <1>2, <1>3 DEF Queue, Pms

LEMMA TimerFiresEffect ==
    ASSUME Others, Pms(pms), NEW n \in Connection, TimerFires(n)
    PROVE  /\ Pms(pms')
           /\ SameReads(pms'[n], pms[n])
           /\ \A c \in Connection \ {n} : pms'[c] = pms[c]
           /\ Queue(n)' = Queue(n)
<1> DEFINE m == PM!TimerFired(pms[n], socket)
<1>1. pms[n] \in PmState /\ SendSide(pms[n]) /\ pms[n].waits > 0 /\ socket \in SocketState
  BY DEF Pms, TimerFires, Others
<1>2. m \in PmState /\ SendSide(m) /\ m.queue = pms[n].queue /\ SameReads(m, pms[n])
  BY <1>1, TimerFiredEffect
<1>3. pms' = [pms EXCEPT ![n] = m]
  BY DEF TimerFires
<1> HIDE DEF m
<1>4. QED
  BY <1>2, <1>3 DEF Queue, Pms

\* A read that ends.
LEMMA ReadEndsEffect ==
    ASSUME Pms(pms), NEW n \in Connection, ReadFails(n) \/ ReadStops(n)
    PROVE  /\ Pms(pms')
           /\ pms'[n].recieveing = pms[n].recieveing /\ pms'[n].reads = 0
           /\ pms'[n].writes = pms[n].writes
           /\ \A c \in Connection \ {n} : pms'[c] = pms[c]
           /\ Queue(n)' = Queue(n)
<1> DEFINE m == PM!EndReceive(pms[n])
<1>1. pms[n] \in PmState /\ SendSide(pms[n]) /\ pms[n].reads > 0
  BY DEF Pms, ReadFails, ReadStops, Receives
<1>2. /\ m \in PmState /\ SendSide(m) /\ m.queue = pms[n].queue
      /\ m.recieveing = pms[n].recieveing /\ m.reads = 0 /\ m.writes = pms[n].writes
  BY <1>1, ReceiveEffect
<1>3. pms' = [pms EXCEPT ![n] = m]
  BY DEF ReadFails, ReadStops
<1> HIDE DEF m
<1>4. QED
  BY <1>2, <1>3 DEF Queue, Pms

LEMMA UseDisconnectEffect ==
    ASSUME Others, Pms(pms), UseDisconnect
    PROVE  /\ current \in Connection
           /\ Pms(pms')
           /\ ~pms'[current].recieveing /\ pms'[current].reads = pms[current].reads
           /\ \A c \in Connection \ {current} : pms'[c] = pms[c]
           /\ \A c \in Connection : Queue(c)' = Queue(c)
<1> DEFINE m == PM!StopReceive(pms[current])
<1>1. current \in Connection
  BY CurrentIsMade DEF UseDisconnect
<1>2. pms[current] \in PmState /\ SendSide(pms[current])
  BY <1>1 DEF Pms
<1>3. /\ m \in PmState /\ SendSide(m) /\ m.queue = pms[current].queue
      /\ ~m.recieveing /\ m.reads = pms[current].reads
  BY <1>2, ReceiveEffect
<1>4. pms' = [pms EXCEPT ![current] = m]
  BY DEF UseDisconnect
<1> HIDE DEF m
<1>5. QED
  BY <1>1, <1>3, <1>4 DEF Queue, Pms

LEMMA StartsReceivingEffect ==
    ASSUME Others, Pms(pms), Busy, NEW n \in Connection, StartsReceiving(n)
    PROVE  /\ Pms(pms')
           /\ pms'[n].writes = pms[n].writes
           /\ \A c \in Connection \ {n} : pms'[c] = pms[c]
           /\ \A c \in Connection : Queue(c)' = Queue(c)
<1> DEFINE o == IF socket = "closed" THEN "closed" ELSE "open"
<1> DEFINE m == PM!StartReceive(pms[n], o)
<1>1. pms[n] \in PmState /\ SendSide(pms[n]) /\ o \in {"open", "closed"}
  BY DEF Pms
<1>2. pms[n].reads = 0
  BY HandlerIs DEF StartsReceiving, Busy
<1>3. pms' = [pms EXCEPT ![n] = m]
  BY DEF StartsReceiving
<1> HIDE DEF o
<1>4. m \in PmState /\ SendSide(m) /\ m.queue = pms[n].queue /\ m.writes = pms[n].writes
  BY <1>1, <1>2, StartReceiveEffect
<1> HIDE DEF m
<1>5. QED
  BY <1>3, <1>4 DEF Queue, Pms

\* The greeting and the rates are queued as the UI thread's packets are.
LEMMA GreetsEffect ==
    ASSUME Others, Pms(pms), NEW n \in Connection, Greets(n) \/ UpdatesRates(n)
    PROVE  \E p \in {"UserInfo", "UpdateWriteRate"} :
               /\ p \in PacketType
               /\ current = n /\ current # NoPM
               /\ pms' = QueueOn(current, p)
  BY NoPMIsNone DEF Greets, UpdatesRates, PacketType

-----------------------------------------------------------------------------
(* Types *)

\* What becomes of m_file.
LEMMA StreamTypes ==
    ASSUME NEW s \in [mode : {"closed", "in", "out", "bad"}, pos : Nat]
    PROVE  /\ Closed \in [mode : {"closed", "in", "out", "bad"}, pos : Nat]
           /\ ReadChunk(s) \in [mode : {"closed", "in", "out", "bad"}, pos : Nat]
           /\ WriteChunk(s) \in [mode : {"closed", "in", "out", "bad"}, pos : Nat]
           /\ Closed.mode = "closed"
           /\ ReadChunk(s).mode = IF s.mode = "out" THEN "bad" ELSE s.mode
           /\ WriteChunk(s).mode = IF s.mode = "in" THEN "bad" ELSE s.mode
  BY DEF Closed, ReadChunk, WriteChunk

LEMMA FileChanges ==
    ASSUME file \in FileType
    PROVE  /\ [file EXCEPT !.stream = ReadChunk(@)] \in FileType
           /\ [file EXCEPT !.stream = ReadChunk(@)].stream = ReadChunk(file.stream)
           /\ [file EXCEPT !.stream = WriteChunk(@)] \in FileType
           /\ [file EXCEPT !.stream = WriteChunk(@)].stream = WriteChunk(file.stream)
           /\ [file EXCEPT !.stream = Closed] \in FileType
           /\ [file EXCEPT !.stream = Closed].stream.mode = "closed"
<1> DEFINE T == [mode : {"closed", "in", "out", "bad"}, pos : Nat]
<1>1. file.stream \in T
  BY DEF FileType
<1>2. \A s \in T : [file EXCEPT !.stream = s] \in FileType /\ [file EXCEPT !.stream = s].stream = s
  BY DEF FileType
<1>3. Closed \in T /\ ReadChunk(file.stream) \in T /\ WriteChunk(file.stream) \in T
  BY <1>1, StreamTypes
<1>4. Closed.mode = "closed"
  BY DEF Closed
<1> HIDE DEF T
<1>5. QED
  BY <1>2, <1>3, <1>4

LEMMA OpenEffect ==
    ASSUME NEW mode \in {"in", "out"}, OpenFile(mode)
    PROVE  /\ file' \in FileType
           /\ file'.stream.mode = mode
           /\ mixed' = (mixed \/ file.stream.mode \notin {"closed", mode} \/ (mode = "out" /\ UploadQueued))
<1>1. PICK chunks \in 0..MaxChunks : file' = [stream |-> [mode |-> mode, pos |-> 0], size |-> chunks]
  BY DEF OpenFile
<1>2. chunks \in Nat
  BY BoundAssumption
<1>3. QED
  BY <1>1, <1>2 DEF FileType, OpenFile

\* What becomes of the numbers and of the server's debt.
LEMMA Counts ==
    /\ \A k \in 0..MaxActs : k < MaxActs => k + 1 \in 0..MaxActs
    /\ \A k \in Nat : k + 1 \in Nat /\ (k > 0 => k - 1 \in Nat)
  BY BoundAssumption

LEMMA ServerChanges ==
    ASSUME server \in ServerType, NEW n \in Connection
    PROVE  /\ [server EXCEPT ![n].requests = @ + 1] \in ServerType
           /\ server[n].requests > 0 =>
                [server EXCEPT ![n] = [requests |-> @.requests - 1, sending |-> TRUE]] \in ServerType
           /\ [server EXCEPT ![n].sending = FALSE] \in ServerType
<1> DEFINE T == [requests : Nat, sending : BOOLEAN]
<1>1. server \in [Connection -> T] /\ server[n] \in T
  BY DEF ServerType
<1>2. ASSUME NEW x \in T
      PROVE  /\ [x EXCEPT !.requests = x.requests + 1] \in T
             /\ x.requests > 0 => [requests |-> x.requests - 1, sending |-> TRUE] \in T
             /\ [x EXCEPT !.sending = FALSE] \in T
  <2>1. x.requests \in Nat
    OBVIOUS
  <2>2. x.requests + 1 \in Nat /\ (x.requests > 0 => x.requests - 1 \in Nat)
    BY <2>1
  <2>3. \A k \in Nat, b \in BOOLEAN : /\ [x EXCEPT !.requests = k] \in T
                                      /\ [x EXCEPT !.sending = b] \in T
                                      /\ [requests |-> k, sending |-> b] \in T
    OBVIOUS
  <2> HIDE DEF T
  <2>4. TRUE \in BOOLEAN /\ FALSE \in BOOLEAN
    OBVIOUS
  <2>5. QED
    BY <2>2, <2>3, <2>4
<1> HIDE DEF T
<1>3. \A x \in T : [server EXCEPT ![n] = x] \in [Connection -> T]
  BY <1>1
<1>4. QED
  BY <1>1, <1>2, <1>3 DEF ServerType, T

LEMMA OthersAtStart == Init => Others
<1> SUFFICES ASSUME Init PROVE Others
  OBVIOUS
<1>1. file \in FileType
  BY DEF Init, FileType, Closed
<1>2. server \in ServerType
  BY DEF Init, ServerType
<1>3. acts \in 0..MaxActs
  BY BoundAssumption DEF Init
<1>4. handler \in HandlerType
  BY DEF Init, HandlerType, Nothing
<1>5. QED
  BY <1>1, <1>2, <1>3, <1>4, SocketNames DEF Init, Others, CheckedAct, UncheckedAct

\* Every step keeps the types, the packet managers' apart.
LEMMA OthersKept ==
    ASSUME Others, Busy, Next
    PROVE  Others'
<1> USE DEF Others
<1>0. file \in FileType
  OBVIOUS
<1>1. CASE Connect
  <2>1. acts' \in 0..MaxActs /\ resolving' \in Nat
    BY <1>1, Counts DEF Connect
  <2>2. QED
    BY <1>1, <2>1 DEF Connect, owned, hist
<1>2. CASE ResolveFails \/ Resolved \/ ConnectFails
  <2>1. resolving' \in Nat
    BY <1>2, Counts DEF ResolveFails, Resolved, ConnectFails
  <2>2. socket' \in SocketState /\ connecting' \in BOOLEAN
    BY <1>2, SocketNames DEF ResolveFails, Resolved, ConnectFails
  <2>3. QED
    BY <1>2, <2>1, <2>2 DEF ResolveFails, Resolved, ConnectFails, owned, user, hist
<1>3. CASE Select \/ Unselect
  BY <1>3 DEF Select, Unselect, conn, owned, hist
<1>4. CASE \E act \in Acts : Check(act)
  <2>1. acts' \in 0..MaxActs
    BY <1>4, Counts DEF Check
  <2>2. doing' \in CheckedAct \cup UncheckedAct
    BY <1>4, ActsAssumption DEF Check
  <2>3. QED
    BY <1>4, <2>1, <2>2 DEF Check, conn, owned, hist
<1>5. CASE UseDrop
  BY <1>5, OpenEffect DEF UseDrop, Uses, OnlyQueues, conn
<1>6. CASE UseDropFails
  BY <1>0, <1>6, FileChanges DEF UseDropFails, Uses, OnlyQueues, conn
<1>7. ASSUME NEW act, NEW p, UseQueue(act, p) PROVE Others'
  BY <1>7 DEF UseQueue, Uses, OnlyQueues, conn
<1>8. CASE UseDisconnect \/ Close
  BY <1>8, SocketNames DEF UseDisconnect, Close, conn, owned, hist
<1>9. CASE Leave
  <2>1. file' \in FileType /\ current' = NoPM /\ fileList' \in BOOLEAN
    BY <1>0, <1>9, FileChanges DEF Leave, OnDisconnect
  <2>2. late' \in BOOLEAN
    BY <1>9 DEF Leave
  <2>3. QED
    BY <1>9, <2>1, <2>2 DEF Leave, Uses, conn
<1>10. CASE UseNull
  BY <1>10 DEF UseNull, conn, owned, user
<1>11. ASSUME NEW n \in Connection, Connected(n) PROVE Others'
  BY <1>11, SocketNames, HandlerNext DEF Connected, Goto, user, hist
<1>12. ASSUME NEW n \in Connection, StartsReceiving(n) \/ Greets(n) \/ UpdatesRates(n) PROVE Others'
  BY <1>12, HandlerNext DEF StartsReceiving, Greets, UpdatesRates, Goto, OnlyConnects, conn, owned, user, hist
<1>13. ASSUME NEW n \in Connection, OnConnectHasNoManager(n) PROVE Others'
  BY <1>13 DEF OnConnectHasNoManager, conn, owned, user
<1>14. ASSUME NEW n \in Connection, WriteSucceeds(n) PROVE Others'
  <2>1. file' \in FileType
    BY <1>0, <1>14, FileChanges
       DEF WriteSucceeds, UploadGoesOn, UploadHasNoManager, NothingToSend
  <2>2. server' \in ServerType
    BY <1>14, ServerChanges DEF WriteSucceeds, Serve
  <2>3. crashed' \in {"no", "checked act", "button", "send handler", "onConnect"}
    BY <1>14 DEF WriteSucceeds, UploadGoesOn, UploadHasNoManager, NothingToSend
  <2>4. crossed' \in BOOLEAN
    BY <1>14 DEF WriteSucceeds, Crossing
  <2>5. QED
    BY <1>14, <2>1, <2>2, <2>3, <2>4 DEF WriteSucceeds, conn, user
<1>15. ASSUME NEW n \in Connection, WriteFails(n) \/ ReadFails(n) PROVE Others'
  BY <1>0, <1>15, FileChanges DEF WriteFails, ReadFails, OnDisconnect, conn, user, hist
<1>16. ASSUME NEW n \in Connection, TimerFires(n) PROVE Others'
  BY <1>16 DEF TimerFires, Crossing, conn, owned, user
<1>17. ASSUME NEW n \in Connection, NEW type \in Handled, Arrives(n, type) PROVE Others'
  BY <1>17, HandlerNext DEF Arrives, Goto, conn, owned, user, hist
<1>18. ASSUME NEW n \in Connection, NEW type, Handles(n, type),
              file' \in FileType, fileList' \in BOOLEAN, server' \in ServerType, mixed' \in BOOLEAN
       PROVE  Others'
  BY <1>18, HandlerNext DEF Handles, conn, user
<1>19. ASSUME NEW n \in Connection, HandlesList(n) PROVE Others'
  BY <1>18, <1>19 DEF HandlesList
<1>20. ASSUME NEW n \in Connection, HandlesHeader(n) PROVE Others'
  <2>1. server' \in ServerType
    <3>1. server[n].requests > 0
      BY <1>20, HandlerIs DEF HandlesHeader, Handles, Busy, Handled
    <3>2. QED
      BY <1>20, <3>1, ServerChanges DEF HandlesHeader
  <2>2. file' \in FileType /\ mixed' \in BOOLEAN
    BY <1>20, OpenEffect DEF HandlesHeader
  <2>3. QED
    BY <1>18, <1>20, <2>1, <2>2 DEF HandlesHeader
<1>21. ASSUME NEW n \in Connection, HandlesChunk(n) PROVE Others'
  <2>1. file' \in FileType
    BY <1>0, <1>21, FileChanges DEF HandlesChunk
  <2>2. QED
    BY <1>18, <1>21, <2>1 DEF HandlesChunk
<1>22. ASSUME NEW n \in Connection, HandlesEnd(n) PROVE Others'
  <2>1. file' \in FileType
    BY <1>0, <1>22, FileChanges DEF HandlesEnd
  <2>2. server' \in ServerType
    BY <1>22, ServerChanges DEF HandlesEnd
  <2>3. QED
    BY <1>18, <1>22, <2>1, <2>2 DEF HandlesEnd
<1>23. ASSUME NEW n \in Connection, ReadStops(n) PROVE Others'
  BY <1>23 DEF ReadStops, conn, owned, user, hist
<1>24. CASE UiStep
  BY <1>1, <1>3, <1>4, <1>5, <1>6, <1>7, <1>8, <1>9, <1>10, <1>24 DEF UiStep
<1>25. ASSUME NEW n \in Connection, Completion(n) \/ Continues(n) PROVE Others'
  BY <1>12, <1>13, <1>14, <1>15, <1>16, <1>17, <1>19, <1>20, <1>21, <1>22, <1>23, <1>25
     DEF Completion, Continues
<1>26. QED
  BY <1>2, <1>11, <1>24, <1>25 DEF Next

-----------------------------------------------------------------------------
(* Who reads *)

\* A step that leaves the packet managers alone.
LEMMA QuietReading ==
    ASSUME Reading, UNCHANGED <<pms, current, made>>,
           (socket' = socket /\ (connecting' => connecting)) \/ socket' = "opening",
           doing' = "onDisconnect" \/ doing # "onDisconnect" \/ current = NoPM,
           \A c \in Connection \ made : server'[c].sending = server[c].sending
    PROVE  Reading'
  BY SocketNames DEF Reading

\* One packet manager changes; it was made, and it reads no more than before
\* unless it is the client's.
LEMMA OneReading ==
    ASSUME Reading, UNCHANGED <<made, socket, connecting>>, current' \in {current, NoPM},
           doing' = "onDisconnect" \/ doing # "onDisconnect" \/ current' = NoPM,
           NEW n \in made, \A c \in Connection \ {n} : pms'[c] = pms[c],
           n = current \/ pms'[n].reads \in {0, pms[n].reads},
           \A c \in Connection \ made : server'[c].sending = server[c].sending
    PROVE  Reading'
  BY DEF Reading

\* Serve does not begin a download.
LEMMA ServeEffect ==
    ASSUME server \in ServerType, NEW n \in Connection, Serve(n)
    PROVE  \A c \in Connection : /\ server'[c].sending = server[c].sending
                                 /\ server'[c].requests >= server[c].requests
<1>1. CASE server' = server
  BY <1>1 DEF ServerType
<1>2. CASE server' = [server EXCEPT ![n].requests = server[n].requests + 1]
  <2> DEFINE s == [server[n] EXCEPT !.requests = server[n].requests + 1]
  <2>1. \A c \in Connection : server[c] \in [requests : Nat, sending : BOOLEAN]
    BY DEF ServerType
  <2>2. s.sending = server[n].sending /\ s.requests = server[n].requests + 1
    BY <2>1
  <2> HIDE DEF s
  <2>3. server'[n] = s /\ \A c \in Connection \ {n} : server'[c] = server[c]
    BY <1>2 DEF ServerType, s
  <2>4. \A k \in Nat : k + 1 >= k /\ k >= k
    OBVIOUS
  <2>5. \A c \in Connection : server[c].requests \in Nat
    BY <2>1
  <2>6. QED
    BY <2>2, <2>3, <2>4, <2>5
<1>3. QED
  BY <1>1, <1>2 DEF Serve

\* Who has a write or a read pending has been made.
LEMMA PendingIsMade ==
    ASSUME Reading, NEW n \in Connection,
           pms[n].writes # <<>> \/ pms[n].reads > 0 \/ pms[n].waits > 0 \/ server[n].sending
    PROVE  n \in made
<1>1. ~(PM!NewPacketManager.reads > 0) /\ ~(PM!NewPacketManager.waits > 0)
  BY NewEffect DEF PM!NewPacketManager
<1>2. QED
  BY <1>1, NewEffect DEF Reading

\* When a connection is made every read and write is over.
LEMMA ConnectedIsFirst ==
    ASSUME Others, Pms(pms), Reading, NEW n \in Connection, Connected(n)
    PROVE  \A c \in Connection : pms[c].reads = 0 /\ pms[c].writes = <<>>
<1>1. socket \notin Connection /\ \A c \in Connection : ~Ended(c)
  BY DEF Connected, Reading
<1>2. SUFFICES ASSUME NEW c \in Connection PROVE pms[c].reads = 0 /\ pms[c].writes = <<>>
  OBVIOUS
<1>3. pms[c].reads \in 0..1
  BY DEF Pms, PmState
<1>4. QED
  BY <1>1, <1>3 DEF Ended

\* The steps of the UI thread.
LEMMA UiReading ==
    ASSUME Others, Pms(pms), Reading, UiStep
    PROVE  Pms(pms') /\ Reading'
<1>1. CASE Connect \/ Select \/ Unselect \/ (\E act \in Acts : Check(act)) \/ UseNull
  <2>1. /\ UNCHANGED <<pms, current, made, socket, connecting, server>>
        /\ doing' = doing \/ doing = "nothing"
    BY <1>1 DEF Connect, Select, Unselect, Check, UseNull, conn, owned, user, hist
  <2>2. QED
    BY <2>1, QuietReading
<1>2. CASE UseDropFails
  <2>1. UNCHANGED <<pms, current, made, socket, connecting, server>> /\ doing = "Drop"
    BY <1>2 DEF UseDropFails, OnlyQueues, Uses, conn
  <2>2. QED
    BY <2>1, QuietReading
<1>3. ASSUME NEW p \in PacketType, current # NoPM, pms' = QueueOn(current, p), OnlyQueues,
             doing # "onDisconnect"
      PROVE  Pms(pms') /\ Reading'
  <2>1. /\ Pms(pms') /\ \A c \in Connection \ {current} : pms'[c] = pms[c]
    BY <1>3, QueueOnEffect
  <2>2. UNCHANGED <<current, made, socket, connecting, server>>
    BY <1>3 DEF OnlyQueues, conn
  <2>3. current \in made
    BY <1>3, CurrentIsMade
  <2>4. QED
    BY <1>3, <2>1, <2>2, <2>3, OneReading
<1>4. CASE UseDrop
  <2>1. "FileDataHeader" \in PacketType
    BY DEF PacketType
  <2>2. QED
    BY <1>3, <1>4, <2>1 DEF UseDrop, Uses
<1>5. ASSUME NEW act, act # "onDisconnect", NEW p \in PacketType, UseQueue(act, p)
      PROVE  Pms(pms') /\ Reading'
  BY <1>3, <1>5 DEF UseQueue, Uses
<1>6. CASE UseDisconnect
  <2>1. /\ Pms(pms') /\ \A c \in Connection \ {current} : pms'[c] = pms[c]
    BY <1>6, UseDisconnectEffect
  <2>2. UNCHANGED <<made, server, connecting, socket, current>> /\ doing = "Disconnect"
    BY <1>6 DEF UseDisconnect, conn, owned, hist
  <2>3. current \in made
    BY <1>6, CurrentIsMade DEF UseDisconnect
  <2>4. QED
    BY <2>1, <2>2, <2>3, OneReading
<1>7. CASE Close
  <2>1. UNCHANGED <<pms, made, server, connecting, current>> /\ socket' = "closed"
        /\ doing' = "onDisconnect"
    BY <1>7 DEF Close, owned, hist
  <2>2. QED
    BY <2>1, SocketNames DEF Reading
<1>8. CASE Leave
  <2>1. UNCHANGED <<pms, made, server, connecting, socket>> /\ current' = NoPM
    BY <1>8 DEF Leave, OnDisconnect, conn
  <2>2. QED
    BY <2>1 DEF Reading
<1>9. {"MessageChat", "UpdateWriteRate", "FileDownloadRequest", "FileDeleteRequest"} \subseteq PacketType
  BY DEF PacketType
<1>10. QED
  BY <1>1, <1>2, <1>4, <1>5, <1>6, <1>7, <1>8, <1>9 DEF UiStep

LEMMA ReadingKept ==
    ASSUME Others, Pms(pms), Reading, Busy, Next
    PROVE  Pms(pms') /\ Reading'
<1>1. CASE UiStep
  BY <1>1, UiReading
<1>2. CASE ResolveFails \/ Resolved \/ ConnectFails
  <2>1. UNCHANGED <<pms, current, made, server, doing>>
    BY <1>2 DEF ResolveFails, Resolved, ConnectFails, owned, user, hist
  <2>2. (socket' = socket /\ (connecting' => connecting)) \/ socket' = "opening"
    BY <1>2 DEF ResolveFails, Resolved, ConnectFails
  <2>3. QED
    BY <2>1, <2>2, QuietReading
<1>3. ASSUME NEW n \in Connection, Connected(n) PROVE Pms(pms') /\ Reading'
  <2>1. \A c \in Connection : pms[c].reads = 0
    BY <1>3, ConnectedIsFirst
  <2>2. /\ made' = made \cup {n} /\ socket' = n /\ current' = n /\ connecting' = FALSE
        /\ UNCHANGED <<server, pms>>
    BY <1>3 DEF Connected, hist
  <2>3. QED
    BY <2>1, <2>2, SocketNames DEF Reading
<1>4. ASSUME NEW n \in Connection, StartsReceiving(n) \/ Greets(n) \/ UpdatesRates(n)
      PROVE  Pms(pms') /\ Reading'
  <2>1. UNCHANGED <<current, made, socket, connecting, server, doing>> /\ current = n
    BY <1>4 DEF StartsReceiving, Greets, UpdatesRates, OnlyConnects, conn, owned, user, hist
  <2>2. Pms(pms') /\ \A c \in Connection \ {n} : pms'[c] = pms[c]
    <3>1. CASE StartsReceiving(n)
      BY <3>1, StartsReceivingEffect
    <3>2. CASE Greets(n) \/ UpdatesRates(n)
      BY <3>2, <2>1, GreetsEffect, QueueOnEffect
    <3>3. QED
      BY <1>4, <3>1, <3>2
  <2>3. n \in made
    BY <2>1, NoPMIsNone DEF Others
  <2>4. QED
    BY <2>1, <2>2, <2>3, OneReading
<1>5. ASSUME NEW n \in Connection, OnConnectHasNoManager(n) PROVE Pms(pms') /\ Reading'
  <2>1. UNCHANGED <<pms, current, made, socket, connecting, server, doing>>
    BY <1>5 DEF OnConnectHasNoManager, conn, owned, user
  <2>2. QED
    BY <2>1, QuietReading
<1>6. ASSUME NEW n \in Connection, WriteSucceeds(n) PROVE Pms(pms') /\ Reading'
  <2>1. pms[n].writes # <<>> /\ n \in made
    BY <1>6, PendingIsMade DEF WriteSucceeds
  <2>2. /\ UNCHANGED <<current, made, socket, connecting, doing>>
        /\ \A c \in Connection : server'[c].sending = server[c].sending
    BY <1>6, ServeEffect DEF WriteSucceeds, conn, user, Others
  <2>3. CASE UploadGoesOn(n)
    <3>1. PICK p \in {"FileDataEnd", "FileDataChunk"} : SendsNext(n, p)
      BY <2>3 DEF UploadGoesOn
    <3>2. p \in PacketType /\ current # NoPM
      BY <2>3 DEF PacketType, UploadGoesOn
    <3>3. /\ Pms(pms')
          /\ \A c \in Connection : SameReads(pms'[c], pms[c])
          /\ \A c \in Connection \ {n, current} : pms'[c] = pms[c]
      BY <2>1, <3>1, <3>2, SendsNextEffect
    <3>4. current \in made /\ current \in Connection
      BY <3>2, CurrentIsMade
    <3>5. QED
      BY <2>1, <2>2, <3>3, <3>4 DEF Reading, SameReads
  <2>4. CASE UploadHasNoManager(n)
    <3>1. UNCHANGED pms
      BY <2>4 DEF UploadHasNoManager
    <3>2. QED
      BY <2>2, <3>1, QuietReading
  <2>5. CASE NothingToSend(n)
    <3>1. /\ Pms(pms')
          /\ SameReads(pms'[n], pms[n])
          /\ \A c \in Connection \ {n} : pms'[c] = pms[c]
      BY <2>1, <2>5, NothingToSendEffect
    <3>2. QED
      BY <2>1, <2>2, <3>1, OneReading DEF SameReads
  <2>6. QED
    BY <1>6, <2>3, <2>4, <2>5 DEF WriteSucceeds
<1>7. ASSUME NEW n \in Connection, WriteFails(n) PROVE Pms(pms') /\ Reading'
  <2>1. /\ Pms(pms') /\ pms'[n].reads = pms[n].reads
        /\ \A c \in Connection \ {n} : pms'[c] = pms[c]
    BY <1>7, WriteFailsEffect
  <2>2. current' = NoPM /\ UNCHANGED <<made, socket, connecting, server, doing>>
    BY <1>7 DEF WriteFails, OnDisconnect, conn, user
  <2>3. n \in made
    BY <1>7, PendingIsMade DEF WriteFails
  <2>4. QED
    BY <2>1, <2>2, <2>3, OneReading
<1>8. ASSUME NEW n \in Connection, TimerFires(n) PROVE Pms(pms') /\ Reading'
  <2>1. /\ Pms(pms') /\ SameReads(pms'[n], pms[n])
        /\ \A c \in Connection \ {n} : pms'[c] = pms[c]
    BY <1>8, TimerFiresEffect
  <2>2. UNCHANGED <<current, made, socket, connecting, server, doing>>
    BY <1>8 DEF TimerFires, conn, owned, user
  <2>3. n \in made
    BY <1>8, PendingIsMade DEF TimerFires
  <2>4. QED
    BY <2>1, <2>2, <2>3, OneReading DEF SameReads
<1>9. ASSUME NEW n \in Connection, ReadFails(n) \/ ReadStops(n) PROVE Pms(pms') /\ Reading'
  <2>1. /\ Pms(pms') /\ pms'[n].reads = 0
        /\ \A c \in Connection \ {n} : pms'[c] = pms[c]
    BY <1>9, ReadEndsEffect
  <2>2. /\ UNCHANGED <<made, socket, connecting, server, doing>>
        /\ current' \in {current, NoPM}
    BY <1>9 DEF ReadFails, ReadStops, OnDisconnect, conn, owned, user, hist
  <2>3. n \in made
    BY <1>9, PendingIsMade DEF ReadFails, ReadStops, Receives
  <2>4. QED
    BY <2>1, <2>2, <2>3, OneReading
<1>10. ASSUME NEW n \in Connection, NEW type \in Handled, Arrives(n, type)
       PROVE  Pms(pms') /\ Reading'
  <2>1. UNCHANGED <<pms, current, made, socket, connecting, server, doing>>
    BY <1>10 DEF Arrives, conn, owned, user, hist
  <2>2. QED
    BY <2>1, QuietReading
<1>11. ASSUME NEW n \in Connection,
              HandlesList(n) \/ HandlesHeader(n) \/ HandlesChunk(n) \/ HandlesEnd(n)
       PROVE  Pms(pms') /\ Reading'
  <2>1. PICK type \in Handled : Handles(n, type)
    BY <1>11 DEF HandlesList, HandlesHeader, HandlesChunk, HandlesEnd, Handled
  <2>2. UNCHANGED <<pms, current, made, socket, connecting, doing>>
    BY <2>1 DEF Handles, conn, user
  <2>3. n \in made
    BY <2>1, HandlerIs DEF Handles, Busy
  <2>4. \A c \in Connection \ made : server'[c].sending = server[c].sending
    BY <1>11, <2>3 DEF HandlesList, HandlesHeader, HandlesChunk, HandlesEnd, Others, ServerType
  <2>5. QED
    BY <2>2, <2>4, QuietReading
<1>12. ASSUME NEW n \in Connection, Completion(n) \/ Continues(n) PROVE Pms(pms') /\ Reading'
  BY <1>4, <1>5, <1>6, <1>7, <1>8, <1>9, <1>10, <1>11, <1>12 DEF Completion, Continues
<1>13. QED
  BY <1>1, <1>2, <1>3, <1>12 DEF Next

-----------------------------------------------------------------------------
(* Whom a handler serves *)

\* No step but those that begin or go on with a handler changes who is served.
LEMMA QuietBusy ==
    ASSUME Busy, handler' = handler, made \subseteq made', current' \in {current, NoPM},
           handler # Nothing => /\ pms'[handler.of].reads = pms[handler.of].reads
                                /\ server'[handler.of].sending = server[handler.of].sending
                                /\ server[handler.of].requests > 0 => server'[handler.of].requests > 0
    PROVE  Busy'
  BY DEF Busy

\* The UI thread changes no reads.
LEMMA UiReads ==
    ASSUME Others, Pms(pms), UiStep
    PROVE  \A c \in Connection : pms'[c].reads = pms[c].reads
<1>1. ASSUME UNCHANGED pms PROVE \A c \in Connection : pms'[c].reads = pms[c].reads
  BY <1>1
<1>2. CASE Connect \/ Select \/ Unselect \/ (\E act \in Acts : Check(act)) \/ UseNull
             \/ UseDropFails \/ Close \/ Leave
  BY <1>1, <1>2 DEF Connect, Select, Unselect, Check, UseNull, UseDropFails, Close, Leave
<1>3. ASSUME NEW p \in PacketType, current # NoPM, pms' = QueueOn(current, p)
      PROVE  \A c \in Connection : pms'[c].reads = pms[c].reads
  BY <1>3, QueueOnEffect DEF SameReads
<1>4. CASE UseDrop
  BY <1>3, <1>4 DEF UseDrop, PacketType
<1>5. ASSUME NEW act, NEW p \in PacketType, UseQueue(act, p)
      PROVE  \A c \in Connection : pms'[c].reads = pms[c].reads
  BY <1>3, <1>5 DEF UseQueue
<1>6. CASE UseDisconnect
  BY <1>6, UseDisconnectEffect
<1>7. {"MessageChat", "UpdateWriteRate", "FileDownloadRequest", "FileDeleteRequest"} \subseteq PacketType
  BY DEF PacketType
<1>8. QED
  BY <1>2, <1>4, <1>5, <1>6, <1>7 DEF UiStep

\* What the UI thread leaves to the other one.
LEMMA UiLeaves ==
    ASSUME UiStep
    PROVE  UNCHANGED <<made, handler, server>> /\ current' \in {current, NoPM}
  BY DEF UiStep, Connect, Select, Unselect, Check, UseDrop, UseDropFails, UseQueue, UseDisconnect,
         Close, Leave, OnDisconnect, UseNull, OnlyQueues, conn, owned, user, hist

LEMMA BusyKept ==
    ASSUME Others, Pms(pms), Reading, Busy, Next
    PROVE  Busy'
<1>0. Nothing.of = NoPM /\ Nothing.does = "nothing"
  BY DEF Nothing
<1>1. CASE UiStep
  <2>1. UNCHANGED <<made, handler, server>> /\ current' \in {current, NoPM}
    BY <1>1, UiLeaves
  <2>2. handler # Nothing => handler.of \in Connection
    BY DEF Busy, Others
  <2>3. QED
    BY <1>1, <2>1, <2>2, UiReads, QuietBusy
<1>2. CASE ResolveFails \/ Resolved \/ ConnectFails
  <2>1. UNCHANGED <<pms, current, made, server, handler>>
    BY <1>2 DEF ResolveFails, Resolved, ConnectFails, owned, hist
  <2>2. QED
    BY <2>1, QuietBusy
<1>3. ASSUME NEW n \in Connection, Connected(n) PROVE Busy'
  <2>1. pms[n].reads = 0
    BY <1>3, ConnectedIsFirst
  <2>2. /\ handler' = [does |-> "startReceive", of |-> n] /\ n \in made' /\ current' = n
        /\ pms' = pms
    BY <1>3 DEF Connected, Goto
  <2>3. handler'.does = "startReceive" /\ handler'.of = n /\ "startReceive" \notin Handled
    BY <2>2 DEF Handled
  <2>4. QED
    BY <2>1, <2>2, <2>3 DEF Busy
<1>4. ASSUME NEW n \in Connection, StartsReceiving(n) \/ Greets(n) PROVE Busy'
  <2>1. UNCHANGED <<current, made>> /\ current = n
    BY <1>4 DEF StartsReceiving, Greets, OnlyConnects, conn, owned
  <2>2. handler'.does \in {"greet", "updateReadRate"} /\ handler'.of = n
    BY <1>4 DEF StartsReceiving, Greets, Goto
  <2>3. handler'.does \notin Handled \cup {"startReceive"}
    BY <2>2 DEF Handled
  <2>4. n \in made
    BY <2>1, NoPMIsNone DEF Others
  <2>5. handler'.does \notin {"FileDataHeader", "FileDataChunk", "FileDataEnd"}
    BY <2>2
  <2>6. QED
    BY <2>1, <2>2, <2>3, <2>4, <2>5 DEF Busy
<1>5. ASSUME handler' = Nothing PROVE Busy'
  BY <1>5 DEF Busy, Nothing
<1>6. ASSUME NEW n \in Connection, UpdatesRates(n) PROVE Busy'
  BY <1>5, <1>6 DEF UpdatesRates
<1>7. ASSUME NEW n \in Connection, OnConnectHasNoManager(n) PROVE Busy'
  <2>1. UNCHANGED <<pms, current, made, server, handler>>
    BY <1>7 DEF OnConnectHasNoManager, conn, owned
  <2>2. QED
    BY <2>1, QuietBusy
<1>8. ASSUME NEW n \in Connection,
             WriteSucceeds(n) \/ WriteFails(n) \/ TimerFires(n) \/ ReadFails(n) \/ ReadStops(n)
      PROVE  Busy'
  <2>1. handler = Nothing
    BY <1>8 DEF WriteSucceeds, WriteFails, TimerFires, ReadFails, ReadStops, Receives, Idle
  <2>2. handler' = handler
    BY <1>8 DEF WriteSucceeds, WriteFails, TimerFires, ReadFails, ReadStops
  <2>3. QED
    BY <1>5, <2>1, <2>2
<1>9. ASSUME NEW n \in Connection, NEW type \in Handled, Arrives(n, type) PROVE Busy'
  <2>1. /\ UNCHANGED <<pms, current, made, server>>
        /\ pms[n].reads > 0 /\ MaySend(n, type)
    BY <1>9 DEF Arrives, Receives, conn, owned, hist
  <2>2. handler'.does = type /\ handler'.of = n
    BY <1>9 DEF Arrives, Goto
  <2>3. n \in made /\ pms[n].reads = 1
    <3>1. pms[n].reads \in 0..1
      BY DEF Pms, PmState
    <3>2. QED
      BY <2>1, <3>1, PendingIsMade
  <2>4. current \in {n, NoPM}
    BY <2>3 DEF Reading
  <2>5. type # "startReceive"
    BY DEF Handled
  <2>6. QED
    BY <2>1, <2>2, <2>3, <2>4, <2>5 DEF Busy, MaySend
<1>10. ASSUME NEW n \in Connection,
              HandlesList(n) \/ HandlesHeader(n) \/ HandlesChunk(n) \/ HandlesEnd(n)
       PROVE  Busy'
  BY <1>5, <1>10 DEF HandlesList, HandlesHeader, HandlesChunk, HandlesEnd, Handles
<1>11. ASSUME NEW n \in Connection, Completion(n) \/ Continues(n) PROVE Busy'
  BY <1>4, <1>6, <1>7, <1>8, <1>9, <1>10, <1>11 DEF Completion, Continues
<1>12. QED
  BY <1>1, <1>2, <1>3, <1>11 DEF Next

-----------------------------------------------------------------------------
(* What becomes of the queues *)

\* A packet of another kind is queued on the client's packet manager.
LEMMA QueueOnKeeps ==
    ASSUME Others, Pms(pms), current # NoPM, NEW p \in PacketType, pms' = QueueOn(current, p),
           NEW K, p \notin K
    PROVE  \A c \in Connection : Keeps(Queue(c), Queue(c)', K)
<1>1. SUFFICES ASSUME NEW c \in Connection PROVE Keeps(Queue(c), Queue(c)', K)
  OBVIOUS
<1>2. Queue(c) \in Seq(PacketType)
  BY DEF Queue, Pms, PmState
<1>3. Queue(c)' = Queue(c) \/ Queue(c)' = Append(Queue(c), p)
  BY QueueOnEffect DEF Queue
<1>4. Keeps(Queue(c), Queue(c), K) /\ Keeps(Queue(c), Append(Queue(c), p), K)
  BY <1>2, KeepsAppend DEF Keeps
<1>5. QED
  BY <1>3, <1>4

\* A write has completed and a packet of another kind, or none, is queued.
LEMMA SendsNextKeeps ==
    ASSUME Others, Pms(pms), NEW n \in Connection, pms[n].writes # <<>>,
           current # NoPM, NEW p \in PacketType, SendsNext(n, p), NEW K, p \notin K
    PROVE  \A c \in Connection : Keeps(Queue(c), Queue(c)', K)
<1>1. SUFFICES ASSUME NEW c \in Connection PROVE Keeps(Queue(c), Queue(c)', K)
  OBVIOUS
<1>2. Queue(c) \in Seq(PacketType) /\ Queue(n) \in Seq(PacketType) /\ Queue(n) # <<>>
  BY SendsNextEffect DEF Queue, Pms, PmState
<1> DEFINE t == Tail(Queue(n))
<1>3. t \in Seq(PacketType) /\ Keeps(Queue(n), t, K)
  BY <1>2, KeepsTail, HeadTailProperties
<1> HIDE DEF t
<1>4. Keeps(t, Append(t, p), K) /\ Keeps(t, t, K)
  BY <1>3, KeepsAppend DEF Keeps
<1>5. Keeps(Queue(n), t, K) /\ Keeps(Queue(n), Append(t, p), K)
  BY <1>3, <1>4, KeepsMore
<1>6. Keeps(Queue(c), Queue(c), K) /\ Keeps(Queue(c), Append(Queue(c), p), K)
  BY <1>2, KeepsAppend DEF Keeps
<1>7. /\ c \notin {n, current} => Queue(c)' = Queue(c)
      /\ c = n => Queue(c)' = t \/ Queue(c)' = Append(t, p)
      /\ c = current /\ c # n => Queue(c)' = Queue(c) \/ Queue(c)' = Append(Queue(c), p)
  BY SendsNextEffect DEF Queue, t
<1>8. QED
  BY <1>5, <1>6, <1>7

LEMMA NothingToSendKeeps ==
    ASSUME Others, Pms(pms), NEW n \in Connection, pms[n].writes # <<>>, NothingToSend(n), NEW K
    PROVE  \A c \in Connection : Keeps(Queue(c), Queue(c)', K)
<1>1. Queue(n) \in Seq(PacketType) /\ Queue(n) # <<>> /\ Queue(n)' = Tail(Queue(n))
  BY NothingToSendEffect DEF Queue, Pms, PmState
<1>2. Keeps(Queue(n), Queue(n)', K)
  BY <1>1, KeepsTail
<1>3. \A c \in Connection \ {n} : Queue(c)' = Queue(c)
  BY NothingToSendEffect DEF Queue
<1>4. \A c \in Connection : Keeps(Queue(c), Queue(c), K)
  BY DEF Keeps
<1>5. QED
  BY <1>2, <1>3, <1>4

\* No step but the two that begin an upload or go on with it, and Send,
\* queue a packet of either kind.
LEMMA QueuesKept ==
    ASSUME Others, Pms(pms), Reading, Busy, Next, NEW K \in {Chat, Upload}
    PROVE  \/ \A c \in Connection : Keeps(Queue(c), Queue(c)', K)
           \/ K = Chat /\ UseQueue("Send", "MessageChat")
           \/ K = Upload /\ UseDrop
           \/ K = Upload /\ \E n \in Connection :
                WriteSucceeds(n) /\ UploadGoesOn(n) /\ SendsNext(n, "FileDataChunk")
<1> DEFINE Goal == \A c \in Connection : Keeps(Queue(c), Queue(c)', K)
<1>1. ASSUME \A c \in Connection : Queue(c)' = Queue(c) PROVE Goal
  BY <1>1 DEF Keeps
<1>2. ASSUME UNCHANGED pms PROVE Goal
  BY <1>1, <1>2 DEF Queue
<1>3. CASE Connect \/ Select \/ Unselect \/ (\E act \in Acts : Check(act)) \/ UseNull
             \/ ResolveFails \/ Resolved \/ ConnectFails \/ UseDropFails \/ Close \/ Leave
  BY <1>2, <1>3 DEF Connect, Select, Unselect, Check, UseNull, ResolveFails, Resolved,
                    ConnectFails, UseDropFails, Close, Leave
<1>4. ASSUME NEW n \in Connection,
             \/ \E type \in Handled : Arrives(n, type)
             \/ HandlesList(n) \/ HandlesHeader(n) \/ HandlesChunk(n) \/ HandlesEnd(n)
             \/ Connected(n) \/ OnConnectHasNoManager(n)
      PROVE  Goal
  BY <1>2, <1>4 DEF Arrives, HandlesList, HandlesHeader, HandlesChunk, HandlesEnd, Handles, Connected,
                    OnConnectHasNoManager
<1>5. ASSUME NEW act, NEW p \in PacketType \ K, UseQueue(act, p) PROVE Goal
  BY <1>5, QueueOnKeeps DEF UseQueue
<1>6. CASE UseDrop /\ K = Chat
  BY <1>6, QueueOnKeeps DEF UseDrop, Chat, PacketType
<1>7. CASE UseDisconnect
  BY <1>1, <1>7, UseDisconnectEffect
<1>8. ASSUME NEW n \in Connection, StartsReceiving(n) \/ Greets(n) \/ UpdatesRates(n) PROVE Goal
  <2>1. CASE StartsReceiving(n)
    BY <1>1, <2>1, StartsReceivingEffect
  <2>2. ASSUME NEW p \in PacketType \ K, current # NoPM, pms' = QueueOn(current, p) PROVE Goal
    BY <2>2, QueueOnKeeps
  <2>3. {"UserInfo", "UpdateWriteRate"} \subseteq PacketType \ K
    BY DEF PacketType, Chat, Upload
  <2>4. QED
    BY <1>8, <2>1, <2>2, <2>3, GreetsEffect
<1>9. ASSUME NEW n \in Connection, WriteSucceeds(n)
      PROVE  Goal \/ (K = Upload /\ UploadGoesOn(n) /\ SendsNext(n, "FileDataChunk"))
  <2>1. pms[n].writes # <<>>
    BY <1>9 DEF WriteSucceeds
  <2>2. CASE UploadGoesOn(n) /\ SendsNext(n, "FileDataEnd")
    <3>1. "FileDataEnd" \in PacketType \ K /\ current # NoPM
      BY <2>2 DEF PacketType, Chat, Upload, UploadGoesOn
    <3>2. QED
      BY <2>1, <2>2, <3>1, SendsNextKeeps
  <2>3. CASE K = Chat /\ UploadGoesOn(n) /\ SendsNext(n, "FileDataChunk")
    <3>1. "FileDataChunk" \in PacketType \ K /\ current # NoPM
      BY <2>3 DEF PacketType, Chat, UploadGoesOn
    <3>2. QED
      BY <2>1, <2>3, <3>1, SendsNextKeeps
  <2>4. CASE UploadHasNoManager(n)
    BY <1>2, <2>4 DEF UploadHasNoManager
  <2>5. CASE NothingToSend(n)
    BY <2>1, <2>5, NothingToSendKeeps
  <2>6. QED
    BY <1>9, <2>2, <2>3, <2>4, <2>5 DEF WriteSucceeds, UploadGoesOn
<1>10. ASSUME NEW n \in Connection, WriteFails(n) PROVE Goal
  BY <1>1, <1>10, WriteFailsEffect DEF Queue
<1>11. ASSUME NEW n \in Connection, TimerFires(n) PROVE Goal
  BY <1>1, <1>11, TimerFiresEffect DEF Queue
<1>12. ASSUME NEW n \in Connection, ReadFails(n) \/ ReadStops(n) PROVE Goal
  BY <1>1, <1>12, ReadEndsEffect DEF Queue
<1>13. /\ {"UpdateWriteRate", "FileDownloadRequest", "FileDeleteRequest"} \subseteq PacketType \ K
       /\ K = Upload => "MessageChat" \in PacketType \ K
  BY DEF PacketType, Chat, Upload
<1> HIDE DEF Goal
<1>14. CASE UiStep
  BY <1>3, <1>5, <1>6, <1>7, <1>13, <1>14 DEF UiStep, Goal
<1>15. ASSUME NEW n \in Connection, Connected(n) \/ Completion(n) \/ Continues(n)
       PROVE  Goal \/ (K = Upload /\ WriteSucceeds(n) /\ UploadGoesOn(n) /\ SendsNext(n, "FileDataChunk"))
  BY <1>4, <1>8, <1>9, <1>10, <1>11, <1>12, <1>15 DEF Completion, Continues
<1>16. QED
  BY <1>3, <1>14, <1>15 DEF Next, Goal

-----------------------------------------------------------------------------
(* The chat packet *)

LEMMA ChatIsQueuedMeans == ASSUME ~ChatIsQueued PROVE \A c \in Connection : Free(Queue(c), Chat)
  BY DEF ChatIsQueued, InQueue, Free, Chat, Queue

\* An act begins with its check.
LEMMA BeginsByCheck ==
    ASSUME Next, doing' \in CheckedAct \cup UncheckedAct, doing' # doing
    PROVE  \E act \in Acts : Check(act) /\ doing' = act
<1>1. {"nothing", "close", "onDisconnect"} \cap (CheckedAct \cup UncheckedAct) = {}
  BY DEF CheckedAct, UncheckedAct
<1>2. CASE UiStep
  BY <1>1, <1>2 DEF UiStep, Connect, Select, Unselect, Check, UseDrop, UseDropFails, UseQueue,
                    UseDisconnect, Close, Leave, Uses, UseNull, user
<1>3. CASE ResolveFails \/ Resolved \/ ConnectFails
  BY <1>3 DEF ResolveFails, Resolved, ConnectFails, user
<1>4. ASSUME NEW n \in Connection, Connected(n) \/ Completion(n) PROVE doing' = doing
  BY <1>4 DEF Completion, Connected, WriteSucceeds, WriteFails, TimerFires, Arrives, ReadFails,
              ReadStops, user
<1>5. ASSUME NEW n \in Connection, Continues(n) PROVE doing' = doing
  BY <1>5 DEF Continues, StartsReceiving, Greets, UpdatesRates, OnConnectHasNoManager, OnlyConnects,
              HandlesList, HandlesHeader, HandlesChunk, HandlesEnd, Handles, user
<1>6. QED
  BY <1>2, <1>3, <1>4, <1>5 DEF Next

LEMMA ChatsKept ==
    ASSUME Others, Pms(pms), Reading, Busy, Chats, Next
    PROVE  Chats'
<1>1. CASE UseQueue("Send", "MessageChat")
  <2>1. /\ doing = "Send" /\ doing' = "nothing" /\ current # NoPM
        /\ pms' = QueueOn(current, "MessageChat")
    BY <1>1 DEF UseQueue, Uses
  <2>2. \A c \in Connection : Free(Queue(c), Chat)
    BY <2>1 DEF Chats
  <2>3. current \in Connection /\ "MessageChat" \in PacketType
    BY <2>1, CurrentIsMade DEF PacketType
  <2>4. /\ \A c \in Connection \ {current} : Queue(c)' = Queue(c)
        /\ pms'[current].queue \in {Queue(current), Append(Queue(current), "MessageChat")}
    BY <2>1, <2>3, QueueOnEffect DEF Queue
  <2>5. Queue(current) \in Seq(PacketType)
    BY <2>3 DEF Queue, Pms, PmState
  <2>6. Once(pms'[current].queue, Chat)
    BY <2>2, <2>3, <2>4, <2>5, KeepsAppend DEF Chats
  <2>7. \A c \in Connection : Once(Queue(c)', Chat)
    BY <2>4, <2>6 DEF Chats, Queue
  <2>8. \A c \in Connection \ {current} : Free(Queue(c)', Chat)
    BY <2>2, <2>4
  <2>9. QED
    BY <2>1, <2>7, <2>8 DEF Chats
<1>2. CASE \A c \in Connection : Keeps(Queue(c), Queue(c)', Chat)
  <2>1. doing' = "Send" => \A c \in Connection : Free(Queue(c), Chat)
    <3>1. ASSUME doing' = "Send", doing # "Send" PROVE ~ChatIsQueued
      <4>1. "Send" \in CheckedAct \cup UncheckedAct /\ doing' # doing
        BY <3>1 DEF CheckedAct
      <4>2. PICK act \in Acts : Check(act) /\ doing' = act
        BY <3>1, <4>1, BeginsByCheck
      <4>3. MayDo("Send")
        BY <3>1, <4>2 DEF Check
      <4>4. QED
        BY <4>3 DEF MayDo
    <3>2. QED
      BY <3>1, ChatIsQueuedMeans DEF Chats
  <2>2. QED
    BY <1>2, <2>1 DEF Chats, Keeps
<1>3. QED
  BY <1>1, <1>2, QueuesKept DEF Chat, Upload

-----------------------------------------------------------------------------
(* The sockets that are written to *)

LEMMA OnSame == ASSUME NEW m, NEW n, n.writes = m.writes PROVE On(n) = On(m)
  BY DEF On

LEMMA OnNone == ASSUME NEW m, m.writes = <<>> PROVE On(m) = {}
  BY DEF On

\* asyncSend, queuePacket, and what comes after a write use the socket as it is.
LEMMA AsyncSendOn ==
    ASSUME NEW m \in PmState, NEW o
    PROVE  On(PM!AsyncSend(m, o)) \subseteq On(m) \cup {o}
<1> DEFINE w == [packet |-> Head(m.queue), on |-> o]
<1> DEFINE n == [m EXCEPT !.writes = Append(m.writes, w)]
<1>1. PM!AsyncSend(m, o) = n
  BY DEF PM!AsyncSend
<1>2. w.on = o
  OBVIOUS
<1> HIDE DEF w
<1>3. n.writes = Append(m.writes, w)
  BY DEF PmState
<1> HIDE DEF n
<1>4. m.writes \in Seq([packet : PacketType, on : SocketState])
  BY DEF PmState
<1>5. ASSUME NEW i \in 1..Len(n.writes)
      PROVE  n.writes[i] = w \/ (i \in 1..Len(m.writes) /\ n.writes[i] = m.writes[i])
  BY <1>3, <1>4
<1>6. QED
  BY <1>1, <1>2, <1>5 DEF On

LEMMA QueuePacketOn ==
    ASSUME NEW m \in PmState, NEW o, NEW p \in PacketType
    PROVE  On(PM!QueuePacket(m, o, p)) \subseteq On(m) \cup {o}
<1>1. Append(m.queue, p) \in Seq(PacketType)
  BY AppendFacts DEF PmState
<1>2. PM!Enqueue(m, p).writes = m.writes
  BY DEF PM!Enqueue, PmState
<1>3. PM!EnqueueFirst(m, p) \in PmState /\ PM!EnqueueFirst(m, p).writes = m.writes
  BY <1>1 DEF PM!EnqueueFirst, PmState
<1>4. On(PM!AsyncSend(PM!EnqueueFirst(m, p), o)) \subseteq On(m) \cup {o}
  BY <1>3, AsyncSendOn, OnSame
<1>5. QED
  BY <1>2, <1>4, OnSame DEF PM!QueuePacket

LEMMA AfterSentOn ==
    ASSUME NEW m \in PmState, NEW o, NEW r \in PM!AfterSent(m, o)
    PROVE  On(r) \subseteq On(m) \cup {o}
<1>1. r = PM!AsyncSend(m, o) \/ r = PM!ArmTimer(m) \/ r = [m EXCEPT !.sending = FALSE]
  BY DEF PM!AfterSent, PM!DoSend
<1>2. PM!ArmTimer(m).writes = m.writes /\ [m EXCEPT !.sending = FALSE].writes = m.writes
  BY DEF PM!ArmTimer, PmState
<1>3. QED
  BY <1>1, <1>2, AsyncSendOn, OnSame

LEMMA TimerFiredOn ==
    ASSUME NEW m \in PmState, NEW o, SendSide(m), m.waits > 0
    PROVE  On(PM!TimerFired(m, o)) \subseteq On(m) \cup {o}
<1> DEFINE n == [m EXCEPT !.waits = m.waits - 1]
<1>1. m.waits - 1 \in Nat
  BY DEF PmState
<1>2. n \in PmState /\ n.writes = m.writes
  BY <1>1 DEF PmState
<1>3. PM!TimerFired(m, o) = PM!AsyncSend(n, o)
  BY DEF PM!TimerFired
<1> HIDE DEF n
<1>4. QED
  BY <1>2, <1>3, AsyncSendOn, OnSame

\* One packet manager changes, or two.
LEMMA OneManager ==
    ASSUME pms \in [Connection -> PmState], NEW n \in Connection, NEW m, pms' = [pms EXCEPT ![n] = m],
           On(m) \subseteq On(pms[n]) \cup {socket}
    PROVE  \A c \in Connection : On(pms'[c]) \subseteq On(pms[c]) \cup {socket}
  OBVIOUS

LEMMA WriteSucceedsOn ==
    ASSUME Others, Pms(pms), NEW n \in Connection, WriteSucceeds(n)
    PROVE  \A c \in Connection : On(pms'[c]) \subseteq On(pms[c]) \cup {socket}
<1> DEFINE q == PM!PopSent(pms[n])
<1>1. /\ pms \in [Connection -> PmState] /\ pms[n] \in PmState /\ SendSide(pms[n])
      /\ pms[n].writes # <<>> /\ socket \in SocketState
  BY DEF Pms, WriteSucceeds, Others
<1>2. q \in PmState /\ Handling(q) /\ q.writes = <<>>
  BY <1>1, PopSentEffect DEF Handling
<1> HIDE DEF q
<1>3. Popped(n) = [pms EXCEPT ![n] = q]
  BY DEF Popped, q
<1>4. CASE NothingToSend(n)
  <2>1. PICK m \in PM!AfterSent(q, socket) : pms' = [pms EXCEPT ![n] = m]
    BY <1>1, <1>3, <1>4 DEF NothingToSend, Continuations
  <2>2. On(m) \subseteq {socket}
    BY <1>2, AfterSentOn, OnNone
  <2>3. QED
    BY <1>1, <2>1, <2>2, OneManager
<1>5. CASE UploadHasNoManager(n)
  BY <1>5 DEF UploadHasNoManager
<1>6. CASE UploadGoesOn(n)
  <2>1. PICK p \in {"FileDataEnd", "FileDataChunk"} : SendsNext(n, p)
    BY <1>6 DEF UploadGoesOn
  <2>2. p \in PacketType /\ current \in Connection
    BY <1>6, CurrentIsMade DEF PacketType, UploadGoesOn
  <2> DEFINE f == [pms EXCEPT ![n] = q]
  <2> DEFINE r == PM!QueuePacket(f[current], socket, p)
  <2> DEFINE g == [f EXCEPT ![current] = r]
  <2>3. f \in [Connection -> PmState] /\ (SendSide(f[current]) \/ Handling(f[current]))
    BY <1>1, <1>2, <2>2 DEF Pms
  <2>4. r \in PmState /\ On(r) \subseteq On(f[current]) \cup {socket}
    BY <1>1, <2>2, <2>3, QueuePacketEffect, QueuePacketOn
  <2>5. \A c \in Connection : On(f[c]) \subseteq On(pms[c])
    BY <1>1, <1>2, OnNone
  <2>6. PICK m \in PM!AfterSent(g[n], socket) : pms' = [g EXCEPT ![n] = m]
    BY <1>3, <2>1 DEF SendsNext, Continuations
  <2> HIDE DEF f, r
  <2>7. g \in [Connection -> PmState] /\ \A c \in Connection : On(g[c]) \subseteq On(f[c]) \cup {socket}
    BY <2>2, <2>3, <2>4
  <2> HIDE DEF g
  <2>8. On(m) \subseteq On(g[n]) \cup {socket}
    BY <2>6, <2>7, AfterSentOn
  <2>9. \A c \in Connection : On(pms'[c]) \subseteq On(g[c]) \cup {socket}
    BY <2>6, <2>7, <2>8
  <2>10. QED
    BY <2>5, <2>7, <2>9
<1>7. QED
  BY <1>4, <1>5, <1>6 DEF WriteSucceeds

-----------------------------------------------------------------------------
(* Without a connection *)

\* What the timer of a packet manager of the past writes while there is a
\* connection is on a closed socket, or on one of another.
LEMMA TimerCrosses ==
    ASSUME Others, Pms(pms), Reading, NEW n \in Connection, TimerFires(n),
           current # NoPM, n # current, ~Foreign'
    PROVE  On(pms'[n]) \subseteq {"closed"}
<1> DEFINE m == pms[n]
<1>1. m \in PmState /\ SendSide(m) /\ m.waits > 0
  BY DEF Pms, TimerFires
<1>2. m.writes = <<>>
  BY <1>1 DEF SendSide
<1> DEFINE w == [packet |-> Head(m.queue), on |-> socket]
<1> DEFINE v == [m EXCEPT !.waits = m.waits - 1]
<1> DEFINE r == [v EXCEPT !.writes = <<w>>]
<1>3. v.writes = <<>> /\ v.queue = m.queue
  BY <1>1, <1>2 DEF PmState
<1>4. PM!TimerFired(m, socket) = r
  <2>1. PM!TimerFired(m, socket) = PM!AsyncSend(v, socket)
    BY DEF PM!TimerFired
  <2> HIDE DEF v
  <2>2. PM!AsyncSend(v, socket) =
          [v EXCEPT !.writes = Append(v.writes, [packet |-> Head(v.queue), on |-> socket])]
    BY DEF PM!AsyncSend
  <2>3. Append(v.writes, [packet |-> Head(v.queue), on |-> socket]) = <<w>>
    BY <1>3
  <2>4. QED
    BY <2>1, <2>2, <2>3
<1>5. r.writes = <<w>>
  BY <1>1 DEF PmState
<1>6. w.on = socket
  OBVIOUS
<1>7. pms' = [pms EXCEPT ![n] = r]
  BY <1>4 DEF TimerFires
<1> HIDE DEF m, w, r
<1>8. pms'[n].writes = <<w>>
  BY <1>5, <1>7 DEF Pms
<1>9. \A i \in 1..Len(pms'[n].writes) : pms'[n].writes[i].on = socket
  BY <1>6, <1>8
<1>10. 1 \in 1..Len(pms'[n].writes)
  BY <1>8
<1>11. current' = current
  BY DEF TimerFires, owned
<1>12. socket \in {n, "closed"}
  BY <1>9, <1>10, <1>11 DEF Foreign
<1>13. socket = "closed"
  BY <1>12, SocketNames DEF Reading
<1>14. QED
  BY <1>9, <1>13 DEF On

LEMMA CrossedStays == ASSUME Next, crossed PROVE crossed'
  BY DEF Next, UiStep, Completion, Continues, Connect, Select, Unselect, Check, UseDrop, UseDropFails,
         UseQueue, UseDisconnect, Close, Leave, UseNull, ResolveFails, Resolved, ConnectFails,
         Connected, StartsReceiving, Greets, UpdatesRates, OnConnectHasNoManager, OnlyConnects,
         WriteSucceeds, WriteFails, TimerFires, Arrives, Handles, HandlesList, HandlesHeader,
         HandlesChunk, HandlesEnd, ReadFails, ReadStops, OnlyQueues, Crossing, hist

LEMMA LateStays == ASSUME Next, late PROVE late'
  BY DEF Next, UiStep, Completion, Continues, Connect, Select, Unselect, Check, UseDrop, UseDropFails,
         UseQueue, UseDisconnect, Close, Leave, UseNull, ResolveFails, Resolved, ConnectFails,
         Connected, StartsReceiving, Greets, UpdatesRates, OnConnectHasNoManager, OnlyConnects,
         WriteSucceeds, WriteFails, TimerFires, Arrives, Handles, HandlesList, HandlesHeader,
         HandlesChunk, HandlesEnd, ReadFails, ReadStops, OnlyQueues, hist

\* onDisconnect leaves nothing open.
LEMMA OnDisconnectEffect ==
    ASSUME Others, OnDisconnect
    PROVE  current' = NoPM /\ ~fileList' /\ file'.stream.mode = "closed"
  BY FileChanges DEF OnDisconnect, Others

\* The UI thread uses no packet manager but the client's.
LEMMA UiUses ==
    ASSUME Others, Pms(pms), UiStep, NEW c \in Connection \ {current}
    PROVE  pms'[c] = pms[c]
<1>1. CASE Connect \/ Select \/ Unselect \/ (\E act \in Acts : Check(act)) \/ UseNull
             \/ UseDropFails \/ Close \/ Leave
  BY <1>1 DEF Connect, Select, Unselect, Check, UseNull, UseDropFails, Close, Leave
<1>2. ASSUME NEW p \in PacketType, current # NoPM, pms' = QueueOn(current, p)
      PROVE  pms'[c] = pms[c]
  BY <1>2, QueueOnEffect
<1>3. CASE UseDrop
  BY <1>2, <1>3 DEF UseDrop, PacketType
<1>4. ASSUME NEW act, NEW p \in PacketType, UseQueue(act, p) PROVE pms'[c] = pms[c]
  BY <1>2, <1>4 DEF UseQueue
<1>5. CASE UseDisconnect
  BY <1>5, UseDisconnectEffect
<1>6. {"MessageChat", "UpdateWriteRate", "FileDownloadRequest", "FileDeleteRequest"} \subseteq PacketType
  BY DEF PacketType
<1>7. QED
  BY <1>1, <1>3, <1>4, <1>5, <1>6 DEF UiStep

\* A write that succeeds is the client's connection's.
LEMMA WritesOnItsOwn ==
    ASSUME Pms(pms), Alone, NEW n \in Connection, WriteSucceeds(n)
    PROVE  current \in {n, NoPM}
<1>1. pms[n].writes # <<>> /\ Head(pms[n].writes).on \in Connection
  BY DEF WriteSucceeds
<1>2. pms[n].writes \in Seq([packet : PacketType, on : SocketState])
  BY DEF Pms, PmState
<1>3. 1 \in 1..Len(pms[n].writes) /\ Head(pms[n].writes) = pms[n].writes[1]
  BY <1>1, <1>2
<1>4. pms[n].writes[1].on \in On(pms[n]) /\ pms[n].writes[1].on # "closed"
  BY <1>1, <1>3, SocketNames DEF On
<1>5. QED
  BY <1>4 DEF Alone

LEMMA StaysAlone ==
    ASSUME Alone, current' \in {current, NoPM},
           current' # NoPM => \A c \in Connection \ {current} : pms'[c].writes = pms[c].writes
    PROVE  Alone'
<1>1. SUFFICES ASSUME current' # NoPM, NEW c \in Connection, c # current'
               PROVE  On(pms'[c]) \subseteq {"closed"}
  BY DEF Alone
<1>2. current' = current /\ pms'[c].writes = pms[c].writes
  BY <1>1
<1>3. QED
  BY <1>1, <1>2, OnSame DEF Alone

LEMMA AloneKept ==
    ASSUME Others, Pms(pms), Reading, Busy, Alone, Next, ~crossed'
    PROVE  Alone'
<1>1. CASE UiStep
  BY <1>1, UiUses, UiLeaves, StaysAlone
<1>2. CASE ResolveFails \/ Resolved \/ ConnectFails
  <2>1. UNCHANGED <<pms, current>>
    BY <1>2 DEF ResolveFails, Resolved, ConnectFails, owned
  <2>2. QED
    BY <2>1, StaysAlone
<1>3. ASSUME NEW n \in Connection, Connected(n) PROVE Alone'
  <2>1. pms' = pms /\ \A c \in Connection : pms[c].writes = <<>>
    BY <1>3, ConnectedIsFirst DEF Connected
  <2>2. \A c \in Connection : On(pms'[c]) = {}
    BY <2>1, OnNone
  <2>3. QED
    BY <2>2 DEF Alone
<1>4. ASSUME NEW n \in Connection, WriteSucceeds(n) PROVE Alone'
  <2>1. pms[n].writes # <<>> /\ current' = current /\ current \in {n, NoPM}
    BY <1>4, WritesOnItsOwn DEF WriteSucceeds
  <2>2. CASE current = NoPM
    BY <2>1, <2>2, StaysAlone
  <2>3. CASE current = n
    <3>1. CASE UploadGoesOn(n)
      <4>1. PICK p \in {"FileDataEnd", "FileDataChunk"} : SendsNext(n, p)
        BY <3>1 DEF UploadGoesOn
      <4>2. p \in PacketType /\ current # NoPM
        BY <3>1 DEF PacketType, UploadGoesOn
      <4>3. \A c \in Connection \ {n, current} : pms'[c] = pms[c]
        BY <2>1, <4>1, <4>2, SendsNextEffect
      <4>4. QED
        BY <2>1, <2>3, <4>3, StaysAlone
    <3>2. CASE UploadHasNoManager(n)
      BY <2>1, <3>2, StaysAlone DEF UploadHasNoManager
    <3>3. CASE NothingToSend(n)
      <4>1. \A c \in Connection \ {n} : pms'[c] = pms[c]
        BY <2>1, <3>3, NothingToSendEffect
      <4>2. QED
        BY <2>1, <2>3, <4>1, StaysAlone
    <3>4. QED
      BY <1>4, <3>1, <3>2, <3>3 DEF WriteSucceeds
  <2>4. QED
    BY <2>1, <2>2, <2>3
<1>5. ASSUME NEW n \in Connection, WriteFails(n) \/ ReadFails(n) PROVE Alone'
  <2>1. current' = NoPM
    BY <1>5 DEF WriteFails, ReadFails, OnDisconnect
  <2>2. QED
    BY <2>1, StaysAlone
<1>6. ASSUME NEW n \in Connection, TimerFires(n) PROVE Alone'
  <2>1. current' = current /\ \A c \in Connection \ {n} : pms'[c] = pms[c]
    BY <1>6, TimerFiresEffect DEF TimerFires, owned
  <2>2. CASE current = NoPM \/ current = n
    BY <2>1, <2>2, StaysAlone
  <2>3. CASE current # NoPM /\ current # n
    <3>1. On(pms'[n]) \subseteq {"closed"}
      BY <1>6, <2>3, TimerCrosses DEF TimerFires, Crossing
    <3>2. ASSUME NEW c \in Connection, c # current PROVE On(pms'[c]) \subseteq {"closed"}
      BY <2>1, <2>3, <3>1, <3>2 DEF Alone
    <3>3. QED
      BY <2>1, <3>2 DEF Alone
  <2>4. QED
    BY <2>2, <2>3
<1>7. ASSUME NEW n \in Connection, ReadStops(n) PROVE Alone'
  <2>1. /\ pms'[n].writes = pms[n].writes /\ current' = current
        /\ \A c \in Connection \ {n} : pms'[c] = pms[c]
    BY <1>7, ReadEndsEffect DEF ReadStops, owned
  <2>2. QED
    BY <2>1, StaysAlone
<1>8. ASSUME NEW n \in Connection, NEW type \in Handled, Arrives(n, type) PROVE Alone'
  <2>1. UNCHANGED <<pms, current>>
    BY <1>8 DEF Arrives, owned
  <2>2. QED
    BY <2>1, StaysAlone
<1>9. ASSUME NEW n \in Connection,
             HandlesList(n) \/ HandlesHeader(n) \/ HandlesChunk(n) \/ HandlesEnd(n)
                 \/ OnConnectHasNoManager(n)
      PROVE  Alone'
  <2>1. UNCHANGED <<pms, current>>
    BY <1>9 DEF HandlesList, HandlesHeader, HandlesChunk, HandlesEnd, Handles,
                OnConnectHasNoManager, owned
  <2>2. QED
    BY <2>1, StaysAlone
<1>10. ASSUME NEW n \in Connection, StartsReceiving(n) \/ Greets(n) \/ UpdatesRates(n) PROVE Alone'
  <2>1. current' = current
    BY <1>10 DEF StartsReceiving, Greets, UpdatesRates, OnlyConnects, owned
  <2>2. CASE StartsReceiving(n)
    BY <2>1, <2>2, StartsReceivingEffect, StaysAlone
  <2>3. CASE Greets(n) \/ UpdatesRates(n)
    <3>1. PICK p \in {"UserInfo", "UpdateWriteRate"} :
             p \in PacketType /\ current = n /\ current # NoPM /\ pms' = QueueOn(current, p)
      BY <2>3, GreetsEffect
    <3>2. \A c \in Connection \ {current} : pms'[c] = pms[c]
      BY <3>1, QueueOnEffect
    <3>3. QED
      BY <2>1, <3>2, StaysAlone
  <2>4. QED
    BY <1>10, <2>2, <2>3
<1>11. ASSUME NEW n \in Connection, Completion(n) \/ Continues(n) PROVE Alone'
  BY <1>4, <1>5, <1>6, <1>7, <1>8, <1>9, <1>10, <1>11 DEF Completion, Continues
<1>12. QED
  BY <1>1, <1>2, <1>3, <1>11 DEF Next

\* What ends a connection.
LEMMA EndsBy ==
    ASSUME Next, current' # current, current' = NoPM
    PROVE  Leave \/ \E n \in Connection : WriteFails(n) \/ ReadFails(n)
  BY NoPMIsNone
     DEF Next, UiStep, Completion, Continues, Connect, Select, Unselect, Check, UseDrop, UseDropFails,
         UseQueue, UseDisconnect, Close, UseNull, ResolveFails, Resolved, ConnectFails,
         Connected, StartsReceiving, Greets, UpdatesRates, OnConnectHasNoManager, OnlyConnects,
         WriteSucceeds, TimerFires, Arrives, Handles, HandlesList, HandlesHeader,
         HandlesChunk, HandlesEnd, ReadStops, OnlyQueues, owned

\* Without a connection the UI thread, and a send handler, leave the packet
\* managers and m_file as they are, or close it.
LEMMA UiWithout ==
    ASSUME Others, UiStep, current = NoPM
    PROVE  /\ pms' = pms
           /\ file' = file \/ file'.stream.mode = "closed"
           /\ fileList' = fileList \/ ~fileList'
<1>1. CASE UseDropFails
  BY <1>1, FileChanges DEF UseDropFails, OnlyQueues, Others
<1>2. CASE Leave
  BY <1>2, OnDisconnectEffect DEF Leave
<1>3. QED
  BY <1>1, <1>2 DEF UiStep, Connect, Select, Unselect, Check, UseDrop, UseQueue, UseDisconnect, Close,
                    UseNull, owned

LEMMA RestingKept ==
    ASSUME Others, Pms(pms), Reading, Busy, Resting, Next, Reading', ~crossed', ~late'
    PROVE  Resting'
<1> USE NoPMIsNone
<1>1. CASE current' # NoPM
  <2>1. \A c \in Connection : c # current' => pms'[c].reads = 0
    BY <1>1 DEF Reading
  <2>2. QED
    BY <1>1, <2>1 DEF Resting
<1> DEFINE Calm == \A c \in Connection : pms'[c].recieveing => ~(pms'[c].reads > 0)
<1>2. ASSUME Calm, file'.stream.mode = "closed", ~fileList' PROVE Resting'
  BY <1>2 DEF Resting
<1>3. ASSUME current # NoPM, current' = NoPM PROVE Resting'
  <2>1. \A c \in Connection \ {current} : ~(pms[c].reads > 0)
    BY <1>3 DEF Reading
  <2>2. CASE Leave
    <3>1. pms' = pms /\ ~fileList' /\ file'.stream.mode = "closed"
      BY <2>2, OnDisconnectEffect DEF Leave
    <3>2. current \in Connection => ~pms[current].recieveing
      BY <2>2 DEF Leave
    <3>3. Calm
      BY <2>1, <3>1, <3>2
    <3>4. QED
      BY <1>2, <3>1, <3>3
  <2>3. ASSUME NEW n \in Connection, WriteFails(n) PROVE Resting'
    <3>1. ~pms'[n].recieveing /\ \A c \in Connection \ {n} : pms'[c] = pms[c]
      BY <2>3, WriteFailsEffect
    <3>2. ~fileList' /\ file'.stream.mode = "closed"
      BY <2>3, OnDisconnectEffect DEF WriteFails
    <3>3. n = current
      BY <1>3, <2>3 DEF WriteFails
    <3>4. Calm
      BY <2>1, <3>1, <3>3
    <3>5. QED
      BY <1>2, <3>2, <3>4
  <2>4. ASSUME NEW n \in Connection, ReadFails(n) PROVE Resting'
    <3>1. pms'[n].reads = 0 /\ \A c \in Connection \ {n} : pms'[c] = pms[c]
      BY <2>4, ReadEndsEffect
    <3>2. ~fileList' /\ file'.stream.mode = "closed"
      BY <2>4, OnDisconnectEffect DEF ReadFails
    <3>3. n = current
      BY <2>1, <2>4 DEF ReadFails, Receives
    <3>4. Calm
      BY <2>1, <3>1, <3>3
    <3>5. QED
      BY <1>2, <3>2, <3>4
  <2>5. QED
    BY <1>3, <2>2, <2>3, <2>4, EndsBy
<1>4. ASSUME current = NoPM, current' = NoPM PROVE Resting'
  <2>1. /\ \A c \in Connection : pms[c].recieveing => ~(pms[c].reads > 0)
        /\ file.stream.mode = "closed" /\ ~fileList
    BY <1>4 DEF Resting
  <2>2. ASSUME \A c \in Connection : SameReads(pms'[c], pms[c]), UNCHANGED <<file, fileList>>
        PROVE  Resting'
    BY <1>2, <2>1, <2>2 DEF SameReads
  <2>3. CASE UiStep
    BY <1>2, <1>4, <2>1, <2>3, UiWithout
  <2>4. ASSUME UNCHANGED <<pms, file, fileList>> PROVE Resting'
    BY <2>2, <2>4 DEF SameReads
  <2>5. CASE ResolveFails \/ Resolved \/ ConnectFails
    BY <2>4, <2>5 DEF ResolveFails, Resolved, ConnectFails, owned
  <2>6. ASSUME NEW n \in Connection, Connected(n) PROVE FALSE
    BY <1>4, <2>6 DEF Connected
  <2>7. ASSUME NEW n \in Connection,
               StartsReceiving(n) \/ Greets(n) \/ UpdatesRates(n) \/ OnConnectHasNoManager(n)
        PROVE  Resting'
    <3>1. OnConnectHasNoManager(n)
      BY <1>4, <2>7 DEF StartsReceiving, Greets, UpdatesRates
    <3>2. QED
      BY <2>4, <3>1 DEF OnConnectHasNoManager, owned
  <2>8. ASSUME NEW n \in Connection, WriteSucceeds(n) PROVE Resting'
    <3>1. pms[n].writes # <<>> /\ fileList' = fileList
      BY <2>8 DEF WriteSucceeds
    <3>2. CASE NothingToSend(n)
      <4>1. \A c \in Connection : SameReads(pms'[c], pms[c])
        BY <3>1, <3>2, NothingToSendEffect DEF SameReads
      <4>2. QED
        BY <2>2, <3>1, <3>2, <4>1 DEF NothingToSend
    <3>3. QED
      BY <1>4, <2>4, <2>8, <3>1, <3>2 DEF WriteSucceeds, UploadGoesOn, UploadHasNoManager
  <2>9. ASSUME NEW n \in Connection, WriteFails(n) PROVE Resting'
    <3>1. ~pms'[n].recieveing /\ \A c \in Connection \ {n} : pms'[c] = pms[c]
      BY <2>9, WriteFailsEffect
    <3>2. ~fileList' /\ file'.stream.mode = "closed"
      BY <2>9, OnDisconnectEffect DEF WriteFails
    <3>3. QED
      BY <1>2, <2>1, <3>1, <3>2
  <2>10. ASSUME NEW n \in Connection, TimerFires(n) PROVE Resting'
    <3>1. UNCHANGED <<file, fileList>> /\ \A c \in Connection : SameReads(pms'[c], pms[c])
      BY <2>10, TimerFiresEffect DEF TimerFires, owned, SameReads
    <3>2. QED
      BY <2>2, <3>1
  <2>11. ASSUME NEW n \in Connection, Receives(n) PROVE FALSE
    BY <2>1, <2>11 DEF Receives
  <2>12. ASSUME NEW n \in Connection, ReadStops(n) PROVE Resting'
    <3>1. pms'[n].reads = 0 /\ \A c \in Connection \ {n} : pms'[c] = pms[c]
      BY <2>12, ReadEndsEffect
    <3>2. UNCHANGED <<file, fileList>>
      BY <2>12 DEF ReadStops, owned
    <3>3. QED
      BY <1>2, <2>1, <3>1, <3>2
  <2>13. ASSUME NEW n \in Connection,
                HandlesList(n) \/ HandlesHeader(n) \/ HandlesChunk(n) \/ HandlesEnd(n)
         PROVE  FALSE
    <3>1. PICK type \in Handled : Handles(n, type)
      BY <2>13 DEF HandlesList, HandlesHeader, HandlesChunk, HandlesEnd, Handled
    <3>2. pms[n].reads > 0
      <4>1. handler # Nothing /\ handler.does = type /\ handler.of = n
        BY <3>1, HandlerIs DEF Handles
      <4>2. pms[n].reads = 1
        BY <4>1 DEF Busy
      <4>3. QED
        BY <4>2
    <3>3. pms[n].recieveing
      BY <1>4, <3>1 DEF Handles
    <3>4. QED
      BY <2>1, <3>2, <3>3
  <2>14. ASSUME NEW n \in Connection, Completion(n) \/ Continues(n) PROVE Resting'
    BY <2>7, <2>8, <2>9, <2>10, <2>11, <2>12, <2>13, <2>14
       DEF Completion, Continues, Arrives, ReadFails
  <2>15. QED
    BY <2>3, <2>5, <2>6, <2>14 DEF Next
<1>5. QED
  BY <1>1, <1>3, <1>4

\* m_file is opened for an upload when there is a connection, and closed
\* with it.
LEMMA NoUploadKept ==
    ASSUME Others, NoUpload, Next
    PROVE  NoUpload'
<1>1. SUFFICES ASSUME current' = NoPM PROVE file'.stream.mode \in {"closed", "out"}
  BY DEF NoUpload
<1>2. CASE current # NoPM
  <2>1. Leave \/ \E n \in Connection : WriteFails(n) \/ ReadFails(n)
    BY <1>1, <1>2, EndsBy, CurrentIsMade
  <2>2. OnDisconnect
    BY <2>1 DEF Leave, WriteFails, ReadFails
  <2>3. QED
    BY <2>2, OnDisconnectEffect
<1>3. CASE current = NoPM
  <2>1. file.stream.mode \in {"closed", "out"}
    BY <1>3 DEF NoUpload
  <2>2. CASE UiStep
    BY <1>3, <2>1, <2>2, UiWithout
  <2>3. CASE ResolveFails \/ Resolved \/ ConnectFails
    BY <2>1, <2>3 DEF ResolveFails, Resolved, ConnectFails, owned
  <2>4. ASSUME NEW n \in Connection, Connected(n) PROVE file' = file
    BY <2>4 DEF Connected
  <2>5. ASSUME NEW n \in Connection,
               StartsReceiving(n) \/ Greets(n) \/ UpdatesRates(n) \/ OnConnectHasNoManager(n)
                   \/ TimerFires(n) \/ ReadStops(n) \/ (\E type \in Handled : Arrives(n, type))
                   \/ HandlesList(n)
        PROVE  file' = file
    BY <2>5 DEF StartsReceiving, Greets, UpdatesRates, OnConnectHasNoManager, OnlyConnects,
                TimerFires, ReadStops, Arrives, HandlesList, owned
  <2>6. ASSUME NEW n \in Connection, WriteSucceeds(n) PROVE file' = file
    BY <1>3, <2>6 DEF WriteSucceeds, UploadGoesOn, UploadHasNoManager, NothingToSend
  <2>7. ASSUME NEW n \in Connection, WriteFails(n) \/ ReadFails(n)
        PROVE  file'.stream.mode = "closed"
    BY <2>7, OnDisconnectEffect DEF WriteFails, ReadFails
  <2>8. ASSUME NEW n \in Connection, HandlesHeader(n) \/ HandlesChunk(n) \/ HandlesEnd(n)
        PROVE  file'.stream.mode \in {"closed", "out"}
    <3>1. CASE HandlesHeader(n)
      BY <3>1, OpenEffect DEF HandlesHeader
    <3>2. CASE HandlesEnd(n)
      BY <3>2, FileChanges DEF HandlesEnd, Others
    <3>3. CASE HandlesChunk(n)
      <4>1. file.stream \in [mode : {"closed", "in", "out", "bad"}, pos : Nat]
        BY DEF Others, FileType
      <4>2. WriteChunk(file.stream).mode \in {"closed", "out"}
        BY <2>1, <4>1, StreamTypes DEF WriteChunk
      <4>3. QED
        BY <3>3, <4>2, FileChanges DEF HandlesChunk, Others
    <3>4. QED
      BY <2>8, <3>1, <3>2, <3>3
  <2>9. ASSUME NEW n \in Connection, Connected(n) \/ Completion(n) \/ Continues(n)
        PROVE  file'.stream.mode \in {"closed", "out"}
    BY <2>1, <2>4, <2>5, <2>6, <2>7, <2>8, <2>9 DEF Completion, Continues
  <2>10. QED
    BY <2>2, <2>3, <2>9 DEF Next
<1>4. QED
  BY <1>2, <1>3

-----------------------------------------------------------------------------
(* Uploads *)

LEMMA MixedStays == ASSUME Next, mixed PROVE mixed'
  BY DEF Next, UiStep, Completion, Continues, Connect, Select, Unselect, Check, UseDrop, UseDropFails,
         UseQueue, UseDisconnect, Close, Leave, UseNull, ResolveFails, Resolved, ConnectFails,
         Connected, StartsReceiving, Greets, UpdatesRates, OnConnectHasNoManager, OnlyConnects,
         WriteSucceeds, WriteFails, TimerFires, Arrives, Handles, HandlesList, HandlesHeader,
         HandlesChunk, HandlesEnd, ReadFails, ReadStops, OpenFile, hist

LEMMA UploadQueuedMeans ==
    ASSUME current \in Connection
    PROVE  UploadQueued <=> ~Free(Queue(current), Upload)
  BY DEF UploadQueued, InQueue, Free, Upload, Queue

\* m_file stays, and no packet of an upload is queued.
LEMMA QuietUploading ==
    ASSUME Others, Uploading, UNCHANGED <<current, file>>, doing' = "Drop" => doing = "Drop",
           \A c \in Connection : Keeps(Queue(c), Queue(c)', Upload),
           \A c \in Connection : server'[c].sending = server[c].sending
    PROVE  Uploading'
  BY CurrentIsMade DEF Uploading, Keeps, Queue

\* The connection is over.
LEMMA EndedUploading ==
    ASSUME Others, Uploading, OnDisconnect,
           \A c \in Connection : Keeps(Queue(c), Queue(c)', Upload)
    PROVE  Uploading'
  BY OnDisconnectEffect DEF Uploading, Keeps

\* A drop: m_file is closed before, unless a download has begun since the
\* check, and then the two have met.
LEMMA DropUploading ==
    ASSUME Others, Pms(pms), Uploading, UseDrop, ~mixed'
    PROVE  Uploading'
<1>1. current \in Connection /\ current # NoPM /\ "FileDataHeader" \in PacketType
  BY CurrentIsMade DEF UseDrop, PacketType
<1>2. /\ doing = "Drop" /\ doing' = "nothing" /\ UNCHANGED <<current, server>>
      /\ pms' = QueueOn(current, "FileDataHeader")
  BY DEF UseDrop, Uses, OnlyQueues
<1>3. file.stream.mode \in {"closed", "in"} /\ file'.stream.mode = "in"
  BY OpenEffect DEF UseDrop
<1>4. Free(Queue(current), Upload) /\ ~server[current].sending
  BY <1>1, <1>2, <1>3 DEF Uploading
<1>5. Queue(current) \in Seq(PacketType)
  BY <1>1 DEF Pms, PmState, Queue
<1>6. /\ \A c \in Connection \ {current} : Queue(c)' = Queue(c)
      /\ pms'[current].queue \in {Queue(current), Append(Queue(current), "FileDataHeader")}
  BY <1>1, <1>2, QueueOnEffect DEF Queue
<1>7. Once(pms'[current].queue, Upload)
  BY <1>1, <1>4, <1>5, <1>6, KeepsAppend DEF Uploading
<1>8. \A c \in Connection : Once(Queue(c)', Upload)
  BY <1>6, <1>7 DEF Uploading, Queue
<1>9. QED
  BY <1>2, <1>3, <1>4, <1>8 DEF Uploading

\* The upload goes on with a chunk, or is done.
LEMMA GoesOnUploading ==
    ASSUME Others, Pms(pms), Alone, Uploading, NEW n \in Connection,
           WriteSucceeds(n), UploadGoesOn(n)
    PROVE  Uploading'
<1>1. pms[n].writes # <<>> /\ current # NoPM /\ Sent(n) \in Upload
  BY DEF WriteSucceeds, UploadGoesOn, Uploads, Upload
<1>2. current = n /\ current' = n /\ doing' = doing
  BY <1>1, WritesOnItsOwn DEF WriteSucceeds, user
<1>3. \A c \in Connection : server'[c].sending = server[c].sending
  BY ServeEffect DEF WriteSucceeds, Others
<1> DEFINE t == Tail(Queue(n))
<1>4. PICK p \in {"FileDataEnd", "FileDataChunk"} :
         /\ SendsNext(n, p)
         /\ \/ p = "FileDataEnd" /\ file' = [file EXCEPT !.stream = Closed]
            \/ p = "FileDataChunk" /\ file' = [file EXCEPT !.stream = ReadChunk(@)]
  BY DEF UploadGoesOn
<1>5. p \in PacketType
  BY DEF PacketType
<1>6. /\ Queue(n) # <<>> /\ Sent(n) = Head(Queue(n))
      /\ Queue(n)' = t \/ Queue(n)' = Append(t, p)
      /\ \A c \in Connection \ {n} : pms'[c] = pms[c]
  BY <1>1, <1>2, <1>4, <1>5, SendsNextEffect
<1>7. Queue(n) \in Seq(PacketType) /\ t \in Seq(PacketType)
  BY <1>6, HeadTailProperties DEF Pms, PmState, Queue
<1>8. Free(t, Upload) /\ ~Free(Queue(n), Upload)
  BY <1>1, <1>6, <1>7, KeepsTail DEF Uploading
<1>9. file.stream.mode = "in" /\ ~server[n].sending /\ doing # "Drop"
  BY <1>1, <1>2, <1>8 DEF Uploading
<1> HIDE DEF t
<1>10. /\ Once(t, Upload) /\ Once(Append(t, p), Upload)
       /\ p = "FileDataEnd" => Free(Append(t, p), Upload)
  <2>1. Once(Append(t, p), Upload)
    BY <1>5, <1>7, <1>8, KeepsAppend
  <2>2. Once(t, Upload)
    BY <1>8 DEF Free, Once
  <2>3. p = "FileDataEnd" => p \notin Upload
    BY DEF Upload
  <2>4. QED
    BY <1>5, <1>7, <1>8, <2>1, <2>2, <2>3, KeepsAppend DEF Keeps
<1>11. Once(Queue(n)', Upload) /\ \A c \in Connection \ {n} : Once(Queue(c)', Upload)
  BY <1>6, <1>10 DEF Uploading, Queue
<1>12. CASE p = "FileDataEnd"
  <2>1. file'.stream.mode = "closed"
    BY <1>4, <1>12, FileChanges DEF Others
  <2>2. Free(Queue(n)', Upload)
    BY <1>6, <1>8, <1>10, <1>12
  <2>3. QED
    BY <1>2, <1>3, <1>9, <1>11, <2>1, <2>2 DEF Uploading, Queue
<1>13. CASE p = "FileDataChunk"
  <2>1. file'.stream.mode = "in"
    <3>1. file.stream \in [mode : {"closed", "in", "out", "bad"}, pos : Nat]
      BY DEF Others, FileType
    <3>2. ReadChunk(file.stream).mode = "in"
      BY <1>9, <3>1, StreamTypes
    <3>3. file' = [file EXCEPT !.stream = ReadChunk(@)]
      BY <1>4, <1>13
    <3>4. QED
      BY <3>2, <3>3, FileChanges DEF Others
  <2>2. QED
    BY <1>2, <1>3, <1>9, <1>11, <2>1 DEF Uploading
<1>14. QED
  BY <1>12, <1>13

\* A download begins, goes on or ends, with the connection or after it.
LEMMA DownloadUploading ==
    ASSUME Others, Busy, NoUpload, Uploading, NEW n \in Connection, ~mixed',
           HandlesHeader(n) \/ HandlesChunk(n) \/ HandlesEnd(n)
    PROVE  Uploading'
<1>1. /\ UNCHANGED <<pms, current, doing>>
      /\ handler # Nothing /\ handler.of = n
      /\ HandlesChunk(n) \/ HandlesEnd(n) => server[n].sending
  <2>1. PICK type \in {"FileDataHeader", "FileDataChunk", "FileDataEnd"} :
           Handles(n, type) /\ (HandlesChunk(n) \/ HandlesEnd(n) => type # "FileDataHeader")
    <3>1. HandlesHeader(n) => At("FileDataHeader", n)
      BY DEF HandlesHeader, Handles
    <3>2. (HandlesChunk(n) => At("FileDataChunk", n)) /\ (HandlesEnd(n) => At("FileDataEnd", n))
      BY DEF HandlesChunk, HandlesEnd, Handles
    <3>3. At("FileDataHeader", n) => ~At("FileDataChunk", n) /\ ~At("FileDataEnd", n)
      BY DEF At
    <3>4. QED
      BY <3>1, <3>2, <3>3 DEF HandlesHeader, HandlesChunk, HandlesEnd
  <2>2. handler # Nothing /\ handler.of = n /\ handler.does = type
    BY <2>1, HandlerIs DEF Handles, Handled
  <2>3. QED
    BY <2>1, <2>2 DEF Handles, Busy, user
<1>2. current \in {n, NoPM}
  BY <1>1 DEF Busy
<1>3. \A c \in Connection : Queue(c)' = Queue(c)
  BY <1>1 DEF Queue
<1>4. file.stream \in [mode : {"closed", "in", "out", "bad"}, pos : Nat]
  BY DEF Others, FileType
<1>5. ASSUME current = NoPM PROVE Uploading'
  <2>1. file.stream.mode \in {"closed", "out"}
    BY <1>5 DEF NoUpload
  <2>2. file'.stream.mode \in {"closed", "out"}
    <3>1. WriteChunk(file.stream).mode \in {"closed", "out"}
      BY <1>4, <2>1, StreamTypes
    <3>2. QED
      BY <3>1, OpenEffect, FileChanges DEF HandlesHeader, HandlesChunk, HandlesEnd, Others
  <2>3. QED
    BY <1>1, <1>3, <1>5, <2>2 DEF Uploading, Queue
<1>6. CASE current = n /\ HandlesHeader(n)
  <2>1. /\ file.stream.mode \in {"closed", "out"} /\ ~UploadQueued
        /\ file'.stream.mode = "out"
    BY <1>6, OpenEffect DEF HandlesHeader
  <2>2. Free(Queue(n), Upload)
    BY <1>6, <2>1, UploadQueuedMeans
  <2>3. QED
    BY <1>1, <1>3, <1>6, <2>1, <2>2 DEF Uploading
<1>7. CASE current = n /\ HandlesChunk(n)
  <2>1. server[n].sending /\ file' = [file EXCEPT !.stream = WriteChunk(@)] /\ server' = server
    BY <1>1, <1>7 DEF HandlesChunk
  <2>2. file.stream.mode = "out"
    BY <1>7, <2>1, NoPMIsNone DEF Uploading
  <2>3. file'.stream.mode = "out"
    BY <1>4, <2>1, <2>2, FileChanges, StreamTypes DEF Others
  <2>4. QED
    BY <1>1, <1>3, <1>7, <2>1, <2>2, <2>3 DEF Uploading
<1>8. CASE current = n /\ HandlesEnd(n)
  <2>1. server[n].sending /\ server' = [server EXCEPT ![n].sending = FALSE]
    BY <1>1, <1>8 DEF HandlesEnd
  <2>2. file.stream.mode = "out" /\ file'.stream.mode = "closed"
    BY <1>8, <2>1, FileChanges, NoPMIsNone DEF Uploading, HandlesEnd, Others
  <2>3. ~server'[n].sending
    BY <2>1 DEF Others, ServerType
  <2>4. QED
    BY <1>1, <1>3, <1>8, <2>2, <2>3 DEF Uploading
<1>9. QED
  BY <1>2, <1>5, <1>6, <1>7, <1>8

LEMMA UploadingKept ==
    ASSUME Others, Pms(pms), Reading, Busy, NoUpload, Alone, Uploading, Next, ~mixed'
    PROVE  Uploading'
<1> DEFINE Kept == \A c \in Connection : Keeps(Queue(c), Queue(c)', Upload)
<1>1. CASE UseDrop
  BY <1>1, DropUploading
<1>2. ASSUME NEW n \in Connection, WriteSucceeds(n), UploadGoesOn(n) PROVE Uploading'
  BY <1>2, GoesOnUploading
<1>3. ASSUME NEW n \in Connection, HandlesHeader(n) \/ HandlesChunk(n) \/ HandlesEnd(n)
      PROVE  Uploading'
  BY <1>3, DownloadUploading
<1>4. Kept \/ UseDrop \/ \E n \in Connection : WriteSucceeds(n) /\ UploadGoesOn(n)
  BY QueuesKept DEF Chat, Upload
<1>5. ASSUME Kept, UNCHANGED <<current, file, server>>, doing' = "Drop" => doing = "Drop"
      PROVE  Uploading'
  BY <1>5, QuietUploading
<1>6. ASSUME Kept, OnDisconnect PROVE Uploading'
  BY <1>6, EndedUploading
<1>7. CASE Kept /\ (\/ Connect \/ Select \/ Unselect \/ UseDisconnect \/ Close \/ UseNull
                    \/ ResolveFails \/ Resolved \/ ConnectFails)
  <2>1. UNCHANGED <<current, file, server>> /\ (doing' = "Drop" => doing = "Drop")
    BY <1>7 DEF Connect, Select, Unselect, UseDisconnect, Close, UseNull, ResolveFails, Resolved,
                ConnectFails, owned, user, hist
  <2>2. QED
    BY <1>5, <1>7, <2>1
<1>8. ASSUME NEW act \in Acts, Kept, Check(act) PROVE Uploading'
  <2>1. UNCHANGED <<current, file, server>> /\ doing' = act
    BY <1>8 DEF Check, owned, hist
  <2>2. act = "Drop" => file.stream.mode = "closed"
    BY <1>8 DEF Check, MayDo, IsLoadingFile
  <2>3. QED
    BY <1>8, <2>1, <2>2, CurrentIsMade DEF Uploading, Keeps, Queue
<1>9. ASSUME Kept, UseDropFails PROVE Uploading'
  <2>1. /\ UNCHANGED <<current, server, pms>> /\ doing' = "nothing"
        /\ file.stream.mode = "closed" /\ file'.stream.mode = "closed"
    BY <1>9, FileChanges DEF UseDropFails, Uses, OnlyQueues, Others
  <2>2. QED
    BY <1>9, <2>1, CurrentIsMade DEF Uploading, Keeps, Queue
<1>10. ASSUME NEW act, NEW p, Kept, UseQueue(act, p) PROVE Uploading'
  <2>1. UNCHANGED <<current, file, server>> /\ doing' = "nothing"
    BY <1>10 DEF UseQueue, Uses, OnlyQueues
  <2>2. QED
    BY <1>5, <1>10, <2>1
<1>11. ASSUME Kept, Leave PROVE Uploading'
  BY <1>6, <1>11 DEF Leave
<1>12. ASSUME NEW n \in Connection, Connected(n) PROVE Uploading'
  <2>1. pms[n] = PM!NewPacketManager /\ ~server[n].sending
    BY <1>12 DEF Connected, Reading
  <2>2. Queue(n) = <<>> /\ Free(Queue(n), Upload)
    BY <2>1, NewEffect, KeepsEmpty DEF Queue
  <2>3. current' = n /\ UNCHANGED <<pms, file, server, doing>>
    BY <1>12 DEF Connected, user, hist
  <2>4. QED
    BY <2>1, <2>2, <2>3 DEF Uploading, Queue
<1>13. ASSUME NEW n \in Connection, Kept, WriteSucceeds(n), ~UploadGoesOn(n) PROVE Uploading'
  <2>1. UNCHANGED <<current, file, doing>>
    BY <1>13 DEF WriteSucceeds, UploadHasNoManager, NothingToSend, user
  <2>2. \A c \in Connection : server'[c].sending = server[c].sending
    BY <1>13, ServeEffect DEF WriteSucceeds, Others
  <2>3. QED
    BY <1>13, <2>1, <2>2, QuietUploading
<1>14. ASSUME NEW n \in Connection, Kept, WriteFails(n) \/ ReadFails(n) PROVE Uploading'
  BY <1>6, <1>14 DEF WriteFails, ReadFails
<1>15. ASSUME NEW n \in Connection, Kept,
              \/ TimerFires(n) \/ (\E type \in Handled : Arrives(n, type)) \/ ReadStops(n)
              \/ StartsReceiving(n) \/ Greets(n) \/ UpdatesRates(n) \/ OnConnectHasNoManager(n)
              \/ HandlesList(n)
       PROVE  Uploading'
  <2>1. UNCHANGED <<current, file, server, doing>>
    BY <1>15 DEF TimerFires, Arrives, ReadStops, StartsReceiving, Greets, UpdatesRates, OnlyConnects,
                 OnConnectHasNoManager, HandlesList, Handles, owned, user, hist
  <2>2. QED
    BY <1>5, <1>15, <2>1
<1> HIDE DEF Kept
<1>16. ASSUME Kept, UiStep \/ ResolveFails \/ Resolved \/ ConnectFails PROVE Uploading'
  BY <1>1, <1>7, <1>8, <1>9, <1>10, <1>11, <1>16 DEF UiStep
<1>17. ASSUME Kept, NEW n \in Connection, Connected(n) \/ Completion(n) \/ Continues(n)
       PROVE  Uploading'
  BY <1>2, <1>3, <1>12, <1>13, <1>14, <1>15, <1>17 DEF Completion, Continues
<1>18. QED
  BY <1>1, <1>2, <1>4, <1>16, <1>17 DEF Next

-----------------------------------------------------------------------------
(* The theorems *)

LEMMA InvariantAtStart == Init => IInv
<1> SUFFICES ASSUME Init PROVE IInv
  OBVIOUS
<1>1. Others
  BY OthersAtStart
<1>2. Pms(pms) /\ \A n \in Connection : Queue(n) = <<>> /\ pms[n] = PM!NewPacketManager
  BY NewEffect DEF Init, Pms, Queue
<1>3. Reading
  BY <1>2, SocketNames DEF Init, Reading
<1>4. Chats
  BY <1>2, KeepsEmpty DEF Chats
<1>5. Alone /\ Resting
  BY <1>2, NewEffect DEF Init, Alone, Resting, Closed
<1>6. Uploading
  BY <1>2, KeepsEmpty DEF Init, Uploading, Closed
<1>7. Busy /\ NoUpload
  BY DEF Init, Busy, NoUpload, Closed
<1>8. QED
  BY <1>1, <1>2, <1>3, <1>4, <1>5, <1>6, <1>7 DEF IInv

LEMMA InvariantKept == IInv /\ [Next]_vars => IInv'
<1> SUFFICES ASSUME IInv, [Next]_vars PROVE IInv'
  OBVIOUS
<1>1. CASE Next
  <2>1. Others' /\ Pms(pms)' /\ Reading' /\ Busy' /\ NoUpload' /\ Chats'
    BY <1>1, OthersKept, ReadingKept, BusyKept, NoUploadKept, ChatsKept DEF IInv
  <2>2. ~crossed' => ~crossed /\ Alone'
    BY <1>1, CrossedStays, AloneKept DEF IInv
  <2>3. ~crossed' /\ ~late' => Resting'
    BY <1>1, <2>1, CrossedStays, LateStays, RestingKept DEF IInv
  <2>4. ~crossed' /\ ~mixed' => Uploading'
    BY <1>1, <2>2, MixedStays, UploadingKept DEF IInv
  <2>5. QED
    BY <2>1, <2>2, <2>3, <2>4 DEF IInv
<1>2. CASE UNCHANGED vars
  <2>1. UNCHANGED <<socket, resolving, connecting, made, current, file, fileList, pms, selected,
                    doing, acts, handler, server, crashed, crossed, mixed, late>>
    BY <1>2 DEF vars, conn, owned, user, hist
  <2>2. Others'
    BY <2>1 DEF IInv, Others
  <2>3. Pms(pms)' /\ Reading' /\ Busy'
    BY <2>1 DEF IInv, Pms, Reading, Busy
  <2>4. /\ Chats' /\ NoUpload'
        /\ (Alone => Alone') /\ (Resting => Resting') /\ (Uploading => Uploading')
    BY <2>1 DEF IInv, Alone, Resting, NoUpload, Chats, Uploading, Queue
  <2>5. QED
    BY <2>1, <2>2, <2>3, <2>4 DEF IInv
<1>3. QED
  BY <1>1, <1>2

\* The inductive invariant holds in every state.
THEOREM Invariant == Spec => []IInv
  BY InvariantAtStart, InvariantKept, PTL DEF Spec

\* The variables have their types: a packet manager has at most one read
\* pending, whatever happened to its connection.
THEOREM TypesHold == Spec => []TypeOK
<1>1. IInv => TypeOK
  BY TypesSplit DEF IInv, Pms
<1>2. QED
  BY <1>1, Invariant, PTL

\* Without a connection m_file is closed and m_file_list empty, however the
\* asio thread's handlers and the UI thread's disconnect follow each other;
\* the two exceptions are those of the property.
THEOREM IdleWhenDisconnected == Spec => []DisconnectedIsIdle
<1>1. IInv => DisconnectedIsIdle
  BY DEF IInv, Resting, DisconnectedIsIdle
<1>2. QED
  BY <1>1, Invariant, PTL

\* m_chat_packet is in one queue at most, and once.
THEOREM ChatsAreSingle == Spec => []ChatOnce
<1>1. ASSUME IInv PROVE ChatOnce
  <2>1. SUFFICES ASSUME NEW n \in Connection, NEW m \in Connection,
                        NEW i \in 1..Len(pms[n].queue), NEW j \in 1..Len(pms[m].queue),
                        pms[n].queue[i] = "MessageChat", pms[m].queue[j] = "MessageChat"
                 PROVE  n = m /\ i = j
    BY DEF ChatOnce
  <2>2. ~Free(Queue(n), Chat) /\ ~Free(Queue(m), Chat)
    BY <2>1 DEF Free, Queue, Chat
  <2>3. n = m
    BY <1>1, <2>2 DEF IInv, Chats
  <2>4. Once(Queue(n), Chat)
    BY <1>1 DEF IInv, Chats
  <2>5. i = j
    BY <2>1, <2>3, <2>4 DEF Once, Queue, Chat
  <2>6. QED
    BY <2>3, <2>5
<1>2. QED
  BY <1>1, Invariant, PTL

\* A packet of an upload is queued once on a connection.
THEOREM UploadsAreSingle == Spec => []UploadOnce
<1>1. IInv => UploadOnce
  BY DEF IInv, Uploading, UploadOnce, Once, Queue, Upload
<1>2. QED
  BY <1>1, Invariant, PTL
=============================================================================
