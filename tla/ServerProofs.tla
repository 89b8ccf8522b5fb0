---------------------------- MODULE ServerProofs ----------------------------
(***************************************************************************)
(* Proofs about Server for any sessions, any names and any bounds: the     *)
(* types, who is on the list, who has which file open, what a client knows *)
(* of the directory, and what it gets of a file.                           *)
(*                                                                         *)
(* A handler works on the packet manager of its own session and queues on  *)
(* those of the others, so the first lemmas say what each operator of      *)
(* PacketManagerState does to one record, and the ones after them what     *)
(* QueueTo does to all of them.                                            *)
(***************************************************************************)
EXTENDS Server, SequenceTheorems, NaturalsInduction, WellFoundedInduction, TLAPS

SocketState == {"open", "closed"}

\* The packets the server makes: a list names files and nothing else, an end
\* names nothing.
SentPacket ==
    {p \in Packet : /\ p.type = "FileUploadList" => p.body \subseteq Path
                    /\ p.type = "FileDataEnd" => p = EndPacket}

PmType ==
    [queue : Seq(SentPacket), sending : BOOLEAN,
     writes : Seq([packet : SentPacket, on : SocketState]), waits : {0},
     recieveing : BOOLEAN, reads : 0..1]

\* One write, of the front of the queue.
WritesFront(m) == \E o \in SocketState : m.writes = <<[packet |-> Head(m.queue), on |-> o]>>

\* The send side of a packet manager: nothing to send, or a chain that
\* writes the front, or one that died (of a failed write or a packet that
\* is too large) and keeps its queue.
SendSide(m) ==
    \/ m.queue = <<>> /\ m.writes = <<>> /\ ~m.sending
    \/ m.queue # <<>> /\ m.sending /\ (m.writes = <<>> \/ WritesFront(m))

\* The packet manager a send handler is called on.
Handling(m) == m.writes = <<>> /\ m.sending

\* The receive side is the same.
SameReads(n, m) == n.recieveing = m.recieveing /\ n.reads = m.reads

-----------------------------------------------------------------------------
(* The operators on one packet manager *)

\* Appending keeps the type of a queue, and its front.
LEMMA AppendFacts ==
    ASSUME NEW S, NEW q \in Seq(S), NEW e \in S
    PROVE  /\ Append(q, e) \in Seq(S)
           /\ Append(q, e) # <<>>
           /\ q # <<>> => Head(Append(q, e)) = Head(q)
  BY AppendProperties, EmptySeq

\* asyncSend of the front, when nothing is being written.
LEMMA AsyncSendEffect ==
    ASSUME NEW m \in PmType, NEW o \in SocketState, m.queue # <<>>, Handling(m)
    PROVE  /\ PM!AsyncSend(m, o) \in PmType
           /\ SendSide(PM!AsyncSend(m, o))
           /\ PM!AsyncSend(m, o).queue = m.queue
           /\ SameReads(PM!AsyncSend(m, o), m)
<1> DEFINE w == [packet |-> Head(m.queue), on |-> o]
<1> DEFINE n == [m EXCEPT !.writes = <<w>>]
<1>1. CASE Head(m.queue) \in TooLarge
  BY <1>1 DEF PM!AsyncSend, SendSide, SameReads, Handling
<1>2. CASE Head(m.queue) \notin TooLarge
  <2>1. PM!AsyncSend(m, o) = n
    BY <1>2 DEF PM!AsyncSend, Handling
  <2>2. w \in [packet : SentPacket, on : SocketState]
    BY HeadTailProperties DEF PmType
  <2>3. <<w>> \in Seq([packet : SentPacket, on : SocketState])
    BY <2>2
  <2> HIDE DEF w
  <2>4. /\ n \in PmType
        /\ n.queue = m.queue
        /\ n.sending = m.sending
        /\ n.recieveing = m.recieveing
        /\ n.reads = m.reads
        /\ n.writes = <<w>>
    BY <2>3 DEF PmType
  <2> HIDE DEF n
  <2>5. WritesFront(n)
    BY <2>4 DEF WritesFront, w
  <2>6. QED
    BY <2>1, <2>4, <2>5 DEF SendSide, SameReads, Handling
<1>3. QED
  BY <1>1, <1>2

\* queuePacket appends to the queue of an open connection, and starts a
\* chain when there is none.
LEMMA QueuePacketEffect ==
    ASSUME NEW m \in PmType, NEW o \in SocketState, NEW p \in SentPacket, SendSide(m)
    PROVE  /\ PM!QueuePacket(m, o, p) \in PmType
           /\ SendSide(PM!QueuePacket(m, o, p))
           /\ PM!QueuePacket(m, o, p).queue = IF o = "open" THEN Append(m.queue, p) ELSE m.queue
           /\ SameReads(PM!QueuePacket(m, o, p), m)
<1>1. /\ Append(m.queue, p) \in Seq(SentPacket)
      /\ Append(m.queue, p) # <<>>
      /\ m.queue # <<>> => Head(Append(m.queue, p)) = Head(m.queue)
  BY AppendFacts DEF PmType
<1>2. CASE o = "closed"
  BY <1>2 DEF PM!QueuePacket, SameReads
<1>3. CASE o = "open" /\ m.sending
  <2> DEFINE n == [m EXCEPT !.queue = Append(m.queue, p)]
  <2>1. PM!QueuePacket(m, o, p) = n
    BY <1>3 DEF PM!QueuePacket, PM!Enqueue
  <2>2. /\ n \in PmType
        /\ n.queue = Append(m.queue, p)
        /\ n.sending = m.sending
        /\ n.writes = m.writes
        /\ SameReads(n, m)
    BY <1>1 DEF PmType, SameReads
  <2> HIDE DEF n
  <2>3. SendSide(n)
    BY <1>1, <1>3, <2>2 DEF SendSide, WritesFront
  <2>4. QED
    BY <1>3, <2>1, <2>2, <2>3
<1>4. CASE o = "open" /\ ~m.sending
  <2> DEFINE n == [m EXCEPT !.queue = Append(m.queue, p), !.sending = TRUE]
  <2>1. PM!QueuePacket(m, o, p) = PM!AsyncSend(n, o)
    BY <1>4 DEF PM!QueuePacket, PM!EnqueueFirst
  <2>2. /\ n \in PmType
        /\ n.queue = Append(m.queue, p)
        /\ n.sending
        /\ n.writes = m.writes
        /\ SameReads(n, m)
    BY <1>1 DEF PmType, SameReads
  <2> HIDE DEF n
  <2>3. Handling(n)
    BY <1>4, <2>2 DEF SendSide, Handling
  <2>4. QED
    BY <1>1, <1>4, <2>1, <2>2, <2>3, AsyncSendEffect DEF SameReads
<1>5. QED
  BY <1>2, <1>3, <1>4 DEF SocketState

\* The rest of doSend's completion handler: the chain ends or goes on.
LEMMA ContinueEffect ==
    ASSUME NEW m \in PmType, NEW o \in SocketState, Handling(m)
    PROVE  /\ Continue(m, o) \in PmType
           /\ SendSide(Continue(m, o))
           /\ Continue(m, o).queue = m.queue
           /\ SameReads(Continue(m, o), m)
<1>1. CASE m.queue = <<>>
  <2> DEFINE n == [m EXCEPT !.sending = FALSE]
  <2>1. PM!AfterSent(m, o) = {n} /\ n.waits = 0
    BY <1>1 DEF PM!AfterSent, PmType
  <2>2. Continue(m, o) = n
    BY <2>1 DEF Continue
  <2>3. n \in PmType /\ n.queue = m.queue /\ n.writes = <<>> /\ ~n.sending /\ SameReads(n, m)
    BY DEF PmType, SameReads, Handling
  <2>4. QED
    BY <1>1, <2>2, <2>3 DEF SendSide
<1>2. CASE m.queue # <<>>
  <2>1. PM!AfterSent(m, o) = {PM!AsyncSend(m, o), PM!ArmTimer(m)}
    BY <1>2 DEF PM!AfterSent, PM!DoSend
  <2>2. PM!AsyncSend(m, o).waits = 0
    BY <1>2, AsyncSendEffect DEF PmType
  <2>3. PM!ArmTimer(m).waits # 0
    BY DEF PM!ArmTimer, PmType
  <2>4. Continue(m, o) = PM!AsyncSend(m, o)
    BY <2>1, <2>2, <2>3 DEF Continue
  <2>5. QED
    BY <1>2, <2>4, AsyncSendEffect
<1>3. QED
  BY <1>1, <1>2

\* A write that is in flight is of the front, and popping it leaves the
\* packet manager to the send handler.
LEMMA PopSentEffect ==
    ASSUME NEW m \in PmType, SendSide(m), m.writes # <<>>
    PROVE  /\ m.queue # <<>>
           /\ Head(m.writes).packet = Head(m.queue)
           /\ Head(m.queue) \in SentPacket
           /\ PM!PopSent(m) \in PmType
           /\ Handling(PM!PopSent(m))
           /\ PM!PopSent(m).queue = Tail(m.queue)
           /\ SameReads(PM!PopSent(m), m)
<1>1. m.queue # <<>> /\ m.sending
  BY DEF SendSide
<1>2. PICK o \in SocketState : m.writes = <<[packet |-> Head(m.queue), on |-> o]>>
  BY DEF SendSide, WritesFront
<1>3. Head(m.queue) \in SentPacket /\ Tail(m.queue) \in Seq(SentPacket)
  BY <1>1, HeadTailProperties DEF PmType
<1>4. Head(m.writes).packet = Head(m.queue) /\ Tail(m.writes) = <<>>
  BY <1>2
<1>5. <<>> \in Seq([packet : SentPacket, on : SocketState])
  OBVIOUS
<1>6. QED
  BY <1>1, <1>3, <1>4, <1>5 DEF PM!PopSent, PmType, Handling, SameReads

\* A failed write ends receiving and leaves the chain dead.
LEMMA SendFailedEffect ==
    ASSUME NEW m \in PmType, SendSide(m), m.writes # <<>>
    PROVE  /\ PM!SendFailed(m) \in PmType
           /\ SendSide(PM!SendFailed(m))
           /\ PM!SendFailed(m).queue = m.queue
           /\ ~PM!SendFailed(m).recieveing
           /\ PM!SendFailed(m).reads = m.reads
<1>1. m.queue # <<>> /\ m.sending
  BY DEF SendSide
<1>2. PICK o \in SocketState : m.writes = <<[packet |-> Head(m.queue), on |-> o]>>
  BY DEF SendSide, WritesFront
<1>3. Tail(m.writes) = <<>>
  BY <1>2
<1>4. <<>> \in Seq([packet : SentPacket, on : SocketState])
  OBVIOUS
<1> DEFINE n == [m EXCEPT !.recieveing = FALSE, !.writes = <<>>]
<1>5. PM!SendFailed(m) = n
  BY <1>3 DEF PM!SendFailed, PM!StopReceive
<1>6. /\ n \in PmType
      /\ n.queue = m.queue
      /\ n.sending = m.sending
      /\ n.writes = <<>>
      /\ ~n.recieveing
      /\ n.reads = m.reads
  BY <1>4 DEF PmType
<1> HIDE DEF n
<1>7. QED
  BY <1>1, <1>5, <1>6 DEF SendSide

-----------------------------------------------------------------------------
(* The inductive invariant *)

Managers(pms) == pms \in [Session -> PmType] /\ \A s \in Session : SendSide(pms[s])

\* A connection that waits has done nothing; the sessions of the list are
\* connected; only they receive, and only they have files open.
Connections ==
    \A s \in Session :
        /\ s \in waiting => /\ s \notin sessiones
                            /\ session[s] = NewSession
                            /\ pm[s] = PM!NewPacketManager
                            /\ ~client[s].uploading
        /\ s \in sessiones => session[s].socket = "open"
        /\ s \notin waiting /\ session[s].socket = "closed" => ~pm[s].recieveing
        /\ pm[s].recieveing /\ pm[s].reads > 0 => s \in sessiones
        /\ IsOpen(s) => s \in sessiones

\* An open file is in the directory, and the session of an upload says so
\* to isFileEdited.  Files whose upload ended are there until the delete.
Files ==
    /\ finished \subseteq GetFileList(disk)
    /\ \A s \in Session : IsOpen(s) => session[s].file.path \in Path /\ FileExists(session[s].file.path)
    /\ \A s \in Session : Uploads(s) => session[s].fileEdit
    /\ WriterExclusive
    /\ OwnNameProtected

IInv == TypeOK /\ Managers(pm) /\ Connections /\ Files

\* The record of a packet manager has the type that TypeOK gives it.
LEMMA ManagersType ==
    ASSUME NEW pms, Managers(pms)
    PROVE  pms \in [Session -> PmState]
<1>1. SentPacket \subseteq Packet
  BY DEF SentPacket
<1>2. [packet : SentPacket, on : SocketState] \subseteq [packet : Packet, on : {"open", "closed"}]
  BY <1>1 DEF SocketState
<1>3. PmType \subseteq PmState
  <2>1. SUFFICES ASSUME NEW m \in PmType PROVE m \in PmState
    OBVIOUS
  <2>2. m.queue \in Seq(Packet)
    BY <1>1, SeqMonotonic DEF PmType
  <2>3. m.writes \in Seq([packet : Packet, on : {"open", "closed"}])
    <3>1. m.writes \in Seq([packet : SentPacket, on : SocketState])
      BY DEF PmType
    <3> DEFINE A == [packet : SentPacket, on : SocketState]
    <3> DEFINE B == [packet : Packet, on : {"open", "closed"}]
    <3>2. m.writes \in Seq(A) /\ A \subseteq B
      BY <1>2, <3>1
    <3> HIDE DEF A, B
    <3>3. m.writes \in Seq(B)
      BY <3>2, SeqMonotonic
    <3>4. QED
      BY <3>3 DEF B
  <2>4. QED
    BY <2>2, <2>3 DEF PmType, PmState
<1>4. QED
  BY <1>3 DEF Managers

\* The packets the server makes.
LEMMA PacketsAreSent ==
    /\ InfoPacket \in SentPacket
    /\ ChunkPacket \in SentPacket
    /\ EndPacket \in SentPacket
    /\ \A s \in Session : ChatPacket(s) \in SentPacket /\ KickPacket(s) \in SentPacket
    /\ \A f \in Path : HeaderPacket(f) \in SentPacket
    /\ \A files \in SUBSET Path : ListPacket(files) \in SentPacket
  BY DEF SentPacket, Packet, PacketType, InfoPacket, ChunkPacket, EndPacket, ChatPacket,
         KickPacket, HeaderPacket, ListPacket

\* getFileList names files.
LEMMA FileListType == \A files : GetFileList(files) \subseteq Path
  BY DEF GetFileList

\* What queuePacket on the packet managers of S does to all of them.
LEMMA QueueToEffect ==
    ASSUME NEW pms, Managers(pms), NEW S, NEW p \in SentPacket, TypeOK
    PROVE  /\ Managers(QueueTo(pms, S, p))
           /\ \A c \in Session :
                /\ SameReads(QueueTo(pms, S, p)[c], pms[c])
                /\ c \notin S => QueueTo(pms, S, p)[c] = pms[c]
                /\ QueueTo(pms, S, p)[c].queue =
                     IF c \in S /\ session[c].socket = "open"
                       THEN Append(pms[c].queue, p) ELSE pms[c].queue
<1> DEFINE n == QueueTo(pms, S, p)
<1>1. ASSUME NEW c \in Session
      PROVE  /\ n[c] \in PmType
             /\ SendSide(n[c])
             /\ SameReads(n[c], pms[c])
             /\ c \notin S => n[c] = pms[c]
             /\ n[c].queue = IF c \in S /\ session[c].socket = "open"
                               THEN Append(pms[c].queue, p) ELSE pms[c].queue
  <2>1. pms[c] \in PmType /\ SendSide(pms[c]) /\ session[c].socket \in SocketState
    BY DEF Managers, TypeOK, SessionState, SocketState
  <2>2. CASE c \in S
    <3>1. n[c] = PM!QueuePacket(pms[c], session[c].socket, p)
      BY <2>2 DEF QueueTo
    <3>2. QED
      BY <2>1, <2>2, <3>1, QueuePacketEffect
  <2>3. CASE c \notin S
    <3>1. n[c] = pms[c]
      BY <2>3 DEF QueueTo
    <3>2. QED
      BY <2>1, <2>3, <3>1 DEF SameReads
  <2>4. QED
    BY <2>2, <2>3
<1>2. n = [c \in Session |-> n[c]]
  BY DEF QueueTo
<1> HIDE DEF n
<1>3. Managers(n)
  BY <1>1, <1>2 DEF Managers
<1>4. QED
  BY <1>1, <1>3 DEF n

\* The state at the start.
LEMMA InitInv == Init => IInv
<1> SUFFICES ASSUME Init PROVE IInv
  OBVIOUS
<1>1. PICK m : m = PM!NewPacketManager
  OBVIOUS
<1>2. /\ m \in PmType
      /\ m.queue = <<>>
      /\ m.writes = <<>>
      /\ ~m.sending
      /\ ~m.recieveing
  BY <1>1 DEF PM!NewPacketManager, PmType
<1>3. Managers(pm) /\ \A s \in Session : pm[s] = m
  BY <1>1, <1>2 DEF Init, Managers, SendSide
<1>4. /\ NewSession \in SessionState
      /\ NewSession.socket = "closed"
      /\ NewSession.file.mode = "closed"
  BY DEF NewSession, SessionState, Closed, FileState
<1>5. \A s \in Session : session[s] = NewSession /\ ~IsOpen(s) /\ ~Uploads(s)
  BY <1>4 DEF Init, IsOpen, Uploads
<1>6. TypeOK
  <2>1. session \in [Session -> SessionState]
    BY <1>4 DEF Init
  <2>2. pm \in [Session -> PmState]
    BY <1>3, ManagersType
  <2>3. disk \in [Path -> Nat \cup {NoFile}]
    BY BoundAssumption DEF Init
  <2>4. inputs \in 0..MaxInputs
    BY BoundAssumption DEF Init
  <2>5. client \in [Session -> [greeted : BOOLEAN, uploading : BOOLEAN, chunks : Nat]]
    BY DEF Init
  <2>6. QED
    BY <2>1, <2>2, <2>3, <2>4, <2>5 DEF Init, TypeOK
<1>7. Connections
  BY <1>1, <1>2, <1>3, <1>4, <1>5 DEF Init, Connections
<1>8. Files
  BY <1>5 DEF Init, Files, WriterExclusive, OwnNameProtected
<1>9. QED
  BY <1>3, <1>6, <1>7, <1>8 DEF IInv

-----------------------------------------------------------------------------
(* What most steps leave as it is *)

\* The members that connections and files are about are the same.
SameHolds(n, m) ==
    /\ n.socket = m.socket
    /\ n.file = m.file
    /\ n.fileEdit = m.fileEdit
    /\ n.filename = m.filename

\* Members besides those.
LEMMA OtherMembers ==
    ASSUME NEW m \in SessionState
    PROVE  /\ [m EXCEPT !.disconnecting = TRUE] \in SessionState
           /\ SameHolds([m EXCEPT !.disconnecting = TRUE], m)
           /\ [m EXCEPT !.registered = TRUE] \in SessionState
           /\ SameHolds([m EXCEPT !.registered = TRUE], m)
           /\ [m EXCEPT !.chatText = 1 - @] \in SessionState
           /\ SameHolds([m EXCEPT !.chatText = 1 - @], m)
<1>1. 1 - m.chatText \in {0, 1}
  BY DEF SessionState
<1>2. QED
  BY <1>1 DEF SessionState, SameHolds

\* Nobody joins or leaves, no socket and no read changes, and nothing
\* happens to a session that is not on the list.
SameConnections ==
    /\ UNCHANGED <<waiting, sessiones>>
    /\ \A t \in Session : /\ session'[t].socket = session[t].socket
                          /\ SameReads(pm'[t], pm[t])
                          /\ t \notin sessiones => /\ session'[t] = session[t]
                                                   /\ pm'[t] = pm[t]
                                                   /\ client'[t].uploading = client[t].uploading

\* No session opens, closes or renames a file.
SameFiles ==
    /\ UNCHANGED <<disk, finished>>
    /\ \A t \in Session : /\ session'[t].file = session[t].file
                          /\ session'[t].fileEdit = session[t].fileEdit
                          /\ session'[t].filename = session[t].filename

LEMMA ConnectionsKept ==
    ASSUME Connections, SameConnections
    PROVE  Connections'
<1> SUFFICES ASSUME NEW s \in Session
             PROVE  /\ s \in waiting' => /\ s \notin sessiones'
                                         /\ session'[s] = NewSession
                                         /\ pm'[s] = PM!NewPacketManager
                                         /\ ~client'[s].uploading
                    /\ s \in sessiones' => session'[s].socket = "open"
                    /\ s \notin waiting' /\ session'[s].socket = "closed" => ~pm'[s].recieveing
                    /\ pm'[s].recieveing /\ pm'[s].reads > 0 => s \in sessiones'
                    /\ IsOpen(s)' => s \in sessiones'
  BY DEF Connections
<1>1. CASE s \in sessiones
  BY <1>1 DEF Connections, SameConnections, SameReads, IsOpen
<1>2. CASE s \notin sessiones
  BY <1>2 DEF Connections, SameConnections, IsOpen
<1>3. QED
  BY <1>1, <1>2

LEMMA FilesKept ==
    ASSUME Files, SameFiles
    PROVE  Files'
<1>1. \A t \in Session : IsOpen(t)' = IsOpen(t) /\ Uploads(t)' = Uploads(t)
  BY DEF SameFiles, IsOpen, Uploads
<1>2. WriterExclusive' /\ OwnNameProtected'
  BY <1>1 DEF SameFiles, Files, WriterExclusive, OwnNameProtected, FileExists
<1>3. QED
  BY <1>1, <1>2 DEF SameFiles, Files, FileExists, GetFileList

\* The types of what a received packet may change besides.
InputTypes ==
    /\ alive' \in BOOLEAN
    /\ session' \in [Session -> SessionState]
    /\ client' \in [Session -> [greeted : BOOLEAN, uploading : BOOLEAN, chunks : Nat]]
    /\ inputs' \in 0..MaxInputs
    /\ UNCHANGED <<view, owed>>

\* A step that queues packets and touches no connection and no file.
LEMMA QuietStep ==
    ASSUME IInv, InputTypes, Managers(pm'),
           UNCHANGED <<waiting, sessiones, disk, finished>>,
           \A t \in Session : SameHolds(session'[t], session[t]) /\ SameReads(pm'[t], pm[t]),
           \A t \in Session \ sessiones : /\ session'[t] = session[t]
                                          /\ pm'[t] = pm[t]
                                          /\ client'[t] = client[t]
    PROVE  IInv'
<1>1. TypeOK'
  BY ManagersType DEF IInv, TypeOK, InputTypes
<1>2. SameConnections
  BY DEF SameConnections, SameHolds
<1>3. SameFiles
  BY DEF SameFiles, SameHolds
<1>4. QED
  BY <1>1, <1>2, <1>3, ConnectionsKept, FilesKept DEF IInv, Managers

\* Assigning the members of one session.
LEMMA OneSession ==
    ASSUME TypeOK, NEW s \in Session, NEW n \in SessionState, session' = [session EXCEPT ![s] = n]
    PROVE  /\ session' \in [Session -> SessionState]
           /\ session'[s] = n
           /\ \A t \in Session \ {s} : session'[t] = session[t]
  BY DEF TypeOK

\* A session that receives is on the list.
LEMMA ReceivingIsListed ==
    ASSUME IInv, NEW s \in Session, Receiving(s)
    PROVE  s \in sessiones /\ session[s].socket = "open"
  BY DEF IInv, Connections, Receiving

\* The bound on the inputs.
LEMMA ArrivesType ==
    ASSUME IInv, NEW s \in Session, NEW type, Arrives(s, type)
    PROVE  /\ Receiving(s)
           /\ inputs' \in 0..MaxInputs
           /\ UNCHANGED <<waiting, view, owed>>
  BY BoundAssumption DEF IInv, TypeOK, Arrives

\* A kick, with what the client did.
LEMMA KickInv ==
    ASSUME IInv, NEW s \in Session, Receiving(s), Kick(s),
           UNCHANGED <<waiting, view, owed>>,
           inputs' \in 0..MaxInputs,
           client' \in [Session -> [greeted : BOOLEAN, uploading : BOOLEAN, chunks : Nat]],
           \A t \in Session \ {s} : client'[t] = client[t]
    PROVE  IInv'
<1>1. TypeOK /\ Managers(pm) /\ s \in sessiones
  BY ReceivingIsListed DEF IInv
<1>2. pm' = QueueTo(pm, {s}, KickPacket(s)) /\ KickPacket(s) \in SentPacket
  BY PacketsAreSent DEF Kick
<1>3. Managers(pm') /\ \A t \in Session : SameReads(pm'[t], pm[t]) /\ (t # s => pm'[t] = pm[t])
  BY <1>1, <1>2, QueueToEffect
<1>4. /\ [session[s] EXCEPT !.disconnecting = TRUE] \in SessionState
      /\ SameHolds([session[s] EXCEPT !.disconnecting = TRUE], session[s])
  BY <1>1, OtherMembers DEF TypeOK
<1>5. /\ session' \in [Session -> SessionState]
      /\ SameHolds(session'[s], session[s])
      /\ \A t \in Session \ {s} : session'[t] = session[t]
  BY <1>1, <1>4, OneSession DEF Kick
<1>6. \A t \in Session : SameHolds(session'[t], session[t])
  BY <1>5 DEF SameHolds
<1>7. InputTypes
  BY <1>1, <1>5 DEF Kick, InputTypes, TypeOK
<1>8. /\ UNCHANGED <<waiting, sessiones, disk, finished>>
      /\ \A t \in Session \ sessiones : session'[t] = session[t] /\ pm'[t] = pm[t] /\ client'[t] = client[t]
  BY <1>1, <1>3, <1>5 DEF Kick
<1>9. QED
  BY <1>3, <1>6, <1>7, <1>8, QuietStep

\* An announcement to every session, or to one of them.
LEMMA QueuesOnlyInv ==
    ASSUME IInv, NEW S \in SUBSET sessiones, NEW p \in SentPacket, pm' = QueueTo(pm, S, p),
           UNCHANGED <<alive, waiting, sessiones, disk, finished, view, owed>>,
           inputs' \in 0..MaxInputs,
           client' \in [Session -> [greeted : BOOLEAN, uploading : BOOLEAN, chunks : Nat]],
           session' \in [Session -> SessionState],
           \A t \in Session : SameHolds(session'[t], session[t]),
           \A t \in Session \ sessiones : session'[t] = session[t] /\ client'[t] = client[t]
    PROVE  IInv'
<1>1. TypeOK /\ Managers(pm)
  BY DEF IInv
<1>2. Managers(pm') /\ \A t \in Session : SameReads(pm'[t], pm[t]) /\ (t \notin S => pm'[t] = pm[t])
  BY <1>1, QueueToEffect
<1>3. InputTypes
  BY <1>1 DEF InputTypes, TypeOK
<1>4. QED
  BY <1>2, <1>3, QuietStep

-----------------------------------------------------------------------------
(* The packets that are received *)

LEMMA UserInfoInv ==
    ASSUME IInv, NEW s \in Session, UserInfo(s)
    PROVE  IInv'
<1>1. TypeOK /\ Receiving(s) /\ s \in sessiones /\ UNCHANGED <<waiting, inputs, view, owed>>
  BY ReceivingIsListed DEF IInv, UserInfo
<1>2. /\ client' \in [Session -> [greeted : BOOLEAN, uploading : BOOLEAN, chunks : Nat]]
      /\ \A t \in Session \ {s} : client'[t] = client[t]
  BY <1>1 DEF UserInfo, TypeOK
<1>3. CASE Kick(s)
  BY <1>1, <1>2, <1>3, KickInv DEF TypeOK
<1>4. CASE /\ session' = [session EXCEPT ![s].registered = TRUE]
           /\ pm' = QueueTo(pm, {s}, ListPacket(GetFileList(disk)))
           /\ UNCHANGED <<alive, sessiones, disk, finished>>
  <2>1. ListPacket(GetFileList(disk)) \in SentPacket
    BY PacketsAreSent, FileListType
  <2>2. /\ [session[s] EXCEPT !.registered = TRUE] \in SessionState
        /\ SameHolds([session[s] EXCEPT !.registered = TRUE], session[s])
    BY <1>1, OtherMembers DEF TypeOK
  <2>3. {s} \in SUBSET sessiones
    BY <1>1
  <2>4. /\ session' \in [Session -> SessionState]
        /\ \A t \in Session \ {s} : session'[t] = session[t]
        /\ \A t \in Session : SameHolds(session'[t], session[t])
    BY <1>1, <1>4, <2>2, OneSession DEF SameHolds
  <2>5. /\ inputs' \in 0..MaxInputs
        /\ \A t \in Session \ sessiones : session'[t] = session[t] /\ client'[t] = client[t]
    BY <1>1, <1>2, <2>4 DEF TypeOK
  <2>6. QED
    BY <1>1, <1>2, <1>4, <2>1, <2>3, <2>4, <2>5, QueuesOnlyInv
<1>5. QED
  BY <1>3, <1>4 DEF UserInfo

LEMMA ClientUploadsType ==
    ASSUME TypeOK, NEW s \in Session, NEW u \in BOOLEAN, NEW k \in Nat, ClientUploads(s, u, k)
    PROVE  /\ client' \in [Session -> [greeted : BOOLEAN, uploading : BOOLEAN, chunks : Nat]]
           /\ \A t \in Session \ {s} : client'[t] = client[t]
           /\ client'[s].uploading = u
  BY DEF TypeOK, ClientUploads

\* A packet that is refused because no greeting came: the client has sent it all the same.
LEMMA UnregisteredClient ==
    ASSUME TypeOK, NEW s \in Session, RejectUnregistered(s)
    PROVE  /\ client' \in [Session -> [greeted : BOOLEAN, uploading : BOOLEAN, chunks : Nat]]
           /\ \A t \in Session \ {s} : client'[t] = client[t]
<1>1. CASE UNCHANGED client
  BY <1>1 DEF TypeOK
<1>2. CASE HeaderSent(s) \/ EndSent(s)
  BY <1>2, ClientUploadsType DEF HeaderSent, EndSent
<1>3. CASE ChunkSent(s)
  <2>1. PICK k \in Nat : k = client[s].chunks + 1
    BY DEF TypeOK
  <2>2. ClientUploads(s, TRUE, k)
    BY <1>3, <2>1 DEF ChunkSent
  <2>3. QED
    BY <2>2, ClientUploadsType
<1>4. QED
  BY <1>1, <1>2, <1>3 DEF RejectUnregistered, Rejects

\* RejectUnregistered and Unexpected.
LEMMA RejectClient ==
    ASSUME TypeOK, NEW s \in Session, RejectUnregistered(s) \/ Unexpected(s)
    PROVE  /\ client' \in [Session -> [greeted : BOOLEAN, uploading : BOOLEAN, chunks : Nat]]
           /\ \A t \in Session \ {s} : client'[t] = client[t]
<1>1. CASE RejectUnregistered(s)
  BY <1>1, UnregisteredClient
<1>2. CASE Unexpected(s)
  BY <1>2 DEF Unexpected, TypeOK
<1>3. QED
  BY <1>1, <1>2

LEMMA RejectInv ==
    ASSUME IInv, NEW s \in Session, RejectUnregistered(s) \/ Unexpected(s)
    PROVE  IInv'
<1>1. /\ Receiving(s)
      /\ inputs' \in 0..MaxInputs
      /\ UNCHANGED <<waiting, view, owed>>
  BY ArrivesType DEF RejectUnregistered, Rejects, Unexpected, ArrivesRegistered
<1>2. TypeOK /\ Kick(s)
  BY DEF IInv, RejectUnregistered, Rejects, Unexpected
<1>3. QED
  BY <1>1, <1>2, RejectClient, KickInv

\* The members of a session with another chat text.
LEMMA NewChatTextType ==
    ASSUME TypeOK, NEW s \in Session
    PROVE  NewChatText(s) \in SessionState /\ SameHolds(NewChatText(s), session[s])
  BY OtherMembers DEF TypeOK, NewChatText

\* MessageChat, and a request that is refused: a broadcast.
LEMMA AnnounceInv ==
    ASSUME IInv, NEW s \in Session, NEW p \in SentPacket, NEW n \in SessionState,
           Receiving(s),
           inputs' \in 0..MaxInputs,
           UNCHANGED <<alive, waiting, sessiones, disk, client, finished, view, owed>>,
           SameHolds(n, session[s]),
           session' = [session EXCEPT ![s] = n],
           pm' = BroadcastPacket(pm, p)
    PROVE  IInv'
<1>1. TypeOK /\ s \in sessiones
  BY ReceivingIsListed DEF IInv
<1>2. /\ session' \in [Session -> SessionState]
      /\ session'[s] = n
      /\ \A t \in Session \ {s} : session'[t] = session[t]
  BY <1>1, OneSession
<1>3. \A t \in Session : SameHolds(session'[t], session[t])
  BY <1>2 DEF SameHolds
<1>4. \A t \in Session \ sessiones : session'[t] = session[t] /\ client'[t] = client[t]
  BY <1>1, <1>2
<1>5. pm' = QueueTo(pm, sessiones, p) /\ sessiones \in SUBSET sessiones
  BY DEF BroadcastPacket
<1>6. client' \in [Session -> [greeted : BOOLEAN, uploading : BOOLEAN, chunks : Nat]]
  BY <1>1 DEF TypeOK
<1>7. QED
  BY <1>2, <1>3, <1>4, <1>5, <1>6, QueuesOnlyInv

\* A session as it is.
LEMMA SessionAsItIs ==
    ASSUME TypeOK, NEW s \in Session
    PROVE  /\ session[s] \in SessionState
           /\ SameHolds(session[s], session[s])
           /\ session = [session EXCEPT ![s] = session[s]]
  BY DEF TypeOK, SameHolds

LEMMA MessageChatInv ==
    ASSUME IInv, NEW s \in Session, MessageChat(s)
    PROVE  IInv'
<1>1. /\ TypeOK
      /\ Receiving(s)
      /\ inputs' \in 0..MaxInputs
      /\ UNCHANGED <<alive, waiting, sessiones, disk, client, finished, view, owed>>
  BY ArrivesType DEF IInv, MessageChat, ArrivesRegistered
<1>2. CASE IsQueued(s)
  <2>1. UNCHANGED <<session, pm>>
    BY <1>2 DEF MessageChat
  <2>2. InputTypes
    BY <1>1, <2>1 DEF InputTypes, TypeOK
  <2>3. \A t \in Session : SameHolds(session'[t], session[t]) /\ SameReads(pm'[t], pm[t])
    BY <2>1 DEF SameHolds, SameReads
  <2>4. Managers(pm')
    BY <2>1 DEF IInv, Managers
  <2>5. QED
    BY <1>1, <2>1, <2>2, <2>3, <2>4, QuietStep
<1>3. CASE ~IsQueued(s)
  <2>1. /\ session' = [session EXCEPT ![s] = NewChatText(s)]
        /\ pm' = BroadcastPacket(pm, ChatPacket(s))
    BY <1>3 DEF MessageChat
  <2>2. ChatPacket(s) \in SentPacket
    BY PacketsAreSent
  <2>3. QED
    BY <1>1, <2>1, <2>2, NewChatTextType, AnnounceInv
<1>4. QED
  BY <1>2, <1>3

LEMMA UpdateWriteRateInv ==
    ASSUME IInv, NEW s \in Session, UpdateWriteRate(s)
    PROVE  IInv'
<1>1. /\ TypeOK
      /\ inputs' \in 0..MaxInputs
      /\ UNCHANGED <<alive, waiting, sessiones, disk, client, finished, view, owed, session, pm>>
  BY ArrivesType DEF IInv, UpdateWriteRate, ArrivesRegistered
<1>2. InputTypes
  BY <1>1 DEF InputTypes, TypeOK
<1>3. \A t \in Session : SameHolds(session'[t], session[t]) /\ SameReads(pm'[t], pm[t])
  BY <1>1 DEF SameHolds, SameReads
<1>4. Managers(pm')
  BY <1>1 DEF IInv, Managers
<1>5. QED
  BY <1>1, <1>2, <1>3, <1>4, QuietStep

\* sendInfoMessage.
LEMMA RefuseRequestInv ==
    ASSUME IInv, NEW s \in Session, Receiving(s), RefuseRequest,
           inputs' \in 0..MaxInputs, UNCHANGED <<waiting, client, view, owed>>
    PROVE  IInv'
<1>1. TypeOK
  BY DEF IInv
<1>2. UNCHANGED <<alive, sessiones, session, disk, finished>> /\ pm' = BroadcastPacket(pm, InfoPacket)
  BY DEF RefuseRequest
<1>3. /\ session[s] \in SessionState
      /\ SameHolds(session[s], session[s])
      /\ session' = [session EXCEPT ![s] = session[s]]
  BY <1>1, <1>2, SessionAsItIs
<1>4. QED
  BY <1>1, <1>2, <1>3, PacketsAreSent, AnnounceInv

-----------------------------------------------------------------------------
(* Files *)

\* A packet that changes what its session has open, or the directory: what
\* is left to show is Files.
LEMMA FileStep ==
    ASSUME IInv, NEW s \in Session, Receiving(s), NEW n \in SessionState,
           session' = [session EXCEPT ![s] = n],
           n.socket = session[s].socket,
           inputs' \in 0..MaxInputs,
           client' \in [Session -> [greeted : BOOLEAN, uploading : BOOLEAN, chunks : Nat]],
           \A t \in Session \ {s} : client'[t] = client[t],
           UNCHANGED <<alive, waiting, sessiones, view, owed>>,
           disk' \in [Path -> Nat \cup {NoFile}],
           finished' \subseteq Path,
           Managers(pm'),
           \A t \in Session : SameReads(pm'[t], pm[t]) /\ (t \notin sessiones => pm'[t] = pm[t]),
           Files'
    PROVE  IInv'
<1>1. TypeOK /\ s \in sessiones
  BY ReceivingIsListed DEF IInv
<1>2. /\ session' \in [Session -> SessionState]
      /\ session'[s] = n
      /\ \A t \in Session \ {s} : session'[t] = session[t]
  BY <1>1, OneSession
<1>3. TypeOK'
  BY <1>1, <1>2, ManagersType DEF TypeOK
<1>4. SameConnections
  <2>1. \A t \in Session : session'[t].socket = session[t].socket
    BY <1>2
  <2>2. \A t \in Session \ sessiones : session'[t] = session[t] /\ client'[t].uploading = client[t].uploading
    BY <1>1, <1>2
  <2>3. QED
    BY <2>1, <2>2 DEF SameConnections
<1>5. QED
  BY <1>3, <1>4, ConnectionsKept DEF IInv, Managers

\* Members with another file.
LEMMA FileMember ==
    ASSUME NEW m \in SessionState, NEW g \in FileState
    PROVE  /\ [m EXCEPT !.file = g] \in SessionState
           /\ [m EXCEPT !.file = g].file = g
           /\ [m EXCEPT !.file = g].socket = m.socket
           /\ [m EXCEPT !.file = g].fileEdit = m.fileEdit
           /\ [m EXCEPT !.file = g].filename = m.filename
  BY DEF SessionState

\* newFilePath: the least number of "-cpy" is one, and the name is free.
LEMMA NewFilePathIsFree ==
    ASSUME NEW f \in Path, FreeCopies(f) # {}, TypeOK
    PROVE  NewFilePath(f) \in Path /\ ~FileExists(NewFilePath(f))
<1>1. f[1] \in Name /\ f[2] \in 0..MaxCopies
  BY DEF Path
<1>2. FreeCopies(f) \subseteq Nat
  BY <1>1, BoundAssumption DEF FreeCopies
<1>3. \E k \in FreeCopies(f) : \A j \in FreeCopies(f) : ~(<<j, k>> \in OpToRel(<, Nat))
  BY <1>2, NatLessThanWellFounded, WFMin
<1>4. \E k \in FreeCopies(f) : \A j \in FreeCopies(f) : k <= j
  <2>1. OpToRel(<, Nat) = {ss \in Nat \X Nat : ss[1] < ss[2]}
    BY DEF OpToRel
  <2>2. PICK k \in FreeCopies(f) :
             \A j \in FreeCopies(f) : ~(<<j, k>> \in {ss \in Nat \X Nat : ss[1] < ss[2]})
    BY <1>3, <2>1, Zenon
  <2>3. ASSUME NEW j \in FreeCopies(f) PROVE k <= j
    <3>1. j \in Nat /\ k \in Nat /\ <<j, k>> \in Nat \X Nat
      BY <1>2
    <3>2. ~(j < k)
      BY <2>2, <3>1
    <3>3. QED
      BY <3>1, <3>2
  <2>4. QED
    BY <2>3
<1>5. PICK k \in FreeCopies(f) : NewFilePath(f) = <<f[1], k>>
  BY <1>4 DEF NewFilePath
<1>6. k \in 0..MaxCopies /\ ~FileExists(<<f[1], k>>)
  BY <1>1, BoundAssumption DEF FreeCopies
<1>7. QED
  BY <1>1, <1>5, <1>6 DEF Path

\* The members at the start of an upload.
StartUpload(m, f, g) == [m EXCEPT !.fileEdit = TRUE, !.filename = f, !.file = g]

LEMMA StartUploadType ==
    ASSUME NEW m \in SessionState, NEW f \in Path, NEW g \in FileState
    PROVE  /\ StartUpload(m, f, g) \in SessionState
           /\ StartUpload(m, f, g).socket = m.socket
           /\ StartUpload(m, f, g).fileEdit
           /\ StartUpload(m, f, g).filename = f
           /\ StartUpload(m, f, g).file = g
  BY DEF SessionState, StartUpload

\* A file is created under a name that no session has open.
LEMMA CreateFile ==
    ASSUME IInv, NEW s \in Session, NEW f \in Path, NEW path \in Path, ~FileExists(path),
           NEW n \in SessionState,
           n.fileEdit, n.filename = f, n.file = [mode |-> "out", path |-> path, pos |-> 0],
           session' = [session EXCEPT ![s] = n],
           disk' = [disk EXCEPT ![path] = 0],
           finished' = finished
    PROVE  Files'
<1>1. TypeOK /\ Files
  BY DEF IInv
<1>2. session'[s] = n /\ \A t \in Session \ {s} : session'[t] = session[t]
  BY <1>1, OneSession
<1>3. /\ FileExists(path)'
      /\ \A x \in Path : FileExists(x) => x # path /\ FileExists(x)'
  BY <1>1 DEF TypeOK, FileExists, NoFile
<1>4. \A t \in Session : IsOpen(t) => session[t].file.path # path
  BY <1>1, <1>3 DEF Files
<1>5. \A t \in Session \ {s} :
        /\ IsOpen(t)' = IsOpen(t)
        /\ Uploads(t)' = Uploads(t)
        /\ session'[t] = session[t]
        /\ IsOpen(t) => session'[t].file.path \in Path \ {path} /\ FileExists(session[t].file.path)'
  <2> SUFFICES ASSUME NEW t \in Session \ {s}
               PROVE  /\ IsOpen(t)' = IsOpen(t)
                      /\ Uploads(t)' = Uploads(t)
                      /\ session'[t] = session[t]
                      /\ IsOpen(t) => /\ session'[t].file.path \in Path \ {path}
                                      /\ FileExists(session[t].file.path)'
    OBVIOUS
  <2>1. session'[t] = session[t]
    BY <1>2
  <2>2. IsOpen(t) => session[t].file.path \in Path /\ FileExists(session[t].file.path)
    BY <1>1 DEF Files
  <2>3. QED
    BY <1>3, <1>4, <2>1, <2>2 DEF IsOpen, Uploads, FileExists
<1>6. /\ session'[s].file.path = path
      /\ session'[s].file.mode = "out"
      /\ session'[s].fileEdit
      /\ session'[s].filename = f
      /\ Uploads(s)'
  BY <1>2 DEF Uploads
<1>7. \A t \in Session : Uploads(t) => IsOpen(t)
  BY DEF Uploads, IsOpen
<1>8. finished' \subseteq GetFileList(disk')
  BY <1>1, <1>3 DEF Files, GetFileList, FileExists
<1>9. WriterExclusive'
  BY <1>1, <1>3, <1>5, <1>6, <1>7 DEF Files, WriterExclusive
<1>10. OwnNameProtected'
  <2>1. SUFFICES ASSUME NEW u \in Session, NEW t \in Session,
                        Uploads(u)', session'[u].file.path = session'[u].filename,
                        session'[t].file.mode = "in",
                        session'[t].file.path = session'[u].filename
                 PROVE  FALSE
    BY DEF OwnNameProtected
  <2>2. t # s
    BY <1>6, <2>1
  <2>3. IsOpen(t) /\ session'[t] = session[t]
    BY <1>5, <2>1, <2>2 DEF IsOpen
  <2>4. CASE u = s
    BY <1>5, <1>6, <2>1, <2>2, <2>3, <2>4
  <2>5. CASE u # s
    BY <1>1, <1>5, <2>1, <2>3, <2>5 DEF Files, OwnNameProtected
  <2>6. QED
    BY <2>4, <2>5
<1>11. \A t \in Session : IsOpen(t)' => session'[t].file.path \in Path /\ FileExists(session[t].file.path)'
  <2>1. SUFFICES ASSUME NEW t \in Session, IsOpen(t)'
                 PROVE  session'[t].file.path \in Path /\ disk'[session'[t].file.path] # NoFile
    BY DEF FileExists
  <2>2. CASE t = s
    BY <1>3, <1>6, <2>2 DEF FileExists
  <2>3. CASE t # s
    BY <1>5, <2>1, <2>3 DEF FileExists
  <2>4. QED
    BY <2>2, <2>3
<1>12. \A t \in Session : Uploads(t)' => session'[t].fileEdit
  BY <1>1, <1>5, <1>6 DEF Files
<1>13. QED
  BY <1>8, <1>9, <1>10, <1>11, <1>12 DEF Files

LEMMA FileDataHeaderInv ==
    ASSUME IInv, NEW s \in Session, NEW f \in Path, FileDataHeader(s, f)
    PROVE  IInv'
<1>1. /\ TypeOK
      /\ Managers(pm)
      /\ Receiving(s)
      /\ inputs' \in 0..MaxInputs
      /\ UNCHANGED <<waiting, view, owed>>
  BY ArrivesType DEF IInv, FileDataHeader, ArrivesRegistered
<1>2. /\ client' \in [Session -> [greeted : BOOLEAN, uploading : BOOLEAN, chunks : Nat]]
      /\ \A t \in Session \ {s} : client'[t] = client[t]
  BY <1>1, ClientUploadsType DEF FileDataHeader, HeaderSent
<1>3. CASE Kick(s)
  BY <1>1, <1>2, <1>3, KickInv
<1>4. CASE ~Kick(s)
  <2> DEFINE path == NewFilePath(f)
  <2> DEFINE g == [mode |-> "out", path |-> path, pos |-> 0]
  <2> DEFINE n == StartUpload(NewChatText(s), f, g)
  <2>1. /\ FreeCopies(f) # {}
        /\ session' = [session EXCEPT ![s] = n]
        /\ disk' = [disk EXCEPT ![path] = 0]
        /\ pm' = BroadcastPacket(pm, ChatPacket(s))
        /\ UNCHANGED <<alive, sessiones, finished>>
    BY <1>4 DEF FileDataHeader, StartUpload
  <2>2. path \in Path /\ ~FileExists(path)
    BY <1>1, <2>1, NewFilePathIsFree
  <2>3. g \in FileState
    BY <2>2 DEF FileState
  <2>4. NewChatText(s) \in SessionState /\ NewChatText(s).socket = session[s].socket
    BY <1>1, NewChatTextType DEF SameHolds
  <2> HIDE DEF path, g
  <2>5. n \in SessionState /\ n.socket = session[s].socket /\ n.fileEdit /\ n.filename = f /\ n.file = g
    BY <2>3, <2>4, StartUploadType
  <2>6. /\ Managers(pm')
        /\ \A t \in Session : SameReads(pm'[t], pm[t]) /\ (t \notin sessiones => pm'[t] = pm[t])
    <3>1. ChatPacket(s) \in SentPacket /\ pm' = QueueTo(pm, sessiones, ChatPacket(s))
      BY <2>1, PacketsAreSent DEF BroadcastPacket
    <3>2. QED
      BY <1>1, <3>1, QueueToEffect
  <2> HIDE DEF n
  <2>7. Files'
    BY <2>1, <2>2, <2>5, CreateFile DEF g
  <2>8. disk' \in [Path -> Nat \cup {NoFile}] /\ finished' \subseteq Path
    BY <1>1, <2>1, <2>2 DEF TypeOK
  <2>9. QED
    BY <1>1, <1>2, <2>1, <2>5, <2>6, <2>7, <2>8, FileStep
<1>5. QED
  BY <1>3, <1>4

\* n closes the file of m, or goes on with it in the same or no mode.
Narrows(n, m) ==
    \/ n.file.mode = "closed"
    \/ /\ m.file.mode # "closed"
       /\ n.file.mode \in {m.file.mode, "bad"}
       /\ n.file.path = m.file.path
       /\ n.fileEdit = m.fileEdit
       /\ n.filename = m.filename

\* Nothing is lost when one session closes its file or goes on with it.
LEMMA FilesNarrowed ==
    ASSUME TypeOK, Files, NEW s \in Session, NEW n \in SessionState, Narrows(n, session[s]),
           session' = [session EXCEPT ![s] = n],
           \A x \in Path : disk[x] # NoFile => disk'[x] # NoFile,
           finished' \subseteq GetFileList(disk')
    PROVE  Files'
<1>1. session'[s] = n /\ \A t \in Session \ {s} : session'[t] = session[t]
  BY OneSession
<1>2. ASSUME NEW t \in Session, session'[t].file.mode # "closed"
      PROVE  /\ session[t].file.mode # "closed"
             /\ session'[t].file.mode \in {session[t].file.mode, "bad"}
             /\ session'[t].file.path = session[t].file.path
             /\ session'[t].fileEdit = session[t].fileEdit
             /\ session'[t].filename = session[t].filename
  <2>1. CASE t = s
    BY <1>1, <1>2, <2>1 DEF Narrows
  <2>2. CASE t # s
    BY <1>1, <1>2, <2>2
  <2>3. QED
    BY <2>1, <2>2
<1>3. \A t \in Session : session[t].file.mode # "closed" =>
        session[t].file.path \in Path /\ disk[session[t].file.path] # NoFile
  BY DEF Files, IsOpen, FileExists
<1>4. \A t \in Session : session'[t].file.mode # "closed" =>
        session'[t].file.path \in Path /\ disk'[session'[t].file.path] # NoFile
  BY <1>2, <1>3
<1>5. ASSUME NEW t \in Session, session'[t].file.mode = "out"
      PROVE  /\ session[t].file.mode = "out"
             /\ session'[t].file.path = session[t].file.path
             /\ session'[t].fileEdit = session[t].fileEdit
             /\ session'[t].filename = session[t].filename
  BY <1>2, <1>5
<1>6. ASSUME NEW t \in Session, session'[t].file.mode = "in"
      PROVE  session[t].file.mode = "in" /\ session'[t].file.path = session[t].file.path
  BY <1>2, <1>6
<1>7. \A t \in Session : Uploads(t)' => session'[t].fileEdit
  BY <1>5 DEF Files, Uploads
<1>8. WriterExclusive'
  <2>1. ASSUME NEW u \in Session, Uploads(u)'
        PROVE  disk'[session'[u].file.path] # NoFile
    BY <1>4, <2>1 DEF Uploads
  <2>2. ASSUME NEW u \in Session, NEW t \in Session \ {u}, Uploads(u)', Uploads(t)'
        PROVE  session'[t].file.path # session'[u].file.path
    BY <1>5, <2>2 DEF Files, WriterExclusive, Uploads
  <2>3. QED
    BY <2>1, <2>2 DEF WriterExclusive, FileExists
<1>9. OwnNameProtected'
  BY <1>5, <1>6 DEF Files, OwnNameProtected, Uploads
<1>10. QED
  BY <1>4, <1>7, <1>8, <1>9 DEF Files, IsOpen, FileExists

\* The same members in the end are no other assignment.
LEMMA OwnFile ==
    ASSUME TypeOK, NEW s \in Session
    PROVE  /\ session[s] \in SessionState
           /\ session[s].file \in FileState
           /\ session = [session EXCEPT ![s] = session[s]]
  BY DEF TypeOK, SessionState

LEMMA FileDataChunkInv ==
    ASSUME IInv, NEW s \in Session, FileDataChunk(s)
    PROVE  IInv'
<1>1. /\ TypeOK
      /\ Files
      /\ Receiving(s)
      /\ inputs' \in 0..MaxInputs
      /\ UNCHANGED <<alive, waiting, sessiones, view, owed, pm, finished>>
  BY ArrivesType DEF IInv, FileDataChunk, ArrivesRegistered
<1>2. /\ client' \in [Session -> [greeted : BOOLEAN, uploading : BOOLEAN, chunks : Nat]]
      /\ \A t \in Session \ {s} : client'[t] = client[t]
  <2>1. client[s].chunks \in Nat
    BY <1>1 DEF TypeOK
  <2>2. PICK k \in Nat : k = client[s].chunks + 1
    BY <2>1
  <2>3. ClientUploads(s, TRUE, k)
    BY <2>2 DEF FileDataChunk, ChunkSent
  <2>4. QED
    BY <1>1, <2>3, ClientUploadsType
<1> DEFINE file == session[s].file
<1>3. session[s] \in SessionState /\ file \in FileState /\ session = [session EXCEPT ![s] = session[s]]
  BY <1>1, OwnFile
<1>4. PICK g \in FileState :
        /\ session' = [session EXCEPT ![s] = [session[s] EXCEPT !.file = g]]
        /\ \/ g.mode = "closed"
           \/ file.mode # "closed" /\ g.mode \in {file.mode, "bad"} /\ g.path = file.path
        /\ \/ g.mode = "out" /\ disk' = [disk EXCEPT ![file.path] = @ + 1]
           \/ disk' = disk
  <2>1. CASE /\ file.mode = "out"
             /\ session' = [session EXCEPT ![s].file.pos = @ + 1]
             /\ disk' = [disk EXCEPT ![file.path] = @ + 1]
    <3> DEFINE g == [file EXCEPT !.pos = @ + 1]
    <3>1. g \in FileState /\ g.mode = "out" /\ g.path = file.path
      BY <1>3, <2>1 DEF FileState
    <3>2. session' = [session EXCEPT ![s] = [session[s] EXCEPT !.file = g]]
      BY <2>1
    <3> HIDE DEF g
    <3>3. QED
      BY <2>1, <3>1, <3>2
  <2>2. CASE /\ file.mode = "in"
             /\ session' = [session EXCEPT ![s].file.mode = "bad"]
             /\ UNCHANGED disk
    <3> DEFINE g == [file EXCEPT !.mode = "bad"]
    <3>1. g \in FileState /\ g.mode = "bad" /\ g.path = file.path
      BY <1>3, <2>2 DEF FileState
    <3>2. session' = [session EXCEPT ![s] = [session[s] EXCEPT !.file = g]]
      BY <2>2
    <3> HIDE DEF g
    <3>3. QED
      BY <2>2, <3>1, <3>2
  <2>3. CASE file.mode \in {"closed", "bad"} /\ UNCHANGED <<session, disk>>
    <3>1. session[s] = [session[s] EXCEPT !.file = file]
      BY <1>3 DEF SessionState
    <3>2. QED
      BY <1>3, <2>3, <3>1
  <2>4. QED
    BY <2>1, <2>2, <2>3 DEF FileDataChunk
<1> DEFINE n == [session[s] EXCEPT !.file = g]
<1>5. /\ n \in SessionState
      /\ n.socket = session[s].socket
      /\ n.file = g
      /\ n.fileEdit = session[s].fileEdit
      /\ n.filename = session[s].filename
  BY <1>3, FileMember
<1>6. session' = [session EXCEPT ![s] = n]
  BY <1>4
<1> HIDE DEF n
<1>7. Narrows(n, session[s])
  BY <1>4, <1>5 DEF Narrows
<1>8. /\ disk' \in [Path -> Nat \cup {NoFile}]
      /\ \A x \in Path : disk[x] # NoFile => disk'[x] # NoFile
  BY <1>1, <1>4 DEF TypeOK, NoFile
<1>9. finished' \subseteq Path /\ finished' \subseteq GetFileList(disk')
  BY <1>1, <1>8 DEF TypeOK, Files, GetFileList
<1>10. Files'
  BY <1>1, <1>5, <1>6, <1>7, <1>8, <1>9, FilesNarrowed
<1>11. Managers(pm') /\ \A t \in Session : SameReads(pm'[t], pm[t]) /\ pm'[t] = pm[t]
  BY <1>1 DEF IInv, Managers, SameReads
<1>12. QED
  BY <1>1, <1>2, <1>5, <1>6, <1>8, <1>9, <1>10, <1>11, FileStep

\* The members at the end of an upload, and of a download.
LEMMA EndMembers ==
    ASSUME NEW m \in SessionState
    PROVE  /\ Closed \in FileState /\ Closed.mode = "closed"
           /\ [m EXCEPT !.file = Closed, !.fileEdit = FALSE, !.filename = NoPath] \in SessionState
           /\ [m EXCEPT !.file = Closed, !.fileEdit = FALSE, !.filename = NoPath].file = Closed
           /\ [m EXCEPT !.file = Closed, !.fileEdit = FALSE, !.filename = NoPath].socket = m.socket
           /\ [m EXCEPT !.file = Closed, !.filename = NoPath] \in SessionState
           /\ [m EXCEPT !.file = Closed, !.filename = NoPath].file = Closed
           /\ [m EXCEPT !.file = Closed, !.filename = NoPath].socket = m.socket
<1>1. Closed \in FileState /\ Closed.mode = "closed"
  BY DEF Closed, FileState
<1>2. QED
  BY <1>1 DEF SessionState

\* The list of the files as they are by then.
LEMMA BroadcastFileListEffect ==
    ASSUME TypeOK, NEW pms, Managers(pms), NEW files
    PROVE  /\ Managers(BroadcastFileList(pms, files))
           /\ \A t \in Session : /\ SameReads(BroadcastFileList(pms, files)[t], pms[t])
                                 /\ t \notin sessiones => BroadcastFileList(pms, files)[t] = pms[t]
<1>1. ListPacket(GetFileList(files)) \in SentPacket
  BY FileListType, PacketsAreSent
<1>2. BroadcastFileList(pms, files) = QueueTo(pms, sessiones, ListPacket(GetFileList(files)))
  BY DEF BroadcastFileList, BroadcastPacket
<1>3. QED
  BY <1>1, <1>2, QueueToEffect

LEMMA FileDataEndInv ==
    ASSUME IInv, NEW s \in Session, FileDataEnd(s)
    PROVE  IInv'
<1>1. /\ TypeOK
      /\ Files
      /\ Managers(pm)
      /\ Receiving(s)
      /\ inputs' \in 0..MaxInputs
      /\ UNCHANGED <<alive, waiting, sessiones, view, owed, disk>>
  BY ArrivesType DEF IInv, FileDataEnd, ArrivesRegistered
<1>2. /\ client' \in [Session -> [greeted : BOOLEAN, uploading : BOOLEAN, chunks : Nat]]
      /\ \A t \in Session \ {s} : client'[t] = client[t]
  BY <1>1, ClientUploadsType DEF FileDataEnd, EndSent
<1> DEFINE n == [session[s] EXCEPT !.file = Closed, !.fileEdit = FALSE, !.filename = NoPath]
<1>3. /\ session[s] \in SessionState
      /\ n \in SessionState
      /\ n.file.mode = "closed"
      /\ n.socket = session[s].socket
  BY <1>1, OwnFile, EndMembers
<1>4. session' = [session EXCEPT ![s] = n]
  BY DEF FileDataEnd
<1> HIDE DEF n
<1>5. finished' = IF session[s].file.mode = "out" THEN finished \cup {session[s].file.path} ELSE finished
  BY DEF FileDataEnd
<1>6. finished' \subseteq GetFileList(disk') /\ finished' \subseteq Path
  BY <1>1, <1>5 DEF Files, GetFileList, IsOpen, FileExists
<1>7. Files'
  <2>1. Narrows(n, session[s])
    BY <1>3 DEF Narrows
  <2>2. QED
    BY <1>1, <1>3, <1>4, <1>6, <2>1, FilesNarrowed
<1>8. pm' = BroadcastFileList(pm, disk)
  BY DEF FileDataEnd
<1>9. /\ Managers(pm')
      /\ \A t \in Session : SameReads(pm'[t], pm[t]) /\ (t \notin sessiones => pm'[t] = pm[t])
  BY <1>1, <1>8, BroadcastFileListEffect
<1>10. disk' \in [Path -> Nat \cup {NoFile}]
  BY <1>1 DEF TypeOK
<1>11. QED
  BY <1>1, <1>2, <1>3, <1>4, <1>6, <1>7, <1>9, <1>10, FileStep

\* The members at the start of a download.
StartDownload(m, f, size, g) == [m EXCEPT !.filename = f, !.fileSize = size, !.file = g]

LEMMA StartDownloadType ==
    ASSUME NEW m \in SessionState, NEW f \in Path, NEW size \in Nat, NEW g \in FileState
    PROVE  /\ StartDownload(m, f, size, g) \in SessionState
           /\ StartDownload(m, f, size, g).socket = m.socket
           /\ StartDownload(m, f, size, g).file = g
           /\ StartDownload(m, f, size, g).fileSize = size
           /\ StartDownload(m, f, size, g).disconnecting = m.disconnecting
           /\ StartDownload(m, f, size, g).registered = m.registered
  BY DEF SessionState, StartDownload

\* A file that nobody uploads under its own name is opened for reading.
LEMMA ReadFile ==
    ASSUME IInv, NEW s \in Session, NEW f \in Path, FileExists(f), ~IsFileEdited(f),
           NEW n \in SessionState, n.file = [mode |-> "in", path |-> f, pos |-> 0],
           session' = [session EXCEPT ![s] = n],
           UNCHANGED <<disk, finished>>
    PROVE  Files'
<1>1. TypeOK /\ Files
  BY DEF IInv
<1>2. /\ session'[s].file.mode = "in"
      /\ session'[s].file.path = f
      /\ \A t \in Session \ {s} : session'[t] = session[t]
  <2>1. session'[s] = n /\ \A t \in Session \ {s} : session'[t] = session[t]
    BY <1>1, OneSession
  <2>2. n.file.mode = "in" /\ n.file.path = f
    OBVIOUS
  <2>3. QED
    BY <2>1, <2>2
<1>3. \A t \in Session : Uploads(t)' => t # s /\ Uploads(t) /\ session'[t] = session[t]
  BY <1>2 DEF Uploads
<1>4. \A t \in Session : IsOpen(t)' => session'[t].file.path \in Path /\ disk'[session'[t].file.path] # NoFile
  <2>1. SUFFICES ASSUME NEW t \in Session, IsOpen(t)'
                 PROVE  session'[t].file.path \in Path /\ disk[session'[t].file.path] # NoFile
    OBVIOUS
  <2>2. CASE t = s
    BY <1>2, <2>2 DEF FileExists
  <2>3. CASE t # s
    BY <1>1, <1>2, <2>1, <2>3 DEF Files, IsOpen, FileExists
  <2>4. QED
    BY <2>2, <2>3
<1>5. \A t \in Session : Uploads(t)' => session'[t].fileEdit
  BY <1>1, <1>3 DEF Files
<1>6. WriterExclusive'
  <2>1. \A u \in Session : Uploads(u)' => disk'[session'[u].file.path] # NoFile
    BY <1>4 DEF Uploads, IsOpen
  <2>2. \A u \in Session : \A t \in Session \ {u} :
          Uploads(u)' /\ Uploads(t)' => session'[t].file.path # session'[u].file.path
    BY <1>1, <1>3 DEF Files, WriterExclusive
  <2>3. QED
    BY <2>1, <2>2 DEF WriterExclusive, FileExists
<1>7. OwnNameProtected'
  <2>1. SUFFICES ASSUME NEW u \in Session, NEW t \in Session,
                        Uploads(u)', session'[u].file.path = session'[u].filename,
                        session'[t].file.mode = "in",
                        session'[t].file.path = session'[u].filename
                 PROVE  FALSE
    BY DEF OwnNameProtected
  <2>2. Uploads(u) /\ session'[u] = session[u]
    BY <1>3, <2>1
  <2>3. CASE t = s
    <3>1. u \in sessiones /\ session[u].fileEdit /\ session[u].filename = f
      BY <1>1, <1>2, <2>1, <2>2, <2>3 DEF IInv, Connections, Files, Uploads, IsOpen
    <3>2. QED
      BY <3>1 DEF IsFileEdited
  <2>4. CASE t # s
    BY <1>1, <1>2, <2>1, <2>2, <2>4 DEF Files, OwnNameProtected
  <2>5. QED
    BY <2>3, <2>4
<1>8. finished' \subseteq GetFileList(disk')
  BY <1>1 DEF Files, GetFileList
<1>9. \A t \in Session : IsOpen(t)' => session'[t].file.path \in Path /\ FileExists(session[t].file.path)'
  BY <1>4 DEF FileExists
<1>10. QED
  BY <1>5, <1>6, <1>7, <1>8, <1>9 DEF Files

LEMMA FileDownloadRequestInv ==
    ASSUME IInv, NEW s \in Session, NEW f \in Path, FileDownloadRequest(s, f)
    PROVE  IInv'
<1>1. /\ TypeOK
      /\ Managers(pm)
      /\ Receiving(s)
      /\ s \in sessiones
      /\ inputs' \in 0..MaxInputs
      /\ UNCHANGED <<waiting, view, owed, client>>
  BY ArrivesType, ReceivingIsListed DEF IInv, FileDownloadRequest, ArrivesRegistered
<1>2. client' \in [Session -> [greeted : BOOLEAN, uploading : BOOLEAN, chunks : Nat]]
  BY <1>1 DEF TypeOK
<1>3. CASE Kick(s)
  BY <1>1, <1>2, <1>3, KickInv
<1>4. CASE RefuseRequest
  BY <1>1, <1>4, RefuseRequestInv
<1>5. CASE ~Kick(s) /\ ~RefuseRequest
  <2> DEFINE g == [mode |-> "in", path |-> f, pos |-> 0]
  <2> DEFINE n == StartDownload(session[s], f, disk[f], g)
  <2>1. /\ FileExists(f) /\ ~IsFileEdited(f)
        /\ session' = [session EXCEPT ![s] = n]
        /\ pm' = QueueTo(pm, {s}, HeaderPacket(f))
        /\ UNCHANGED <<alive, sessiones, disk, finished>>
    BY <1>5 DEF FileDownloadRequest, StartDownload
  <2>2. g \in FileState
    BY DEF FileState
  <2>3. session[s] \in SessionState /\ disk[f] \in Nat
    BY <1>1, <2>1 DEF TypeOK, FileExists
  <2> HIDE DEF g
  <2>4. n \in SessionState /\ n.socket = session[s].socket /\ n.file = g
    BY <2>2, <2>3, StartDownloadType
  <2> HIDE DEF n
  <2>5. /\ Managers(pm')
        /\ \A t \in Session : SameReads(pm'[t], pm[t]) /\ (t # s => pm'[t] = pm[t])
    BY <1>1, <2>1, PacketsAreSent, QueueToEffect
  <2>6. Files'
    BY <2>1, <2>4, ReadFile DEF g
  <2>7. disk' \in [Path -> Nat \cup {NoFile}] /\ finished' \subseteq Path
    BY <1>1, <2>1 DEF TypeOK
  <2>8. QED
    BY <1>1, <1>2, <2>1, <2>4, <2>5, <2>6, <2>7, FileStep
<1>6. QED
  BY <1>3, <1>4, <1>5

\* A file that nobody has open is removed.
LEMMA RemoveFile ==
    ASSUME IInv, NEW s \in Session, NEW f \in Path, ~OpenSomewhere(f),
           \A t \in Session : SameHolds(session'[t], session[t]),
           disk' = [disk EXCEPT ![f] = NoFile],
           finished' = finished \ {f}
    PROVE  Files'
<1>1. TypeOK /\ Files
  BY DEF IInv
<1>2. \A x \in Path \ {f} : disk'[x] = disk[x]
  BY <1>1 DEF TypeOK
<1>3. \A t \in Session : session[t].file.mode # "closed" => session[t].file.path # f
  BY DEF OpenSomewhere
<1>4. \A t \in Session : /\ IsOpen(t)' = IsOpen(t)
                         /\ Uploads(t)' = Uploads(t)
                         /\ session'[t].file = session[t].file
                         /\ session'[t].fileEdit = session[t].fileEdit
                         /\ session'[t].filename = session[t].filename
  BY DEF IsOpen, Uploads, SameHolds
<1>5. \A t \in Session : IsOpen(t) => session[t].file.path \in Path /\ disk'[session[t].file.path] # NoFile
  BY <1>1, <1>2, <1>3 DEF Files, IsOpen, FileExists
<1>6. finished' \subseteq GetFileList(disk')
  BY <1>1, <1>2 DEF Files, GetFileList, FileExists
<1>7. \A t \in Session : Uploads(t) => IsOpen(t)
  BY DEF Uploads, IsOpen
<1>8. WriterExclusive'
  <2>1. \A u \in Session : Uploads(u)' => disk'[session'[u].file.path] # NoFile
    BY <1>4, <1>5, <1>7
  <2>2. \A u \in Session : \A t \in Session \ {u} :
          Uploads(u)' /\ Uploads(t)' => session'[t].file.path # session'[u].file.path
    BY <1>1, <1>4 DEF Files, WriterExclusive
  <2>3. QED
    BY <2>1, <2>2 DEF WriterExclusive, FileExists
<1>9. OwnNameProtected'
  BY <1>1, <1>4 DEF Files, OwnNameProtected
<1>10. \A t \in Session : IsOpen(t)' => session'[t].file.path \in Path /\ FileExists(session[t].file.path)'
  BY <1>4, <1>5 DEF FileExists
<1>11. \A t \in Session : Uploads(t)' => session'[t].fileEdit
  BY <1>1, <1>4 DEF Files
<1>12. QED
  BY <1>6, <1>8, <1>9, <1>10, <1>11 DEF Files

LEMMA FileDeleteRequestInv ==
    ASSUME IInv, NEW s \in Session, NEW f \in Path, FileDeleteRequest(s, f)
    PROVE  IInv'
<1>1. /\ TypeOK
      /\ Managers(pm)
      /\ Receiving(s)
      /\ s \in sessiones
      /\ inputs' \in 0..MaxInputs
      /\ UNCHANGED <<waiting, view, owed, client>>
  BY ArrivesType, ReceivingIsListed DEF IInv, FileDeleteRequest, ArrivesRegistered
<1>2. client' \in [Session -> [greeted : BOOLEAN, uploading : BOOLEAN, chunks : Nat]]
  BY <1>1 DEF TypeOK
<1>3. CASE RefuseRequest
  BY <1>1, <1>3, RefuseRequestInv
<1>4. CASE alive' = FALSE /\ UNCHANGED <<sessiones, session, pm, disk, finished>>
  <2>1. InputTypes
    BY <1>1, <1>4 DEF InputTypes, TypeOK
  <2>2. \A t \in Session : SameHolds(session'[t], session[t]) /\ SameReads(pm'[t], pm[t])
    BY <1>4 DEF SameHolds, SameReads
  <2>3. Managers(pm')
    BY <1>1, <1>4 DEF Managers
  <2>4. QED
    BY <1>1, <1>4, <2>1, <2>2, <2>3, QuietStep
<1>5. CASE ~RefuseRequest /\ ~(alive' = FALSE /\ UNCHANGED <<sessiones, session, pm, disk, finished>>)
  <2> DEFINE n == NewChatText(s)
  <2> DEFINE files == [disk EXCEPT ![f] = NoFile]
  <2> DEFINE pms == BroadcastPacket(pm, ChatPacket(s))
  <2>1. /\ ~OpenSomewhere(f)
        /\ session' = [session EXCEPT ![s] = n]
        /\ disk' = files
        /\ pm' = BroadcastFileList(pms, files)
        /\ finished' = finished \ {f}
        /\ UNCHANGED <<alive, sessiones>>
    BY <1>5 DEF FileDeleteRequest
  <2>2. n \in SessionState /\ SameHolds(n, session[s])
    BY <1>1, NewChatTextType
  <2> HIDE DEF n
  <2>3. \A t \in Session : SameHolds(session'[t], session[t])
    BY <1>1, <2>1, <2>2, OneSession DEF SameHolds
  <2>4. Managers(pms) /\ \A t \in Session : SameReads(pms[t], pm[t]) /\ (t \notin sessiones => pms[t] = pm[t])
    BY <1>1, PacketsAreSent, QueueToEffect DEF BroadcastPacket
  <2> HIDE DEF pms
  <2>5. Managers(pm') /\ \A t \in Session : SameReads(pm'[t], pms[t]) /\ (t \notin sessiones => pm'[t] = pms[t])
    BY <1>1, <2>1, <2>4, BroadcastFileListEffect
  <2>6. \A t \in Session : SameReads(pm'[t], pm[t]) /\ (t \notin sessiones => pm'[t] = pm[t])
    BY <2>4, <2>5 DEF SameReads
  <2>7. Files'
    BY <2>1, <2>3, RemoveFile
  <2>8. disk' \in [Path -> Nat \cup {NoFile}] /\ finished' \subseteq Path
    BY <1>1, <2>1 DEF TypeOK
  <2>9. n.socket = session[s].socket
    BY <2>2 DEF SameHolds
  <2>10. QED
    BY <1>1, <1>2, <2>1, <2>2, <2>5, <2>6, <2>7, <2>8, <2>9, FileStep
<1>6. QED
  BY <1>3, <1>4, <1>5

-----------------------------------------------------------------------------
(* Steps of one session: it is accepted, or an operation of it completes *)

LEMMA SessionStep ==
    ASSUME IInv, NEW s \in Session, NEW n \in SessionState, NEW m \in PmType, SendSide(m),
           session' = [session EXCEPT ![s] = n],
           pm' = [pm EXCEPT ![s] = m],
           waiting' = waiting \ {s},
           sessiones' \subseteq sessiones \cup {s}, sessiones \ {s} \subseteq sessiones',
           UNCHANGED <<alive, disk, client, inputs, finished>>,
           view' \in [Session -> SUBSET Path],
           owed' \in [Session -> Nat \cup {-1}],
           Narrows(n, session[s]),
           s \in sessiones' => n.socket = "open",
           n.socket = "closed" => ~m.recieveing,
           m.recieveing /\ m.reads > 0 => s \in sessiones',
           n.file.mode # "closed" => s \in sessiones'
    PROVE  IInv'
<1>1. TypeOK /\ Managers(pm) /\ Connections /\ Files
  BY DEF IInv
<1>2. /\ session' \in [Session -> SessionState]
      /\ session'[s] = n
      /\ \A t \in Session \ {s} : session'[t] = session[t]
  BY <1>1, OneSession
<1>3. /\ Managers(pm')
      /\ pm'[s] = m
      /\ \A t \in Session \ {s} : pm'[t] = pm[t]
  BY <1>1 DEF Managers
<1>4. TypeOK'
  BY <1>1, <1>2, <1>3, ManagersType DEF TypeOK
<1>5. Connections'
  <2>1. SUFFICES ASSUME NEW t \in Session
                 PROVE  /\ t \in waiting' => /\ t \notin sessiones'
                                             /\ session'[t] = NewSession
                                             /\ pm'[t] = PM!NewPacketManager
                                             /\ ~client'[t].uploading
                        /\ t \in sessiones' => session'[t].socket = "open"
                        /\ t \notin waiting' /\ session'[t].socket = "closed" => ~pm'[t].recieveing
                        /\ pm'[t].recieveing /\ pm'[t].reads > 0 => t \in sessiones'
                        /\ session'[t].file.mode # "closed" => t \in sessiones'
    BY DEF Connections, IsOpen
  <2>2. CASE t = s
    BY <1>2, <1>3, <2>2
  <2>3. CASE t # s
    <3>1. session'[t] = session[t] /\ pm'[t] = pm[t] /\ client'[t] = client[t]
      BY <1>2, <1>3, <2>3
    <3>2. (t \in waiting' <=> t \in waiting) /\ (t \in sessiones' <=> t \in sessiones)
      BY <2>3
    <3>3. QED
      BY <1>1, <3>1, <3>2 DEF Connections, IsOpen
  <2>4. QED
    BY <2>2, <2>3
<1>6. Files'
  <2>1. \A x \in Path : disk[x] # NoFile => disk'[x] # NoFile
    OBVIOUS
  <2>2. finished' \subseteq GetFileList(disk')
    BY <1>1 DEF Files, GetFileList
  <2>3. QED
    BY <1>1, <2>1, <2>2, FilesNarrowed
<1>7. QED
  BY <1>3, <1>4, <1>5, <1>6 DEF IInv, Managers

\* startReceive of a new packet manager.
LEMMA StartReceiveEffect ==
    /\ PM!StartReceive(PM!NewPacketManager, "open") \in PmType
    /\ SendSide(PM!StartReceive(PM!NewPacketManager, "open"))
    /\ PM!StartReceive(PM!NewPacketManager, "open").queue = <<>>
<1>1. PICK m : m = PM!NewPacketManager
  OBVIOUS
<1>2. m \in PmType /\ m.queue = <<>> /\ m.writes = <<>> /\ ~m.sending /\ m.reads + 1 = 1
  BY <1>1 DEF PM!NewPacketManager, PmType
<1> DEFINE n == [m EXCEPT !.recieveing = TRUE, !.reads = 1]
<1>3. PM!StartReceive(PM!NewPacketManager, "open") = n
  <2>1. PM!StartReceive(m, "open") = [m EXCEPT !.recieveing = TRUE, !.reads = m.reads + 1]
    BY DEF PM!StartReceive
  <2>2. m.reads + 1 = 1
    BY <1>2
  <2>3. PM!StartReceive(m, "open") = n
    BY <2>1, <2>2
  <2>4. QED
    BY <1>1, <2>3
<1>4. n \in PmType /\ n.queue = m.queue /\ n.writes = m.writes /\ n.sending = m.sending
  <2>1. m \in PmType /\ 1 \in 0..1
    BY <1>2
  <2>2. QED
    BY <2>1 DEF PmType
<1> HIDE DEF n
<1>5. QED
  BY <1>2, <1>3, <1>4 DEF SendSide

LEMMA AcceptInv ==
    ASSUME IInv, NEW s \in Session, Accept(s)
    PROVE  IInv'
<1>1. /\ TypeOK
      /\ pm \in [Session -> PmType]
      /\ pm[s] = PM!NewPacketManager
      /\ session[s] \in SessionState
      /\ session[s].file.mode = "closed"
  BY DEF IInv, TypeOK, Managers, Connections, Accept, NewSession, Closed
<1> DEFINE n == [session[s] EXCEPT !.socket = "open"]
<1> DEFINE m == PM!StartReceive(PM!NewPacketManager, "open")
<1>2. n \in SessionState /\ n.socket = "open" /\ n.file = session[s].file
  BY <1>1 DEF SessionState
<1>3. m \in PmType /\ SendSide(m)
  BY StartReceiveEffect
<1>4. /\ session' = [session EXCEPT ![s] = n]
      /\ pm' = [pm EXCEPT ![s] = m]
      /\ waiting' = waiting \ {s}
      /\ sessiones' = sessiones \cup {s}
      /\ UNCHANGED <<alive, disk, client, inputs, view, owed, finished>>
  BY <1>1 DEF Accept, OnConnect
<1>5. Narrows(n, session[s])
  BY <1>1, <1>2 DEF Narrows
<1>6. view' \in [Session -> SUBSET Path] /\ owed' \in [Session -> Nat \cup {-1}]
  BY <1>1, <1>4 DEF TypeOK
<1> HIDE DEF n, m
<1>7. /\ sessiones' \subseteq sessiones \cup {s}
      /\ sessiones \ {s} \subseteq sessiones'
      /\ s \in sessiones'
      /\ n.socket # "closed"
  BY <1>2, <1>4
<1>8. QED
  BY <1>2, <1>3, <1>4, <1>5, <1>6, <1>7, SessionStep

\* Session::onDisconnect of a session whose packet manager has become m.
LEMMA DisconnectStep ==
    ASSUME IInv, NEW s \in Session \ waiting, NEW n \in SessionState, NEW m \in PmType, SendSide(m),
           OnDisconnect(s, n),
           pm' = [pm EXCEPT ![s] = m],
           ~(m.recieveing /\ m.reads > 0),
           n.socket = "closed" => ~m.recieveing,
           UNCHANGED <<alive, waiting, disk, client, inputs, finished>>,
           view' \in [Session -> SUBSET Path],
           owed' \in [Session -> Nat \cup {-1}]
    PROVE  IInv'
<1> DEFINE k == [n EXCEPT !.file = Closed]
<1>1. k \in SessionState /\ k.file.mode = "closed" /\ k.socket = n.socket
  BY EndMembers, FileMember
<1>2. session' = [session EXCEPT ![s] = k] /\ sessiones' = sessiones \ {s}
  BY DEF OnDisconnect
<1> HIDE DEF k
<1>3. Narrows(k, session[s])
  BY <1>1 DEF Narrows
<1>4. waiting' = waiting \ {s} /\ s \notin sessiones'
  BY <1>2
<1>5. sessiones' \subseteq sessiones \cup {s} /\ sessiones \ {s} \subseteq sessiones'
  BY <1>2
<1>6. QED
  BY <1>1, <1>2, <1>3, <1>4, <1>5, SessionStep

\* A session with an operation pending was accepted.
LEMMA PendingIsAccepted ==
    ASSUME IInv, NEW s \in Session, pm[s].writes # <<>> \/ pm[s].reads > 0
    PROVE  /\ s \notin waiting
           /\ pm[s] \in PmType
           /\ SendSide(pm[s])
           /\ session[s] \in SessionState
           /\ session[s].socket = "closed" => ~pm[s].recieveing
<1>1. /\ PM!NewPacketManager.writes = <<>>
      /\ ~(PM!NewPacketManager.reads > 0)
  BY DEF PM!NewPacketManager
<1>2. QED
  BY <1>1 DEF IInv, TypeOK, Managers, Connections

\* A read is over: one less is pending.
LEMMA EndReceiveEffect ==
    ASSUME NEW m \in PmType, SendSide(m), m.reads > 0
    PROVE  /\ PM!EndReceive(m) \in PmType
           /\ SendSide(PM!EndReceive(m))
           /\ PM!EndReceive(m).queue = m.queue
           /\ PM!EndReceive(m).recieveing = m.recieveing
           /\ PM!EndReceive(m).reads = 0
<1>1. m.reads - 1 = 0 /\ 0 \in 0..1
  BY DEF PmType
<1> DEFINE n == [m EXCEPT !.reads = 0]
<1>2. PM!EndReceive(m) = n
  BY <1>1 DEF PM!EndReceive
<1>3. /\ n \in PmType
      /\ n.queue = m.queue
      /\ n.sending = m.sending
      /\ n.writes = m.writes
      /\ n.recieveing = m.recieveing
      /\ n.reads = 0
  BY <1>1 DEF PmType
<1> HIDE DEF n
<1>4. QED
  BY <1>2, <1>3 DEF SendSide, WritesFront

LEMMA WriteFailsInv ==
    ASSUME IInv, NEW s \in Session, WriteFails(s)
    PROVE  IInv'
<1>1. TypeOK /\ pm[s].writes # <<>>
  BY DEF IInv, WriteFails, Writing
<1>2. s \in Session \ waiting /\ pm[s] \in PmType /\ SendSide(pm[s]) /\ session[s] \in SessionState
  BY <1>1, PendingIsAccepted
<1> DEFINE m == PM!SendFailed(pm[s])
<1>3. m \in PmType /\ SendSide(m) /\ ~m.recieveing
  BY <1>1, <1>2, SendFailedEffect
<1>4. /\ pm' = [pm EXCEPT ![s] = m]
      /\ OnDisconnect(s, session[s])
      /\ UNCHANGED <<alive, waiting, disk, client, inputs, view, owed, finished>>
  BY DEF WriteFails
<1>5. view' \in [Session -> SUBSET Path] /\ owed' \in [Session -> Nat \cup {-1}]
  BY <1>1, <1>4 DEF TypeOK
<1> HIDE DEF m
<1>6. QED
  BY <1>2, <1>3, <1>4, <1>5, DisconnectStep

LEMMA ReadFailsInv ==
    ASSUME IInv, NEW s \in Session, ReadFails(s)
    PROVE  IInv'
<1>1. TypeOK /\ pm[s].reads > 0
  BY DEF IInv, ReadFails, Receiving
<1>2. /\ s \in Session \ waiting
      /\ pm[s] \in PmType
      /\ SendSide(pm[s])
      /\ session[s] \in SessionState
      /\ session[s].socket = "closed" => ~pm[s].recieveing
  BY <1>1, PendingIsAccepted
<1> DEFINE m == PM!EndReceive(pm[s])
<1>3. m \in PmType /\ SendSide(m) /\ m.reads = 0 /\ m.recieveing = pm[s].recieveing
  BY <1>1, <1>2, EndReceiveEffect
<1>4. /\ pm' = [pm EXCEPT ![s] = m]
      /\ OnDisconnect(s, session[s])
      /\ UNCHANGED <<alive, waiting, disk, client, inputs, view, owed, finished>>
  BY DEF ReadFails
<1>5. view' \in [Session -> SUBSET Path] /\ owed' \in [Session -> Nat \cup {-1}]
  BY <1>1, <1>4 DEF TypeOK
<1> HIDE DEF m
<1>6. ~(m.reads > 0)
  BY <1>3
<1>7. QED
  BY <1>2, <1>3, <1>4, <1>5, <1>6, DisconnectStep

LEMMA ReadStopsInv ==
    ASSUME IInv, NEW s \in Session, ReadStops(s)
    PROVE  IInv'
<1>1. TypeOK /\ pm[s].reads > 0
  BY DEF IInv, ReadStops
<1>2. /\ s \in Session \ waiting
      /\ pm[s] \in PmType
      /\ SendSide(pm[s])
      /\ session[s] \in SessionState
      /\ session[s].socket = "closed" => ~pm[s].recieveing
      /\ session = [session EXCEPT ![s] = session[s]]
  BY <1>1, PendingIsAccepted, OwnFile
<1> DEFINE m == PM!EndReceive(pm[s])
<1>3. m \in PmType /\ SendSide(m) /\ m.reads = 0 /\ m.recieveing = pm[s].recieveing
  BY <1>1, <1>2, EndReceiveEffect
<1>4. /\ pm' = [pm EXCEPT ![s] = m]
      /\ UNCHANGED <<alive, waiting, sessiones, session, disk, client, inputs, view, owed, finished>>
  BY DEF ReadStops
<1>5. view' \in [Session -> SUBSET Path] /\ owed' \in [Session -> Nat \cup {-1}]
  BY <1>1, <1>4 DEF TypeOK
<1> HIDE DEF m
<1>6. Narrows(session[s], session[s])
  BY <1>2 DEF Narrows
<1>7. /\ s \in sessiones' => session[s].socket = "open"
      /\ session[s].file.mode # "closed" => s \in sessiones'
  BY <1>4 DEF IInv, Connections, IsOpen
<1>8. /\ waiting' = waiting \ {s}
      /\ sessiones' \subseteq sessiones \cup {s}
      /\ sessiones \ {s} \subseteq sessiones'
      /\ session' = [session EXCEPT ![s] = session[s]]
      /\ ~(m.reads > 0)
  BY <1>2, <1>3, <1>4
<1>9. QED
  BY <1>2, <1>3, <1>4, <1>5, <1>6, <1>7, <1>8, SessionStep

\* What is queued behind the packet that was sent, while s is connected.
QueuedBehind(s, p) ==
    IF session[s].socket = "open" THEN Append(Tail(pm[s].queue), p) ELSE Tail(pm[s].queue)

\* The four things onPacketSend does: the session becomes n and its packet
\* manager, when doSend's handler is over, m.
TransferEnded(s, n, m) ==
    /\ Sent(s).type \in {"FileDataHeader", "FileDataChunk"} /\ Remaining(s) = 0
    /\ n.file = Closed /\ n.socket = session[s].socket
    /\ m.queue = QueuedBehind(s, EndPacket) /\ SameReads(m, pm[s])
    /\ sessiones' = sessiones

TransferContinued(s, n, m) ==
    /\ Sent(s).type \in {"FileDataHeader", "FileDataChunk"} /\ Remaining(s) # 0
    /\ n.file = ReadChunk(session[s].file) /\ n.socket = session[s].socket
    /\ n.fileEdit = session[s].fileEdit /\ n.filename = session[s].filename
    /\ m.queue = QueuedBehind(s, ChunkPacket) /\ SameReads(m, pm[s])
    /\ sessiones' = sessiones

KickEnded(s, n, m) ==
    /\ Sent(s).type = "MessageInfo" /\ session[s].disconnecting
    /\ n.file = Closed /\ n.socket = "closed"
    /\ m.queue = Tail(pm[s].queue) /\ ~m.recieveing
    /\ sessiones' = sessiones \ {s}

OtherSent(s, n, m) ==
    /\ Sent(s).type \in {"MessageChat", "MessageInfo", "FileUploadList", "FileDataEnd"}
    /\ n = session[s]
    /\ m.queue = Tail(pm[s].queue) /\ SameReads(m, pm[s])
    /\ sessiones' = sessiones

OneOfFour(s, n, m) ==
    \/ TransferEnded(s, n, m)
    \/ TransferContinued(s, n, m)
    \/ KickEnded(s, n, m)
    \/ OtherSent(s, n, m)

\* The members that no send handler changes.
SameStanding(n, k) ==
    /\ n.registered = k.registered
    /\ n.disconnecting = k.disconnecting
    /\ n.fileSize = k.fileSize

\* Reading moves the position or fails the stream, and keeps the rest.
LEMMA ReadChunkEffect ==
    ASSUME NEW file \in FileState
    PROVE  /\ ReadChunk(file) \in FileState
           /\ ReadChunk(file).path = file.path
           /\ ReadChunk(file).mode \in {file.mode, "bad"}
           /\ file.mode = "closed" => ReadChunk(file) = file
           /\ file.mode = "in" => ReadChunk(file).mode = "in" /\ ReadChunk(file).pos = file.pos + 1
<1>1. CASE file.mode = "in"
  BY <1>1 DEF FileState, ReadChunk
<1>2. CASE file.mode = "out"
  BY <1>2 DEF FileState, ReadChunk
<1>3. CASE file.mode \notin {"in", "out"}
  BY <1>3 DEF FileState, ReadChunk
<1>4. QED
  BY <1>1, <1>2, <1>3

\* The send handler queues p on its own packet manager.
LEMMA ContinueWithEffect ==
    ASSUME NEW m \in PmType, Handling(m), NEW o \in SocketState, NEW p \in SentPacket
    PROVE  /\ Continue(PM!QueuePacket(m, o, p), o) \in PmType
           /\ SendSide(Continue(PM!QueuePacket(m, o, p), o))
           /\ SameReads(Continue(PM!QueuePacket(m, o, p), o), m)
           /\ Continue(PM!QueuePacket(m, o, p), o).queue =
                IF o = "open" THEN Append(m.queue, p) ELSE m.queue
<1>1. CASE o = "closed"
  <2>1. PM!QueuePacket(m, o, p) = m
    BY <1>1 DEF PM!QueuePacket
  <2>2. QED
    BY <1>1, <2>1, ContinueEffect
<1>2. CASE o = "open"
  <2> DEFINE k == [m EXCEPT !.queue = Append(m.queue, p)]
  <2>1. PM!QueuePacket(m, o, p) = k
    BY <1>2 DEF PM!QueuePacket, PM!Enqueue, Handling
  <2>2. Append(m.queue, p) \in Seq(SentPacket)
    BY AppendFacts DEF PmType
  <2>3. /\ k \in PmType
        /\ k.queue = Append(m.queue, p)
        /\ k.sending = m.sending
        /\ k.writes = m.writes
        /\ SameReads(k, m)
    BY <2>2 DEF PmType, SameReads
  <2> HIDE DEF k
  <2>4. Handling(k)
    BY <2>3 DEF Handling
  <2>5. QED
    BY <1>2, <2>1, <2>3, <2>4, ContinueEffect DEF SameReads
<1>3. QED
  BY <1>1, <1>2 DEF SocketState

\* The members when a transfer ends or goes on, and when a kick ends.
LEMMA HandlerMembers ==
    ASSUME NEW k \in SessionState
    PROVE  /\ SameStanding([k EXCEPT !.file = Closed, !.filename = NoPath], k)
           /\ \A g \in FileState : SameStanding([k EXCEPT !.file = g], k)
           /\ [k EXCEPT !.socket = "closed"] \in SessionState
           /\ [k EXCEPT !.socket = "closed"].socket = "closed"
           /\ SameStanding([k EXCEPT !.socket = "closed"], k)
  BY DEF SessionState, SameStanding

LEMMA WriteSucceedsEffect ==
    ASSUME IInv, NEW s \in Session, WriteSucceeds(s)
    PROVE  \E n \in SessionState, m \in PmType :
             /\ SendSide(m)
             /\ session' = [session EXCEPT ![s] = n]
             /\ pm' = [pm EXCEPT ![s] = m]
             /\ SameStanding(n, session[s])
             /\ OneOfFour(s, n, m)
<1> DEFINE k == PM!PopSent(pm[s])
<1> DEFINE o == session[s].socket
<1>1. /\ TypeOK
      /\ pm[s] \in PmType
      /\ SendSide(pm[s])
      /\ pm[s].writes # <<>>
      /\ session[s] \in SessionState
      /\ session[s].file \in FileState
      /\ session = [session EXCEPT ![s] = session[s]]
  BY OwnFile DEF IInv, Managers, WriteSucceeds, Writing
<1>2. /\ k \in PmType
      /\ Handling(k)
      /\ k.queue = Tail(pm[s].queue)
      /\ SameReads(k, pm[s])
  BY <1>1, PopSentEffect
<1>3. OnPacketSend(s, Sent(s), k)
  BY DEF WriteSucceeds
<1>4. o \in SocketState
  BY <1>1 DEF SessionState, SocketState
<1> HIDE DEF k
<1>5. CASE Sent(s).type \in {"FileDataHeader", "FileDataChunk"} /\ TransferEnds(s, k)
  <2> DEFINE n == [session[s] EXCEPT !.file = Closed, !.filename = NoPath]
  <2> DEFINE m == Continue(PM!QueuePacket(k, o, EndPacket), o)
  <2>1. /\ n \in SessionState
        /\ n.file = Closed
        /\ n.socket = session[s].socket
        /\ SameStanding(n, session[s])
    BY <1>1, EndMembers, HandlerMembers
  <2>2. /\ m \in PmType
        /\ SendSide(m)
        /\ SameReads(m, pm[s])
        /\ m.queue = QueuedBehind(s, EndPacket)
    BY <1>2, <1>4, PacketsAreSent, ContinueWithEffect DEF SameReads, QueuedBehind
  <2>3. /\ session' = [session EXCEPT ![s] = n]
        /\ pm' = [pm EXCEPT ![s] = m]
        /\ sessiones' = sessiones
        /\ Remaining(s) = 0
    BY <1>5 DEF TransferEnds, ContinueWith
  <2> HIDE DEF n, m
  <2>4. TransferEnded(s, n, m)
    BY <1>5, <2>1, <2>2, <2>3 DEF TransferEnded
  <2>5. QED
    BY <2>1, <2>2, <2>3, <2>4 DEF OneOfFour
<1>6. CASE Sent(s).type \in {"FileDataHeader", "FileDataChunk"} /\ TransferContinues(s, k)
  <2> DEFINE g == ReadChunk(session[s].file)
  <2> DEFINE n == [session[s] EXCEPT !.file = g]
  <2> DEFINE m == Continue(PM!QueuePacket(k, o, ChunkPacket), o)
  <2>1. g \in FileState
    BY <1>1, ReadChunkEffect
  <2>2. /\ session' = [session EXCEPT ![s] = n]
        /\ pm' = [pm EXCEPT ![s] = m]
        /\ sessiones' = sessiones
        /\ Remaining(s) # 0
    BY <1>6 DEF TransferContinues, ContinueWith
  <2> HIDE DEF g
  <2>3. /\ n \in SessionState
        /\ n.file = g
        /\ n.socket = session[s].socket
        /\ n.fileEdit = session[s].fileEdit
        /\ n.filename = session[s].filename
        /\ SameStanding(n, session[s])
    BY <1>1, <2>1, FileMember, HandlerMembers
  <2>4. /\ m \in PmType
        /\ SendSide(m)
        /\ SameReads(m, pm[s])
        /\ m.queue = QueuedBehind(s, ChunkPacket)
    BY <1>2, <1>4, PacketsAreSent, ContinueWithEffect DEF SameReads, QueuedBehind
  <2> HIDE DEF n, m
  <2>5. TransferContinued(s, n, m)
    BY <1>6, <2>2, <2>3, <2>4 DEF TransferContinued, g
  <2>6. QED
    BY <2>2, <2>3, <2>4, <2>5 DEF OneOfFour
<1>7. CASE Sent(s).type = "MessageInfo" /\ session[s].disconnecting /\ KickEnds(s, k)
  <2> DEFINE c == [session[s] EXCEPT !.socket = "closed"]
  <2> DEFINE n == [c EXCEPT !.file = Closed]
  <2> DEFINE j == PM!StopReceive(k)
  <2> DEFINE m == Continue(j, "closed")
  <2>1. /\ session' = [session EXCEPT ![s] = n]
        /\ sessiones' = sessiones \ {s}
        /\ pm' = [pm EXCEPT ![s] = m]
    BY <1>7 DEF KickEnds, OnDisconnect
  <2>2. c \in SessionState /\ c.socket = "closed" /\ SameStanding(c, session[s])
    BY <1>1, HandlerMembers
  <2> HIDE DEF c
  <2>3. /\ n \in SessionState
        /\ n.file = Closed
        /\ n.socket = c.socket
        /\ SameStanding(n, c)
    BY <2>2, EndMembers, FileMember, HandlerMembers
  <2>4. j \in PmType /\ Handling(j) /\ j.queue = k.queue /\ ~j.recieveing
    BY <1>2 DEF PM!StopReceive, PmType, Handling
  <2> HIDE DEF j
  <2>5. m \in PmType /\ SendSide(m) /\ m.queue = j.queue /\ ~m.recieveing
    BY <2>4, ContinueEffect DEF SocketState, SameReads
  <2> HIDE DEF n, m
  <2>6. KickEnded(s, n, m)
    BY <1>2, <1>7, <2>1, <2>2, <2>3, <2>4, <2>5 DEF KickEnded
  <2>7. SameStanding(n, session[s])
    BY <2>2, <2>3 DEF SameStanding
  <2>8. QED
    BY <2>1, <2>3, <2>5, <2>6, <2>7 DEF OneOfFour
<1>8. CASE /\ Sent(s).type \in {"MessageChat", "MessageInfo", "FileUploadList", "FileDataEnd"}
           /\ pm' = [pm EXCEPT ![s] = Continue(k, o)]
           /\ UNCHANGED <<session, sessiones>>
  <2> DEFINE m == Continue(k, o)
  <2>1. /\ m \in PmType
        /\ SendSide(m)
        /\ SameReads(m, pm[s])
        /\ m.queue = Tail(pm[s].queue)
    BY <1>2, <1>4, ContinueEffect DEF SameReads
  <2>2. OtherSent(s, session[s], m) /\ SameStanding(session[s], session[s])
    BY <1>8, <2>1 DEF OtherSent, SameStanding
  <2> HIDE DEF m
  <2>3. pm' = [pm EXCEPT ![s] = m] /\ session' = [session EXCEPT ![s] = session[s]]
    BY <1>1, <1>8 DEF m
  <2>4. QED
    BY <1>1, <2>1, <2>2, <2>3 DEF OneOfFour
<1>9. QED
  BY <1>3, <1>5, <1>6, <1>7, <1>8 DEF OnPacketSend

\* The packet that is written is the front of the queue, and of its type.
LEMMA SentIsFront ==
    ASSUME IInv, NEW s \in Session, Writing(s)
    PROVE  /\ s \notin waiting
           /\ pm[s].queue \in Seq(SentPacket)
           /\ pm[s].queue # <<>>
           /\ Sent(s) = Head(pm[s].queue)
           /\ Sent(s) \in SentPacket
<1>1. s \notin waiting /\ pm[s] \in PmType /\ SendSide(pm[s])
  BY PendingIsAccepted DEF Writing
<1>2. QED
  BY <1>1, PopSentEffect DEF Sent, Writing, PmType

LEMMA WriteSucceedsInv ==
    ASSUME IInv, NEW s \in Session, WriteSucceeds(s)
    PROVE  IInv'
<1>1. /\ TypeOK
      /\ Writing(s)
      /\ UNCHANGED <<alive, waiting, disk, client, inputs, finished>>
      /\ view' = IF Sent(s).type = "FileUploadList" THEN [view EXCEPT ![s] = Sent(s).body] ELSE view
      /\ owed' = [owed EXCEPT ![s] = OwedAfter(s)]
  BY DEF IInv, WriteSucceeds
<1>2. s \notin waiting /\ Sent(s) \in SentPacket
  BY <1>1, SentIsFront
<1>3. view' \in [Session -> SUBSET Path]
  BY <1>1, <1>2 DEF SentPacket, TypeOK
<1>4. owed' \in [Session -> Nat \cup {-1}]
  <2>1. session[s].fileSize \in Nat \cup {-1} /\ owed[s] \in Nat \cup {-1}
    BY <1>1 DEF TypeOK, SessionState
  <2>2. OwedAfter(s) \in Nat \cup {-1}
    BY <2>1 DEF OwedAfter
  <2>3. QED
    BY <1>1, <2>2 DEF TypeOK
<1>5. PICK n \in SessionState, m \in PmType :
        /\ SendSide(m)
        /\ session' = [session EXCEPT ![s] = n]
        /\ pm' = [pm EXCEPT ![s] = m]
        /\ SameStanding(n, session[s])
        /\ OneOfFour(s, n, m)
  BY WriteSucceedsEffect
<1>6. /\ session[s] \in SessionState
      /\ session[s].file \in FileState
      /\ Closed.mode = "closed"
  BY <1>1, OwnFile, EndMembers
<1>7. /\ s \in sessiones => session[s].socket = "open"
      /\ session[s].socket = "closed" => ~pm[s].recieveing
      /\ pm[s].recieveing /\ pm[s].reads > 0 => s \in sessiones
      /\ session[s].file.mode # "closed" => s \in sessiones
  BY <1>2 DEF IInv, Connections, IsOpen
<1>8. /\ Narrows(n, session[s])
      /\ sessiones' \in {sessiones, sessiones \ {s}}
      /\ s \in sessiones' => n.socket = "open"
      /\ n.socket = "closed" => ~m.recieveing
      /\ m.recieveing /\ m.reads > 0 => s \in sessiones'
      /\ n.file.mode # "closed" => s \in sessiones'
  <2>1. CASE TransferEnded(s, n, m)
    BY <1>6, <1>7, <2>1 DEF TransferEnded, Narrows, SameReads
  <2>2. CASE TransferContinued(s, n, m)
    <3>1. /\ n.file.path = session[s].file.path
          /\ n.file.mode \in {session[s].file.mode, "bad"}
          /\ session[s].file.mode = "closed" => n.file.mode = "closed"
      BY <1>6, <2>2, ReadChunkEffect DEF TransferContinued
    <3>2. QED
      BY <1>7, <2>2, <3>1 DEF TransferContinued, Narrows, SameReads
  <2>3. CASE KickEnded(s, n, m)
    BY <1>6, <2>3 DEF KickEnded, Narrows
  <2>4. CASE OtherSent(s, n, m)
    BY <1>7, <2>4 DEF OtherSent, Narrows, SameReads
  <2>5. QED
    BY <1>5, <2>1, <2>2, <2>3, <2>4 DEF OneOfFour
<1>9. /\ waiting' = waiting \ {s}
      /\ sessiones' \subseteq sessiones \cup {s}
      /\ sessiones \ {s} \subseteq sessiones'
  BY <1>1, <1>2, <1>8
<1>10. QED
  BY <1>1, <1>3, <1>4, <1>5, <1>8, <1>9, SessionStep

-----------------------------------------------------------------------------
(* The invariant and the theorems *)

LEMMA StutterInv ==
    ASSUME IInv, UNCHANGED vars
    PROVE  IInv'
<1>1. TypeOK' /\ Managers(pm)'
  BY DEF IInv, TypeOK, Managers, vars
<1>2. Connections'
  BY DEF IInv, Connections, IsOpen, vars
<1>3. SameFiles
  BY DEF SameFiles, vars
<1>4. QED
  BY <1>1, <1>2, <1>3, FilesKept DEF IInv

\* Every step keeps the invariant.
LEMMA NextInv == IInv /\ [Next]_vars => IInv'
<1> SUFFICES ASSUME IInv, [Next]_vars PROVE IInv'
  OBVIOUS
<1>1. CASE UNCHANGED vars
  BY <1>1, StutterInv
<1>2. ASSUME NEW s \in Session,
             \/ Accept(s)
             \/ UserInfo(s)
             \/ RejectUnregistered(s)
             \/ Unexpected(s)
             \/ MessageChat(s)
             \/ FileDataChunk(s)
             \/ FileDataEnd(s)
             \/ UpdateWriteRate(s)
             \/ WriteSucceeds(s)
             \/ WriteFails(s)
             \/ ReadFails(s)
             \/ ReadStops(s)
      PROVE  IInv'
  BY <1>2, AcceptInv, UserInfoInv, RejectInv, MessageChatInv, FileDataChunkInv, FileDataEndInv,
     UpdateWriteRateInv, WriteSucceedsInv, WriteFailsInv, ReadFailsInv, ReadStopsInv
<1>3. ASSUME NEW s \in Session, NEW f \in Path,
             FileDataHeader(s, f) \/ FileDownloadRequest(s, f) \/ FileDeleteRequest(s, f)
      PROVE  IInv'
  BY <1>3, FileDataHeaderInv, FileDownloadRequestInv, FileDeleteRequestInv
<1>4. QED
  BY <1>1, <1>2, <1>3 DEF Next

\* The invariant holds in every state.
LEMMA Invariance == Spec => []IInv
<1>1. QED
  BY InitInv, NextInv, PTL DEF Spec

\* The types, and with them: a session has at most one read pending, whatever
\* order packets, failures and kicks come in.
THEOREM TypesHold == Spec => []TypeOK
<1>1. IInv => TypeOK
  BY DEF IInv
<1>2. QED
  BY <1>1, Invariance, PTL

\* After a kick (session_send.cpp): a closed connection is off the list and
\* hears nothing more, although packets of it may still be on their way.
THEOREM ClosedSessionsAreGone == Spec => []ClosedIsGone
<1>1. IInv => ClosedIsGone
  BY DEF IInv, Connections, ClosedIsGone
<1>2. QED
  BY <1>1, Invariance, PTL

\* onDisconnect: who leaves the list closes its file, whichever of the read,
\* the write and the kick ends the session, and in which order.
THEOREM FilesAreReleased == Spec => []FilesReleased
<1>1. IInv => FilesReleased
  BY DEF IInv, Connections, FilesReleased
<1>2. QED
  BY <1>1, Invariance, PTL

\* newFilePath and isFileOpened: two uploads never write to the same file, and
\* none to a file that was deleted under it, for any number of sessions.
THEOREM WritersAreExclusive == Spec => []WriterExclusive
<1>1. IInv => WriterExclusive
  BY DEF IInv, Files
<1>2. QED
  BY <1>1, Invariance, PTL

\* isFileEdited: an upload that is stored under the name it was announced
\* with is read by nobody.
THEOREM OwnNamesAreProtected == Spec => []OwnNameProtected
<1>1. IInv => OwnNameProtected
  BY DEF IInv, Files
<1>2. QED
  BY <1>1, Invariance, PTL

-----------------------------------------------------------------------------
(* What a client knows of the directory: lists in a queue.  This part and    *)
(* the next one are about the order of the packets in a session's queue, so  *)
(* they begin with lemmas about sequences of packets alone.                  *)

IsList(p) == p.type = "FileUploadList"

\* The last list of a queue.
IsLastList(q, k) == IsList(q[k]) /\ \A j \in (k + 1)..Len(q) : ~IsList(q[j])

\* A list is right: it has the files whose upload ended, and no other than
\* those of the directory.
IsRight(list, ended, files) == ended \subseteq list /\ list \subseteq files

\* The last list of the queue is right, or the one the client has when there
\* is none in the queue.
Fresh(q, seen, ended, files) ==
    /\ (\A i \in 1..Len(q) : ~IsList(q[i])) => IsRight(seen, ended, files)
    /\ \A k \in 1..Len(q) : IsLastList(q, k) => IsRight(q[k].body, ended, files)

\* Appending, element by element.
LEMMA Appended ==
    ASSUME NEW q \in Seq(SentPacket), NEW p \in SentPacket
    PROVE  /\ Append(q, p) \in Seq(SentPacket)
           /\ Len(q) \in Nat
           /\ Len(Append(q, p)) = Len(q) + 1
           /\ \A i \in 1..Len(q) : Append(q, p)[i] = q[i]
           /\ Append(q, p)[Len(q) + 1] = p
  BY AppendProperties, LenProperties

\* The front and the rest, element by element.
LEMMA Popped ==
    ASSUME NEW q \in Seq(SentPacket), q # <<>>
    PROVE  /\ Tail(q) \in Seq(SentPacket)
           /\ Len(q) \in Nat \ {0}
           /\ Len(Tail(q)) = Len(q) - 1
           /\ \A i \in 1..Len(Tail(q)) : Tail(q)[i] = q[i + 1]
           /\ Head(q) = q[1]
  BY HeadTailProperties, LenProperties, EmptySeq

\* Another packet behind the last list.
LEMMA FreshAfterPacket ==
    ASSUME NEW q \in Seq(SentPacket), NEW p \in SentPacket, ~IsList(p),
           NEW seen, NEW ended, NEW files, Fresh(q, seen, ended, files)
    PROVE  Fresh(Append(q, p), seen, ended, files)
<1> DEFINE r == Append(q, p)
<1>1. /\ Len(q) \in Nat
      /\ Len(r) = Len(q) + 1
      /\ \A i \in 1..Len(q) : r[i] = q[i]
      /\ r[Len(q) + 1] = p
  BY Appended
<1> HIDE DEF r
<1>2. ASSUME \A i \in 1..Len(r) : ~IsList(r[i])
      PROVE  IsRight(seen, ended, files)
  <2>1. \A i \in 1..Len(q) : ~IsList(q[i])
    BY <1>1, <1>2
  <2>2. QED
    BY <2>1 DEF Fresh
<1>3. ASSUME NEW k \in 1..Len(r), IsLastList(r, k)
      PROVE  IsRight(r[k].body, ended, files)
  <2>1. k # Len(q) + 1
    BY <1>1, <1>3 DEF IsLastList
  <2>2. k \in 1..Len(q) /\ r[k] = q[k]
    BY <1>1, <2>1
  <2>3. IsLastList(q, k)
    BY <1>1, <1>3, <2>2 DEF IsLastList
  <2>4. QED
    BY <2>2, <2>3 DEF Fresh
<1>4. QED
  BY <1>2, <1>3 DEF Fresh, r

\* A right list at the end, whatever is before it.
LEMMA FreshAfterList ==
    ASSUME NEW q \in Seq(SentPacket), NEW p \in SentPacket, IsList(p),
           NEW seen, NEW ended, NEW files, IsRight(p.body, ended, files)
    PROVE  Fresh(Append(q, p), seen, ended, files)
<1> DEFINE r == Append(q, p)
<1>1. /\ Len(q) \in Nat
      /\ Len(r) = Len(q) + 1
      /\ r[Len(q) + 1] = p
  BY Appended
<1> HIDE DEF r
<1>2. ~\A i \in 1..Len(r) : ~IsList(r[i])
  BY <1>1
<1>3. ASSUME NEW k \in 1..Len(r), IsLastList(r, k)
      PROVE  IsRight(r[k].body, ended, files)
  <2>1. k = Len(q) + 1
    BY <1>1, <1>3 DEF IsLastList
  <2>2. QED
    BY <1>1, <2>1
<1>4. QED
  BY <1>2, <1>3 DEF Fresh, r

\* The front is sent: a list becomes what the client has.
LEMMA FreshAfterSent ==
    ASSUME NEW q \in Seq(SentPacket), q # <<>>,
           NEW seen, NEW ended, NEW files, Fresh(q, seen, ended, files)
    PROVE  Fresh(Tail(q), IF IsList(Head(q)) THEN Head(q).body ELSE seen, ended, files)
<1> DEFINE r == Tail(q)
<1>1. /\ Len(q) \in Nat \ {0}
      /\ Len(r) = Len(q) - 1
      /\ \A i \in 1..Len(r) : r[i] = q[i + 1]
      /\ Head(q) = q[1]
  BY Popped
<1> HIDE DEF r
<1>2. \A i \in 2..Len(q) : i - 1 \in 1..Len(r) /\ r[i - 1] = q[i]
  <2>1. SUFFICES ASSUME NEW i \in 2..Len(q) PROVE i - 1 \in 1..Len(r) /\ r[i - 1] = q[i]
    OBVIOUS
  <2>2. i - 1 \in 1..Len(r) /\ (i - 1) + 1 = i
    BY <1>1
  <2>3. QED
    BY <1>1, <2>2
<1>3. ASSUME \A i \in 1..Len(r) : ~IsList(r[i])
      PROVE  IsRight(IF IsList(Head(q)) THEN Head(q).body ELSE seen, ended, files)
  <2>1. \A i \in 2..Len(q) : ~IsList(q[i])
    BY <1>2, <1>3
  <2>2. CASE IsList(Head(q))
    <3>1. 1 \in 1..Len(q) /\ 1 + 1 = 2
      BY <1>1
    <3>2. IsLastList(q, 1)
      BY <1>1, <2>1, <2>2, <3>1 DEF IsLastList
    <3>3. QED
      BY <1>1, <2>2, <3>1, <3>2 DEF Fresh
  <2>3. CASE ~IsList(Head(q))
    <3>1. \A i \in 1..Len(q) : i = 1 \/ i \in 2..Len(q)
      BY <1>1
    <3>2. \A i \in 1..Len(q) : ~IsList(q[i])
      BY <1>1, <2>1, <2>3, <3>1
    <3>3. QED
      BY <2>3, <3>2 DEF Fresh
  <2>4. QED
    BY <2>2, <2>3
<1>4. ASSUME NEW k \in 1..Len(r), IsLastList(r, k)
      PROVE  IsRight(r[k].body, ended, files)
  <2>1. k + 1 \in 1..Len(q) /\ r[k] = q[k + 1]
    BY <1>1
  <2>2. ASSUME NEW j \in (k + 2)..Len(q) PROVE ~IsList(q[j])
    <3>1. j \in 2..Len(q) /\ j - 1 \in (k + 1)..Len(r)
      BY <1>1
    <3>2. QED
      BY <1>2, <1>4, <3>1 DEF IsLastList
  <2>3. IsLastList(q, k + 1)
    <3>1. (k + 1) + 1 = k + 2
      BY <1>1
    <3>2. QED
      BY <1>4, <2>1, <2>2, <3>1 DEF IsLastList
  <2>4. QED
    BY <2>1, <2>3 DEF Fresh
<1>5. QED
  BY <1>3, <1>4 DEF Fresh, r

-----------------------------------------------------------------------------
(* What a client knows of the directory *)

FreshInv ==
    \A s \in sessiones :
        session[s].registered => Fresh(pm[s].queue, view[s], finished, GetFileList(disk))

\* A step that queues no list for c and takes no file away from it.
LEMMA FreshKept ==
    ASSUME IInv, NEW c \in Session, Fresh(pm[c].queue, view[c], finished, GetFileList(disk)),
           \/ pm'[c].queue = pm[c].queue
           \/ \E p \in SentPacket : ~IsList(p) /\ pm'[c].queue = Append(pm[c].queue, p),
           view'[c] = view[c],
           finished' \subseteq finished,
           GetFileList(disk) \subseteq GetFileList(disk')
    PROVE  Fresh(pm'[c].queue, view'[c], finished', GetFileList(disk'))
<1>1. pm[c].queue \in Seq(SentPacket)
  BY DEF IInv, Managers, PmType
<1>2. Fresh(pm[c].queue, view'[c], finished', GetFileList(disk'))
  BY DEF Fresh, IsRight
<1>3. QED
  BY <1>1, <1>2, FreshAfterPacket

\* Such a step, for every session.
LEMMA FreshQuiet ==
    ASSUME IInv, FreshInv,
           \A c \in sessiones' : session'[c].registered =>
               /\ c \in sessiones /\ session[c].registered
               /\ \/ pm'[c].queue = pm[c].queue
                  \/ \E p \in SentPacket : ~IsList(p) /\ pm'[c].queue = Append(pm[c].queue, p)
               /\ view'[c] = view[c],
           finished' \subseteq finished,
           GetFileList(disk) \subseteq GetFileList(disk')
    PROVE  FreshInv'
<1>1. SUFFICES ASSUME NEW c \in sessiones', session'[c].registered
               PROVE  Fresh(pm'[c].queue, view'[c], finished', GetFileList(disk'))
  BY DEF FreshInv
<1>2. c \in sessiones /\ c \in Session /\ Fresh(pm[c].queue, view[c], finished, GetFileList(disk))
  BY <1>1 DEF IInv, TypeOK, FreshInv
<1>3. QED
  BY <1>1, <1>2, FreshKept

\* Packets that are not lists.
LEMMA NoLists ==
    /\ ~IsList(InfoPacket) /\ ~IsList(ChunkPacket) /\ ~IsList(EndPacket)
    /\ \A s \in Session : ~IsList(ChatPacket(s)) /\ ~IsList(KickPacket(s))
    /\ \A f \in Path : ~IsList(HeaderPacket(f))
  BY DEF IsList, InfoPacket, ChunkPacket, EndPacket, ChatPacket, KickPacket, HeaderPacket

\* Queueing another packet for some sessions.
LEMMA QueuesNoList ==
    ASSUME IInv, NEW S, NEW p \in SentPacket, ~IsList(p), pm' = QueueTo(pm, S, p)
    PROVE  \A c \in Session : \/ pm'[c].queue = pm[c].queue
                              \/ \E e \in SentPacket : ~IsList(e) /\ pm'[c].queue = Append(pm[c].queue, e)
<1>1. \A c \in Session : pm'[c].queue = IF c \in S /\ session[c].socket = "open"
                                          THEN Append(pm[c].queue, p) ELSE pm[c].queue
  BY QueueToEffect DEF IInv
<1>2. QED
  BY <1>1

\* A kick.
LEMMA KickFresh ==
    ASSUME IInv, FreshInv, NEW s \in Session, Kick(s), view' = view
    PROVE  FreshInv'
<1>1. TypeOK /\ session[s] \in SessionState
  BY DEF IInv, TypeOK
<1>2. \A c \in Session : \/ pm'[c].queue = pm[c].queue
                         \/ \E e \in SentPacket : ~IsList(e) /\ pm'[c].queue = Append(pm[c].queue, e)
  BY PacketsAreSent, NoLists, QueuesNoList DEF Kick
<1>3. /\ [session[s] EXCEPT !.disconnecting = TRUE] \in SessionState
      /\ [session[s] EXCEPT !.disconnecting = TRUE].registered = session[s].registered
  BY <1>1 DEF SessionState
<1>4. \A c \in Session : session'[c].registered = session[c].registered
  BY <1>1, <1>3, OneSession DEF Kick
<1>5. sessiones \subseteq Session /\ UNCHANGED <<sessiones, disk, finished>>
  BY <1>1 DEF Kick, TypeOK
<1>6. QED
  BY <1>2, <1>4, <1>5, FreshQuiet

\* A packet for a session of S that is connected.
LEMMA QueuedFor ==
    ASSUME NEW pms, Managers(pms), NEW S, NEW p \in SentPacket, TypeOK,
           NEW c \in S, c \in Session, session[c].socket = "open"
    PROVE  QueueTo(pms, S, p)[c].queue = Append(pms[c].queue, p)
<1>1. pms[c] \in PmType /\ SendSide(pms[c])
  BY DEF Managers
<1>2. QueueTo(pms, S, p)[c] = PM!QueuePacket(pms[c], "open", p)
  BY DEF QueueTo
<1> DEFINE q == PM!QueuePacket(pms[c], "open", p).queue
<1>3. q = IF "open" = "open" THEN Append(pms[c].queue, p) ELSE pms[c].queue
  BY <1>1, QueuePacketEffect DEF SocketState
<1> HIDE DEF q
<1>4. q = Append(pms[c].queue, p)
  BY <1>3
<1>5. QED
  BY <1>2, <1>4 DEF q

\* A list to every session, of the directory as it is after the step.
LEMMA ListToAll ==
    ASSUME IInv, finished' \subseteq GetFileList(disk'), sessiones' = sessiones,
           NEW pms, Managers(pms), pm' = BroadcastFileList(pms, disk')
    PROVE  FreshInv'
<1>1. SUFFICES ASSUME NEW c \in sessiones
               PROVE  Fresh(pm'[c].queue, view'[c], finished', GetFileList(disk'))
  BY DEF FreshInv
<1> DEFINE p == ListPacket(GetFileList(disk'))
<1>2. TypeOK /\ c \in Session /\ session[c].socket = "open"
  BY DEF IInv, TypeOK, Connections
<1>3. p \in SentPacket
  BY PacketsAreSent, FileListType
<1>4. pm' = QueueTo(pms, sessiones, p)
  BY DEF BroadcastFileList, BroadcastPacket
<1>5. IsList(p) /\ p.body = GetFileList(disk')
  BY DEF ListPacket, IsList
<1> HIDE DEF p
<1>6. pm'[c].queue = Append(pms[c].queue, p) /\ pms[c].queue \in Seq(SentPacket)
  <2>1. pms[c].queue \in Seq(SentPacket)
    BY <1>2 DEF Managers, PmType
  <2>2. QueueTo(pms, sessiones, p)[c].queue = Append(pms[c].queue, p)
    BY <1>2, <1>3, QueuedFor
  <2>3. QED
    BY <1>4, <2>1, <2>2
<1>7. IsRight(p.body, finished', GetFileList(disk'))
  BY <1>5 DEF IsRight
<1>8. QED
  BY <1>3, <1>5, <1>6, <1>7, FreshAfterList

-----------------------------------------------------------------------------
(* The packets that are received *)

LEMMA UserInfoFresh ==
    ASSUME IInv, FreshInv, NEW s \in Session, UserInfo(s)
    PROVE  FreshInv'
<1>1. TypeOK /\ s \in sessiones /\ session[s].socket = "open" /\ view' = view
  BY ReceivingIsListed DEF IInv, UserInfo
<1>2. CASE Kick(s)
  BY <1>1, <1>2, KickFresh
<1>3. CASE /\ session' = [session EXCEPT ![s].registered = TRUE]
           /\ pm' = QueueTo(pm, {s}, ListPacket(GetFileList(disk)))
           /\ UNCHANGED <<alive, sessiones, disk, finished>>
  <2> DEFINE p == ListPacket(GetFileList(disk))
  <2>1. p \in SentPacket /\ IsList(p) /\ p.body = GetFileList(disk)
    BY PacketsAreSent, FileListType DEF ListPacket, IsList
  <2>2. pm' = QueueTo(pm, {s}, p)
    BY <1>3
  <2> HIDE DEF p
  <2>3. /\ pm'[s].queue = Append(pm[s].queue, p)
        /\ \A c \in Session \ {s} : pm'[c] = pm[c]
    <3>1. Managers(pm)
      BY DEF IInv
    <3>2. /\ QueueTo(pm, {s}, p)[s].queue = Append(pm[s].queue, p)
          /\ \A c \in Session \ {s} : QueueTo(pm, {s}, p)[c] = pm[c]
      BY <1>1, <2>1, <3>1, QueueToEffect, QueuedFor
    <3>3. QED
      BY <2>2, <3>2
  <2>4. \A c \in Session \ {s} : session'[c] = session[c]
    BY <1>3
  <2>5. SUFFICES ASSUME NEW c \in sessiones, session'[c].registered
                 PROVE  Fresh(pm'[c].queue, view'[c], finished', GetFileList(disk'))
    BY <1>3 DEF FreshInv
  <2>6. CASE c = s
    <3>1. IsRight(p.body, finished', GetFileList(disk'))
      BY <1>3, <2>1 DEF IInv, Files, IsRight
    <3>2. pm[s].queue \in Seq(SentPacket)
      BY DEF IInv, Managers, PmType
    <3>3. QED
      BY <2>1, <2>3, <2>6, <3>1, <3>2, FreshAfterList
  <2>7. CASE c # s
    <3>1. c \in Session /\ pm'[c] = pm[c] /\ session'[c] = session[c]
      BY <1>1, <2>3, <2>4, <2>7 DEF TypeOK
    <3>2. Fresh(pm[c].queue, view[c], finished, GetFileList(disk))
      BY <2>5, <3>1 DEF FreshInv
    <3>3. QED
      BY <1>1, <1>3, <3>1, <3>2
  <2>8. QED
    BY <2>6, <2>7
<1>4. QED
  BY <1>2, <1>3 DEF UserInfo

LEMMA RejectFresh ==
    ASSUME IInv, FreshInv, NEW s \in Session, RejectUnregistered(s) \/ Unexpected(s)
    PROVE  FreshInv'
<1>1. view' = view
  BY DEF RejectUnregistered, Rejects, Unexpected, ArrivesRegistered, Arrives
<1>2. QED
  BY <1>1, KickFresh DEF RejectUnregistered, Rejects, Unexpected

\* What a step leaves as it is of the lists and of who is registered.
SameClients ==
    /\ UNCHANGED <<sessiones, view>>
    /\ \A c \in Session : session'[c].registered = session[c].registered

\* The registered session stays registered with another chat text.
LEMMA NewChatTextStanding ==
    ASSUME TypeOK, NEW s \in Session
    PROVE  SameStanding(NewChatText(s), session[s])
<1>1. session[s] \in SessionState
  BY DEF TypeOK
<1>2. QED
  BY <1>1 DEF NewChatText, SessionState, SameStanding

\* An announcement to everyone.
LEMMA AnnounceFresh ==
    ASSUME IInv, FreshInv, NEW p \in SentPacket, ~IsList(p), pm' = BroadcastPacket(pm, p),
           SameClients, finished' = finished,
           GetFileList(disk) \subseteq GetFileList(disk')
    PROVE  FreshInv'
<1>1. \A c \in Session : \/ pm'[c].queue = pm[c].queue
                         \/ \E e \in SentPacket : ~IsList(e) /\ pm'[c].queue = Append(pm[c].queue, e)
  BY QueuesNoList DEF BroadcastPacket
<1>2. sessiones \subseteq Session
  BY DEF IInv, TypeOK
<1>3. QED
  BY <1>1, <1>2, FreshQuiet DEF SameClients

\* Nothing is queued.
LEMMA NothingQueuedFresh ==
    ASSUME IInv, FreshInv, pm' = pm, SameClients, finished' = finished,
           GetFileList(disk) \subseteq GetFileList(disk')
    PROVE  FreshInv'
<1>1. sessiones \subseteq Session
  BY DEF IInv, TypeOK
<1>2. QED
  BY <1>1, FreshQuiet DEF SameClients

\* One session's members change, but not whether it is registered.
LEMMA SameClientsOf ==
    ASSUME TypeOK, NEW s \in Session, NEW n \in SessionState, session' = [session EXCEPT ![s] = n],
           n.registered = session[s].registered, UNCHANGED <<sessiones, view>>
    PROVE  SameClients
  BY OneSession DEF SameClients

LEMMA RefuseRequestFresh ==
    ASSUME IInv, FreshInv, RefuseRequest, view' = view
    PROVE  FreshInv'
<1>1. SameClients
  BY DEF RefuseRequest, SameClients
<1>2. GetFileList(disk) \subseteq GetFileList(disk')
  BY DEF RefuseRequest
<1>3. QED
  BY <1>1, <1>2, PacketsAreSent, NoLists, AnnounceFresh DEF RefuseRequest

LEMMA MessageChatFresh ==
    ASSUME IInv, FreshInv, NEW s \in Session, MessageChat(s) \/ UpdateWriteRate(s)
    PROVE  FreshInv'
<1>1. TypeOK /\ UNCHANGED <<sessiones, disk, view, finished>>
  BY DEF IInv, MessageChat, UpdateWriteRate, ArrivesRegistered, Arrives
<1>2. CASE UNCHANGED <<session, pm>>
  BY <1>1, <1>2, NothingQueuedFresh DEF SameClients
<1>3. CASE /\ session' = [session EXCEPT ![s] = NewChatText(s)]
           /\ pm' = BroadcastPacket(pm, ChatPacket(s))
  <2>1. SameClients
    BY <1>1, <1>3, NewChatTextType, NewChatTextStanding, SameClientsOf DEF SameStanding
  <2>2. GetFileList(disk) \subseteq GetFileList(disk')
    BY <1>1
  <2>3. QED
    BY <1>1, <1>3, <2>1, <2>2, PacketsAreSent, NoLists, AnnounceFresh
<1>4. QED
  BY <1>2, <1>3 DEF MessageChat, UpdateWriteRate

\* The start of an upload leaves the standing of its session alone.
LEMMA StartUploadStanding ==
    ASSUME NEW m \in SessionState, NEW f \in Path, NEW g \in FileState
    PROVE  SameStanding(StartUpload(m, f, g), m)
  BY DEF SessionState, StartUpload, SameStanding

LEMMA FileDataHeaderFresh ==
    ASSUME IInv, FreshInv, NEW s \in Session, NEW f \in Path, FileDataHeader(s, f)
    PROVE  FreshInv'
<1>1. TypeOK /\ view' = view
  BY DEF IInv, FileDataHeader, ArrivesRegistered, Arrives
<1>2. CASE Kick(s)
  BY <1>1, <1>2, KickFresh
<1>3. CASE ~Kick(s)
  <2> DEFINE path == NewFilePath(f)
  <2> DEFINE g == [mode |-> "out", path |-> path, pos |-> 0]
  <2> DEFINE n == StartUpload(NewChatText(s), f, g)
  <2>1. /\ FreeCopies(f) # {}
        /\ session' = [session EXCEPT ![s] = n]
        /\ disk' = [disk EXCEPT ![path] = 0]
        /\ pm' = BroadcastPacket(pm, ChatPacket(s))
        /\ UNCHANGED <<sessiones, finished>>
    BY <1>3 DEF FileDataHeader, StartUpload
  <2>2. path \in Path
    BY <1>1, <2>1, NewFilePathIsFree
  <2>3. g \in FileState
    BY <2>2 DEF FileState
  <2>4. NewChatText(s) \in SessionState /\ SameStanding(NewChatText(s), session[s])
    BY <1>1, NewChatTextType, NewChatTextStanding
  <2> HIDE DEF path, g
  <2>5. n \in SessionState /\ SameStanding(n, NewChatText(s))
    BY <2>3, <2>4, StartUploadType, StartUploadStanding
  <2> HIDE DEF n
  <2>6. SameClients
    BY <1>1, <2>1, <2>4, <2>5, SameClientsOf DEF SameStanding
  <2>7. GetFileList(disk) \subseteq GetFileList(disk')
    BY <1>1, <2>1, <2>2 DEF TypeOK, GetFileList, NoFile
  <2>8. QED
    BY <2>1, <2>6, <2>7, PacketsAreSent, NoLists, AnnounceFresh
<1>4. QED
  BY <1>2, <1>3

\* Files grow, and none goes away.
LEMMA FileDataChunkFresh ==
    ASSUME IInv, FreshInv, NEW s \in Session, FileDataChunk(s)
    PROVE  FreshInv'
<1> DEFINE path == session[s].file.path
<1>1. TypeOK /\ UNCHANGED <<sessiones, view, pm, finished>>
  BY DEF IInv, FileDataChunk, ArrivesRegistered, Arrives
<1>2. \A c \in Session : session'[c].registered = session[c].registered
  <2>1. \A c \in Session : session[c] \in SessionState
    BY <1>1 DEF TypeOK
  <2>2. session \in [Session -> SessionState]
    BY <1>1 DEF TypeOK
  <2>3. CASE session' = [session EXCEPT ![s].file.pos = @ + 1]
    BY <2>1, <2>2, <2>3 DEF SessionState
  <2>4. CASE session' = [session EXCEPT ![s].file.mode = "bad"]
    BY <2>1, <2>2, <2>4 DEF SessionState
  <2>5. CASE session' = session
    BY <2>5
  <2>6. QED
    BY <2>3, <2>4, <2>5 DEF FileDataChunk
<1>3. disk' = disk \/ disk' = [disk EXCEPT ![path] = @ + 1]
  BY DEF FileDataChunk
<1>4. GetFileList(disk) \subseteq GetFileList(disk')
  <2>1. SUFFICES ASSUME NEW x \in Path, disk[x] # NoFile PROVE disk'[x] # NoFile
    BY DEF GetFileList
  <2>2. disk \in [Path -> Nat \cup {NoFile}] /\ disk[x] \in Nat
    BY <1>1, <2>1 DEF TypeOK
  <2>3. CASE disk' = [disk EXCEPT ![path] = @ + 1]
    BY <2>2, <2>3 DEF NoFile
  <2>4. QED
    BY <1>3, <2>1, <2>3
<1>5. QED
  BY <1>1, <1>2, <1>4, NothingQueuedFresh DEF SameClients

LEMMA FileDataEndFresh ==
    ASSUME IInv, IInv', FreshInv, NEW s \in Session, FileDataEnd(s)
    PROVE  FreshInv'
<1>1. Managers(pm) /\ finished' \subseteq GetFileList(disk')
  BY DEF IInv, Files
<1>2. pm' = BroadcastFileList(pm, disk') /\ sessiones' = sessiones
  BY DEF FileDataEnd
<1>3. QED
  BY <1>1, <1>2, ListToAll

LEMMA FileDownloadRequestFresh ==
    ASSUME IInv, FreshInv, NEW s \in Session, NEW f \in Path, FileDownloadRequest(s, f)
    PROVE  FreshInv'
<1>1. TypeOK /\ view' = view
  BY DEF IInv, FileDownloadRequest, ArrivesRegistered, Arrives
<1>2. CASE Kick(s)
  BY <1>1, <1>2, KickFresh
<1>3. CASE RefuseRequest
  BY <1>1, <1>3, RefuseRequestFresh
<1>4. CASE ~Kick(s) /\ ~RefuseRequest
  <2> DEFINE g == [mode |-> "in", path |-> f, pos |-> 0]
  <2> DEFINE n == StartDownload(session[s], f, disk[f], g)
  <2>1. /\ FileExists(f)
        /\ session' = [session EXCEPT ![s] = n]
        /\ pm' = QueueTo(pm, {s}, HeaderPacket(f))
        /\ UNCHANGED <<sessiones, disk, finished>>
    BY <1>4 DEF FileDownloadRequest, StartDownload
  <2>2. g \in FileState
    BY DEF FileState
  <2>3. session[s] \in SessionState /\ disk[f] \in Nat
    BY <1>1, <2>1 DEF TypeOK, FileExists
  <2> HIDE DEF g
  <2>4. n \in SessionState /\ n.registered = session[s].registered
    BY <2>2, <2>3, StartDownloadType
  <2> HIDE DEF n
  <2>5. SameClients
    BY <1>1, <2>1, <2>4, SameClientsOf
  <2>6. \A c \in Session : \/ pm'[c].queue = pm[c].queue
                           \/ \E e \in SentPacket : ~IsList(e) /\ pm'[c].queue = Append(pm[c].queue, e)
    BY <2>1, PacketsAreSent, NoLists, QueuesNoList
  <2>7. sessiones \subseteq Session /\ GetFileList(disk) \subseteq GetFileList(disk')
    BY <1>1, <2>1 DEF TypeOK
  <2>8. QED
    BY <2>1, <2>5, <2>6, <2>7, FreshQuiet DEF SameClients
<1>5. QED
  BY <1>2, <1>3, <1>4

\* A delete announces itself and then the list without the file.
LEMMA FileDeleteRequestFresh ==
    ASSUME IInv, IInv', FreshInv, NEW s \in Session, NEW f \in Path, FileDeleteRequest(s, f)
    PROVE  FreshInv'
<1>1. TypeOK /\ Managers(pm) /\ view' = view
  BY DEF IInv, FileDeleteRequest, ArrivesRegistered, Arrives
<1>2. CASE RefuseRequest
  BY <1>1, <1>2, RefuseRequestFresh
<1>3. CASE UNCHANGED <<sessiones, session, pm, disk, finished>>
  BY <1>1, <1>3, NothingQueuedFresh DEF SameClients
<1>4. CASE ~RefuseRequest /\ ~UNCHANGED <<sessiones, session, pm, disk, finished>>
  <2> DEFINE pms == BroadcastPacket(pm, ChatPacket(s))
  <2>1. pm' = BroadcastFileList(pms, disk') /\ sessiones' = sessiones
    BY <1>4 DEF FileDeleteRequest
  <2>2. Managers(pms)
    BY <1>1, PacketsAreSent, QueueToEffect DEF BroadcastPacket
  <2> HIDE DEF pms
  <2>3. finished' \subseteq GetFileList(disk')
    BY DEF IInv, Files
  <2>4. QED
    BY <2>1, <2>2, <2>3, ListToAll
<1>5. QED
  BY <1>2, <1>3, <1>4 DEF FileDeleteRequest

-----------------------------------------------------------------------------
(* Steps of one session *)

\* A session that joins is not registered yet.
LEMMA AcceptFresh ==
    ASSUME IInv, FreshInv, NEW s \in Session, Accept(s)
    PROVE  FreshInv'
<1>1. TypeOK /\ session[s] = NewSession /\ session[s] \in SessionState
  BY DEF IInv, TypeOK, Connections, Accept
<1>2. /\ session' = [session EXCEPT ![s].socket = "open"]
      /\ pm' = [pm EXCEPT ![s] = PM!StartReceive(@, "open")]
      /\ sessiones' = sessiones \cup {s}
      /\ UNCHANGED <<disk, view, finished>>
  BY DEF Accept, OnConnect
<1>3. ~[session[s] EXCEPT !.socket = "open"].registered
  BY <1>1 DEF NewSession
<1>4. session'[s] = [session[s] EXCEPT !.socket = "open"]
  BY <1>1, <1>2 DEF TypeOK
<1>5. \A c \in Session \ {s} : session'[c] = session[c] /\ pm'[c] = pm[c]
  BY <1>1, <1>2 DEF TypeOK
<1>6. \A c \in sessiones' : session'[c].registered =>
        c \in sessiones /\ session'[c] = session[c] /\ pm'[c] = pm[c] /\ view'[c] = view[c]
  BY <1>1, <1>2, <1>3, <1>4, <1>5 DEF TypeOK
<1>7. GetFileList(disk) \subseteq GetFileList(disk')
  BY <1>2
<1>8. QED
  BY <1>2, <1>6, <1>7, FreshQuiet

\* The session leaves the list, or only its reads change.
LEMMA LeavesFresh ==
    ASSUME IInv, FreshInv, NEW s \in Session, WriteFails(s) \/ ReadFails(s) \/ ReadStops(s)
    PROVE  FreshInv'
<1>1. TypeOK /\ UNCHANGED <<disk, view, finished>>
  BY DEF IInv, WriteFails, ReadFails, ReadStops
<1>2. GetFileList(disk) \subseteq GetFileList(disk')
  BY <1>1
<1>3. CASE WriteFails(s) \/ ReadFails(s)
  <2>1. /\ sessiones' = sessiones \ {s}
        /\ \A c \in Session \ {s} : session'[c] = session[c] /\ pm'[c] = pm[c]
    BY <1>1, <1>3 DEF WriteFails, ReadFails, OnDisconnect, TypeOK
  <2>2. \A c \in sessiones' : session'[c].registered =>
          /\ c \in sessiones /\ session[c].registered
          /\ pm'[c].queue = pm[c].queue /\ view'[c] = view[c]
    BY <1>1, <2>1 DEF TypeOK
  <2>3. QED
    BY <1>1, <1>2, <2>2, FreshQuiet
<1>4. CASE ReadStops(s)
  <2>1. pm[s].reads > 0 /\ pm' = [pm EXCEPT ![s] = PM!EndReceive(pm[s])] /\ UNCHANGED <<sessiones, session>>
    BY <1>4 DEF ReadStops
  <2>2. PM!EndReceive(pm[s]).queue = pm[s].queue
    BY <2>1, PendingIsAccepted, EndReceiveEffect
  <2>3. \A c \in Session : pm'[c].queue = pm[c].queue
    BY <1>1, <2>1, <2>2 DEF TypeOK
  <2>4. \A c \in sessiones' : session'[c].registered =>
          /\ c \in sessiones /\ session[c].registered
          /\ pm'[c].queue = pm[c].queue /\ view'[c] = view[c]
    BY <1>1, <2>1, <2>3 DEF TypeOK
  <2>5. QED
    BY <1>1, <1>2, <2>4, FreshQuiet
<1>5. QED
  BY <1>3, <1>4

\* A packet was written: a list is what the client has from then on.
LEMMA WriteSucceedsFresh ==
    ASSUME IInv, FreshInv, NEW s \in Session, WriteSucceeds(s)
    PROVE  FreshInv'
<1>1. /\ TypeOK
      /\ Writing(s)
      /\ UNCHANGED <<disk, finished>>
      /\ view' = IF IsList(Sent(s)) THEN [view EXCEPT ![s] = Sent(s).body] ELSE view
  BY DEF IInv, WriteSucceeds, IsList
<1>2. /\ pm[s].queue \in Seq(SentPacket)
      /\ pm[s].queue # <<>>
      /\ Sent(s) = Head(pm[s].queue)
  BY <1>1, SentIsFront
<1>3. PICK n \in SessionState, m \in PmType :
        /\ session' = [session EXCEPT ![s] = n]
        /\ pm' = [pm EXCEPT ![s] = m]
        /\ SameStanding(n, session[s])
        /\ OneOfFour(s, n, m)
  BY WriteSucceedsEffect
<1>4. /\ session'[s].registered = session[s].registered
      /\ pm'[s].queue = m.queue
      /\ view'[s] = IF IsList(Head(pm[s].queue)) THEN Head(pm[s].queue).body ELSE view[s]
      /\ \A c \in Session \ {s} : /\ session'[c] = session[c]
                                  /\ pm'[c] = pm[c]
                                  /\ view'[c] = view[c]
  BY <1>1, <1>2, <1>3 DEF TypeOK, SameStanding
<1>5. sessiones' \subseteq sessiones
  BY <1>3 DEF OneOfFour, TransferEnded, TransferContinued, KickEnded, OtherSent
<1>6. \/ m.queue = Tail(pm[s].queue)
      \/ \E p \in SentPacket : ~IsList(p) /\ m.queue = Append(Tail(pm[s].queue), p)
  <2>1. /\ ChunkPacket \in SentPacket /\ ~IsList(ChunkPacket)
        /\ EndPacket \in SentPacket /\ ~IsList(EndPacket)
    BY PacketsAreSent, NoLists
  <2>2. \/ m.queue = Tail(pm[s].queue)
        \/ m.queue = QueuedBehind(s, EndPacket)
        \/ m.queue = QueuedBehind(s, ChunkPacket)
    BY <1>3 DEF OneOfFour, TransferEnded, TransferContinued, KickEnded, OtherSent
  <2>3. QED
    BY <2>1, <2>2 DEF QueuedBehind
<1>7. SUFFICES ASSUME NEW c \in sessiones, session'[c].registered
               PROVE  Fresh(pm'[c].queue, view'[c], finished', GetFileList(disk'))
  BY <1>5 DEF FreshInv
<1>8. c \in Session
  BY <1>1 DEF TypeOK
<1>9. CASE c # s
  <2>1. pm'[c] = pm[c] /\ view'[c] = view[c] /\ session'[c] = session[c]
    BY <1>4, <1>8, <1>9
  <2>2. Fresh(pm[c].queue, view[c], finished, GetFileList(disk))
    BY <1>7, <2>1 DEF FreshInv
  <2>3. QED
    BY <1>1, <2>1, <2>2
<1>10. CASE c = s
  <2>1. Fresh(pm[s].queue, view[s], finished, GetFileList(disk))
    BY <1>4, <1>7, <1>10 DEF FreshInv
  <2>2. Fresh(Tail(pm[s].queue), view'[s], finished, GetFileList(disk))
    BY <1>2, <1>4, <2>1, FreshAfterSent
  <2>3. Tail(pm[s].queue) \in Seq(SentPacket)
    BY <1>2, Popped
  <2>4. Fresh(m.queue, view'[s], finished, GetFileList(disk))
    BY <1>6, <2>2, <2>3, FreshAfterPacket
  <2>5. QED
    BY <1>1, <1>4, <1>10, <2>4
<1>11. QED
  BY <1>9, <1>10

-----------------------------------------------------------------------------
(* The theorem *)

LEMMA FreshInit == Init => FreshInv
  BY DEF Init, FreshInv

LEMMA FreshNext == IInv /\ IInv' /\ FreshInv /\ [Next]_vars => FreshInv'
<1> SUFFICES ASSUME IInv, IInv', FreshInv, [Next]_vars PROVE FreshInv'
  OBVIOUS
<1>1. CASE UNCHANGED vars
  BY <1>1 DEF FreshInv, vars
<1>2. ASSUME NEW s \in Session,
             \/ Accept(s)
             \/ UserInfo(s)
             \/ RejectUnregistered(s)
             \/ Unexpected(s)
             \/ MessageChat(s)
             \/ FileDataChunk(s)
             \/ FileDataEnd(s)
             \/ UpdateWriteRate(s)
             \/ WriteSucceeds(s)
             \/ WriteFails(s)
             \/ ReadFails(s)
             \/ ReadStops(s)
      PROVE  FreshInv'
  BY <1>2, AcceptFresh, UserInfoFresh, RejectFresh, MessageChatFresh, FileDataChunkFresh,
     FileDataEndFresh, WriteSucceedsFresh, LeavesFresh
<1>3. ASSUME NEW s \in Session, NEW f \in Path,
             FileDataHeader(s, f) \/ FileDownloadRequest(s, f) \/ FileDeleteRequest(s, f)
      PROVE  FreshInv'
  BY <1>3, FileDataHeaderFresh, FileDownloadRequestFresh, FileDeleteRequestFresh
<1>4. QED
  BY <1>1, <1>2, <1>3 DEF Next

\* broadcastFileList and the list a greeting is answered with: a client that
\* has seen every list there is for it knows the files whose upload ended and
\* none that was deleted, whatever the order of uploads, deletes and greetings.
THEOREM FileListsAreFresh == Spec => []FileListFresh
<1>1. IInv /\ FreshInv => FileListFresh
  <2>1. SUFFICES ASSUME IInv, FreshInv, NEW s \in sessiones, session[s].registered, ~ListQueued(s)
                 PROVE  finished \subseteq view[s] /\ view[s] \subseteq GetFileList(disk)
    BY DEF FileListFresh
  <2>2. Fresh(pm[s].queue, view[s], finished, GetFileList(disk))
    BY <2>1 DEF FreshInv
  <2>3. \A i \in 1..Len(pm[s].queue) : ~IsList(pm[s].queue[i])
    BY <2>1 DEF ListQueued, IsList
  <2>4. QED
    BY <2>2, <2>3 DEF Fresh, IsRight
<1>2. Spec => []FreshInv
  BY FreshInit, FreshNext, Invariance, PTL DEF Spec
<1>3. QED
  BY <1>1, <1>2, Invariance, PTL

-----------------------------------------------------------------------------
(* What a client gets of a file: the queue of a transfer *)

\* The packets of a transfer that are answered with another when sent.
IsPart(p) == p.type \in {"FileDataHeader", "FileDataChunk"}

\* The packets that are no business of a transfer.
IsPlain(p) == ~IsPart(p) /\ p # EndPacket

NoPart(q) == \A i \in 1..Len(q) : ~IsPart(q[i])
AllPlain(q) == \A i \in 1..Len(q) : IsPlain(q[i])

\* An end is queued when nothing is owed, and before any part.
EndsAreDue(q, rest) ==
    \A i \in 1..Len(q) : q[i] = EndPacket => rest = 0 /\ \A j \in 1..(i - 1) : ~IsPart(q[j])

OnePart(q) == \A i, j \in 1..Len(q) : IsPart(q[i]) /\ IsPart(q[j]) => i = j

\* How far the file with the members m of session s is read when part p is
\* queued.  The session may have left the list S, and its file is closed then.
KeepsPace(p, s, S, m, rest) ==
    /\ m.fileSize \in Nat
    /\ \/ m.file.mode = "closed" /\ s \notin S
       \/ /\ m.file.mode = "in"
          /\ m.file.pos <= m.fileSize
          /\ p.type = "FileDataHeader" => m.file.pos = 0
          /\ p.type = "FileDataChunk" => rest = m.fileSize - m.file.pos + 1

Transfer(q, s, S, m, rest) ==
    /\ EndsAreDue(q, rest)
    /\ OnePart(q)
    /\ \A i \in 1..Len(q) : IsPart(q[i]) => KeepsPace(q[i], s, S, m, rest)

\* Without a part in the queue only the ends matter.
LEMMA TransferOfNoPart ==
    ASSUME NEW q \in Seq(SentPacket), NEW rest, NoPart(q), EndsAreDue(q, rest),
           NEW s, NEW S, NEW m
    PROVE  Transfer(q, s, S, m, rest)
  BY DEF Transfer, NoPart, OnePart

\* Without an end or a part nothing does.
LEMMA TransferOfPlain ==
    ASSUME NEW q \in Seq(SentPacket), AllPlain(q), NEW rest, NEW s, NEW S, NEW m
    PROVE  NoPart(q) /\ EndsAreDue(q, rest) /\ Transfer(q, s, S, m, rest)
<1>1. NoPart(q) /\ EndsAreDue(q, rest)
  BY DEF AllPlain, IsPlain, NoPart, EndsAreDue
<1>2. QED
  BY <1>1, TransferOfNoPart

\* A packet that is no business of the transfer.
LEMMA TransferAfterPlain ==
    ASSUME NEW q \in Seq(SentPacket), NEW p \in SentPacket, IsPlain(p),
           NEW s, NEW S, NEW m, NEW rest, Transfer(q, s, S, m, rest)
    PROVE  Transfer(Append(q, p), s, S, m, rest)
<1> DEFINE r == Append(q, p)
<1>1. /\ Len(q) \in Nat
      /\ Len(r) = Len(q) + 1
      /\ \A i \in 1..Len(q) : r[i] = q[i]
      /\ r[Len(q) + 1] = p
  BY Appended
<1> HIDE DEF r
<1>2. \A i \in 1..Len(r) : ~IsPlain(r[i]) => i \in 1..Len(q) /\ r[i] = q[i]
  BY <1>1
<1>3. EndsAreDue(r, rest)
  <2>1. SUFFICES ASSUME NEW i \in 1..Len(r), r[i] = EndPacket, NEW j \in 1..(i - 1)
                 PROVE  ~IsPart(r[j])
    <3>1. ASSUME NEW i \in 1..Len(r), r[i] = EndPacket PROVE rest = 0
      BY <1>2, <3>1 DEF IsPlain, Transfer, EndsAreDue
    <3>2. QED
      BY <2>1, <3>1 DEF EndsAreDue
  <2>2. i \in 1..Len(q) /\ q[i] = EndPacket
    BY <1>2, <2>1 DEF IsPlain
  <2>3. ~IsPart(q[j]) /\ r[j] = q[j]
    BY <1>1, <2>2 DEF Transfer, EndsAreDue
  <2>4. QED
    BY <2>3
<1>4. \A i \in 1..Len(r) : IsPart(r[i]) => i \in 1..Len(q) /\ r[i] = q[i]
  BY <1>2 DEF IsPlain
<1>5. QED
  BY <1>3, <1>4 DEF Transfer, OnePart, r

\* A part behind no other.
LEMMA TransferAfterPart ==
    ASSUME NEW q \in Seq(SentPacket), NEW p \in SentPacket, IsPart(p),
           NEW s, NEW S, NEW m, NEW rest,
           NoPart(q), EndsAreDue(q, rest), KeepsPace(p, s, S, m, rest)
    PROVE  Transfer(Append(q, p), s, S, m, rest)
<1> DEFINE r == Append(q, p)
<1>1. /\ Len(q) \in Nat
      /\ Len(r) = Len(q) + 1
      /\ \A i \in 1..Len(q) : r[i] = q[i]
      /\ r[Len(q) + 1] = p
  BY Appended
<1> HIDE DEF r
<1>2. p # EndPacket
  BY DEF IsPart, EndPacket
<1>3. \A i \in 1..Len(r) : IsPart(r[i]) => i = Len(q) + 1
  BY <1>1 DEF NoPart
<1>4. EndsAreDue(r, rest)
  <2>1. SUFFICES ASSUME NEW i \in 1..Len(r), r[i] = EndPacket
                 PROVE  rest = 0 /\ \A j \in 1..(i - 1) : ~IsPart(r[j])
    BY DEF EndsAreDue
  <2>2. i \in 1..Len(q) /\ q[i] = EndPacket
    BY <1>1, <1>2, <2>1
  <2>3. \A j \in 1..(i - 1) : j \in 1..Len(r) /\ j # Len(q) + 1
    BY <1>1, <2>2
  <2>4. QED
    BY <1>3, <2>2, <2>3 DEF EndsAreDue
<1>5. OnePart(r)
  BY <1>3 DEF OnePart
<1>6. QED
  BY <1>1, <1>3, <1>4, <1>5 DEF Transfer, r

\* The end behind packets that are no business of the transfer.
LEMMA TransferAfterEnd ==
    ASSUME NEW q \in Seq(SentPacket), AllPlain(q), NEW s, NEW S, NEW m
    PROVE  Transfer(Append(q, EndPacket), s, S, m, 0)
<1> DEFINE r == Append(q, EndPacket)
<1>1. /\ r \in Seq(SentPacket)
      /\ Len(q) \in Nat
      /\ Len(r) = Len(q) + 1
      /\ \A i \in 1..Len(q) : r[i] = q[i]
      /\ r[Len(q) + 1] = EndPacket
  BY Appended, PacketsAreSent
<1> HIDE DEF r
<1>2. ~IsPart(EndPacket)
  BY DEF IsPart, EndPacket
<1>3. NoPart(r)
  BY <1>1, <1>2 DEF NoPart, AllPlain, IsPlain
<1>4. EndsAreDue(r, 0)
  <2>1. SUFFICES ASSUME NEW i \in 1..Len(r), NEW j \in 1..(i - 1) PROVE ~IsPart(r[j])
    BY DEF EndsAreDue
  <2>2. j \in 1..Len(r)
    BY <1>1
  <2>3. QED
    BY <1>3, <2>2 DEF NoPart
<1>5. QED
  BY <1>1, <1>3, <1>4, TransferOfNoPart DEF r

\* A part is sent: what is behind it is no business of the transfer.
LEMMA TransferOfPartSent ==
    ASSUME NEW q \in Seq(SentPacket), q # <<>>, IsPart(Head(q)),
           NEW s, NEW S, NEW m, NEW rest, Transfer(q, s, S, m, rest)
    PROVE  AllPlain(Tail(q)) /\ KeepsPace(Head(q), s, S, m, rest)
<1> DEFINE r == Tail(q)
<1>1. /\ Len(q) \in Nat \ {0}
      /\ Len(r) = Len(q) - 1
      /\ \A i \in 1..Len(r) : r[i] = q[i + 1]
      /\ Head(q) = q[1]
  BY Popped
<1> HIDE DEF r
<1>2. 1 \in 1..Len(q) /\ IsPart(q[1])
  BY <1>1
<1>3. ASSUME NEW i \in 1..Len(r) PROVE IsPlain(r[i])
  <2>1. /\ i + 1 \in 1..Len(q)
        /\ i + 1 # 1
        /\ 1 \in 1..((i + 1) - 1)
    BY <1>1
  <2>2. ~IsPart(q[i + 1])
    BY <1>2, <2>1 DEF Transfer, OnePart
  <2>3. q[i + 1] # EndPacket
    BY <1>2, <2>1 DEF Transfer, EndsAreDue
  <2>4. QED
    BY <1>1, <2>2, <2>3 DEF IsPlain
<1>4. QED
  BY <1>1, <1>2, <1>3 DEF Transfer, AllPlain, r

\* Another packet is sent.
LEMMA TransferOfOtherSent ==
    ASSUME NEW q \in Seq(SentPacket), q # <<>>, ~IsPart(Head(q)),
           NEW s, NEW S, NEW m, NEW rest, Transfer(q, s, S, m, rest)
    PROVE  Transfer(Tail(q), s, S, m, rest)
<1> DEFINE r == Tail(q)
<1>1. /\ Len(q) \in Nat \ {0}
      /\ Len(r) = Len(q) - 1
      /\ \A i \in 1..Len(r) : r[i] = q[i + 1]
  BY Popped
<1> HIDE DEF r
<1>2. \A i \in 1..Len(r) : i + 1 \in 1..Len(q)
  BY <1>1
<1>3. OnePart(r)
  <2>1. SUFFICES ASSUME NEW i \in 1..Len(r), NEW j \in 1..Len(r), IsPart(r[i]), IsPart(r[j])
                 PROVE  i = j
    BY DEF OnePart
  <2>2. i + 1 = j + 1
    BY <1>1, <1>2, <2>1 DEF Transfer, OnePart
  <2>3. QED
    BY <1>1, <2>2
<1>4. EndsAreDue(r, rest)
  <2>1. SUFFICES ASSUME NEW i \in 1..Len(r), r[i] = EndPacket
                 PROVE  rest = 0 /\ \A j \in 1..(i - 1) : ~IsPart(r[j])
    BY DEF EndsAreDue
  <2>2. q[i + 1] = EndPacket
    BY <1>1, <2>1
  <2>3. rest = 0 /\ \A j \in 1..((i + 1) - 1) : ~IsPart(q[j])
    BY <1>2, <2>2 DEF Transfer, EndsAreDue
  <2>4. \A j \in 1..(i - 1) : j \in 1..Len(r) /\ j + 1 \in 1..((i + 1) - 1)
    BY <1>1
  <2>5. QED
    BY <1>1, <2>3, <2>4
<1>5. QED
  BY <1>1, <1>2, <1>3, <1>4 DEF Transfer, r

-----------------------------------------------------------------------------
(* What a client gets of a file: the invariant *)

\* A kicked session only gets as far as its message; any other has a queue
\* that keeps pace with the file it reads, and none when it writes one.
Whole(s) ==
    ~session[s].disconnecting =>
        /\ Transfer(pm[s].queue, s, sessiones, session[s], owed[s])
        /\ s \in sessiones /\ client[s].uploading => Uploads(s)

DownloadInv == \A s \in Session : Whole(s)

\* The members that a transfer is about.
SameTransfer(n, m) ==
    /\ n.file = m.file
    /\ n.fileSize = m.fileSize
    /\ n.disconnecting = m.disconnecting

\* Nothing happens to a transfer, packets that are no business of it are queued.
LEMMA TransferKept ==
    ASSUME NEW q \in Seq(SentPacket), NEW r, NEW s, NEW S, NEW m, NEW n, NEW T, NEW rest,
           Transfer(q, s, S, m, rest),
           r = q \/ \E p \in SentPacket : IsPlain(p) /\ r = Append(q, p),
           SameTransfer(n, m), s \in T <=> s \in S
    PROVE  Transfer(r, s, T, n, rest)
<1>1. Transfer(r, s, S, m, rest)
  BY TransferAfterPlain
<1>2. \A p : KeepsPace(p, s, S, m, rest) => KeepsPace(p, s, T, n, rest)
  BY DEF KeepsPace, SameTransfer
<1>3. QED
  BY <1>1, <1>2 DEF Transfer

LEMMA WholeKept ==
    ASSUME IInv, NEW c \in Session, Whole(c),
           \/ pm'[c].queue = pm[c].queue
           \/ \E p \in SentPacket : IsPlain(p) /\ pm'[c].queue = Append(pm[c].queue, p),
           SameTransfer(session'[c], session[c]),
           c \in sessiones' <=> c \in sessiones,
           owed'[c] = owed[c],
           client'[c].uploading = client[c].uploading
    PROVE  Whole(c)'
<1>1. pm[c].queue \in Seq(SentPacket)
  BY DEF IInv, Managers, PmType
<1>2. SUFFICES ASSUME ~session'[c].disconnecting
               PROVE  /\ Transfer(pm'[c].queue, c, sessiones', session'[c], owed'[c])
                      /\ c \in sessiones' /\ client'[c].uploading => session'[c].file.mode = "out"
  BY DEF Whole, Uploads
<1>3. ~session[c].disconnecting
  BY <1>2 DEF SameTransfer
<1>4. Transfer(pm'[c].queue, c, sessiones', session'[c], owed[c])
  BY <1>1, <1>3, TransferKept DEF Whole
<1>5. QED
  BY <1>3, <1>4 DEF Whole, Uploads, SameTransfer

\* Packets that are no business of a transfer.
LEMMA PlainPackets ==
    /\ IsPlain(InfoPacket)
    /\ \A s \in Session : IsPlain(ChatPacket(s)) /\ IsPlain(KickPacket(s))
    /\ \A files : IsPlain(ListPacket(files))
  BY DEF IsPlain, IsPart, InfoPacket, ChatPacket, KickPacket, ListPacket, EndPacket

\* Such a packet is queued for some sessions.
LEMMA QueuesPlain ==
    ASSUME TypeOK, NEW pms, Managers(pms), NEW S, NEW p \in SentPacket, IsPlain(p), NEW c \in Session
    PROVE  \/ QueueTo(pms, S, p)[c].queue = pms[c].queue
           \/ \E e \in SentPacket : IsPlain(e) /\ QueueTo(pms, S, p)[c].queue = Append(pms[c].queue, e)
<1>1. QueueTo(pms, S, p)[c].queue =
        IF c \in S /\ session[c].socket = "open" THEN Append(pms[c].queue, p) ELSE pms[c].queue
  BY QueueToEffect
<1>2. QED
  BY <1>1

\* The kicked session has no transfer to speak of any more.
LEMMA KickDownload ==
    ASSUME IInv, DownloadInv, NEW s \in Session, Kick(s), owed' = owed,
           \A c \in Session \ {s} : client'[c] = client[c]
    PROVE  DownloadInv'
<1>1. TypeOK /\ session[s] \in SessionState /\ Managers(pm)
  BY DEF IInv, TypeOK
<1>2. /\ [session[s] EXCEPT !.disconnecting = TRUE] \in SessionState
      /\ [session[s] EXCEPT !.disconnecting = TRUE].disconnecting
  BY <1>1 DEF SessionState
<1>3. session'[s].disconnecting /\ \A c \in Session \ {s} : session'[c] = session[c]
  BY <1>1, <1>2, OneSession DEF Kick
<1>4. \A c \in Session \ {s} : pm'[c] = pm[c]
  BY <1>1, PacketsAreSent, QueueToEffect DEF Kick
<1>5. SUFFICES ASSUME NEW c \in Session PROVE Whole(c)'
  BY DEF DownloadInv
<1>6. CASE c = s
  BY <1>3, <1>6 DEF Whole
<1>7. CASE c # s
  <2>1. session'[c] = session[c] /\ pm'[c] = pm[c] /\ client'[c] = client[c] /\ sessiones' = sessiones
    BY <1>3, <1>4, <1>7 DEF Kick
  <2>2. SameTransfer(session'[c], session[c]) /\ Whole(c)
    BY <2>1 DEF SameTransfer, DownloadInv
  <2>3. QED
    BY <2>1, <2>2, WholeKept
<1>8. QED
  BY <1>6, <1>7

\* A step that touches no transfer and no upload.
LEMMA DownloadQuiet ==
    ASSUME IInv, DownloadInv, UNCHANGED <<sessiones, owed>>,
           \A c \in Session : client'[c].uploading = client[c].uploading,
           \A c \in Session : SameTransfer(session'[c], session[c]),
           \A c \in Session : \/ pm'[c].queue = pm[c].queue
                              \/ \E p \in SentPacket : IsPlain(p) /\ pm'[c].queue = Append(pm[c].queue, p)
    PROVE  DownloadInv'
<1>1. SUFFICES ASSUME NEW c \in Session PROVE Whole(c)'
  BY DEF DownloadInv
<1>2. Whole(c)
  BY DEF DownloadInv
<1>3. QED
  BY <1>2, WholeKept

\* The members of one session change, none that a transfer is about.
LEMMA SameTransferOf ==
    ASSUME TypeOK, NEW s \in Session, NEW n \in SessionState, session' = [session EXCEPT ![s] = n],
           SameTransfer(n, session[s])
    PROVE  \A c \in Session : SameTransfer(session'[c], session[c])
<1>1. session'[s] = n /\ \A t \in Session \ {s} : session'[t] = session[t]
  BY OneSession
<1>2. \A t : SameTransfer(session[t], session[t])
  BY DEF SameTransfer
<1>3. QED
  BY <1>1, <1>2

\* Registering, and another chat text.
LEMMA OtherTransferMembers ==
    ASSUME NEW m \in SessionState
    PROVE  /\ SameTransfer([m EXCEPT !.registered = TRUE], m)
           /\ SameTransfer([m EXCEPT !.chatText = 1 - @], m)
  BY DEF SessionState, SameTransfer

LEMMA RefuseRequestDownload ==
    ASSUME IInv, DownloadInv, RefuseRequest, UNCHANGED <<client, owed>>
    PROVE  DownloadInv'
<1>1. TypeOK /\ Managers(pm) /\ UNCHANGED <<sessiones, session>>
  BY DEF IInv, RefuseRequest
<1>2. \A c \in Session : SameTransfer(session'[c], session[c])
  BY <1>1 DEF SameTransfer
<1>3. \A c \in Session : \/ pm'[c].queue = pm[c].queue
                         \/ \E p \in SentPacket : IsPlain(p) /\ pm'[c].queue = Append(pm[c].queue, p)
  BY <1>1, PacketsAreSent, PlainPackets, QueuesPlain DEF RefuseRequest, BroadcastPacket
<1>4. QED
  BY <1>1, <1>2, <1>3, DownloadQuiet

-----------------------------------------------------------------------------
(* The packets that are received *)

LEMMA UserInfoDownload ==
    ASSUME IInv, DownloadInv, NEW s \in Session, UserInfo(s)
    PROVE  DownloadInv'
<1>1. /\ TypeOK
      /\ Managers(pm)
      /\ client' = [client EXCEPT ![s].greeted = TRUE]
      /\ owed' = owed
  BY DEF IInv, UserInfo
<1>2. \A c \in Session : client'[c].uploading = client[c].uploading /\ (c # s => client'[c] = client[c])
  BY <1>1 DEF TypeOK
<1>3. CASE Kick(s)
  BY <1>1, <1>2, <1>3, KickDownload
<1>4. CASE /\ session' = [session EXCEPT ![s].registered = TRUE]
           /\ pm' = QueueTo(pm, {s}, ListPacket(GetFileList(disk)))
           /\ UNCHANGED <<alive, sessiones, disk, finished>>
  <2> DEFINE n == [session[s] EXCEPT !.registered = TRUE]
  <2>1. n \in SessionState /\ SameTransfer(n, session[s])
    BY <1>1, OtherMembers, OtherTransferMembers DEF TypeOK
  <2>2. session' = [session EXCEPT ![s] = n]
    BY <1>4
  <2> HIDE DEF n
  <2>3. \A c \in Session : SameTransfer(session'[c], session[c])
    BY <1>1, <2>1, <2>2, SameTransferOf
  <2>4. \A c \in Session : \/ pm'[c].queue = pm[c].queue
                           \/ \E p \in SentPacket : IsPlain(p) /\ pm'[c].queue = Append(pm[c].queue, p)
    <3> DEFINE p == ListPacket(GetFileList(disk))
    <3>1. p \in SentPacket /\ IsPlain(p)
      BY PacketsAreSent, FileListType, PlainPackets
    <3> DEFINE S == {s}
    <3>2. pm' = QueueTo(pm, S, p)
      BY <1>4
    <3> HIDE DEF p, S
    <3>3. QED
      BY <1>1, <3>1, <3>2, QueuesPlain
  <2>5. QED
    BY <1>1, <1>2, <1>4, <2>3, <2>4, DownloadQuiet
<1>5. QED
  BY <1>3, <1>4 DEF UserInfo

LEMMA RejectDownload ==
    ASSUME IInv, DownloadInv, NEW s \in Session, RejectUnregistered(s) \/ Unexpected(s)
    PROVE  DownloadInv'
<1>1. TypeOK /\ owed' = owed /\ Kick(s)
  BY DEF IInv, RejectUnregistered, Rejects, Unexpected, ArrivesRegistered, Arrives
<1>2. QED
  BY <1>1, RejectClient, KickDownload

LEMMA MessageChatDownload ==
    ASSUME IInv, DownloadInv, NEW s \in Session, MessageChat(s) \/ UpdateWriteRate(s)
    PROVE  DownloadInv'
<1>1. TypeOK /\ Managers(pm) /\ UNCHANGED <<sessiones, owed, client>>
  BY DEF IInv, MessageChat, UpdateWriteRate, ArrivesRegistered, Arrives
<1>2. CASE UNCHANGED <<session, pm>>
  BY <1>1, <1>2, DownloadQuiet DEF SameTransfer
<1>3. CASE /\ session' = [session EXCEPT ![s] = NewChatText(s)]
           /\ pm' = BroadcastPacket(pm, ChatPacket(s))
  <2>1. NewChatText(s) \in SessionState /\ SameTransfer(NewChatText(s), session[s])
    BY <1>1, OtherMembers, OtherTransferMembers DEF NewChatText, TypeOK
  <2>2. \A c \in Session : SameTransfer(session'[c], session[c])
    BY <1>1, <1>3, <2>1, SameTransferOf
  <2>3. \A c \in Session : \/ pm'[c].queue = pm[c].queue
                           \/ \E p \in SentPacket : IsPlain(p) /\ pm'[c].queue = Append(pm[c].queue, p)
    BY <1>1, <1>3, PacketsAreSent, PlainPackets, QueuesPlain DEF BroadcastPacket
  <2>4. QED
    BY <1>1, <2>2, <2>3, DownloadQuiet
<1>4. QED
  BY <1>2, <1>3 DEF MessageChat, UpdateWriteRate

\* A session of the list that does not read a file has no part queued.
LEMMA NoPartQueued ==
    ASSUME DownloadInv, NEW s \in Session, s \in sessiones,
           ~session[s].disconnecting, session[s].file.mode # "in"
    PROVE  NoPart(pm[s].queue) /\ EndsAreDue(pm[s].queue, owed[s])
  BY DEF DownloadInv, Whole, Transfer, KeepsPace, NoPart

\* An upload starts, goes on or ends in a session that does not read a file.
LEMMA UploadStep ==
    ASSUME IInv, DownloadInv, NEW s \in Session, s \in sessiones,
           UNCHANGED <<sessiones, owed>>,
           \A c \in Session \ {s} : session'[c] = session[c] /\ client'[c] = client[c],
           \A c \in Session : \/ pm'[c].queue = pm[c].queue
                              \/ \E p \in SentPacket : IsPlain(p) /\ pm'[c].queue = Append(pm[c].queue, p),
           session'[s].disconnecting = session[s].disconnecting,
           ~session[s].disconnecting => /\ session[s].file.mode # "in"
                                        /\ client'[s].uploading => session'[s].file.mode = "out"
    PROVE  DownloadInv'
<1>1. SUFFICES ASSUME NEW c \in Session PROVE Whole(c)'
  BY DEF DownloadInv
<1>2. CASE c # s
  <2>1. SameTransfer(session'[c], session[c])
    BY <1>2 DEF SameTransfer
  <2>2. client'[c].uploading = client[c].uploading
    BY <1>2
  <2>3. Whole(c)
    BY DEF DownloadInv
  <2>4. QED
    BY <2>1, <2>2, <2>3, WholeKept
<1>3. CASE c = s
  <2>1. SUFFICES ASSUME ~session[s].disconnecting
                 PROVE  Transfer(pm'[s].queue, s, sessiones, session'[s], owed[s])
    BY <1>3 DEF Whole, Uploads
  <2>2. pm[s].queue \in Seq(SentPacket)
    BY DEF IInv, Managers, PmType
  <2>3. NoPart(pm[s].queue) /\ EndsAreDue(pm[s].queue, owed[s])
    BY <2>1, NoPartQueued
  <2>4. Transfer(pm[s].queue, s, sessiones, session'[s], owed[s])
    BY <2>2, <2>3, TransferOfNoPart
  <2>5. QED
    BY <2>2, <2>4, TransferAfterPlain
<1>4. QED
  BY <1>2, <1>3

LEMMA FileDataHeaderDownload ==
    ASSUME IInv, DownloadInv, NEW s \in Session, NEW f \in Path, FileDataHeader(s, f)
    PROVE  DownloadInv'
<1>1. TypeOK /\ Managers(pm) /\ s \in sessiones /\ owed' = owed
  BY ReceivingIsListed DEF IInv, FileDataHeader, ArrivesRegistered, Arrives
<1>2. \A c \in Session \ {s} : client'[c] = client[c]
  BY <1>1, ClientUploadsType DEF FileDataHeader, HeaderSent
<1>3. CASE Kick(s)
  BY <1>1, <1>2, <1>3, KickDownload
<1>4. CASE ~Kick(s)
  <2> DEFINE path == NewFilePath(f)
  <2> DEFINE g == [mode |-> "out", path |-> path, pos |-> 0]
  <2> DEFINE n == StartUpload(NewChatText(s), f, g)
  <2>1. /\ ~IsOpen(s)
        /\ FreeCopies(f) # {}
        /\ session' = [session EXCEPT ![s] = n]
        /\ pm' = BroadcastPacket(pm, ChatPacket(s))
        /\ sessiones' = sessiones
    BY <1>4 DEF FileDataHeader, StartUpload
  <2>2. path \in Path
    BY <1>1, <2>1, NewFilePathIsFree
  <2>3. g \in FileState /\ g.mode = "out"
    BY <2>2 DEF FileState
  <2>4. NewChatText(s) \in SessionState /\ SameStanding(NewChatText(s), session[s])
    BY <1>1, NewChatTextType, NewChatTextStanding
  <2> HIDE DEF path, g
  <2>5. n \in SessionState /\ SameStanding(n, NewChatText(s)) /\ n.file = g
    BY <2>3, <2>4, StartUploadType, StartUploadStanding
  <2> HIDE DEF n
  <2>6. /\ session'[s] = n
        /\ \A c \in Session \ {s} : session'[c] = session[c]
    BY <1>1, <2>1, <2>5, OneSession
  <2>7. /\ session'[s].disconnecting = session[s].disconnecting
        /\ session'[s].file.mode = "out"
        /\ session[s].file.mode # "in"
    BY <2>1, <2>3, <2>4, <2>5, <2>6 DEF SameStanding, IsOpen
  <2>8. \A c \in Session : \/ pm'[c].queue = pm[c].queue
                           \/ \E p \in SentPacket : IsPlain(p) /\ pm'[c].queue = Append(pm[c].queue, p)
    BY <1>1, <2>1, PacketsAreSent, PlainPackets, QueuesPlain DEF BroadcastPacket
  <2>9. QED
    BY <1>1, <1>2, <2>1, <2>6, <2>7, <2>8, UploadStep
<1>5. QED
  BY <1>3, <1>4

\* The members when a chunk is written.
LEMMA ChunkMembers ==
    ASSUME NEW m \in SessionState
    PROVE  /\ [m EXCEPT !.file.pos = @ + 1].disconnecting = m.disconnecting
           /\ [m EXCEPT !.file.pos = @ + 1].file.mode = m.file.mode
           /\ [m EXCEPT !.file.mode = "bad"].disconnecting = m.disconnecting
  BY DEF SessionState, FileState

LEMMA FileDataChunkDownload ==
    ASSUME IInv, DownloadInv, NEW s \in Session, FileDataChunk(s)
    PROVE  DownloadInv'
<1>1. /\ TypeOK
      /\ s \in sessiones
      /\ client[s].uploading
      /\ UNCHANGED <<sessiones, owed, pm>>
  BY ReceivingIsListed DEF IInv, FileDataChunk, ChunkSent, ArrivesRegistered, Arrives
<1>2. \A c \in Session \ {s} : client'[c] = client[c]
  BY <1>1 DEF TypeOK, FileDataChunk, ChunkSent, ClientUploads
<1>3. ~session[s].disconnecting => session[s].file.mode = "out"
  BY <1>1 DEF DownloadInv, Whole, Uploads
<1>4. session[s] \in SessionState /\ \A c \in Session \ {s} : session'[c] = session[c]
  BY <1>1 DEF TypeOK, FileDataChunk
<1>5. /\ session'[s].disconnecting = session[s].disconnecting
      /\ session[s].file.mode = "out" => session'[s].file.mode = "out"
  <2>1. CASE session[s].file.mode = "out" /\ session' = [session EXCEPT ![s].file.pos = @ + 1]
    <3>1. session'[s] = [session[s] EXCEPT !.file.pos = @ + 1]
      BY <1>1, <2>1 DEF TypeOK
    <3>2. QED
      BY <1>4, <3>1, ChunkMembers
  <2>2. CASE session[s].file.mode = "in" /\ session' = [session EXCEPT ![s].file.mode = "bad"]
    <3>1. session'[s] = [session[s] EXCEPT !.file.mode = "bad"]
      BY <1>1, <2>2 DEF TypeOK
    <3>2. QED
      BY <1>4, <2>2, <3>1, ChunkMembers
  <2>3. CASE session' = session
    BY <2>3
  <2>4. QED
    BY <2>1, <2>2, <2>3 DEF FileDataChunk
<1>6. QED
  BY <1>1, <1>2, <1>3, <1>4, <1>5, UploadStep

\* Ending an upload leaves the standing of the session alone.
LEMMA EndUploadStanding ==
    ASSUME NEW m \in SessionState
    PROVE  [m EXCEPT !.file = Closed, !.fileEdit = FALSE, !.filename = NoPath].disconnecting
             = m.disconnecting
  BY DEF SessionState

LEMMA FileDataEndDownload ==
    ASSUME IInv, DownloadInv, NEW s \in Session, FileDataEnd(s)
    PROVE  DownloadInv'
<1>1. /\ TypeOK
      /\ Managers(pm)
      /\ s \in sessiones
      /\ client[s].uploading
      /\ UNCHANGED <<sessiones, owed>>
  BY ReceivingIsListed DEF IInv, FileDataEnd, EndSent, ArrivesRegistered, Arrives
<1>2. ~client'[s].uploading /\ \A c \in Session \ {s} : client'[c] = client[c]
  BY <1>1, ClientUploadsType DEF FileDataEnd, EndSent
<1> DEFINE n == [session[s] EXCEPT !.file = Closed, !.fileEdit = FALSE, !.filename = NoPath]
<1>3. n \in SessionState /\ n.disconnecting = session[s].disconnecting
  <2>1. session[s] \in SessionState
    BY <1>1 DEF TypeOK
  <2>2. QED
    BY <2>1, EndMembers, EndUploadStanding
<1>4. session' = [session EXCEPT ![s] = n]
  BY DEF FileDataEnd
<1> HIDE DEF n
<1>5. /\ session'[s].disconnecting = session[s].disconnecting
      /\ \A c \in Session \ {s} : session'[c] = session[c]
  BY <1>1, <1>3, <1>4, OneSession
<1>6. ~session[s].disconnecting => session[s].file.mode # "in"
  BY <1>1 DEF DownloadInv, Whole, Uploads
<1> DEFINE p == ListPacket(GetFileList(disk))
<1>7. p \in SentPacket /\ IsPlain(p)
  BY PacketsAreSent, FileListType, PlainPackets
<1>8. pm' = QueueTo(pm, sessiones, p)
  BY DEF FileDataEnd, BroadcastFileList, BroadcastPacket
<1> HIDE DEF p
<1>9. \A c \in Session : \/ pm'[c].queue = pm[c].queue
                         \/ \E e \in SentPacket : IsPlain(e) /\ pm'[c].queue = Append(pm[c].queue, e)
  BY <1>1, <1>7, <1>8, QueuesPlain
<1>10. QED
  BY <1>1, <1>2, <1>5, <1>6, <1>9, UploadStep

\* The header of a download, and the file it promises.
LEMMA StartDownloadPace ==
    ASSUME NEW m \in SessionState, NEW f \in Path, NEW size \in Nat,
           NEW s, NEW S, NEW rest
    PROVE  /\ IsPart(HeaderPacket(f))
           /\ KeepsPace(HeaderPacket(f), s, S,
                        StartDownload(m, f, size, [mode |-> "in", path |-> f, pos |-> 0]), rest)
<1> DEFINE g == [mode |-> "in", path |-> f, pos |-> 0]
<1> DEFINE n == StartDownload(m, f, size, g)
<1>1. g \in FileState /\ g.mode = "in" /\ g.pos = 0
  BY DEF FileState
<1> HIDE DEF g
<1>2. n.file = g /\ n.fileSize = size
  BY <1>1, StartDownloadType
<1> HIDE DEF n
<1>3. HeaderPacket(f).type = "FileDataHeader"
  BY DEF HeaderPacket
<1>4. IsPart(HeaderPacket(f)) /\ KeepsPace(HeaderPacket(f), s, S, n, rest)
  BY <1>1, <1>2, <1>3 DEF IsPart, KeepsPace
<1>5. QED
  BY <1>4 DEF n, g

LEMMA FileDownloadRequestDownload ==
    ASSUME IInv, DownloadInv, NEW s \in Session, NEW f \in Path, FileDownloadRequest(s, f)
    PROVE  DownloadInv'
<1>1. /\ TypeOK
      /\ Managers(pm)
      /\ s \in sessiones
      /\ session[s].socket = "open"
      /\ UNCHANGED <<client, owed>>
  BY ReceivingIsListed DEF IInv, FileDownloadRequest, ArrivesRegistered, Arrives
<1>2. CASE Kick(s)
  BY <1>1, <1>2, KickDownload
<1>3. CASE RefuseRequest
  BY <1>1, <1>3, RefuseRequestDownload
<1>4. CASE ~Kick(s) /\ ~RefuseRequest
  <2> DEFINE g == [mode |-> "in", path |-> f, pos |-> 0]
  <2> DEFINE n == StartDownload(session[s], f, disk[f], g)
  <2> DEFINE p == HeaderPacket(f)
  <2> DEFINE S == {s}
  <2>1. /\ ~IsOpen(s)
        /\ FileExists(f)
        /\ session' = [session EXCEPT ![s] = n]
        /\ pm' = QueueTo(pm, S, p)
        /\ sessiones' = sessiones
    BY <1>4 DEF FileDownloadRequest, StartDownload
  <2>2. /\ g \in FileState
        /\ session[s] \in SessionState
        /\ disk[f] \in Nat
        /\ p \in SentPacket
    BY <1>1, <2>1, PacketsAreSent DEF FileState, TypeOK, FileExists
  <2>3. IsPart(p) /\ KeepsPace(p, s, sessiones, n, owed[s])
    BY <2>2, StartDownloadPace
  <2> HIDE DEF g, p
  <2>4. n \in SessionState /\ n.disconnecting = session[s].disconnecting
    BY <2>2, StartDownloadType
  <2> HIDE DEF n
  <2>5. session'[s] = n /\ \A c \in Session \ {s} : session'[c] = session[c]
    BY <1>1, <2>1, <2>4, OneSession
  <2>6. s \in S /\ \A c \in Session \ {s} : c \notin S
    OBVIOUS
  <2> HIDE DEF S
  <2>7. /\ pm'[s].queue = Append(pm[s].queue, p)
        /\ \A c \in Session \ {s} : pm'[c] = pm[c]
    <3>1. QueueTo(pm, S, p)[s].queue = Append(pm[s].queue, p)
      BY <1>1, <2>2, <2>6, QueuedFor
    <3>2. \A c \in Session \ {s} : QueueTo(pm, S, p)[c] = pm[c]
      BY <1>1, <2>2, <2>6, QueueToEffect
    <3>3. QED
      BY <2>1, <3>1, <3>2
  <2>8. SUFFICES ASSUME NEW c \in Session PROVE Whole(c)'
    BY DEF DownloadInv
  <2>9. CASE c # s
    <3>1. SameTransfer(session'[c], session[c]) /\ Whole(c)
      BY <2>5, <2>9 DEF SameTransfer, DownloadInv
    <3>2. QED
      BY <1>1, <2>1, <2>7, <2>9, <3>1, WholeKept
  <2>10. CASE c = s
    <3>1. SUFFICES ASSUME ~session[s].disconnecting
                   PROVE  /\ Transfer(pm'[s].queue, s, sessiones, n, owed[s])
                          /\ ~client[s].uploading
      BY <1>1, <2>1, <2>4, <2>5, <2>10 DEF Whole
    <3>2. ~client[s].uploading /\ session[s].file.mode # "in"
      BY <1>1, <2>1, <3>1 DEF DownloadInv, Whole, Uploads, IsOpen
    <3>3. NoPart(pm[s].queue) /\ EndsAreDue(pm[s].queue, owed[s])
      BY <1>1, <3>1, <3>2, NoPartQueued
    <3>4. pm[s].queue \in Seq(SentPacket)
      BY <1>1 DEF Managers, PmType
    <3>5. QED
      BY <2>2, <2>3, <2>7, <3>2, <3>3, <3>4, TransferAfterPart
  <2>11. QED
    BY <2>9, <2>10
<1>5. QED
  BY <1>2, <1>3, <1>4

LEMMA FileDeleteRequestDownload ==
    ASSUME IInv, DownloadInv, NEW s \in Session, NEW f \in Path, FileDeleteRequest(s, f)
    PROVE  DownloadInv'
<1>1. /\ TypeOK
      /\ Managers(pm)
      /\ UNCHANGED <<client, owed>>
  BY DEF IInv, FileDeleteRequest, ArrivesRegistered, Arrives
<1>2. CASE RefuseRequest
  BY <1>1, <1>2, RefuseRequestDownload
<1>3. CASE UNCHANGED <<sessiones, session, pm, disk, finished>>
  BY <1>1, <1>3, DownloadQuiet DEF SameTransfer
<1>4. CASE ~RefuseRequest /\ ~UNCHANGED <<sessiones, session, pm, disk, finished>>
  <2> DEFINE pms == BroadcastPacket(pm, ChatPacket(s))
  <2> DEFINE p == ListPacket(GetFileList(disk'))
  <2>1. /\ pm' = QueueTo(pms, sessiones, p)
        /\ sessiones' = sessiones
        /\ session' = [session EXCEPT ![s] = NewChatText(s)]
    BY <1>4 DEF FileDeleteRequest, BroadcastFileList, BroadcastPacket
  <2>2. p \in SentPacket /\ IsPlain(p)
    BY PacketsAreSent, FileListType, PlainPackets
  <2>3. /\ Managers(pms)
        /\ \A c \in Session : \/ pms[c].queue = pm[c].queue
                              \/ \E e \in SentPacket : IsPlain(e) /\ pms[c].queue = Append(pm[c].queue, e)
    BY <1>1, PacketsAreSent, PlainPackets, QueueToEffect, QueuesPlain DEF BroadcastPacket
  <2> HIDE DEF p, pms
  <2>4. \A c \in Session : \/ pm'[c].queue = pms[c].queue
                           \/ \E e \in SentPacket : IsPlain(e) /\ pm'[c].queue = Append(pms[c].queue, e)
    BY <1>1, <2>1, <2>2, <2>3, QueuesPlain
  <2>5. NewChatText(s) \in SessionState /\ SameTransfer(NewChatText(s), session[s])
    BY <1>1, OtherMembers, OtherTransferMembers DEF NewChatText, TypeOK
  <2>6. \A c \in Session : SameTransfer(session'[c], session[c])
    BY <1>1, <2>1, <2>5, SameTransferOf
  <2>7. SUFFICES ASSUME NEW c \in Session, ~session'[c].disconnecting
                 PROVE  /\ Transfer(pm'[c].queue, c, sessiones, session'[c], owed[c])
                        /\ c \in sessiones /\ client[c].uploading => session'[c].file.mode = "out"
    BY <1>1, <2>1 DEF DownloadInv, Whole, Uploads
  <2>8. ~session[c].disconnecting /\ session'[c].file = session[c].file
    BY <2>6, <2>7 DEF SameTransfer
  <2>9. /\ Transfer(pm[c].queue, c, sessiones, session[c], owed[c])
        /\ c \in sessiones /\ client[c].uploading => session[c].file.mode = "out"
    BY <2>8 DEF DownloadInv, Whole, Uploads
  <2>10. pm[c].queue \in Seq(SentPacket) /\ pms[c].queue \in Seq(SentPacket)
    BY <1>1, <2>3 DEF Managers, PmType
  <2>11. Transfer(pms[c].queue, c, sessiones, session'[c], owed[c])
    BY <2>3, <2>6, <2>9, <2>10, TransferKept
  <2>12. Transfer(pm'[c].queue, c, sessiones, session'[c], owed[c])
    BY <2>4, <2>10, <2>11, TransferAfterPlain
  <2>13. QED
    BY <2>8, <2>9, <2>12
<1>5. QED
  BY <1>2, <1>3, <1>4 DEF FileDeleteRequest

-----------------------------------------------------------------------------
(* Steps of one session *)

\* The others go on as they were.
LEMMA OthersWhole ==
    ASSUME IInv, DownloadInv, NEW s \in Session, NEW c \in Session \ {s},
           session'[c] = session[c], pm'[c] = pm[c], client'[c] = client[c], owed'[c] = owed[c],
           c \in sessiones' <=> c \in sessiones
    PROVE  Whole(c)'
<1>1. SameTransfer(session'[c], session[c]) /\ Whole(c)
  BY DEF SameTransfer, DownloadInv
<1>2. QED
  BY <1>1, WholeKept

\* A session that joins has an empty queue.
LEMMA AcceptDownload ==
    ASSUME IInv, DownloadInv, NEW s \in Session, Accept(s)
    PROVE  DownloadInv'
<1>1. /\ TypeOK
      /\ pm \in [Session -> PmType]
      /\ pm[s] = PM!NewPacketManager
      /\ ~client[s].uploading
  BY DEF IInv, Managers, Connections, Accept
<1>2. /\ session' = [session EXCEPT ![s].socket = "open"]
      /\ pm' = [pm EXCEPT ![s] = PM!StartReceive(PM!NewPacketManager, "open")]
      /\ sessiones' = sessiones \cup {s}
      /\ UNCHANGED <<client, owed>>
  BY <1>1 DEF Accept, OnConnect
<1>3. pm'[s].queue = <<>>
  <2>1. pm'[s] = PM!StartReceive(PM!NewPacketManager, "open")
    BY <1>1, <1>2
  <2>2. QED
    BY <2>1, StartReceiveEffect
<1>4. SUFFICES ASSUME NEW c \in Session PROVE Whole(c)'
  BY DEF DownloadInv
<1>5. CASE c = s
  <2>1. <<>> \in Seq(SentPacket) /\ AllPlain(<<>>)
    BY DEF AllPlain
  <2>2. Transfer(<<>>, s, sessiones', session'[s], owed'[s])
    BY <2>1, TransferOfPlain
  <2>3. QED
    BY <1>1, <1>2, <1>3, <1>5, <2>2 DEF Whole
<1>6. CASE c # s
  <2>1. /\ session'[c] = session[c] /\ pm'[c] = pm[c]
        /\ client'[c] = client[c] /\ owed'[c] = owed[c]
        /\ c \in sessiones' <=> c \in sessiones
    BY <1>1, <1>2, <1>6 DEF TypeOK
  <2>2. QED
    BY <1>6, <2>1, OthersWhole
<1>7. QED
  BY <1>5, <1>6

\* A session that leaves the list closes its file and keeps its queue.
LEMMA LeavesDownload ==
    ASSUME IInv, DownloadInv, NEW s \in Session, WriteFails(s) \/ ReadFails(s) \/ ReadStops(s)
    PROVE  DownloadInv'
<1>1. /\ TypeOK
      /\ pm \in [Session -> PmType]
      /\ pm[s] \in PmType
      /\ SendSide(pm[s])
      /\ UNCHANGED <<client, owed>>
  BY DEF IInv, Managers, WriteFails, ReadFails, ReadStops
<1>2. PICK m : pm' = [pm EXCEPT ![s] = m] /\ m.queue = pm[s].queue
  <2>1. CASE WriteFails(s)
    BY <1>1, <2>1, SendFailedEffect DEF WriteFails, Writing
  <2>2. CASE ReadFails(s) \/ ReadStops(s)
    BY <1>1, <2>2, EndReceiveEffect DEF ReadFails, ReadStops, Receiving
  <2>3. QED
    BY <2>1, <2>2
<1>3. pm'[s].queue = pm[s].queue /\ \A c \in Session \ {s} : pm'[c] = pm[c]
  BY <1>1, <1>2
<1>4. CASE ReadStops(s)
  <2>1. UNCHANGED <<sessiones, session>>
    BY <1>4 DEF ReadStops
  <2>2. \A c \in Session : pm'[c].queue = pm[c].queue
    BY <1>3
  <2>3. \A c \in Session : SameTransfer(session'[c], session[c])
    BY <2>1 DEF SameTransfer
  <2>4. QED
    BY <1>1, <2>1, <2>2, <2>3, DownloadQuiet
<1>5. CASE WriteFails(s) \/ ReadFails(s)
  <2> DEFINE n == [session[s] EXCEPT !.file = Closed]
  <2>1. session' = [session EXCEPT ![s] = n] /\ sessiones' = sessiones \ {s}
    BY <1>5 DEF WriteFails, ReadFails, OnDisconnect
  <2>2. /\ n \in SessionState
        /\ n.file.mode = "closed"
        /\ SameStanding(n, session[s])
    <3>1. session[s] \in SessionState /\ Closed \in FileState /\ Closed.mode = "closed"
      BY <1>1, OwnFile, EndMembers
    <3>2. SameStanding(n, session[s])
      BY <3>1, HandlerMembers
    <3>3. n \in SessionState /\ n.file = Closed
      BY <3>1, FileMember
    <3>4. QED
      BY <3>1, <3>2, <3>3
  <2> HIDE DEF n
  <2>3. session'[s] = n /\ \A c \in Session \ {s} : session'[c] = session[c]
    BY <1>1, <2>1, <2>2, OneSession
  <2>4. SUFFICES ASSUME NEW c \in Session PROVE Whole(c)'
    BY DEF DownloadInv
  <2>5. CASE c = s
    <3>1. SUFFICES ASSUME ~session[s].disconnecting
                   PROVE  Transfer(pm[s].queue, s, sessiones', n, owed[s])
      BY <1>1, <1>3, <2>1, <2>2, <2>3, <2>5 DEF Whole, SameStanding
    <3>2. Transfer(pm[s].queue, s, sessiones, session[s], owed[s])
      BY <3>1 DEF DownloadInv, Whole
    <3>3. \A p : KeepsPace(p, s, sessiones, session[s], owed[s]) => KeepsPace(p, s, sessiones', n, owed[s])
      BY <2>1, <2>2 DEF KeepsPace, SameStanding
    <3>4. QED
      BY <3>2, <3>3 DEF Transfer
  <2>6. CASE c # s
    BY <1>1, <1>3, <2>1, <2>3, <2>6, OthersWhole
  <2>7. QED
    BY <2>5, <2>6
<1>6. QED
  BY <1>4, <1>5

\* A part was sent: the end follows when nothing is owed, a chunk otherwise.
\* The session is not kicked, its members become n and its queue r.
LEMMA PartSent ==
    ASSUME IInv, NEW s \in Session, Writing(s), IsPart(Sent(s)),
           Transfer(pm[s].queue, s, sessiones, session[s], owed[s]),
           NEW n \in SessionState, NEW m \in PmType, SameStanding(n, session[s]),
           TransferEnded(s, n, m) \/ TransferContinued(s, n, m)
    PROVE  Transfer(m.queue, s, sessiones, n, OwedAfter(s))
<1> DEFINE q == pm[s].queue
<1> DEFINE file == session[s].file
<1> DEFINE size == session[s].fileSize
<1>1. q \in Seq(SentPacket) /\ q # <<>> /\ Sent(s) = Head(q)
  BY SentIsFront
<1>2. /\ session[s] \in SessionState
      /\ file \in FileState
      /\ owed[s] \in Nat \cup {-1}
      /\ s \in sessiones => session[s].socket = "open"
  BY OwnFile DEF IInv, TypeOK, Connections
<1>3. AllPlain(Tail(q)) /\ KeepsPace(Sent(s), s, sessiones, session[s], owed[s])
  BY <1>1, TransferOfPartSent
<1>4. Tail(q) \in Seq(SentPacket)
  BY <1>1, Popped
<1>5. size \in Nat /\ file.pos \in Nat
  BY <1>2, <1>3 DEF KeepsPace, FileState
<1>6. IsPart(ChunkPacket) /\ ChunkPacket.type = "FileDataChunk"
  BY DEF IsPart, ChunkPacket
<1>7. CASE file.mode = "closed" /\ s \notin sessiones
  <2>1. Remaining(s) = size - (-1)
    BY <1>7 DEF Remaining, Tell
  <2>2. Remaining(s) # 0
    BY <1>5, <2>1
  <2>3. TransferContinued(s, n, m)
    BY <2>2 DEF TransferEnded
  <2>4. n.file.mode = "closed" /\ n.fileSize \in Nat
    BY <1>2, <1>5, <1>7, <2>3, ReadChunkEffect DEF TransferContinued, SameStanding
  <2>5. KeepsPace(ChunkPacket, s, sessiones, n, OwedAfter(s))
    BY <1>7, <2>4 DEF KeepsPace
  <2>6. m.queue = Tail(q) \/ m.queue = Append(Tail(q), ChunkPacket)
    BY <2>3 DEF TransferContinued, QueuedBehind
  <2>7. NoPart(Tail(q)) /\ EndsAreDue(Tail(q), OwedAfter(s)) /\ Transfer(Tail(q), s, sessiones, n, OwedAfter(s))
    BY <1>3, <1>4, TransferOfPlain
  <2>8. QED
    BY <1>4, <1>6, <2>5, <2>6, <2>7, PacketsAreSent, TransferAfterPart
<1>8. CASE file.mode = "in" /\ file.pos <= size
  <2>1. OwedAfter(s) = size - file.pos
    <3>1. CASE Sent(s).type = "FileDataHeader"
      <4>1. file.pos = 0 /\ OwedAfter(s) = size
        BY <1>3, <1>8, <3>1 DEF KeepsPace, OwedAfter
      <4>2. QED
        BY <1>5, <4>1
    <3>2. CASE Sent(s).type = "FileDataChunk"
      <4>1. owed[s] = size - file.pos + 1
        BY <1>3, <1>8, <3>2 DEF KeepsPace
      <4>2. owed[s] >= 0
        BY <1>5, <1>8, <4>1
      <4>3. OwedAfter(s) = owed[s] - 1
        BY <3>2, <4>2 DEF OwedAfter
      <4>4. QED
        BY <1>5, <4>1, <4>3
    <3>3. QED
      BY <3>1, <3>2 DEF IsPart
  <2>2. Remaining(s) = size - file.pos
    BY <1>8 DEF Remaining, Tell
  <2>3. CASE Remaining(s) = 0
    <3>1. TransferEnded(s, n, m) /\ OwedAfter(s) = 0
      BY <2>1, <2>2, <2>3 DEF TransferContinued
    <3>2. m.queue = Tail(q) \/ m.queue = Append(Tail(q), EndPacket)
      BY <3>1 DEF TransferEnded, QueuedBehind
    <3>3. Transfer(Tail(q), s, sessiones, n, 0) /\ Transfer(Append(Tail(q), EndPacket), s, sessiones, n, 0)
      BY <1>3, <1>4, TransferOfPlain, TransferAfterEnd
    <3>4. QED
      BY <3>1, <3>2, <3>3
  <2>4. CASE Remaining(s) # 0
    <3>1. TransferContinued(s, n, m)
      BY <2>4 DEF TransferEnded
    <3>2. /\ n.file.mode = "in"
          /\ n.file.pos = file.pos + 1
          /\ n.fileSize = size
      BY <1>2, <1>8, <3>1, ReadChunkEffect DEF TransferContinued, SameStanding
    <3>3. /\ file.pos + 1 <= size
          /\ OwedAfter(s) = size - (file.pos + 1) + 1
      BY <1>5, <1>8, <2>1, <2>2, <2>4
    <3>4. KeepsPace(ChunkPacket, s, sessiones, n, OwedAfter(s))
      BY <1>5, <1>6, <3>2, <3>3 DEF KeepsPace
    <3>5. m.queue = Tail(q) \/ m.queue = Append(Tail(q), ChunkPacket)
      BY <3>1 DEF TransferContinued, QueuedBehind
    <3>6. NoPart(Tail(q)) /\ EndsAreDue(Tail(q), OwedAfter(s)) /\ Transfer(Tail(q), s, sessiones, n, OwedAfter(s))
      BY <1>3, <1>4, TransferOfPlain
    <3>7. QED
      BY <1>4, <1>6, <3>4, <3>5, <3>6, PacketsAreSent, TransferAfterPart
  <2>5. QED
    BY <2>3, <2>4
<1>9. QED
  BY <1>3, <1>7, <1>8 DEF KeepsPace

LEMMA WriteSucceedsDownload ==
    ASSUME IInv, DownloadInv, NEW s \in Session, WriteSucceeds(s)
    PROVE  DownloadInv'
<1>1. /\ TypeOK
      /\ pm \in [Session -> PmType]
      /\ Writing(s)
      /\ UNCHANGED client
      /\ owed' = [owed EXCEPT ![s] = OwedAfter(s)]
  BY DEF IInv, Managers, WriteSucceeds
<1>2. PICK n \in SessionState, m \in PmType :
        /\ session' = [session EXCEPT ![s] = n]
        /\ pm' = [pm EXCEPT ![s] = m]
        /\ SameStanding(n, session[s])
        /\ OneOfFour(s, n, m)
  BY WriteSucceedsEffect
<1>3. /\ session'[s] = n /\ pm'[s] = m /\ owed'[s] = OwedAfter(s)
      /\ \A c \in Session \ {s} : session'[c] = session[c] /\ pm'[c] = pm[c] /\ owed'[c] = owed[c]
  BY <1>1, <1>2 DEF TypeOK
<1>4. sessiones' = sessiones \/ sessiones' = sessiones \ {s}
  BY <1>2 DEF OneOfFour, TransferEnded, TransferContinued, KickEnded, OtherSent
<1>5. SUFFICES ASSUME NEW c \in Session PROVE Whole(c)'
  BY DEF DownloadInv
<1>6. CASE c # s
  <2>1. c \in sessiones' <=> c \in sessiones
    BY <1>4, <1>6
  <2>2. QED
    BY <1>1, <1>3, <1>6, <2>1, OthersWhole
<1>7. CASE c = s
  <2>1. SUFFICES ASSUME ~session[s].disconnecting
                 PROVE  /\ Transfer(m.queue, s, sessiones', n, OwedAfter(s))
                        /\ s \in sessiones' /\ client[s].uploading => n.file.mode = "out"
    BY <1>1, <1>2, <1>3, <1>7 DEF Whole, Uploads, SameStanding
  <2>2. /\ Transfer(pm[s].queue, s, sessiones, session[s], owed[s])
        /\ s \in sessiones /\ client[s].uploading => session[s].file.mode = "out"
    BY <2>1 DEF DownloadInv, Whole, Uploads
  <2>3. /\ pm[s].queue \in Seq(SentPacket)
        /\ pm[s].queue # <<>>
        /\ Sent(s) = Head(pm[s].queue)
    BY <1>1, SentIsFront
  <2>4. CASE TransferEnded(s, n, m) \/ TransferContinued(s, n, m)
    <3>1. IsPart(Sent(s)) /\ sessiones' = sessiones
      BY <2>4 DEF TransferEnded, TransferContinued, IsPart
    <3>2. Transfer(m.queue, s, sessiones', n, OwedAfter(s))
      BY <1>1, <1>2, <2>2, <2>4, <3>1, PartSent
    <3>3. ~(s \in sessiones /\ client[s].uploading)
      BY <2>2, <2>3, <3>1, TransferOfPartSent DEF KeepsPace
    <3>4. QED
      BY <3>1, <3>2, <3>3
  <2>5. CASE OtherSent(s, n, m)
    <3>1. /\ n = session[s] /\ m.queue = Tail(pm[s].queue) /\ sessiones' = sessiones
          /\ ~IsPart(Sent(s))
          /\ OwedAfter(s) = owed[s]
      BY <2>5 DEF OtherSent, IsPart, OwedAfter
    <3>2. QED
      BY <2>2, <2>3, <3>1, TransferOfOtherSent
  <2>6. CASE KickEnded(s, n, m)
    BY <2>1, <2>6 DEF KickEnded
  <2>7. QED
    BY <1>2, <2>4, <2>5, <2>6 DEF OneOfFour
<1>8. QED
  BY <1>6, <1>7

-----------------------------------------------------------------------------
(* It holds of every behaviour *)

LEMMA DownloadInit == Init => DownloadInv
<1> SUFFICES ASSUME Init, NEW s \in Session PROVE Whole(s)
  BY DEF DownloadInv
<1>1. pm[s].queue = <<>> /\ s \notin sessiones
  BY DEF Init, PM!NewPacketManager
<1>2. <<>> \in Seq(SentPacket) /\ AllPlain(<<>>)
  BY DEF AllPlain
<1>3. Transfer(<<>>, s, sessiones, session[s], owed[s])
  BY <1>2, TransferOfPlain
<1>4. QED
  BY <1>1, <1>3 DEF Whole

LEMMA DownloadNext == IInv /\ DownloadInv /\ [Next]_vars => DownloadInv'
<1> SUFFICES ASSUME IInv, DownloadInv, [Next]_vars PROVE DownloadInv'
  OBVIOUS
<1>1. CASE UNCHANGED vars
  BY <1>1 DEF DownloadInv, Whole, Uploads, vars
<1>2. ASSUME NEW s \in Session,
             \/ Accept(s)
             \/ UserInfo(s)
             \/ RejectUnregistered(s)
             \/ Unexpected(s)
             \/ MessageChat(s)
             \/ FileDataChunk(s)
             \/ FileDataEnd(s)
             \/ UpdateWriteRate(s)
             \/ WriteSucceeds(s)
             \/ WriteFails(s)
             \/ ReadFails(s)
             \/ ReadStops(s)
      PROVE  DownloadInv'
  BY <1>2, AcceptDownload, UserInfoDownload, RejectDownload, MessageChatDownload,
     FileDataChunkDownload, FileDataEndDownload, WriteSucceedsDownload, LeavesDownload
<1>3. ASSUME NEW s \in Session, NEW f \in Path,
             FileDataHeader(s, f) \/ FileDownloadRequest(s, f) \/ FileDeleteRequest(s, f)
      PROVE  DownloadInv'
  BY <1>3, FileDataHeaderDownload, FileDownloadRequestDownload, FileDeleteRequestDownload
<1>4. QED
  BY <1>1, <1>2, <1>3 DEF Next

-----------------------------------------------------------------------------
(* What a received packet changes, whichever it is: as much of it as the     *)
(* composition with a client rests on                                        *)

\* The packets that answer a download request.
Answer == {"FileDataHeader", "FileDataChunk", "FileDataEnd"}
NoAnswer(q) == \A i \in 1..Len(q) : q[i].type \notin Answer

\* r is q with packets behind it, none of them an answer if q has none.
Extends(q, r) ==
    /\ r \in Seq(SentPacket)
    /\ Len(q) <= Len(r)
    /\ \A i \in 1..Len(q) : r[i] = q[i]
Grows(q, r) == Extends(q, r) /\ (NoAnswer(q) => NoAnswer(r))

LEMMA GrowsSame ==
    ASSUME NEW q \in Seq(SentPacket)
    PROVE  Grows(q, q)
<1>1. Len(q) \in Nat
  OBVIOUS
<1>2. QED
  BY <1>1 DEF Grows, Extends

LEMMA GrowsAppend ==
    ASSUME NEW q \in Seq(SentPacket), NEW p \in SentPacket
    PROVE  /\ Extends(q, Append(q, p))
           /\ p.type \notin Answer => Grows(q, Append(q, p))
<1>1. /\ Append(q, p) \in Seq(SentPacket)
      /\ Len(q) \in Nat
      /\ Len(Append(q, p)) = Len(q) + 1
      /\ \A i \in 1..Len(q) : Append(q, p)[i] = q[i]
      /\ Append(q, p)[Len(q) + 1] = p
  BY Appended
<1>2. Extends(q, Append(q, p))
  BY <1>1 DEF Extends
<1>3. ASSUME p.type \notin Answer, NoAnswer(q), NEW i \in 1..Len(Append(q, p))
      PROVE  Append(q, p)[i].type \notin Answer
  <2>1. i \in 1..Len(q) \/ i = Len(q) + 1
    BY <1>1
  <2>2. QED
    BY <1>1, <1>3, <2>1 DEF NoAnswer
<1>4. QED
  BY <1>2, <1>3 DEF Grows, NoAnswer

LEMMA GrowsTwice ==
    ASSUME NEW q \in Seq(SentPacket), NEW r \in Seq(SentPacket), NEW t, Grows(q, r), Grows(r, t)
    PROVE  Grows(q, t)
<1>1. /\ Len(q) \in Nat /\ Len(r) \in Nat
      /\ t \in Seq(SentPacket)
      /\ Len(q) <= Len(r) /\ Len(r) <= Len(t)
      /\ \A i \in 1..Len(q) : r[i] = q[i]
      /\ \A i \in 1..Len(r) : t[i] = r[i]
  BY DEF Grows, Extends
<1>2. Len(t) \in Nat
  BY <1>1
<1>3. Len(q) <= Len(t) /\ \A i \in 1..Len(q) : i \in 1..Len(r)
  BY <1>1, <1>2
<1>4. Extends(q, t)
  BY <1>1, <1>3 DEF Extends
<1>5. QED
  BY <1>4 DEF Grows

\* A packet is queued for some sessions.
LEMMA QueueToGrows ==
    ASSUME TypeOK, NEW pms, Managers(pms), NEW S, NEW p \in SentPacket, NEW c \in Session
    PROVE  /\ Extends(pms[c].queue, QueueTo(pms, S, p)[c].queue)
           /\ p.type \notin Answer \/ c \notin S => Grows(pms[c].queue, QueueTo(pms, S, p)[c].queue)
<1>1. pms[c].queue \in Seq(SentPacket)
  BY DEF Managers, PmType
<1>2. QueueTo(pms, S, p)[c].queue =
        IF c \in S /\ session[c].socket = "open" THEN Append(pms[c].queue, p) ELSE pms[c].queue
  BY QueueToEffect
<1>3. Grows(pms[c].queue, pms[c].queue)
  BY <1>1, GrowsSame
<1>4. CASE QueueTo(pms, S, p)[c].queue = pms[c].queue
  BY <1>3, <1>4 DEF Grows
<1>5. CASE c \in S /\ QueueTo(pms, S, p)[c].queue = Append(pms[c].queue, p)
  BY <1>1, <1>5, GrowsAppend
<1>6. QED
  BY <1>2, <1>4, <1>5

\* The packets that are no answers.
LEMMA OtherTypes ==
    /\ InfoPacket.type \notin Answer
    /\ \A s \in Session : ChatPacket(s).type \notin Answer /\ KickPacket(s).type \notin Answer
    /\ \A files : ListPacket(files).type \notin Answer
  BY DEF Answer, InfoPacket, ChatPacket, KickPacket, ListPacket

\* The upload of c is not disturbed.
Undisturbed(c) == Uploads(c) => disk'[session[c].file.path] = disk[session[c].file.path]

\* A packet of session s: nobody joins or leaves, no socket changes, queues
\* grow, and what the other sessions have and store is left alone.  Only a
\* kick makes s leave later.
Heard(s) ==
    /\ s \in sessiones
    /\ UNCHANGED <<waiting, sessiones, owed>>
    /\ \A c \in Session :
         /\ Extends(pm[c].queue, pm'[c].queue)
         /\ c \notin sessiones => pm'[c] = pm[c]
         /\ session'[c].socket = session[c].socket
         /\ c # s => /\ session'[c] = session[c] /\ client'[c] = client[c]
                     /\ Grows(pm[c].queue, pm'[c].queue)
                     /\ Undisturbed(c)
    /\ session'[s].disconnecting = session[s].disconnecting \/ Kick(s)

\* What s has open and stores is left alone, too.
HeardQuietly(s) ==
    /\ Heard(s)
    /\ Grows(pm[s].queue, pm'[s].queue)
    /\ session'[s].file = session[s].file
    /\ client'[s].uploading = client[s].uploading
    /\ Undisturbed(s)

\* The members of one session change, and packets are queued.
LEMMA HeardEffect ==
    ASSUME IInv, NEW s \in Session, s \in sessiones, NEW n \in SessionState,
           session' = [session EXCEPT ![s] = n],
           n.socket = session[s].socket,
           n.disconnecting = session[s].disconnecting \/ Kick(s),
           UNCHANGED <<waiting, sessiones, owed>>,
           \A c \in Session \ {s} : client'[c] = client[c] /\ Undisturbed(c),
           \A c \in Session : /\ Extends(pm[c].queue, pm'[c].queue)
                              /\ c # s => Grows(pm[c].queue, pm'[c].queue)
                              /\ c \notin sessiones => pm'[c] = pm[c]
    PROVE  Heard(s) /\ session'[s] = n
<1>1. session'[s] = n /\ \A c \in Session \ {s} : session'[c] = session[c]
  BY OneSession DEF IInv
<1>2. QED
  BY <1>1 DEF Heard

\* A packet is queued for sessions of the list.
LEMMA QueuedForListed ==
    ASSUME IInv, NEW S \in SUBSET sessiones, NEW p \in SentPacket, pm' = QueueTo(pm, S, p)
    PROVE  \A c \in Session : /\ Extends(pm[c].queue, pm'[c].queue)
                              /\ p.type \notin Answer \/ c \notin S => Grows(pm[c].queue, pm'[c].queue)
                              /\ c \notin S => pm'[c] = pm[c]
<1>1. TypeOK /\ Managers(pm)
  BY DEF IInv
<1>2. QED
  BY <1>1, QueueToGrows, QueueToEffect

LEMMA KickHeard ==
    ASSUME IInv, NEW s \in Session, s \in sessiones, Kick(s), UNCHANGED <<waiting, owed>>,
           \A c \in Session \ {s} : client'[c] = client[c]
    PROVE  /\ Heard(s)
           /\ Grows(pm[s].queue, pm'[s].queue)
           /\ session'[s].file = session[s].file
           /\ disk' = disk
<1> DEFINE n == [session[s] EXCEPT !.disconnecting = TRUE]
<1>1. session[s] \in SessionState
  BY DEF IInv, TypeOK
<1>2. n \in SessionState /\ SameHolds(n, session[s])
  BY <1>1, OtherMembers
<1>3. session' = [session EXCEPT ![s] = n] /\ UNCHANGED <<sessiones, disk>>
  BY DEF Kick
<1> HIDE DEF n
<1> DEFINE S == {s}
<1>4. /\ S \in SUBSET sessiones
      /\ KickPacket(s) \in SentPacket
      /\ KickPacket(s).type \notin Answer
      /\ pm' = QueueTo(pm, S, KickPacket(s))
  BY PacketsAreSent, OtherTypes DEF Kick
<1> HIDE DEF S
<1>5. \A c \in Session : /\ Extends(pm[c].queue, pm'[c].queue)
                         /\ Grows(pm[c].queue, pm'[c].queue)
                         /\ c \notin sessiones => pm'[c] = pm[c]
  BY <1>4, QueuedForListed
<1>6. \A c \in Session : Undisturbed(c)
  BY <1>3 DEF Undisturbed
<1>7. Heard(s) /\ session'[s] = n
  BY <1>2, <1>3, <1>5, <1>6, HeardEffect DEF SameHolds
<1>8. QED
  BY <1>2, <1>3, <1>5, <1>7 DEF SameHolds

\* An announcement to some sessions, with members that hold the same file.
LEMMA AnnounceHeard ==
    ASSUME IInv, NEW s \in Session, s \in sessiones, NEW n \in SessionState,
           session' = [session EXCEPT ![s] = n],
           SameHolds(n, session[s]), n.disconnecting = session[s].disconnecting,
           NEW S \in SUBSET sessiones, NEW p \in SentPacket, p.type \notin Answer,
           pm' = QueueTo(pm, S, p),
           UNCHANGED <<waiting, sessiones, owed, disk>>,
           \A c \in Session : c # s => client'[c] = client[c],
           client'[s].uploading = client[s].uploading
    PROVE  HeardQuietly(s)
<1>1. \A c \in Session : /\ Extends(pm[c].queue, pm'[c].queue)
                         /\ Grows(pm[c].queue, pm'[c].queue)
                         /\ c \notin sessiones => pm'[c] = pm[c]
  BY QueuedForListed
<1>2. \A c \in Session : Undisturbed(c)
  BY DEF Undisturbed
<1>3. Heard(s) /\ session'[s] = n
  BY <1>1, <1>2, HeardEffect DEF SameHolds
<1>4. QED
  BY <1>1, <1>2, <1>3 DEF HeardQuietly, SameHolds

-----------------------------------------------------------------------------
(* Packet by packet *)

LEMMA UserInfoHeard ==
    ASSUME IInv, NEW s \in Session, UserInfo(s)
    PROVE  HeardQuietly(s)
<1>1. /\ TypeOK
      /\ s \in sessiones
      /\ client' = [client EXCEPT ![s].greeted = TRUE]
      /\ UNCHANGED <<waiting, owed>>
  BY ReceivingIsListed DEF IInv, UserInfo
<1>2. \A c \in Session : client'[c].uploading = client[c].uploading /\ (c # s => client'[c] = client[c])
  BY <1>1 DEF TypeOK
<1>3. CASE Kick(s)
  BY <1>1, <1>2, <1>3, KickHeard DEF HeardQuietly, Undisturbed
<1>4. CASE /\ session' = [session EXCEPT ![s].registered = TRUE]
           /\ pm' = QueueTo(pm, {s}, ListPacket(GetFileList(disk)))
           /\ UNCHANGED <<alive, sessiones, disk, finished>>
  <2> DEFINE n == [session[s] EXCEPT !.registered = TRUE]
  <2>1. n \in SessionState /\ SameHolds(n, session[s]) /\ SameTransfer(n, session[s])
    BY <1>1, OtherMembers, OtherTransferMembers DEF TypeOK
  <2>2. session' = [session EXCEPT ![s] = n]
    BY <1>4
  <2> HIDE DEF n
  <2> DEFINE p == ListPacket(GetFileList(disk))
  <2>3. p \in SentPacket /\ p.type \notin Answer
    BY PacketsAreSent, FileListType, OtherTypes
  <2> DEFINE S == {s}
  <2>4. pm' = QueueTo(pm, S, p) /\ S \in SUBSET sessiones
    BY <1>1, <1>4
  <2> HIDE DEF p, S
  <2>5. QED
    BY <1>1, <1>2, <1>4, <2>1, <2>2, <2>3, <2>4, AnnounceHeard DEF SameTransfer
<1>5. QED
  BY <1>3, <1>4 DEF UserInfo

\* A packet is refused: what the session has open and stores is left alone.
LEMMA RejectHeard ==
    ASSUME IInv, NEW s \in Session, RejectUnregistered(s) \/ Unexpected(s)
    PROVE  /\ Heard(s)
           /\ Grows(pm[s].queue, pm'[s].queue)
           /\ session'[s].file = session[s].file
           /\ disk' = disk
<1>1. TypeOK /\ UNCHANGED <<waiting, owed>> /\ Kick(s) /\ s \in sessiones
  BY ReceivingIsListed DEF IInv, RejectUnregistered, Rejects, Unexpected, ArrivesRegistered, Arrives
<1>2. QED
  BY <1>1, RejectClient, KickHeard

LEMMA UnexpectedHeard ==
    ASSUME IInv, NEW s \in Session, Unexpected(s)
    PROVE  HeardQuietly(s)
<1>1. client' = client
  BY DEF Unexpected
<1>2. QED
  BY <1>1, RejectHeard DEF HeardQuietly, Undisturbed

\* The members as they are, and with another chat text.
LEMMA MembersOfAnnounce ==
    ASSUME TypeOK, NEW s \in Session, NEW n \in {session[s], NewChatText(s)}
    PROVE  n \in SessionState /\ SameHolds(n, session[s]) /\ SameTransfer(n, session[s])
<1>1. session[s] \in SessionState
  BY DEF TypeOK
<1>2. SameTransfer(NewChatText(s), session[s])
  BY <1>1, OtherTransferMembers DEF NewChatText
<1>3. QED
  BY <1>1, <1>2, NewChatTextType DEF SameHolds, SameTransfer

\* Nothing is queued, and nothing of a session changes.
LEMMA NothingHeard ==
    ASSUME IInv, NEW s \in Session, s \in sessiones, UNCHANGED <<session, pm, disk>>,
           UNCHANGED <<waiting, sessiones, owed, client>>
    PROVE  HeardQuietly(s)
<1>1. \A c \in Session : Grows(pm[c].queue, pm'[c].queue)
  BY GrowsSame DEF IInv, Managers, PmType
<1>2. QED
  BY <1>1 DEF HeardQuietly, Heard, Grows, Undisturbed

LEMMA MessageChatHeard ==
    ASSUME IInv, NEW s \in Session, MessageChat(s) \/ UpdateWriteRate(s)
    PROVE  HeardQuietly(s)
<1>1. TypeOK /\ s \in sessiones /\ UNCHANGED <<waiting, sessiones, owed, client, disk>>
  BY ReceivingIsListed DEF IInv, MessageChat, UpdateWriteRate, ArrivesRegistered, Arrives
<1>2. CASE UNCHANGED <<session, pm>>
  BY <1>1, <1>2, NothingHeard
<1>3. CASE /\ session' = [session EXCEPT ![s] = NewChatText(s)]
           /\ pm' = BroadcastPacket(pm, ChatPacket(s))
  <2>1. /\ NewChatText(s) \in SessionState
        /\ SameHolds(NewChatText(s), session[s])
        /\ SameTransfer(NewChatText(s), session[s])
    BY <1>1, MembersOfAnnounce
  <2>2. pm' = QueueTo(pm, sessiones, ChatPacket(s)) /\ sessiones \in SUBSET sessiones
    BY <1>3 DEF BroadcastPacket
  <2>3. QED
    BY <1>1, <1>3, <2>1, <2>2, PacketsAreSent, OtherTypes, AnnounceHeard DEF SameTransfer
<1>4. QED
  BY <1>2, <1>3 DEF MessageChat, UpdateWriteRate

LEMMA RefuseRequestHeard ==
    ASSUME IInv, NEW s \in Session, s \in sessiones, RefuseRequest, UNCHANGED <<waiting, owed, client>>
    PROVE  HeardQuietly(s)
<1>1. TypeOK /\ UNCHANGED <<session, sessiones, disk>>
  BY DEF IInv, RefuseRequest
<1>2. /\ session' = [session EXCEPT ![s] = session[s]]
      /\ session[s] \in SessionState
      /\ SameHolds(session[s], session[s])
  BY <1>1, SessionAsItIs
<1>3. pm' = QueueTo(pm, sessiones, InfoPacket) /\ sessiones \in SUBSET sessiones
  BY DEF RefuseRequest, BroadcastPacket
<1>4. QED
  BY <1>1, <1>2, <1>3, PacketsAreSent, OtherTypes, AnnounceHeard

\* A header: the session stores a file that is empty, or goes on as before.
LEMMA FileDataHeaderHeard ==
    ASSUME IInv, NEW s \in Session, NEW f \in Path, FileDataHeader(s, f)
    PROVE  /\ Heard(s)
           /\ Grows(pm[s].queue, pm'[s].queue)
           /\ ~client[s].uploading /\ client'[s].uploading
           /\ session'[s].file.mode = "out" => Uploads(s) \/ disk'[session'[s].file.path] = 0
<1>1. TypeOK /\ s \in sessiones /\ UNCHANGED <<waiting, owed>> /\ ~client[s].uploading
  BY ReceivingIsListed DEF IInv, FileDataHeader, HeaderSent, ArrivesRegistered, Arrives
<1>2. client'[s].uploading /\ \A c \in Session \ {s} : client'[c] = client[c]
  BY <1>1, ClientUploadsType DEF FileDataHeader, HeaderSent
<1>3. CASE Kick(s)
  BY <1>1, <1>2, <1>3, KickHeard DEF Uploads
<1>4. CASE ~Kick(s)
  <2> DEFINE path == NewFilePath(f)
  <2> DEFINE g == [mode |-> "out", path |-> path, pos |-> 0]
  <2> DEFINE n == StartUpload(NewChatText(s), f, g)
  <2>1. /\ FreeCopies(f) # {}
        /\ session' = [session EXCEPT ![s] = n]
        /\ disk' = [disk EXCEPT ![path] = 0]
        /\ pm' = QueueTo(pm, sessiones, ChatPacket(s))
        /\ sessiones' = sessiones
    BY <1>4 DEF FileDataHeader, StartUpload, BroadcastPacket
  <2>2. path \in Path /\ ~FileExists(path)
    BY <1>1, <2>1, NewFilePathIsFree
  <2>3. g \in FileState
    BY <2>2 DEF FileState
  <2>4. g.path = path
    OBVIOUS
  <2>5. /\ NewChatText(s) \in SessionState
        /\ SameHolds(NewChatText(s), session[s])
        /\ SameTransfer(NewChatText(s), session[s])
    BY <1>1, MembersOfAnnounce
  <2> HIDE DEF path, g
  <2>6. /\ n \in SessionState
        /\ n.socket = NewChatText(s).socket
        /\ SameStanding(n, NewChatText(s))
        /\ n.file = g
    BY <2>3, <2>5, StartUploadType, StartUploadStanding
  <2> HIDE DEF n
  <2>7. n.socket = session[s].socket /\ n.disconnecting = session[s].disconnecting
    BY <2>5, <2>6 DEF SameHolds, SameStanding, SameTransfer
  <2>8. \A c \in Session : Undisturbed(c)
    BY <1>1, <2>1, <2>2 DEF IInv, Files, Undisturbed, Uploads, IsOpen, TypeOK
  <2>9. \A c \in Session : /\ Extends(pm[c].queue, pm'[c].queue)
                           /\ Grows(pm[c].queue, pm'[c].queue)
                           /\ c \notin sessiones => pm'[c] = pm[c]
    BY <2>1, PacketsAreSent, OtherTypes, QueuedForListed
  <2>10. Heard(s) /\ session'[s] = n
    BY <1>1, <1>2, <2>1, <2>6, <2>7, <2>8, <2>9, HeardEffect
  <2>11. disk'[path] = 0
    BY <1>1, <2>1, <2>2 DEF TypeOK
  <2>12. QED
    BY <1>1, <1>2, <2>4, <2>6, <2>9, <2>10, <2>11
<1>5. QED
  BY <1>3, <1>4

\* A chunk: the file that is stored grows by it.
LEMMA FileDataChunkHeard ==
    ASSUME IInv, NEW s \in Session, FileDataChunk(s)
    PROVE  /\ Heard(s)
           /\ Grows(pm[s].queue, pm'[s].queue)
           /\ client'[s].uploading
           /\ session'[s].file.mode = "out" =>
                /\ Uploads(s)
                /\ session'[s].file.path = session[s].file.path
                /\ disk'[session[s].file.path] = disk[session[s].file.path] + 1
<1> DEFINE file == session[s].file
<1>1. /\ TypeOK /\ Files
      /\ s \in sessiones
      /\ client[s].chunks \in Nat
      /\ UNCHANGED <<waiting, sessiones, owed, pm>>
  BY ReceivingIsListed DEF IInv, TypeOK, FileDataChunk, ArrivesRegistered, Arrives
<1>2. client'[s].uploading /\ \A c \in Session \ {s} : client'[c] = client[c]
  <2>1. PICK k \in Nat : k = client[s].chunks + 1
    BY <1>1
  <2>2. ClientUploads(s, TRUE, k)
    BY <2>1 DEF FileDataChunk, ChunkSent
  <2>3. QED
    BY <1>1, <2>2, ClientUploadsType
<1>3. session[s] \in SessionState /\ file \in FileState /\ session = [session EXCEPT ![s] = session[s]]
  BY <1>1, OwnFile
<1>4. \A c \in Session : Grows(pm[c].queue, pm'[c].queue) /\ Extends(pm[c].queue, pm'[c].queue)
  BY <1>1, GrowsSame DEF IInv, Managers, PmType, Grows
<1>5. CASE /\ file.mode = "out"
           /\ session' = [session EXCEPT ![s].file.pos = @ + 1]
           /\ disk' = [disk EXCEPT ![file.path] = @ + 1]
  <2> DEFINE n == [session[s] EXCEPT !.file.pos = @ + 1]
  <2>1. /\ n \in SessionState
        /\ n.socket = session[s].socket
        /\ n.disconnecting = session[s].disconnecting
        /\ n.file.path = file.path
    BY <1>3 DEF SessionState, FileState
  <2>2. session' = [session EXCEPT ![s] = n]
    BY <1>5
  <2> HIDE DEF n
  <2>3. \A c \in Session \ {s} : Undisturbed(c)
    BY <1>1, <1>5 DEF Files, WriterExclusive, Undisturbed, Uploads, IsOpen, TypeOK
  <2>4. Heard(s) /\ session'[s] = n
    BY <1>1, <1>2, <1>4, <2>1, <2>2, <2>3, HeardEffect
  <2>5. file.path \in Path
    BY <1>1, <1>5 DEF Files, IsOpen
  <2>6. disk'[file.path] = disk[file.path] + 1
    BY <1>1, <1>5, <2>5 DEF TypeOK
  <2>7. QED
    BY <1>2, <1>4, <1>5, <2>1, <2>4, <2>6 DEF Uploads
<1>6. CASE /\ file.mode = "in"
           /\ session' = [session EXCEPT ![s].file.mode = "bad"]
           /\ UNCHANGED disk
  <2> DEFINE n == [session[s] EXCEPT !.file.mode = "bad"]
  <2>1. /\ n \in SessionState
        /\ n.socket = session[s].socket
        /\ n.disconnecting = session[s].disconnecting
        /\ n.file.mode = "bad"
    BY <1>3 DEF SessionState, FileState
  <2>2. session' = [session EXCEPT ![s] = n]
    BY <1>6
  <2> HIDE DEF n
  <2>3. \A c \in Session : Undisturbed(c)
    BY <1>6 DEF Undisturbed
  <2>4. Heard(s) /\ session'[s] = n
    BY <1>1, <1>2, <1>4, <2>1, <2>2, <2>3, HeardEffect
  <2>5. QED
    BY <1>2, <1>4, <2>1, <2>4
<1>7. CASE file.mode \in {"closed", "bad"} /\ UNCHANGED <<session, disk>>
  <2>1. \A c \in Session : Undisturbed(c)
    BY <1>7 DEF Undisturbed
  <2>2. Heard(s) /\ session'[s] = session[s]
    BY <1>1, <1>2, <1>3, <1>4, <1>7, <2>1, HeardEffect
  <2>3. QED
    BY <1>2, <1>4, <1>7, <2>2
<1>8. QED
  BY <1>5, <1>6, <1>7 DEF FileDataChunk

LEMMA FileDataEndHeard ==
    ASSUME IInv, NEW s \in Session, FileDataEnd(s)
    PROVE  /\ Heard(s)
           /\ Grows(pm[s].queue, pm'[s].queue)
           /\ session'[s].file.mode = "closed"
<1>1. TypeOK /\ s \in sessiones /\ UNCHANGED <<waiting, sessiones, owed, disk>>
  BY ReceivingIsListed DEF IInv, FileDataEnd, ArrivesRegistered, Arrives
<1>2. \A c \in Session \ {s} : client'[c] = client[c]
  BY <1>1, ClientUploadsType DEF FileDataEnd, EndSent
<1> DEFINE n == [session[s] EXCEPT !.file = Closed, !.fileEdit = FALSE, !.filename = NoPath]
<1>3. session[s] \in SessionState
  BY <1>1 DEF TypeOK
<1>4. /\ n \in SessionState
      /\ n.file.mode = "closed"
      /\ n.socket = session[s].socket
      /\ n.disconnecting = session[s].disconnecting
  BY <1>3, EndMembers, EndUploadStanding
<1>5. session' = [session EXCEPT ![s] = n]
  BY DEF FileDataEnd
<1> HIDE DEF n
<1> DEFINE p == ListPacket(GetFileList(disk))
<1>6. p \in SentPacket /\ p.type \notin Answer
  BY PacketsAreSent, FileListType, OtherTypes
<1>7. pm' = QueueTo(pm, sessiones, p)
  BY DEF FileDataEnd, BroadcastFileList, BroadcastPacket
<1> HIDE DEF p
<1>8. \A c \in Session : /\ Extends(pm[c].queue, pm'[c].queue)
                         /\ Grows(pm[c].queue, pm'[c].queue)
                         /\ c \notin sessiones => pm'[c] = pm[c]
  BY <1>6, <1>7, QueuedForListed
<1>9. \A c \in Session : Undisturbed(c)
  BY <1>1 DEF Undisturbed
<1>10. Heard(s) /\ session'[s] = n
  BY <1>1, <1>2, <1>4, <1>5, <1>8, <1>9, HeardEffect
<1>11. QED
  BY <1>4, <1>8, <1>10

\* A request that is answered: the session has a file open to read.
LEMMA FileDownloadRequestHeard ==
    ASSUME IInv, NEW s \in Session, NEW f \in Path, FileDownloadRequest(s, f)
    PROVE  /\ Heard(s)
           /\ client'[s] = client[s]
           /\ session'[s].file.mode = "out" => session'[s].file = session[s].file /\ Undisturbed(s)
<1>1. /\ TypeOK
      /\ s \in sessiones
      /\ UNCHANGED <<client, waiting, owed>>
  BY ReceivingIsListed DEF IInv, FileDownloadRequest, ArrivesRegistered, Arrives
<1>2. CASE Kick(s)
  BY <1>1, <1>2, KickHeard DEF Undisturbed
<1>3. CASE RefuseRequest
  BY <1>1, <1>3, RefuseRequestHeard DEF HeardQuietly
<1>4. CASE ~Kick(s) /\ ~RefuseRequest
  <2> DEFINE g == [mode |-> "in", path |-> f, pos |-> 0]
  <2> DEFINE n == StartDownload(session[s], f, disk[f], g)
  <2> DEFINE S == {s}
  <2>1. /\ FileExists(f)
        /\ session' = [session EXCEPT ![s] = n]
        /\ pm' = QueueTo(pm, S, HeaderPacket(f))
        /\ UNCHANGED <<sessiones, disk>>
    BY <1>4 DEF FileDownloadRequest, StartDownload
  <2>2. /\ g \in FileState /\ g.mode = "in"
        /\ session[s] \in SessionState
        /\ disk[f] \in Nat
        /\ HeaderPacket(f) \in SentPacket
    BY <1>1, <2>1, PacketsAreSent DEF FileState, TypeOK, FileExists
  <2> HIDE DEF g
  <2>3. /\ n \in SessionState
        /\ n.file = g
        /\ n.socket = session[s].socket
        /\ n.disconnecting = session[s].disconnecting
    BY <2>2, StartDownloadType
  <2> HIDE DEF n
  <2>4. S \in SUBSET sessiones /\ \A c \in Session : c # s => c \notin S
    BY <1>1
  <2> HIDE DEF S
  <2>5. \A c \in Session : /\ Extends(pm[c].queue, pm'[c].queue)
                           /\ c # s => Grows(pm[c].queue, pm'[c].queue)
                           /\ c \notin sessiones => pm'[c] = pm[c]
    BY <2>1, <2>2, <2>4, QueuedForListed
  <2>6. \A c \in Session : Undisturbed(c)
    BY <2>1 DEF Undisturbed
  <2>7. Heard(s) /\ session'[s] = n
    BY <1>1, <2>1, <2>3, <2>5, <2>6, HeardEffect
  <2>8. QED
    BY <1>1, <2>2, <2>3, <2>7
<1>5. QED
  BY <1>2, <1>3, <1>4

\* A delete, refused or not: the file is not one that is being stored.
LEMMA FileDeleteRequestHeard ==
    ASSUME IInv, NEW s \in Session, NEW f \in Path, FileDeleteRequest(s, f)
    PROVE  HeardQuietly(s)
<1>1. /\ TypeOK
      /\ Managers(pm)
      /\ s \in sessiones
      /\ UNCHANGED <<client, waiting, owed>>
  BY ReceivingIsListed DEF IInv, FileDeleteRequest, ArrivesRegistered, Arrives
<1>2. CASE RefuseRequest
  BY <1>1, <1>2, RefuseRequestHeard
<1>3. CASE UNCHANGED <<sessiones, session, pm, disk, finished>>
  BY <1>1, <1>3, NothingHeard
<1>4. CASE ~RefuseRequest /\ ~UNCHANGED <<sessiones, session, pm, disk, finished>>
  <2> DEFINE pms == BroadcastPacket(pm, ChatPacket(s))
  <2> DEFINE p == ListPacket(GetFileList(disk'))
  <2>1. /\ ~OpenSomewhere(f)
        /\ disk' = [disk EXCEPT ![f] = NoFile]
        /\ pm' = QueueTo(pms, sessiones, p)
        /\ sessiones' = sessiones
        /\ session' = [session EXCEPT ![s] = NewChatText(s)]
    BY <1>4 DEF FileDeleteRequest, BroadcastFileList, BroadcastPacket
  <2>2. p \in SentPacket /\ p.type \notin Answer
    BY PacketsAreSent, FileListType, OtherTypes
  <2>3. /\ Managers(pms)
        /\ \A c \in Session : /\ Grows(pm[c].queue, pms[c].queue)
                              /\ c \notin sessiones => pms[c] = pm[c]
    BY <1>1, PacketsAreSent, OtherTypes, QueueToEffect, QueueToGrows DEF BroadcastPacket
  <2> HIDE DEF p, pms
  <2>4. \A c \in Session : /\ Grows(pms[c].queue, pm'[c].queue)
                           /\ c \notin sessiones => pm'[c] = pms[c]
    BY <1>1, <2>1, <2>2, <2>3, QueueToEffect, QueueToGrows
  <2>5. \A c \in Session : Grows(pm[c].queue, pm'[c].queue)
    <3>1. \A c \in Session : pm[c].queue \in Seq(SentPacket) /\ pms[c].queue \in Seq(SentPacket)
      BY <1>1, <2>3 DEF Managers, PmType
    <3>2. QED
      BY <2>3, <2>4, <3>1, GrowsTwice
  <2>6. \A c \in Session : Undisturbed(c)
    BY <1>1, <2>1 DEF Undisturbed, Uploads, OpenSomewhere, TypeOK
  <2>7. /\ NewChatText(s) \in SessionState
        /\ SameHolds(NewChatText(s), session[s])
        /\ SameTransfer(NewChatText(s), session[s])
    BY <1>1, MembersOfAnnounce
  <2>8. /\ NewChatText(s).socket = session[s].socket
        /\ NewChatText(s).file = session[s].file
        /\ NewChatText(s).disconnecting = session[s].disconnecting
    BY <2>7 DEF SameHolds, SameTransfer
  <2>9. \A c \in Session : /\ Extends(pm[c].queue, pm'[c].queue)
                           /\ c \notin sessiones => pm'[c] = pm[c]
    BY <2>3, <2>4, <2>5 DEF Grows
  <2>10. Heard(s) /\ session'[s] = NewChatText(s)
    BY <1>1, <2>1, <2>5, <2>6, <2>7, <2>8, <2>9, HeardEffect
  <2>11. QED
    BY <1>1, <2>5, <2>6, <2>8, <2>10 DEF HeardQuietly
<1>5. QED
  BY <1>2, <1>3, <1>4 DEF FileDeleteRequest

-----------------------------------------------------------------------------
(* The other steps are of one session alone                                  *)

\* s joins, or an operation of it completes: the others and the directory are
\* left alone, no file is opened, and no answer is queued but behind another.
Alone(s) ==
    /\ UNCHANGED <<alive, client, disk>>
    /\ \A c \in Session \ {s} : /\ session'[c] = session[c] /\ pm'[c] = pm[c] /\ owed'[c] = owed[c]
                                /\ c \in waiting' <=> c \in waiting
                                /\ c \in sessiones' <=> c \in sessiones
    /\ session'[s].file.mode = "out" => session'[s].file = session[s].file
    /\ NoAnswer(pm[s].queue) => NoAnswer(pm'[s].queue)
    /\ session'[s].disconnecting = session[s].disconnecting
    /\ \/ s \in waiting
       \/ /\ pm[s].writes # <<>> \/ pm[s].reads > 0
          /\ waiting' = waiting /\ sessiones' \subseteq sessiones
          /\ session'[s].socket \in {session[s].socket, "closed"}

LEMMA AcceptAlone ==
    ASSUME IInv, NEW s \in Session, Accept(s)
    PROVE  /\ Alone(s) /\ owed' = owed
           /\ ~session'[s].disconnecting
<1>1. /\ TypeOK
      /\ pm \in [Session -> PmType]
      /\ pm[s] = PM!NewPacketManager
      /\ s \in waiting
      /\ session[s] = NewSession
  BY DEF IInv, Managers, Connections, Accept
<1>2. /\ session' = [session EXCEPT ![s].socket = "open"]
      /\ pm' = [pm EXCEPT ![s] = PM!StartReceive(PM!NewPacketManager, "open")]
      /\ sessiones' = sessiones \cup {s}
      /\ waiting' = waiting \ {s}
      /\ UNCHANGED <<alive, disk, client, owed>>
  BY <1>1 DEF Accept, OnConnect
<1>3. pm'[s].queue = <<>> /\ \A c \in Session \ {s} : pm'[c] = pm[c]
  <2>1. pm'[s] = PM!StartReceive(PM!NewPacketManager, "open")
    BY <1>1, <1>2
  <2>2. QED
    BY <1>1, <1>2, <2>1, StartReceiveEffect
<1>4. /\ \A c \in Session \ {s} : session'[c] = session[c]
      /\ session'[s] = [NewSession EXCEPT !.socket = "open"]
  BY <1>1, <1>2 DEF TypeOK
<1>5. session'[s].file = session[s].file /\ ~session'[s].disconnecting /\ ~session[s].disconnecting
  BY <1>1, <1>4 DEF NewSession
<1>6. NoAnswer(<<>>)
  BY DEF NoAnswer
<1>7. QED
  BY <1>1, <1>2, <1>3, <1>4, <1>5, <1>6 DEF Alone

LEMMA LeavesAlone ==
    ASSUME IInv, NEW s \in Session, WriteFails(s) \/ ReadFails(s) \/ ReadStops(s)
    PROVE  /\ Alone(s) /\ owed' = owed
           /\ pm'[s].queue = pm[s].queue
<1>1. /\ TypeOK
      /\ pm \in [Session -> PmType]
      /\ pm[s] \in PmType
      /\ SendSide(pm[s])
      /\ UNCHANGED <<alive, waiting, disk, client, owed>>
      /\ pm[s].writes # <<>> \/ pm[s].reads > 0
  BY DEF IInv, Managers, WriteFails, ReadFails, ReadStops, Writing, Receiving
<1>2. PICK m : pm' = [pm EXCEPT ![s] = m] /\ m.queue = pm[s].queue
  <2>1. CASE WriteFails(s)
    BY <1>1, <2>1, SendFailedEffect DEF WriteFails, Writing
  <2>2. CASE ReadFails(s) \/ ReadStops(s)
    BY <1>1, <2>2, EndReceiveEffect DEF ReadFails, ReadStops, Receiving
  <2>3. QED
    BY <2>1, <2>2
<1>3. pm'[s].queue = pm[s].queue /\ \A c \in Session \ {s} : pm'[c] = pm[c]
  BY <1>1, <1>2
<1>4. CASE ReadStops(s)
  BY <1>1, <1>3, <1>4 DEF ReadStops, Alone
<1>5. CASE WriteFails(s) \/ ReadFails(s)
  <2> DEFINE n == [session[s] EXCEPT !.file = Closed]
  <2>1. session' = [session EXCEPT ![s] = n] /\ sessiones' = sessiones \ {s}
    BY <1>5 DEF WriteFails, ReadFails, OnDisconnect
  <2>2. session[s] \in SessionState /\ Closed \in FileState /\ Closed.mode = "closed"
    BY <1>1, OwnFile, EndMembers
  <2>3. /\ n \in SessionState
        /\ n.file.mode = "closed"
        /\ n.socket = session[s].socket
        /\ n.disconnecting = session[s].disconnecting
    <3>1. n \in SessionState /\ n.file.mode = "closed" /\ n.socket = session[s].socket
      BY <2>2, FileMember
    <3>2. SameStanding(n, session[s])
      BY <2>2, HandlerMembers
    <3>3. QED
      BY <3>1, <3>2 DEF SameStanding
  <2> HIDE DEF n
  <2>4. session'[s] = n /\ \A c \in Session \ {s} : session'[c] = session[c]
    BY <1>1, <2>1, <2>3, OneSession
  <2>5. QED
    BY <1>1, <1>3, <2>1, <2>3, <2>4 DEF Alone
<1>6. QED
  BY <1>4, <1>5

\* A queue without an answer has none when its front is gone, which is none.
LEMMA NoAnswerSent ==
    ASSUME NEW q \in Seq(SentPacket), q # <<>>, NoAnswer(q)
    PROVE  NoAnswer(Tail(q)) /\ Head(q).type \notin Answer
<1>1. /\ Len(q) \in Nat \ {0}
      /\ Len(Tail(q)) = Len(q) - 1
      /\ \A i \in 1..Len(Tail(q)) : Tail(q)[i] = q[i + 1]
      /\ Head(q) = q[1]
  BY Popped
<1>2. 1 \in 1..Len(q) /\ \A i \in 1..Len(Tail(q)) : i + 1 \in 1..Len(q)
  BY <1>1
<1>3. QED
  BY <1>1, <1>2 DEF NoAnswer

LEMMA WriteSucceedsAlone ==
    ASSUME IInv, NEW s \in Session, WriteSucceeds(s)
    PROVE  /\ Alone(s)
           /\ owed'[s] = OwedAfter(s)
           /\ pm[s].queue # <<>> /\ Sent(s) = Head(pm[s].queue)
           /\ NoAnswer(pm[s].queue) => Sent(s).type \notin Answer
<1>1. /\ TypeOK
      /\ pm \in [Session -> PmType]
      /\ Writing(s)
      /\ UNCHANGED <<alive, waiting, disk, client>>
      /\ owed' = [owed EXCEPT ![s] = OwedAfter(s)]
  BY DEF IInv, Managers, WriteSucceeds
<1>2. PICK n \in SessionState, m \in PmType :
        /\ session' = [session EXCEPT ![s] = n]
        /\ pm' = [pm EXCEPT ![s] = m]
        /\ SameStanding(n, session[s])
        /\ OneOfFour(s, n, m)
  BY WriteSucceedsEffect
<1>3. /\ session'[s] = n /\ pm'[s] = m /\ owed'[s] = OwedAfter(s)
      /\ \A c \in Session \ {s} : session'[c] = session[c] /\ pm'[c] = pm[c] /\ owed'[c] = owed[c]
  BY <1>1, <1>2 DEF TypeOK
<1>4. sessiones' = sessiones \/ sessiones' = sessiones \ {s}
  BY <1>2 DEF OneOfFour, TransferEnded, TransferContinued, KickEnded, OtherSent
<1>5. /\ pm[s].queue \in Seq(SentPacket)
      /\ pm[s].queue # <<>>
      /\ Sent(s) = Head(pm[s].queue)
  BY <1>1, SentIsFront
<1>6. n.socket \in {session[s].socket, "closed"}
  BY <1>2 DEF OneOfFour, TransferEnded, TransferContinued, KickEnded, OtherSent
<1>7. n.file.mode = "out" => n.file = session[s].file
  <2>1. ReadChunk(session[s].file).mode # "out"
    BY <1>1, OwnFile DEF ReadChunk, FileState
  <2>2. Closed.mode = "closed"
    BY DEF Closed
  <2>3. QED
    BY <1>2, <2>1, <2>2 DEF OneOfFour, TransferEnded, TransferContinued, KickEnded, OtherSent
<1>8. ASSUME NoAnswer(pm[s].queue)
      PROVE  NoAnswer(m.queue) /\ Sent(s).type \notin Answer
  <2>1. NoAnswer(Tail(pm[s].queue)) /\ Sent(s).type \notin Answer
    BY <1>5, <1>8, NoAnswerSent
  <2>2. m.queue = Tail(pm[s].queue)
    BY <1>2, <2>1 DEF OneOfFour, TransferEnded, TransferContinued, KickEnded, OtherSent, Answer
  <2>3. QED
    BY <2>1, <2>2
<1>9. QED
  BY <1>1, <1>2, <1>3, <1>4, <1>5, <1>6, <1>7, <1>8 DEF Alone, SameStanding, Writing

-----------------------------------------------------------------------------
(* What stays true of a session                                              *)

\* The session does nothing any more.
Gone(c) ==
    /\ c \notin waiting
    /\ \/ session[c].socket = "closed"
       \/ c \notin sessiones /\ pm[c].reads = 0 /\ pm[c].writes = <<>>

LEMMA GoneStays ==
    ASSUME IInv, NEW s \in Session, Heard(s) \/ Alone(s), NEW c \in Session, Gone(c)
    PROVE  Gone(c)'
<1>1. CASE Heard(s)
  BY <1>1 DEF Heard, Gone
<1>2. CASE Alone(s)
  <2>1. CASE c # s
    BY <1>2, <2>1 DEF Alone, Gone
  <2>2. CASE c = s
    <3>1. session[c].socket = "closed"
      BY <1>2, <2>2 DEF Alone, Gone
    <3>2. QED
      BY <1>2, <2>2, <3>1 DEF Alone, Gone
  <2>3. QED
    BY <2>1, <2>2
<1>3. QED
  BY <1>1, <1>2

\* A session that stores a file is registered and gets one.
Storing == \A c \in Session : Uploads(c) => client[c].uploading /\ session[c].registered

\* Any packet that is received is heard, and so is what is left alone.
Receives(s) ==
    \/ UserInfo(s) \/ RejectUnregistered(s) \/ Unexpected(s) \/ MessageChat(s) \/ UpdateWriteRate(s)
    \/ \E f \in Path : FileDataHeader(s, f) \/ FileDownloadRequest(s, f) \/ FileDeleteRequest(s, f)
    \/ FileDataChunk(s) \/ FileDataEnd(s)

LEMMA ReceivesHeard ==
    ASSUME IInv, NEW s \in Session, Receives(s)
    PROVE  Heard(s)
<1>1. CASE \/ UserInfo(s) \/ Unexpected(s) \/ MessageChat(s)
           \/ UpdateWriteRate(s) \/ \E f \in Path : FileDeleteRequest(s, f)
  <2>1. HeardQuietly(s)
    BY <1>1, UserInfoHeard, UnexpectedHeard, MessageChatHeard, FileDeleteRequestHeard
  <2>2. QED
    BY <2>1 DEF HeardQuietly
<1>2. CASE \/ \E f \in Path : FileDataHeader(s, f) \/ FileDownloadRequest(s, f)
           \/ FileDataChunk(s) \/ FileDataEnd(s) \/ RejectUnregistered(s)
  BY <1>2, FileDataHeaderHeard, FileDownloadRequestHeard, FileDataChunkHeard, FileDataEndHeard,
     RejectHeard
<1>3. QED
  BY <1>1, <1>2 DEF Receives

\* A step is one of a session that hears a packet, or of one alone.
LEMMA HeardOrAlone ==
    ASSUME IInv, Next
    PROVE  \E s \in Session : \/ Receives(s) /\ Heard(s)
                              \/ /\ Accept(s) \/ WriteSucceeds(s) \/ WriteFails(s) \/ ReadFails(s) \/ ReadStops(s)
                                 /\ Alone(s)
<1>1. PICK s \in Session : \/ Receives(s)
                           \/ Accept(s) \/ WriteSucceeds(s) \/ WriteFails(s) \/ ReadFails(s) \/ ReadStops(s)
  BY DEF Next, Receives
<1>2. QED
  BY <1>1, ReceivesHeard, AcceptAlone, WriteSucceedsAlone, LeavesAlone

-----------------------------------------------------------------------------
(* An upload that is stored is one its client is in *)

\* A greeting is not taken back.
LEMMA RegisteredStays ==
    ASSUME IInv, Next, NEW c \in Session, session[c].registered
    PROVE  session'[c].registered
<1>1. TypeOK /\ session[c] \in SessionState
  BY DEF IInv, TypeOK
<1>2. PICK s \in Session : \/ Receives(s)
                           \/ Accept(s) \/ WriteSucceeds(s) \/ WriteFails(s) \/ ReadFails(s) \/ ReadStops(s)
  BY DEF Next, Receives
<1>3. CASE Accept(s) \/ WriteFails(s) \/ ReadFails(s) \/ ReadStops(s)
  <2>1. CASE session' = [session EXCEPT ![s].socket = "open"]
    BY <1>1, <2>1 DEF TypeOK, SessionState
  <2>2. CASE session' = [session EXCEPT ![s] = [session[s] EXCEPT !.file = Closed]]
    BY <1>1, <2>2 DEF TypeOK, SessionState
  <2>3. CASE session' = session
    BY <2>3
  <2>4. QED
    BY <1>3, <2>1, <2>2, <2>3 DEF Accept, OnConnect, WriteFails, ReadFails, ReadStops, OnDisconnect
<1>4. CASE WriteSucceeds(s)
  <2>1. PICK n \in SessionState : session' = [session EXCEPT ![s] = n] /\ n.registered = session[s].registered
    BY <1>4, WriteSucceedsEffect DEF SameStanding
  <2>2. QED
    BY <1>1, <2>1 DEF TypeOK
<1>5. CASE Receives(s)
  <2>1. CASE session' = session
    BY <2>1
  <2>2. CASE Kick(s)
    BY <1>1, <2>2 DEF Kick, TypeOK, SessionState
  <2>3. CASE session' = [session EXCEPT ![s].registered = TRUE]
    BY <1>1, <2>3 DEF TypeOK, SessionState
  <2>4. CASE session' = [session EXCEPT ![s] = NewChatText(s)]
    BY <1>1, <2>4, NewChatTextStanding DEF SameStanding, TypeOK
  <2>5. ASSUME NEW f \in Path, FileDataHeader(s, f), ~Kick(s)
        PROVE  session'[c].registered
    <3> DEFINE g == [mode |-> "out", path |-> NewFilePath(f), pos |-> 0]
    <3>1. session' = [session EXCEPT ![s] = [NewChatText(s) EXCEPT !.fileEdit = TRUE, !.filename = f, !.file = g]]
      BY <2>5 DEF FileDataHeader
    <3>2. NewChatText(s) \in SessionState /\ NewChatText(s).registered = session[s].registered
      BY <1>1, MembersOfAnnounce, NewChatTextStanding DEF SameStanding
    <3> HIDE DEF g
    <3>3. [NewChatText(s) EXCEPT !.fileEdit = TRUE, !.filename = f, !.file = g].registered = session[s].registered
      BY <3>2 DEF SessionState
    <3>4. QED
      BY <1>1, <3>1, <3>3 DEF TypeOK
  <2>6. CASE \E f \in Path : FileDownloadRequest(s, f)
    BY <1>1, <2>2, <2>6 DEF FileDownloadRequest, RefuseRequest, TypeOK, SessionState
  <2>7. CASE FileDataChunk(s)
    <3>1. CASE session' = [session EXCEPT ![s].file.pos = @ + 1]
      BY <1>1, <3>1 DEF TypeOK, SessionState
    <3>2. CASE session' = [session EXCEPT ![s].file.mode = "bad"]
      BY <1>1, <3>2 DEF TypeOK, SessionState
    <3>3. QED
      BY <2>1, <2>7, <3>1, <3>2 DEF FileDataChunk
  <2>8. CASE FileDataEnd(s)
    BY <1>1, <2>8 DEF FileDataEnd, TypeOK, SessionState
  <2>9. CASE \E f \in Path : FileDeleteRequest(s, f)
    BY <2>1, <2>4, <2>9 DEF FileDeleteRequest, RefuseRequest
  <2>10. CASE UserInfo(s) \/ RejectUnregistered(s) \/ Unexpected(s) \/ MessageChat(s) \/ UpdateWriteRate(s)
    BY <2>1, <2>2, <2>3, <2>4, <2>10 DEF UserInfo, RejectUnregistered, Rejects, Unexpected, MessageChat, UpdateWriteRate
  <2>11. QED
    BY <1>5, <2>2, <2>5, <2>6, <2>7, <2>8, <2>9, <2>10 DEF Receives
<1>6. QED
  BY <1>2, <1>3, <1>4, <1>5

LEMMA StoringKept ==
    ASSUME IInv, Storing, [Next]_vars
    PROVE  Storing'
<1>1. CASE UNCHANGED vars
  BY <1>1 DEF Storing, Uploads, vars
<1>2. SUFFICES ASSUME Next, NEW c \in Session, Uploads(c)' PROVE client'[c].uploading /\ session'[c].registered
  BY <1>1 DEF Storing
<1>3. CASE Uploads(c) /\ client'[c].uploading = client[c].uploading
  BY <1>2, <1>3, RegisteredStays DEF Storing
<1>4. ASSUME NEW s \in Session, Receives(s), Heard(s)
      PROVE  client'[c].uploading /\ session'[c].registered
  <2>1. CASE c # s \/ HeardQuietly(s)
    BY <1>2, <1>3, <1>4, <2>1 DEF Heard, HeardQuietly, Uploads
  <2>2. CASE c = s /\ ~HeardQuietly(s)
    <3>1. \/ \E f \in Path : FileDataHeader(s, f) \/ FileDownloadRequest(s, f)
          \/ FileDataChunk(s) \/ FileDataEnd(s) \/ RejectUnregistered(s)
      BY <1>4, <2>2, UserInfoHeard, UnexpectedHeard, MessageChatHeard, FileDeleteRequestHeard DEF Receives
    <3>2. CASE \E f \in Path : FileDataHeader(s, f)
      <4>1. session[s].registered
        BY <3>2 DEF FileDataHeader, ArrivesRegistered
      <4>2. QED
        BY <1>2, <2>2, <3>2, <4>1, FileDataHeaderHeard, RegisteredStays
    <3>3. CASE \E f \in Path : FileDownloadRequest(s, f)
      BY <1>2, <1>3, <2>2, <3>3, FileDownloadRequestHeard DEF Uploads
    <3>4. CASE FileDataChunk(s)
      <4>1. session[s].registered
        BY <3>4 DEF FileDataChunk, ArrivesRegistered
      <4>2. QED
        BY <1>2, <2>2, <3>4, <4>1, FileDataChunkHeard, RegisteredStays
    <3>5. CASE FileDataEnd(s)
      BY <1>2, <2>2, <3>5, FileDataEndHeard DEF Uploads
    <3>6. CASE RejectUnregistered(s)
      BY <1>2, <2>2, <3>6, RejectHeard DEF RejectUnregistered, Rejects, Storing, Uploads
    <3>7. QED
      BY <3>1, <3>2, <3>3, <3>4, <3>5, <3>6
  <2>3. QED
    BY <2>1, <2>2
<1>5. ASSUME NEW s \in Session, Alone(s)
      PROVE  client'[c].uploading /\ session'[c].registered
  <2>1. client' = client /\ session'[c].file = session[c].file
    BY <1>2, <1>5 DEF Alone, Uploads
  <2>2. QED
    BY <1>2, <1>3, <2>1 DEF Uploads
<1>6. QED
  BY <1>2, <1>4, <1>5, HeardOrAlone

-----------------------------------------------------------------------------
(* A session that was told to leave does not end a transfer early *)

\* The message it leaves with is queued, and no end is before it that is not due.
KickFirst(q, rest) ==
    \E k \in 1..Len(q) :
        /\ q[k].type = "MessageInfo"
        /\ \A i \in 1..(k - 1) : q[i] = EndPacket => rest = 0 /\ \A j \in 1..(i - 1) : ~IsPart(q[j])

LEMMA KickFirstExtends ==
    ASSUME NEW q \in Seq(SentPacket), NEW r, Extends(q, r), NEW rest, KickFirst(q, rest)
    PROVE  KickFirst(r, rest)
<1>1. PICK k \in 1..Len(q) :
        /\ q[k].type = "MessageInfo"
        /\ \A i \in 1..(k - 1) : q[i] = EndPacket => rest = 0 /\ \A j \in 1..(i - 1) : ~IsPart(q[j])
  BY DEF KickFirst
<1>2. /\ Len(q) \in Nat /\ Len(r) \in Nat /\ Len(q) <= Len(r)
      /\ \A i \in 1..Len(q) : r[i] = q[i]
  BY DEF Extends
<1>3. k \in 1..Len(r) /\ r[k].type = "MessageInfo"
  BY <1>1, <1>2
<1>4. ASSUME NEW i \in 1..(k - 1), r[i] = EndPacket
      PROVE  rest = 0 /\ \A j \in 1..(i - 1) : ~IsPart(r[j])
  <2>1. i \in 1..Len(q) /\ \A j \in 1..(i - 1) : j \in 1..Len(q)
    BY <1>2
  <2>2. QED
    BY <1>1, <1>2, <1>4, <2>1
<1>5. QED
  BY <1>3, <1>4 DEF KickFirst

LEMMA KickFirstQueued ==
    ASSUME NEW q \in Seq(SentPacket), NEW s \in Session, NEW rest, EndsAreDue(q, rest)
    PROVE  KickFirst(Append(q, KickPacket(s)), rest)
<1> DEFINE r == Append(q, KickPacket(s))
<1>1. /\ Len(q) \in Nat
      /\ Len(r) = Len(q) + 1
      /\ \A i \in 1..Len(q) : r[i] = q[i]
      /\ r[Len(q) + 1] = KickPacket(s)
  BY PacketsAreSent, Appended
<1> HIDE DEF r
<1>2. Len(q) + 1 \in 1..Len(r) /\ r[Len(q) + 1].type = "MessageInfo"
  BY <1>1 DEF KickPacket
<1>3. ASSUME NEW i \in 1..((Len(q) + 1) - 1), r[i] = EndPacket
      PROVE  rest = 0 /\ \A j \in 1..(i - 1) : ~IsPart(r[j])
  <2>1. i \in 1..Len(q) /\ \A j \in 1..(i - 1) : j \in 1..Len(q)
    BY <1>1
  <2>2. QED
    BY <1>1, <1>3, <2>1 DEF EndsAreDue
<1>4. QED
  BY <1>2, <1>3 DEF KickFirst, r

\* A packet before the message is sent.
LEMMA KickFirstSent ==
    ASSUME NEW q \in Seq(SentPacket), q # <<>>, Head(q).type # "MessageInfo",
           NEW rest, NEW left, IsPart(Head(q)) \/ left = rest, KickFirst(q, rest)
    PROVE  KickFirst(Tail(q), left)
<1> DEFINE r == Tail(q)
<1>1. /\ Len(q) \in Nat \ {0}
      /\ Len(r) = Len(q) - 1
      /\ \A i \in 1..Len(r) : r[i] = q[i + 1]
      /\ Head(q) = q[1]
  BY Popped
<1> HIDE DEF r
<1>2. PICK k \in 1..Len(q) :
        /\ q[k].type = "MessageInfo"
        /\ \A i \in 1..(k - 1) : q[i] = EndPacket => rest = 0 /\ \A j \in 1..(i - 1) : ~IsPart(q[j])
  BY DEF KickFirst
<1>3. k \in Int /\ k # 1
  BY <1>1, <1>2
<1>4. k - 1 \in 1..Len(r) /\ r[k - 1].type = "MessageInfo"
  <2>1. k - 1 \in 1..Len(r) /\ (k - 1) + 1 = k
    BY <1>1, <1>3
  <2>2. r[k - 1] = q[(k - 1) + 1]
    BY <1>1, <2>1
  <2>3. QED
    BY <1>2, <2>1, <2>2
<1>5. ASSUME NEW i \in 1..((k - 1) - 1), r[i] = EndPacket
      PROVE  left = 0 /\ \A j \in 1..(i - 1) : ~IsPart(r[j])
  <2>1. i \in 1..Len(r) /\ i + 1 \in 1..(k - 1)
    BY <1>1, <1>3
  <2>2. rest = 0 /\ \A j \in 1..((i + 1) - 1) : ~IsPart(q[j])
    BY <1>1, <1>2, <1>5, <2>1
  <2>3. ~IsPart(q[1])
    BY <2>1, <2>2
  <2>4. \A j \in 1..(i - 1) : j \in 1..Len(r) /\ j + 1 \in 1..((i + 1) - 1)
    BY <2>1
  <2>5. QED
    BY <1>1, <2>2, <2>3, <2>4
<1>6. QED
  BY <1>4, <1>5 DEF KickFirst, r

Leaving(c) ==
    session[c].disconnecting /\ session[c].socket = "open" => KickFirst(pm[c].queue, owed[c])
LeavingInv == \A c \in Session : Leaving(c)

LEMMA LeavingHeard ==
    ASSUME IInv, DownloadInv, LeavingInv, NEW s \in Session, Heard(s)
    PROVE  LeavingInv'
<1>1. SUFFICES ASSUME NEW c \in Session, session'[c].disconnecting, session'[c].socket = "open"
               PROVE  KickFirst(pm'[c].queue, owed[c])
  BY DEF Heard, LeavingInv, Leaving
<1>2. /\ TypeOK /\ Managers(pm)
      /\ pm[c].queue \in Seq(SentPacket)
      /\ session[c].socket = "open"
      /\ Extends(pm[c].queue, pm'[c].queue)
  BY <1>1 DEF IInv, Managers, PmType, Heard
<1>3. CASE session[c].disconnecting
  BY <1>2, <1>3, KickFirstExtends DEF LeavingInv, Leaving
<1>4. CASE ~session[c].disconnecting
  <2>1. c = s /\ Kick(s)
    BY <1>1, <1>4 DEF Heard
  <2>2. EndsAreDue(pm[s].queue, owed[s])
    BY <1>4, <2>1 DEF DownloadInv, Whole, Transfer
  <2>3. pm'[s].queue = Append(pm[s].queue, KickPacket(s))
    <3> DEFINE S == {s}
    <3>1. pm' = QueueTo(pm, S, KickPacket(s)) /\ s \in S
      BY <2>1 DEF Kick
    <3> HIDE DEF S
    <3>2. QED
      BY <1>2, <2>1, <3>1, PacketsAreSent, QueuedFor
  <2>4. QED
    BY <1>2, <2>1, <2>2, <2>3, KickFirstQueued
<1>5. QED
  BY <1>3, <1>4

LEMMA LeavingAlone ==
    ASSUME IInv, LeavingInv, NEW s \in Session, Alone(s),
           Accept(s) \/ WriteSucceeds(s) \/ WriteFails(s) \/ ReadFails(s) \/ ReadStops(s)
    PROVE  LeavingInv'
<1>1. SUFFICES ASSUME NEW c \in Session, session'[c].disconnecting, session'[c].socket = "open"
               PROVE  KickFirst(pm'[c].queue, owed'[c])
  BY DEF LeavingInv, Leaving
<1>2. CASE c # s
  BY <1>1, <1>2 DEF Alone, LeavingInv, Leaving
<1>3. CASE c = s /\ Accept(s)
  BY <1>1, <1>3, AcceptAlone
<1>4. CASE c = s /\ (WriteFails(s) \/ ReadFails(s) \/ ReadStops(s))
  <2>1. pm'[s].queue = pm[s].queue /\ owed' = owed
    BY <1>4, LeavesAlone
  <2>2. session[s].disconnecting /\ session[s].socket = "open"
    <3>1. s \notin waiting
      BY <1>4, PendingIsAccepted DEF WriteFails, ReadFails, ReadStops, Writing, Receiving
    <3>2. QED
      BY <1>1, <1>4, <3>1 DEF Alone
  <2>3. QED
    BY <1>4, <2>1, <2>2 DEF LeavingInv, Leaving
<1>5. CASE c = s /\ WriteSucceeds(s)
  <2>1. /\ TypeOK
        /\ pm \in [Session -> PmType]
        /\ Writing(s)
    BY <1>5 DEF IInv, Managers, WriteSucceeds
  <2>2. /\ s \notin waiting
        /\ pm[s].queue \in Seq(SentPacket) /\ pm[s].queue # <<>>
        /\ Sent(s) = Head(pm[s].queue)
    BY <2>1, SentIsFront
  <2>3. owed'[s] = OwedAfter(s)
    BY <1>5, WriteSucceedsAlone
  <2>4. PICK n \in SessionState, m \in PmType :
          /\ session' = [session EXCEPT ![s] = n]
          /\ pm' = [pm EXCEPT ![s] = m]
          /\ SameStanding(n, session[s])
          /\ OneOfFour(s, n, m)
    BY <1>5, WriteSucceedsEffect
  <2>5. session'[s] = n /\ pm'[s] = m
    BY <2>1, <2>4 DEF TypeOK
  <2>6. ~KickEnded(s, n, m)
    BY <1>1, <1>5, <2>5 DEF KickEnded
  <2>7. session[s].disconnecting /\ session[s].socket = "open"
    BY <1>1, <1>5, <2>2 DEF Alone
  <2>8. KickFirst(pm[s].queue, owed[s])
    BY <2>7 DEF LeavingInv, Leaving
  <2>9. Sent(s).type # "MessageInfo"
    <3>1. OnPacketSend(s, Sent(s), PM!PopSent(pm[s]))
      BY <1>5 DEF WriteSucceeds
    <3>2. ~KickEnds(s, PM!PopSent(pm[s]))
      <4>1. SUFFICES ASSUME KickEnds(s, PM!PopSent(pm[s])) PROVE FALSE
        OBVIOUS
      <4>2. session'[s].socket = "closed"
        BY <2>1, <4>1 DEF KickEnds, OnDisconnect, TypeOK, SessionState
      <4>3. QED
        BY <1>1, <1>5, <4>2
    <3>3. QED
      BY <2>7, <3>1, <3>2 DEF OnPacketSend
  <2>10. IsPart(Sent(s)) \/ OwedAfter(s) = owed[s]
    BY DEF IsPart, OwedAfter
  <2>11. KickFirst(Tail(pm[s].queue), OwedAfter(s))
    BY <2>2, <2>8, <2>9, <2>10, KickFirstSent
  <2>12. Tail(pm[s].queue) \in Seq(SentPacket)
    BY <2>2, Popped
  <2>13. Extends(Tail(pm[s].queue), m.queue)
    BY <2>4, <2>6, <2>12, PacketsAreSent, GrowsSame, GrowsAppend
       DEF OneOfFour, TransferEnded, TransferContinued, OtherSent, QueuedBehind, Grows
  <2>14. QED
    BY <1>5, <2>3, <2>5, <2>11, <2>12, <2>13, KickFirstExtends
<1>6. QED
  BY <1>2, <1>3, <1>4, <1>5

LEMMA LeavingKept ==
    ASSUME IInv, DownloadInv, LeavingInv, [Next]_vars
    PROVE  LeavingInv'
<1>1. CASE UNCHANGED vars
  BY <1>1 DEF LeavingInv, Leaving, vars
<1>2. CASE Next
  BY <1>2, HeardOrAlone, LeavingHeard, LeavingAlone
<1>3. QED
  BY <1>1, <1>2

\* A download ends when nothing is owed, on every connection that is open.
LEMMA EndIsDue ==
    ASSUME IInv, DownloadInv, LeavingInv, NEW s \in Session, Writing(s), Sent(s) = EndPacket,
           session[s].socket = "open"
    PROVE  owed[s] = 0
<1>1. /\ pm[s].queue \in Seq(SentPacket)
      /\ pm[s].queue # <<>>
      /\ EndPacket = Head(pm[s].queue)
  BY SentIsFront
<1>2. /\ pm[s].queue[1] = EndPacket
      /\ Len(pm[s].queue) \in Nat
      /\ 1 \in 1..Len(pm[s].queue)
  BY <1>1, Popped
<1>3. CASE ~session[s].disconnecting
  BY <1>2, <1>3 DEF DownloadInv, Whole, Transfer, EndsAreDue
<1>4. CASE session[s].disconnecting
  <2>1. PICK k \in 1..Len(pm[s].queue) :
          /\ pm[s].queue[k].type = "MessageInfo"
          /\ \A i \in 1..(k - 1) : pm[s].queue[i] = EndPacket => owed[s] = 0
    BY <1>4 DEF LeavingInv, Leaving, KickFirst
  <2>2. k # 1
    BY <1>2, <2>1 DEF EndPacket
  <2>3. 1 \in 1..(k - 1)
    BY <1>2, <2>2
  <2>4. QED
    BY <1>2, <2>1, <2>3
<1>5. QED
  BY <1>3, <1>4

-----------------------------------------------------------------------------
(* The theorem *)

\* onPacketSend: each part that was written is answered with the next, so the
\* end is written when, and not before, the chunks the header promised are,
\* whatever else is queued, deleted, uploaded or lost meanwhile, and also on
\* the way out of a session that was kicked.
THEOREM DownloadsAreWhole == Spec => []DownloadIsWhole
<1>1. IInv /\ DownloadInv /\ LeavingInv => DownloadIsWhole
  BY EndIsDue DEF DownloadIsWhole
<1>2. Spec => []DownloadInv
  BY DownloadInit, DownloadNext, Invariance, PTL DEF Spec
<1>3. Init => LeavingInv
  BY DEF Init, NewSession, LeavingInv, Leaving
<1>4. Spec => []LeavingInv
  BY <1>2, <1>3, LeavingKept, Invariance, PTL DEF Spec
<1>5. QED
  BY <1>1, <1>2, <1>4, Invariance, PTL
=============================================================================
