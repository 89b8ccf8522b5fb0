------------------------------- MODULE Server -------------------------------
(***************************************************************************)
(* The server: the list of sessions, what a Session does with each packet  *)
(* it receives or has sent, and the directory of uploaded files.  Every    *)
(* session holds a packet manager (PacketManagerState).  The server runs   *)
(* on one thread, so a handler is one step.                                *)
(*                                                                         *)
(* The clients are those of src/client: a client greets once, not always   *)
(* before its user sends something, and the packets of an upload come in   *)
(* the order header, chunks, end.  A packet was sent before it is          *)
(* received, so a request may reach a session whose state the client does  *)
(* not know yet.                                                           *)
(*                                                                         *)
(* Windows is the supported platform: removing a file that some session    *)
(* has open throws, and an exception out of a handler ends main.           *)
(*                                                                         *)
(* Sizes are counted in chunks.  The pacing waits of doSend are not        *)
(* modelled here, they only lengthen a write (see PacketManager).  Opening *)
(* and reading a file that exists succeeds.  Definitions marked Mutation   *)
(* are explained in PacketManagerState.                                    *)
(***************************************************************************)
EXTENDS Integers, Sequences, FiniteSets

CONSTANTS
    Session,    \* the connections accepted in a behaviour
    Name,       \* the names of uploaded files, without "-cpy"
    Stored,     \* the files of the directory when the server starts
    Inputs,     \* the types of packets the clients send
    MaxCopies,  \* bound: "-cpy" in a name
    MaxChunks,  \* bound: chunks of an uploaded file
    MaxInputs,  \* bound: packets received, the greetings not counted
    MaxListed   \* files in a list of c_max_packet_size

InputType ==
    {"MessageChat", "FileDataHeader", "FileDataChunk", "FileDataEnd",
     "FileDownloadRequest", "FileDeleteRequest", "UpdateWriteRate", "WrongPassword", "Unexpected"}

ASSUME InputsAssumption == Inputs \subseteq InputType
ASSUME BoundAssumption ==
    MaxCopies \in Nat /\ MaxChunks \in Nat /\ MaxInputs \in Nat /\ MaxListed \in Nat

\* A file name: n with k times "-cpy" before the last dot, and the empty one.
Path == Name \X (0..MaxCopies)
ASSUME StoredAssumption == Stored \subseteq Path
NoPath == <<>>
NoFile == -1

\* A packet is its type and what the properties need of its content: the
\* session a chat packet belongs to or a kick is for, the names in a list.
PacketType ==
    {"MessageChat", "MessageInfo", "FileUploadList", "FileDataHeader", "FileDataChunk",
     "FileDataEnd"}
Packet == [type : PacketType, body : SUBSET (Path \cup Session)]

ChatPacket(s) == [type |-> "MessageChat", body |-> {s}]
InfoPacket == [type |-> "MessageInfo", body |-> {}]
KickPacket(s) == [type |-> "MessageInfo", body |-> {s}]
ListPacket(files) == [type |-> "FileUploadList", body |-> files]
HeaderPacket(path) == [type |-> "FileDataHeader", body |-> {path}]
ChunkPacket == [type |-> "FileDataChunk", body |-> {}]
EndPacket == [type |-> "FileDataEnd", body |-> {}]

TooLarge == {ListPacket(files) : files \in {f \in SUBSET Path : Cardinality(f) > MaxListed}}

PM == INSTANCE PacketManagerState WITH Oversized <- TooLarge

VARIABLES
    alive,      \* main has not left io_context::run
    waiting,    \* connections not accepted yet
    sessiones,  \* m_sessiones (spelled as in the code)
    session,    \* the members of every Session
    pm,         \* its m_packet_manager
    disk,       \* the upload directory: the size of every file, or NoFile
    client,     \* what every client has sent: its greeting, its upload
    inputs,     \* packets received, for the bound MaxInputs
    view,       \* history: the last list written to every client
    owed,       \* history: chunks every client still expects of a download
    finished    \* history: files whose upload came to its end

vars == <<alive, waiting, sessiones, session, pm, disk, client, inputs, view, owed, finished>>

Closed == [mode |-> "closed", path |-> NoPath, pos |-> 0]

NewSession ==
    [socket |-> "closed", registered |-> FALSE, disconnecting |-> FALSE,
     file |-> Closed, fileEdit |-> FALSE, filename |-> NoPath, fileSize |-> -1,
     chatText |-> 0]

Init ==
    /\ alive = TRUE
    /\ waiting = Session
    /\ sessiones = {}
    /\ session = [s \in Session |-> NewSession]
    /\ pm = [s \in Session |-> PM!NewPacketManager]
    /\ disk = [f \in Path |-> IF f \in Stored THEN MaxChunks ELSE NoFile]
    /\ client = [s \in Session |-> [greeted |-> FALSE, uploading |-> FALSE, chunks |-> 0]]
    /\ inputs = 0
    /\ view = [s \in Session |-> {}]
    /\ owed = [s \in Session |-> 0]
    /\ finished = {}

-----------------------------------------------------------------------------
(* Helpers of the server *)

\* Packet::isQueued of the chat packet of s.  PacketManager shows that the
\* counter behind it is the number of places the packet has in the queues.
IsQueued(s) ==
    \E c \in Session : \E i \in 1..Len(pm[c].queue) : pm[c].queue[i] = ChatPacket(s)

\* queuePacket on the packet managers of S.
QueueTo(pms, S, p) ==
    [c \in Session |-> IF c \in S THEN PM!QueuePacket(pms[c], session[c].socket, p)
                                  ELSE pms[c]]

BroadcastPacket(pms, p) == QueueTo(pms, sessiones, p)

\* Mutation: the list is read before the directory is changed.
BroadcastOldFileList(pms, files) ==
    BroadcastPacket(pms, ListPacket({f \in Path : disk[f] # NoFile}))

\* getFileList, and broadcastFileList with the directory as it is by then.
GetFileList(files) == {f \in Path : files[f] # NoFile}
BroadcastFileList(pms, files) == BroadcastPacket(pms, ListPacket(GetFileList(files)))

\* Mutation: m_file_edit is tested the wrong way round.
IsFileRead(f) == \E s \in sessiones : session[s].filename = f /\ ~session[s].fileEdit

IsFileOpened(f) == \E s \in sessiones : session[s].filename = f
IsFileEdited(f) == \E s \in sessiones : session[s].filename = f /\ session[s].fileEdit

FileExists(f) == disk[f] # NoFile

\* newFilePath (Mutation: the name as it came): add "-cpy" until the name is free.
FreeCopies(f) == {k \in f[2]..MaxCopies : ~FileExists(<<f[1], k>>)}
NewFilePathAsIs(f) == f
NewFilePath(f) == <<f[1], CHOOSE k \in FreeCopies(f) : \A j \in FreeCopies(f) : k <= j>>

\* Some session has the file open, whatever it calls it.
OpenSomewhere(path) ==
    \E s \in Session : session[s].file.mode # "closed" /\ session[s].file.path = path

IsOpen(s) == session[s].file.mode # "closed"

\* Mutation: the file stays open.
OnDisconnectKeepsFile(s, sess) ==
    /\ session' = [session EXCEPT ![s] = sess]
    /\ sessiones' = sessiones \ {s}

\* Session::onDisconnect.  The socket is not closed here.
OnDisconnect(s, sess) ==
    /\ session' = [session EXCEPT ![s] = [sess EXCEPT !.file = Closed]]
    /\ sessiones' = sessiones \ {s}

\* Mutation: the message is not queued.
KickSilently(s) ==
    /\ session' = [session EXCEPT ![s].disconnecting = TRUE]
    /\ UNCHANGED <<alive, sessiones, pm, disk, finished>>

\* Session::disconnect with a message.  The session is closed later, when
\* the message, or any other info packet, was sent.
Kick(s) ==
    /\ session' = [session EXCEPT ![s].disconnecting = TRUE]
    /\ pm' = QueueTo(pm, {s}, KickPacket(s))
    /\ UNCHANGED <<alive, sessiones, disk, finished>>

-----------------------------------------------------------------------------
(* Server::handleConnections and Session::onConnect *)

OnConnect(s) ==
    /\ session' = [session EXCEPT ![s].socket = "open"]
    /\ pm' = [pm EXCEPT ![s] = PM!StartReceive(@, "open")]
    /\ sessiones' = sessiones \cup {s}

Accept(s) ==
    /\ alive
    /\ s \in waiting
    /\ waiting' = waiting \ {s}
    /\ OnConnect(s)
    /\ UNCHANGED <<alive, disk, client, inputs, view, owed, finished>>

-----------------------------------------------------------------------------
(* Session::onPacketReceive, one action per case *)

Receiving(s) == alive /\ pm[s].reads > 0 /\ pm[s].recieveing

\* A client greets once.  Its user may send a packet before that, see Client.
UserInfo(s) ==
    /\ Receiving(s)
    /\ ~client[s].greeted
    /\ client' = [client EXCEPT ![s].greeted = TRUE]
    /\ \/ /\ session' = [session EXCEPT ![s].registered = TRUE]
          /\ pm' = QueueTo(pm, {s}, ListPacket(GetFileList(disk)))
          /\ UNCHANGED <<alive, sessiones, disk, finished>>
       \/ /\ "WrongPassword" \in Inputs
          /\ Kick(s)
    /\ UNCHANGED <<waiting, inputs, view, owed>>

\* Any other packet, within the bound MaxInputs.
Arrives(s, type) ==
    /\ type \in Inputs
    /\ Receiving(s)
    /\ inputs < MaxInputs
    /\ inputs' = inputs + 1
    /\ UNCHANGED <<waiting, view, owed>>

ArrivesRegistered(s, type) == Arrives(s, type) /\ session[s].registered

\* The packets of an upload, in their order; the rest of a client's packets
\* leave its upload alone.
ClientUploads(s, uploading, chunks) ==
    client' = [client EXCEPT ![s].uploading = uploading, ![s].chunks = chunks]

HeaderSent(s) == ~client[s].uploading /\ ClientUploads(s, TRUE, 0)
ChunkSent(s) ==
    /\ client[s].uploading /\ client[s].chunks < MaxChunks
    /\ ClientUploads(s, TRUE, client[s].chunks + 1)
EndSent(s) == client[s].uploading /\ ClientUploads(s, FALSE, 0)

\* Any packet but a greeting, before the session is registered.
Rejects(s, type) ==
    /\ Arrives(s, type)
    /\ ~session[s].registered
    /\ CASE type = "FileDataHeader" -> HeaderSent(s)
         [] type = "FileDataChunk"  -> ChunkSent(s)
         [] type = "FileDataEnd"    -> EndSent(s)
         [] OTHER                   -> UNCHANGED client
    /\ Kick(s)

RejectUnregistered(s) == \E type \in Inputs \ {"WrongPassword"} : Rejects(s, type)

\* A packet of a type the server does not expect, an empty one, and an
\* UpdateWriteRate of a wrong size.
Unexpected(s) ==
    /\ ArrivesRegistered(s, "Unexpected")
    /\ Kick(s)
    /\ UNCHANGED client

\* chatText tells apart a text of the chat packet and the one before it.
NewChatText(s) == [session[s] EXCEPT !.chatText = 1 - @]

MessageChat(s) ==
    /\ ArrivesRegistered(s, "MessageChat")
    /\ IF IsQueued(s)
         THEN UNCHANGED <<session, pm>>
         ELSE /\ session' = [session EXCEPT ![s] = NewChatText(s)]
              /\ pm' = BroadcastPacket(pm, ChatPacket(s))
    /\ UNCHANGED <<alive, sessiones, disk, client, finished>>

FileDataHeader(s, f) ==
    /\ ArrivesRegistered(s, "FileDataHeader")
    /\ HeaderSent(s)
    /\ \/ /\ IsOpen(s)
          /\ Kick(s)
       \/ /\ ~IsOpen(s)
          /\ FreeCopies(f) # {}
          /\ LET path == NewFilePath(f) IN
             /\ session' = [session EXCEPT ![s] =
                  [NewChatText(s) EXCEPT !.fileEdit = TRUE, !.filename = f,
                     !.file = [mode |-> "out", path |-> path, pos |-> 0]]]
             /\ disk' = [disk EXCEPT ![path] = 0]
             /\ pm' = BroadcastPacket(pm, ChatPacket(s))
          /\ UNCHANGED <<alive, sessiones, finished>>

\* Writing to a file that is open for reading only makes the stream bad.
FileDataChunk(s) ==
    /\ ArrivesRegistered(s, "FileDataChunk")
    /\ ChunkSent(s)
    /\ LET file == session[s].file IN
       \/ /\ file.mode = "out"
          /\ session' = [session EXCEPT ![s].file.pos = @ + 1]
          /\ disk' = [disk EXCEPT ![file.path] = @ + 1]
       \/ /\ file.mode = "in"
          /\ session' = [session EXCEPT ![s].file.mode = "bad"]
          /\ UNCHANGED disk
       \/ /\ file.mode \in {"closed", "bad"}
          /\ UNCHANGED <<session, disk>>
    /\ UNCHANGED <<alive, sessiones, pm, finished>>

FileDataEnd(s) ==
    /\ ArrivesRegistered(s, "FileDataEnd")
    /\ EndSent(s)
    /\ session' = [session EXCEPT ![s].file = Closed, ![s].fileEdit = FALSE,
                                  ![s].filename = NoPath]
    /\ pm' = BroadcastFileList(pm, disk)
    /\ finished' = IF session[s].file.mode = "out"
                     THEN finished \cup {session[s].file.path} ELSE finished
    /\ UNCHANGED <<alive, sessiones, disk>>

\* sendInfoMessage: not to the client that asked, but to everyone.
RefuseRequest ==
    /\ pm' = BroadcastPacket(pm, InfoPacket)
    /\ UNCHANGED <<alive, sessiones, session, disk, finished>>

FileDownloadRequest(s, f) ==
    /\ ArrivesRegistered(s, "FileDownloadRequest")
    /\ \/ /\ IsOpen(s)
          /\ Kick(s)
       \/ /\ ~IsOpen(s)
          /\ ~FileExists(f) \/ IsFileEdited(f)
          /\ RefuseRequest
       \/ /\ ~IsOpen(s)
          /\ FileExists(f) /\ ~IsFileEdited(f)
          /\ session' = [session EXCEPT ![s].filename = f, ![s].fileSize = disk[f],
                           ![s].file = [mode |-> "in", path |-> f, pos |-> 0]]
          /\ pm' = QueueTo(pm, {s}, HeaderPacket(f))
          /\ UNCHANGED <<alive, sessiones, disk, finished>>
    /\ UNCHANGED client

\* filesystem::remove throws when the file is open under another name.
FileDeleteRequest(s, f) ==
    /\ ArrivesRegistered(s, "FileDeleteRequest")
    /\ \/ /\ ~FileExists(f) \/ IsFileOpened(f)
          /\ RefuseRequest
       \/ /\ FileExists(f) /\ ~IsFileOpened(f) /\ OpenSomewhere(f)
          /\ alive' = FALSE
          /\ UNCHANGED <<sessiones, session, pm, disk, finished>>
       \/ /\ FileExists(f) /\ ~IsFileOpened(f) /\ ~OpenSomewhere(f)
          /\ LET files == [disk EXCEPT ![f] = NoFile] IN
             /\ disk' = files
             /\ pm' = BroadcastFileList(BroadcastPacket(pm, ChatPacket(s)), files)
          /\ session' = [session EXCEPT ![s] = NewChatText(s)]
          /\ finished' = finished \ {f}
          /\ UNCHANGED <<alive, sessiones>>
    /\ UNCHANGED client

\* The rate only matters to the pacing.
UpdateWriteRate(s) ==
    /\ ArrivesRegistered(s, "UpdateWriteRate")
    /\ UNCHANGED <<alive, sessiones, session, pm, disk, client, finished>>

-----------------------------------------------------------------------------
(* Completions of a write: Session::onPacketSend and what doSend does after *)

\* What a doSend handler does after the send handler; no pacing wait here.
Continue(m, socket) == CHOOSE n \in PM!AfterSent(m, socket) : n.waits = 0

\* The position and what remains (Mutation: one less).  tellg is -1 when the stream is closed or has failed.
Tell(s) == IF session[s].file.mode \in {"in", "out"} THEN session[s].file.pos ELSE -1
RemainingLess1(s) == session[s].fileSize - Tell(s) - 1
Remaining(s) == session[s].fileSize - Tell(s)

\* Reading moves the position, or fails the stream.
ReadChunk(file) ==
    CASE file.mode = "in"  -> [file EXCEPT !.pos = @ + 1]
      [] file.mode = "out" -> [file EXCEPT !.mode = "bad"]
      [] OTHER             -> file

\* s's packet manager m, after the send handler has queued p and returned.
ContinueWith(s, m, p) ==
    pm' = [pm EXCEPT ![s] = Continue(PM!QueuePacket(m, session[s].socket, p), session[s].socket)]

TransferEnds(s, m) ==
    /\ Remaining(s) = 0
    /\ ContinueWith(s, m, EndPacket)
    /\ session' = [session EXCEPT ![s].file = Closed, ![s].filename = NoPath]
    /\ UNCHANGED sessiones

TransferContinues(s, m) ==
    /\ Remaining(s) # 0
    /\ ContinueWith(s, m, ChunkPacket)
    /\ session' = [session EXCEPT ![s].file = ReadChunk(@)]
    /\ UNCHANGED sessiones

\* Mutation: no stopReceive.
KickEndsStillReceives(s, m) ==
    /\ pm' = [pm EXCEPT ![s] = Continue(m, "closed")]
    /\ OnDisconnect(s, [session[s] EXCEPT !.socket = "closed"])

KickEnds(s, m) ==
    /\ pm' = [pm EXCEPT ![s] = Continue(PM!StopReceive(m), "closed")]
    /\ OnDisconnect(s, [session[s] EXCEPT !.socket = "closed"])

OnPacketSend(s, sent, m) ==
    \/ /\ sent.type \in {"FileDataHeader", "FileDataChunk"}
       /\ TransferEnds(s, m) \/ TransferContinues(s, m)
    \/ /\ sent.type = "MessageInfo" /\ session[s].disconnecting
       /\ KickEnds(s, m)
    \/ /\ \/ sent.type \in {"MessageChat", "FileUploadList", "FileDataEnd"}
          \/ sent.type = "MessageInfo" /\ ~session[s].disconnecting
       /\ pm' = [pm EXCEPT ![s] = Continue(m, session[s].socket)]
       /\ UNCHANGED <<session, sessiones>>

\* The packet whose write is in flight.
Writing(s) == pm[s].writes # <<>>
Sent(s) == Head(pm[s].writes).packet

\* History: a header promises fileSize chunks, each chunk pays one.
OwedAfter(s) ==
    CASE Sent(s).type = "FileDataHeader" -> session[s].fileSize
      [] Sent(s).type = "FileDataChunk" /\ owed[s] >= 0 -> owed[s] - 1
      [] OTHER -> owed[s]

WriteSucceeds(s) ==
    /\ alive
    /\ Writing(s) /\ Head(pm[s].writes).on = "open"
    /\ OnPacketSend(s, Sent(s), PM!PopSent(pm[s]))
    /\ view' = IF Sent(s).type = "FileUploadList"
                 THEN [view EXCEPT ![s] = Sent(s).body] ELSE view
    /\ owed' = [owed EXCEPT ![s] = OwedAfter(s)]
    /\ UNCHANGED <<alive, waiting, disk, client, inputs, finished>>

WriteFails(s) ==
    /\ alive
    /\ Writing(s)
    /\ pm' = [pm EXCEPT ![s] = PM!SendFailed(@)]
    /\ OnDisconnect(s, session[s])
    /\ UNCHANGED <<alive, waiting, disk, client, inputs, view, owed, finished>>

-----------------------------------------------------------------------------
(* Completions of a read without a packet *)

ReadFails(s) ==
    /\ Receiving(s)
    /\ pm' = [pm EXCEPT ![s] = PM!EndReceive(@)]
    /\ OnDisconnect(s, session[s])
    /\ UNCHANGED <<alive, waiting, disk, client, inputs, view, owed, finished>>

ReadStops(s) ==
    /\ alive
    /\ pm[s].reads > 0 /\ ~pm[s].recieveing
    /\ pm' = [pm EXCEPT ![s] = PM!EndReceive(@)]
    /\ UNCHANGED <<alive, waiting, sessiones, session, disk, client, inputs, view, owed,
                   finished>>

-----------------------------------------------------------------------------
WriteCompletes(s) == WriteSucceeds(s) \/ WriteFails(s)

Next ==
    \E s \in Session :
        \/ Accept(s)
        \/ UserInfo(s)
        \/ RejectUnregistered(s)
        \/ Unexpected(s)
        \/ MessageChat(s)
        \/ \E f \in Path : \/ FileDataHeader(s, f)
                           \/ FileDownloadRequest(s, f)
                           \/ FileDeleteRequest(s, f)
        \/ FileDataChunk(s)
        \/ FileDataEnd(s)
        \/ UpdateWriteRate(s)
        \/ WriteSucceeds(s)
        \/ WriteFails(s)
        \/ ReadFails(s)
        \/ ReadStops(s)

Spec == Init /\ [][Next]_vars

\* As in PacketManager: a write that was started completes, one way or another.
FairSpec == Spec /\ \A s \in Session : WF_vars(WriteCompletes(s))

-----------------------------------------------------------------------------
(* Properties *)

FileState ==
    [mode : {"closed", "in", "out", "bad"}, path : Path \cup {NoPath}, pos : Nat]

SessionState ==
    [socket : {"open", "closed"}, registered : BOOLEAN, disconnecting : BOOLEAN,
     file : FileState, fileEdit : BOOLEAN, filename : Path \cup {NoPath},
     fileSize : Nat \cup {-1}, chatText : {0, 1}]

PmState ==
    [queue : Seq(Packet), sending : BOOLEAN,
     writes : Seq([packet : Packet, on : {"open", "closed"}]), waits : {0},
     recieveing : BOOLEAN, reads : 0..1]

\* Types of the variables; a session has at most one read pending, and no
\* packet manager waits (the pacing is left out).
TypeOK ==
    /\ alive \in BOOLEAN
    /\ waiting \subseteq Session /\ sessiones \subseteq Session
    /\ session \in [Session -> SessionState]
    /\ pm \in [Session -> PmState]
    /\ disk \in [Path -> Nat \cup {NoFile}]
    /\ client \in [Session -> [greeted : BOOLEAN, uploading : BOOLEAN, chunks : Nat]]
    /\ inputs \in 0..MaxInputs
    /\ view \in [Session -> SUBSET Path]
    /\ owed \in [Session -> Nat \cup {-1}]
    /\ finished \subseteq Path

\* Two uploads never write to the same file, and no upload writes to a file
\* that was deleted under it: newFilePath picks a name that is free, and
\* the file stays in the directory while it is open.
Uploads(s) == session[s].file.mode = "out"

WriterExclusive ==
    \A s \in Session : Uploads(s) =>
        /\ FileExists(session[s].file.path)
        /\ \A t \in Session \ {s} :
             Uploads(t) => session[t].file.path # session[s].file.path

\* An upload that is stored under the name it was announced with is what
\* isFileEdited protects: no session has it open for a download.
OwnNameProtected ==
    \A s, t \in Session :
        Uploads(s) /\ session[s].file.path = session[s].filename =>
            ~(session[t].file.mode = "in" /\ session[t].file.path = session[s].filename)

\* A session that left the list, for whichever reason and how often it was
\* told so, has no file open, so it cannot block a delete for ever.
FilesReleased == \A s \in Session : IsOpen(s) => s \in sessiones

\* After the kick: a closed connection is off the list, so no broadcast
\* goes to it, and it hears nothing more.
ClosedIsGone ==
    \A s \in Session \ waiting :
        session[s].socket = "closed" => s \notin sessiones /\ ~pm[s].recieveing

\* A client that has seen every list there is to see knows the files whose
\* upload ended, and no file that was deleted: whatever the interleaving of
\* uploads, deletes and greetings, a change is followed by a list.
ListQueued(s) == \E i \in 1..Len(pm[s].queue) : pm[s].queue[i].type = "FileUploadList"

FileListFresh ==
    \A s \in sessiones :
        session[s].registered /\ ~ListQueued(s) =>
            finished \subseteq view[s] /\ view[s] \subseteq GetFileList(disk)

\* The end of a download is written when, and not before, the chunks the
\* header promised are: a session that is kicked during it is closed first.
DownloadIsWhole ==
    \A s \in Session :
        Writing(s) /\ Sent(s) = EndPacket /\ session[s].socket = "open" => owed[s] = 0

\* A session that was told to leave does leave the list: the kick rides on
\* the send queue, behind whatever a transfer puts there.
KickCompletes ==
    \A s \in Session :
        session[s].disconnecting /\ alive ~> s \notin sessiones \/ ~alive

\* The right to chat comes back, or a connection was lost meanwhile.
ChatFreed ==
    \A s \in Session :
        IsQueued(s) ~> \/ ~IsQueued(s)
                       \/ ~alive
                       \/ \E c \in Session \ waiting : c \notin sessiones

-----------------------------------------------------------------------------
(* What the README, a message or a comment says, and the code does not do. *)
(* A run checks the first; this project's README tells what TLC shows of   *)
(* the others.                                                             *)

\* "Broadcast chat for all connected users": a client may chat again after a
\* while, whatever happened to the others.
ChatComesBack == \A s \in Session : IsQueued(s) /\ s \in sessiones ~>
                                       ~IsQueued(s) \/ s \notin sessiones \/ ~alive

\* A chat packet's text stays while it is queued: what isQueued is asked for.
ChatTextStable ==
    [][\A s \in Session : session'[s].chatText # session[s].chatText => ~IsQueued(s)]_vars

\* "Requested file is currently beeing edited.": a file that is being
\* uploaded is not read.
NoReadWhileWritten ==
    \A s, t \in Session :
        Uploads(s) /\ session[t].file.mode = "in" =>
            session[s].file.path # session[t].file.path

\* "Could not delete file because it is currently opened.": a delete request
\* for an open file is refused and leaves the server running.
ServerSurvives == alive

\* "File list with name and size": a list that was queued is sent.
ListSent ==
    \A s \in Session : ListQueued(s) ~> ~ListQueued(s) \/ s \notin sessiones \/ ~alive
=============================================================================
