------------------------------- MODULE Client -------------------------------
(***************************************************************************)
(* The client's connection, as its two threads see it: the UI thread runs  *)
(* what the user does, the asio thread runs completion handlers.  Client   *)
(* keeps one socket and one m_packet_manager; a packet manager of an       *)
(* earlier connection lives on while operations of it are pending, and     *)
(* refers to the same socket.                                              *)
(*                                                                         *)
(* What one thread tests or sets and uses later is two steps, for the      *)
(* other thread comes in between: isConnected and the use of               *)
(* m_packet_manager in the UI thread, the three calls of disconnect,       *)
(* m_recieveing and the receive handler, and the calls of onConnect, which *)
(* has made m_packet_manager visible before.  Calls of a packet manager,   *)
(* the handlers and onDisconnect are one step each; ClientQueue cuts       *)
(* queuePacket and doSend finer.                                           *)
(*                                                                         *)
(* asio is external.  Closing the socket, or connecting it again, which    *)
(* closes it first, ends the reads and writes that are pending on it; they *)
(* complete before the new connection does, with their results if they had *)
(* one.  A timer is not ended.  When two connection attempts meet, the     *)
(* later one takes the socket over.  asio's one thread runs a handler to   *)
(* its end before the next.                                                *)
(*                                                                         *)
(* The server answers a download request with a header, chunks and an end  *)
(* and may send anything else at any time.  Sizes are counted in chunks.   *)
(***************************************************************************)
EXTENDS Integers, Sequences

CONSTANTS
    Connection,   \* bound: the connections made in a behaviour
    Acts,         \* what the user does
    MaxActs,      \* bound: acts of the user
    MaxChunks     \* bound: chunks of a file

\* What a user does to a connection: the first group asks isConnected first,
\* the second does not.
CheckedAct == {"Send", "Slider", "Drop", "Disconnect"}
UncheckedAct == {"Download", "Delete"}

ASSUME ActsAssumption == Acts \subseteq CheckedAct \cup UncheckedAct
ASSUME BoundAssumption == MaxActs \in Nat /\ MaxChunks \in Nat

NoPM == "none"
SocketState == Connection \cup {"opening", "closed"}

ASSUME ConnectionAssumption == Connection \cap {"opening", "closed", NoPM} = {}

PM == INSTANCE PacketManagerState WITH Oversized <- {}

VARIABLES
    socket,     \* m_socket: the connection it is, "opening" or "closed"
    resolving,  \* async_resolve operations pending
    connecting, \* an async_connect is pending
    made,       \* the connections made so far
    current,    \* m_packet_manager: the connection it was made for, or NoPM
    pms,        \* the packet managers
    file,       \* m_file: mode and position, and m_file_size
    fileList,   \* m_file_list is not empty
    selected,   \* selected_file is not empty
    doing,      \* the act of the UI thread, or the call of disconnect, that is next
    acts,       \* acts of the user, for the bound MaxActs
    handler,    \* what the asio thread does next, and the connection it is for
    server,     \* external: the downloads each connection's server owes
    crashed,    \* where a null m_packet_manager was used, or "no"
    crossed,    \* history: a packet manager of the past used the socket, or
                \* ended a connection that is not its own
    mixed,      \* history: m_file was taken from an upload or a download
    late        \* history: the UI thread's onDisconnect came before a packet
                \* was handled, or to a packet manager that receives

conn == <<socket, resolving, connecting, made>>
owned == <<current, file, fileList>>
user == <<selected, doing, acts>>
hist == <<server, crashed, crossed, mixed, late>>
vars == <<conn, owned, pms, user, handler, hist>>

Closed == [mode |-> "closed", pos |-> 0]
Nothing == [does |-> "nothing", of |-> NoPM]

Init ==
    /\ socket = "closed" /\ resolving = 0 /\ connecting = FALSE
    /\ made = {} /\ current = NoPM
    /\ pms = [n \in Connection |-> PM!NewPacketManager]
    /\ file = [stream |-> Closed, size |-> -1]
    /\ fileList = FALSE /\ selected = FALSE
    /\ doing = "nothing" /\ acts = 0
    /\ handler = Nothing
    /\ server = [n \in Connection |-> [requests |-> 0, sending |-> FALSE]]
    /\ crashed = "no" /\ crossed = FALSE /\ mixed = FALSE /\ late = FALSE

-----------------------------------------------------------------------------
(* Helpers *)

Running == crashed = "no"

\* The asio thread: it may begin a handler, it goes on with one, it leaves one.
Idle == Running /\ handler = Nothing
At(step, n) == Running /\ handler = [does |-> step, of |-> n]
Goto(step, n) == handler' = [does |-> step, of |-> n]

\* While a connection is being opened is_open is true, and a write fails.
IsConnected == current # NoPM /\ socket # "closed"
IsLoadingFile == file.stream.mode # "closed" /\ IsConnected

\* m_chat_packet->isQueued(): the one object may be in the queue of any
\* packet manager, also of one that is done.
InQueue(p, n) == \E i \in 1..Len(pms[n].queue) : pms[n].queue[i] = p
ChatIsQueued == \E n \in Connection : InQueue("MessageChat", n)

UploadQueued ==
    \E n \in Connection \cap {current} :
        InQueue("FileDataHeader", n) \/ InQueue("FileDataChunk", n)

\* m_file is opened, for an upload or a download.
OpenFile(mode) ==
    /\ \E chunks \in 0..MaxChunks :
         file' = [stream |-> [mode |-> mode, pos |-> 0], size |-> chunks]
    /\ mixed' = \/ mixed
                \/ file.stream.mode \notin {"closed", mode}
                \/ (mode = "out" /\ UploadQueued)

QueueOn(n, p) == [pms EXCEPT ![n] = PM!QueuePacket(@, socket, p)]

\* A packet manager that is not the client's any more writes to a socket
\* that was opened again.
Foreign ==
    \E n \in Connection \ {current} : \E i \in 1..Len(pms[n].writes) :
        pms[n].writes[i].on \notin {n, "closed"}

Crossing == crossed' = (crossed \/ Foreign')

\* Mutation: m_file stays open.
OnDisconnectKeepsFile ==
    /\ current' = NoPM
    /\ fileList' = FALSE
    /\ UNCHANGED file

\* Client::onDisconnect, whichever packet manager reports it.
OnDisconnect ==
    /\ current' = NoPM
    /\ fileList' = FALSE
    /\ file' = [file EXCEPT !.stream = Closed]

-----------------------------------------------------------------------------
(* Connecting *)

Connect ==
    /\ Running /\ doing = "nothing"
    /\ ~IsConnected
    /\ acts < MaxActs
    /\ acts' = acts + 1
    /\ resolving' = resolving + 1
    /\ UNCHANGED <<socket, connecting, made, selected, doing, owned, pms, handler, hist>>

ResolveFails ==
    /\ Idle
    /\ resolving > 0
    /\ resolving' = resolving - 1
    /\ UNCHANGED <<socket, connecting, made, owned, pms, user, handler, hist>>

Resolved ==
    /\ Idle
    /\ resolving > 0
    /\ resolving' = resolving - 1
    /\ socket' = "opening"
    /\ connecting' = TRUE
    /\ UNCHANGED <<made, owned, pms, user, handler, hist>>

ConnectFails ==
    /\ Idle
    /\ connecting
    /\ connecting' = FALSE
    /\ UNCHANGED <<socket, resolving, made, owned, pms, user, handler, hist>>

\* An operation that the closing of its socket has ended.
Ended(n) == socket # n /\ (pms[n].writes # <<>> \/ pms[n].reads > 0)

\* Client::onConnect begins: the new packet manager is the client's.
Connected(n) ==
    /\ Idle
    /\ connecting /\ socket = "opening" /\ n \notin made
    /\ \A m \in Connection : ~Ended(m)
    /\ connecting' = FALSE
    /\ made' = made \cup {n}
    /\ socket' = n
    /\ current' = n
    /\ Goto("startReceive", n)
    /\ UNCHANGED <<resolving, file, fileList, pms, user, hist>>

OnlyConnects == UNCHANGED <<conn, owned, user, hist>>

\* Mutation: startReceive is called twice.
StartsReceivingTwice(n) ==
    /\ At("startReceive", n) /\ current = n
    /\ pms' = [pms EXCEPT ![n] = PM!StartReceive(PM!StartReceive(@, "open"), "open")]
    /\ Goto("greet", n)
    /\ OnlyConnects

StartsReceiving(n) ==
    /\ At("startReceive", n) /\ current = n
    /\ pms' = [pms EXCEPT ![n] =
                  PM!StartReceive(@, IF socket = "closed" THEN "closed" ELSE "open")]
    /\ Goto("greet", n)
    /\ OnlyConnects

\* The user may have queued packets before, or closed the socket.
Greets(n) ==
    /\ At("greet", n) /\ current = n
    /\ pms' = QueueOn(n, "UserInfo")
    /\ Goto("updateReadRate", n)
    /\ OnlyConnects

\* updateWriteRate and updateReadRate.
UpdatesRates(n) ==
    /\ At("updateReadRate", n) /\ current = n
    /\ pms' = QueueOn(n, "UpdateWriteRate")
    /\ handler' = Nothing
    /\ OnlyConnects

\* The UI thread has set m_packet_manager to null in between.
OnConnectHasNoManager(n) ==
    /\ \E step \in {"startReceive", "greet", "updateReadRate"} : At(step, n)
    /\ current = NoPM
    /\ crashed' = "onConnect"
    /\ UNCHANGED <<conn, owned, pms, user, handler, server, crossed, mixed, late>>

-----------------------------------------------------------------------------
(* The UI thread *)

Select ==
    /\ Running /\ doing = "nothing"
    /\ fileList /\ ~selected
    /\ selected' = TRUE
    /\ UNCHANGED <<doing, acts, conn, owned, pms, handler, hist>>

\* The search field was edited.
Unselect ==
    /\ Running /\ doing = "nothing"
    /\ selected
    /\ selected' = FALSE
    /\ UNCHANGED <<doing, acts, conn, owned, pms, handler, hist>>

\* Mutations: m_chat_packet->isQueued and isLoadingFile are not asked.
MayDoAlways(act) == IF act \in {"Download", "Delete"} THEN selected ELSE IsConnected

\* The condition under which the UI goes on to use the packet manager.
MayDo(act) ==
    CASE act = "Send"     -> IsConnected /\ ~ChatIsQueued
      [] act = "Drop"     -> IsConnected /\ ~IsLoadingFile
      [] act = "Download" -> selected /\ ~IsLoadingFile
      [] act = "Delete"   -> selected
      [] OTHER            -> IsConnected

Check(act) ==
    /\ Running /\ doing = "nothing"
    /\ acts < MaxActs
    /\ MayDo(act)
    /\ acts' = acts + 1
    /\ doing' = act
    /\ UNCHANGED <<selected, conn, owned, pms, handler, hist>>

\* The second part of an act starts here.
Uses(act) == Running /\ doing = act /\ doing' = "nothing"
OnlyQueues ==
    UNCHANGED <<conn, current, fileList, selected, acts, handler, server, crashed, crossed, late>>

\* Client::onDragDrop: the file is opened before the header is queued.
UseDrop ==
    /\ Uses("Drop") /\ current # NoPM
    /\ OpenFile("in")
    /\ pms' = QueueOn(current, "FileDataHeader")
    /\ OnlyQueues

\* The dropped path is no file that can be read: m_file is closed, also
\* under a download that has begun since the check.
UseDropFails ==
    /\ Uses("Drop")
    /\ file' = [file EXCEPT !.stream = Closed]
    /\ mixed' = (mixed \/ file.stream.mode # "closed")
    /\ UNCHANGED pms
    /\ OnlyQueues

\* One packet, from chatWindowSetup, fileWindowSetup or updateReadRate.
UseQueue(act, p) ==
    /\ Uses(act) /\ current # NoPM
    /\ pms' = QueueOn(current, p)
    /\ UNCHANGED <<file, mixed>>
    /\ OnlyQueues

\* Client::disconnect: stopReceive, close, onDisconnect.  The asio thread may
\* have ended the connection already, and may be opening the next.
UseDisconnect ==
    /\ Running /\ doing = "Disconnect" /\ current # NoPM
    /\ pms' = [pms EXCEPT ![current] = PM!StopReceive(@)]
    /\ doing' = "close"
    /\ UNCHANGED <<conn, owned, selected, acts, handler, hist>>

Close ==
    /\ Running /\ doing = "close"
    /\ socket' = "closed"
    /\ doing' = "onDisconnect"
    /\ UNCHANGED <<resolving, connecting, made, owned, pms, selected, acts, handler, hist>>

Leave ==
    /\ Uses("onDisconnect")
    /\ OnDisconnect
    /\ late' = (late \/ \E n \in Connection \cap {current} : pms[n].recieveing)
    /\ UNCHANGED <<conn, pms, selected, acts, handler, server, crashed, crossed, mixed>>

UseNull ==
    /\ Running /\ doing \in CheckedAct \cup UncheckedAct /\ current = NoPM
    /\ crashed' = IF doing \in CheckedAct THEN "checked act" ELSE "button"
    /\ UNCHANGED <<conn, owned, pms, user, handler, server, crossed, mixed, late>>

-----------------------------------------------------------------------------
(* Completions of writes: Client::onPacketSend *)

Sent(n) == Head(pms[n].writes).packet

\* m_send_handler of connection n's packet manager queues p on the current
\* one, then doSend goes on with n's queue; no pacing wait.
Continuations(managers, n) ==
    {[managers EXCEPT ![n] = m] : m \in PM!AfterSent(managers[n], socket)}
Popped(n) == [pms EXCEPT ![n] = PM!PopSent(@)]
SendsNext(n, p) ==
    pms' \in Continuations([Popped(n) EXCEPT ![current] = PM!QueuePacket(@, socket, p)], n)

Tell == IF file.stream.mode \in {"in", "out"} THEN file.stream.pos ELSE -1
Remaining == file.size - Tell

ReadChunk(stream) ==
    CASE stream.mode = "in"  -> [stream EXCEPT !.pos = @ + 1]
      [] stream.mode = "out" -> [stream EXCEPT !.mode = "bad"]
      [] OTHER               -> stream

WriteChunk(stream) ==
    CASE stream.mode = "out" -> [stream EXCEPT !.pos = @ + 1]
      [] stream.mode = "in"  -> [stream EXCEPT !.mode = "bad"]
      [] OTHER               -> stream

\* What reaches the server: a request makes it owe a download.
Serve(n) ==
    server' = IF Sent(n) = "FileDownloadRequest"
                THEN [server EXCEPT ![n].requests = @ + 1] ELSE server

Uploads(n) == Sent(n) \in {"FileDataHeader", "FileDataChunk"}

UploadGoesOn(n) ==
    /\ Uploads(n) /\ current # NoPM
    /\ \/ /\ Remaining = 0
          /\ SendsNext(n, "FileDataEnd")
          /\ file' = [file EXCEPT !.stream = Closed]
       \/ /\ Remaining # 0
          /\ SendsNext(n, "FileDataChunk")
          /\ file' = [file EXCEPT !.stream = ReadChunk(@)]
    /\ UNCHANGED crashed

UploadHasNoManager(n) ==
    /\ Uploads(n) /\ current = NoPM
    /\ crashed' = "send handler"
    /\ UNCHANGED <<file, pms>>

NothingToSend(n) ==
    /\ ~Uploads(n)
    /\ pms' \in Continuations(Popped(n), n)
    /\ UNCHANGED <<file, crashed>>

WriteSucceeds(n) ==
    /\ Idle
    /\ pms[n].writes # <<>> /\ Head(pms[n].writes).on \in Connection
    /\ UploadGoesOn(n) \/ UploadHasNoManager(n) \/ NothingToSend(n)
    /\ Serve(n)
    /\ UNCHANGED <<conn, current, fileList, user, handler, mixed, late>>
    /\ Crossing

WriteFails(n) ==
    /\ Idle
    /\ pms[n].writes # <<>>
    /\ pms' = [pms EXCEPT ![n] = PM!SendFailed(@)]
    /\ OnDisconnect
    /\ crossed' = (crossed \/ current \notin {n, NoPM})
    /\ UNCHANGED <<conn, user, handler, server, crashed, mixed, late>>

TimerFires(n) ==
    /\ Idle
    /\ pms[n].waits > 0
    /\ pms' = [pms EXCEPT ![n] = PM!TimerFired(@, socket)]
    /\ UNCHANGED <<conn, owned, user, handler, server, crashed, mixed, late>>
    /\ Crossing

-----------------------------------------------------------------------------
(* Completions of reads: m_recieveing is tested, then                       *)
(* Client::onPacketReceive runs.  Chat and info packets only add text to a  *)
(* window.                                                                  *)

Receives(n) == Idle /\ pms[n].reads > 0 /\ pms[n].recieveing

\* External: what the server may send.
Handled == {"FileUploadList", "FileDataHeader", "FileDataChunk", "FileDataEnd"}
MaySend(n, type) ==
    /\ type = "FileDataHeader" => server[n].requests > 0 /\ ~server[n].sending
    /\ type \in {"FileDataChunk", "FileDataEnd"} => server[n].sending
    /\ type = "FileDataChunk" /\ file.stream.mode = "out" => file.stream.pos < file.size

Arrives(n, type) ==
    /\ Receives(n)
    /\ MaySend(n, type)
    /\ Goto(type, n)
    /\ UNCHANGED <<conn, owned, pms, user, hist>>

\* The packet is handled, whatever became of the connection since the test.
Handles(n, type) ==
    /\ At(type, n)
    /\ handler' = Nothing
    /\ late' = (late \/ (current # n /\ ~pms[n].recieveing))
    /\ UNCHANGED <<conn, current, pms, user, crashed, crossed>>

HandlesList(n) ==
    /\ Handles(n, "FileUploadList")
    /\ \E files \in BOOLEAN : fileList' = files
    /\ UNCHANGED <<file, server, mixed>>

HandlesHeader(n) ==
    /\ Handles(n, "FileDataHeader")
    /\ server' = [server EXCEPT ![n] = [requests |-> @.requests - 1, sending |-> TRUE]]
    /\ OpenFile("out")
    /\ UNCHANGED fileList

HandlesChunk(n) ==
    /\ Handles(n, "FileDataChunk")
    /\ file' = [file EXCEPT !.stream = WriteChunk(@)]
    /\ UNCHANGED <<fileList, server, mixed>>

HandlesEnd(n) ==
    /\ Handles(n, "FileDataEnd")
    /\ server' = [server EXCEPT ![n].sending = FALSE]
    /\ file' = [file EXCEPT !.stream = Closed]
    /\ UNCHANGED <<fileList, mixed>>

ReadFails(n) ==
    /\ Receives(n)
    /\ pms' = [pms EXCEPT ![n] = PM!EndReceive(@)]
    /\ OnDisconnect
    /\ UNCHANGED <<conn, user, handler, hist>>

ReadStops(n) ==
    /\ Idle
    /\ pms[n].reads > 0 /\ ~pms[n].recieveing
    /\ pms' = [pms EXCEPT ![n] = PM!EndReceive(@)]
    /\ UNCHANGED <<conn, owned, user, handler, hist>>

-----------------------------------------------------------------------------
UiStep ==
    \/ Connect
    \/ Select
    \/ Unselect
    \/ \E act \in Acts : Check(act)
    \/ UseDrop
    \/ UseDropFails
    \/ UseQueue("Send", "MessageChat")
    \/ UseQueue("Slider", "UpdateWriteRate")
    \/ UseQueue("Download", "FileDownloadRequest")
    \/ UseQueue("Delete", "FileDeleteRequest")
    \/ UseDisconnect
    \/ Close
    \/ Leave
    \/ UseNull

Completion(n) ==
    \/ WriteSucceeds(n)
    \/ WriteFails(n)
    \/ TimerFires(n)
    \/ \E type \in Handled : Arrives(n, type)
    \/ ReadFails(n)
    \/ ReadStops(n)

\* The asio thread goes on with what it has begun.
Continues(n) ==
    \/ StartsReceiving(n)
    \/ Greets(n)
    \/ UpdatesRates(n)
    \/ OnConnectHasNoManager(n)
    \/ HandlesList(n)
    \/ HandlesHeader(n)
    \/ HandlesChunk(n)
    \/ HandlesEnd(n)

Next ==
    \/ UiStep
    \/ ResolveFails
    \/ Resolved
    \/ ConnectFails
    \/ \E n \in Connection : Connected(n) \/ Completion(n) \/ Continues(n)

Spec == Init /\ [][Next]_vars

\* Writes and timers complete, well or not, as in PacketManager; so does
\* what closing the socket has ended.  A handler that has begun goes on, and
\* asio runs what is ready in its turn, so that others do not keep a
\* completion from running for ever.  Nothing is assumed of the user, of the
\* server or of the connection attempts.
SendCompletes(n) == WriteSucceeds(n) \/ WriteFails(n) \/ TimerFires(n)

FairSpec ==
    Spec /\ \A n \in Connection : WF_vars(Continues(n)) /\ SF_vars(SendCompletes(n))

-----------------------------------------------------------------------------
(* Properties *)

PacketType ==
    {"UserInfo", "UpdateWriteRate", "MessageChat", "FileDataHeader", "FileDataChunk",
     "FileDataEnd", "FileDownloadRequest", "FileDeleteRequest"}

PmState ==
    [queue : Seq(PacketType), sending : BOOLEAN,
     writes : Seq([packet : PacketType, on : SocketState]), waits : Nat,
     recieveing : BOOLEAN, reads : 0..1]

\* Types of the variables.
TypeOK ==
    /\ socket \in SocketState
    /\ resolving \in Nat /\ connecting \in BOOLEAN
    /\ made \subseteq Connection /\ current \in made \cup {NoPM}
    /\ pms \in [Connection -> PmState]
    /\ file \in [stream : [mode : {"closed", "in", "out", "bad"}, pos : Nat],
                 size : Nat \cup {-1}]
    /\ fileList \in BOOLEAN /\ selected \in BOOLEAN
    /\ doing \in CheckedAct \cup UncheckedAct \cup {"close", "onDisconnect", "nothing"}
    /\ acts \in 0..MaxActs
    /\ handler \in [does : {"nothing", "startReceive", "greet", "updateReadRate"} \cup Handled,
                    of : Connection \cup {NoPM}]
    /\ server \in [Connection -> [requests : Nat, sending : BOOLEAN]]
    /\ crashed \in {"no", "checked act", "button", "send handler", "onConnect"}
    /\ crossed \in BOOLEAN /\ mixed \in BOOLEAN /\ late \in BOOLEAN

\* Without a connection there is no transfer and no list: whichever thread
\* noticed the end, and whatever operation completes after it, m_file and
\* m_file_list are not touched again.  Not so when a packet manager of the
\* past has used the socket (see OneWriter), nor when the UI thread's
\* disconnect came between a test of m_recieveing and the handler, or
\* between two calls of onConnect (see NothingAfterStop).
DisconnectedIsIdle ==
    Running /\ current = NoPM /\ ~crossed /\ ~late =>
        file.stream.mode = "closed" /\ ~fileList

\* m_chat_packet, one object whose size the Send button sets, is in one
\* queue at most, and once: Send does not change a message that waits, also
\* across disconnects, and one press sends one message.
ChatOnce ==
    \A n, m \in Connection :
        \A i \in 1..Len(pms[n].queue), j \in 1..Len(pms[m].queue) :
            pms[n].queue[i] = "MessageChat" /\ pms[m].queue[j] = "MessageChat"
                => n = m /\ i = j

\* One upload at a time: the header, or m_file_packet, whose memory the next
\* chunk is read into, is queued once on a connection, also when the last
\* upload was cut off.  Not so once a download has taken m_file from an
\* upload, or a drop from a download, also a drop of what cannot be read.
UploadOnce ==
    ~crossed /\ ~mixed => \A n \in Connection : \A i, j \in 1..Len(pms[n].queue) :
        {pms[n].queue[i], pms[n].queue[j]} \subseteq {"FileDataHeader", "FileDataChunk"}
            => i = j

\* Nothing of a packet manager's sending is pending.
Drained(n) == pms[n].writes = <<>> /\ pms[n].waits = 0

-----------------------------------------------------------------------------
(* What a message, asio or the README says, and the code does not do; runs  *)
(* check the first and OneWriter, the README tells what TLC shows of the    *)
(* others                                                                   *)


\* packet_manager.cpp logs "Stopped recieving packages, stopReceive has been
\* called.": disconnect calls it, so that no packet opens m_file after
\* onDisconnect has closed it.
NothingAfterStop == current = NoPM => file.stream.mode = "closed"

\* asio::async_write wants no other write on the stream until it completes:
\* two packet managers, one of a connection that is over and whose timer
\* went on, do not write to one socket.
OneWriter ==
    \A n, m \in Connection :
        \A i \in 1..Len(pms[n].writes), j \in 1..Len(pms[m].writes) :
            pms[n].writes[i].on = pms[m].writes[j].on /\ pms[n].writes[i].on \in Connection
                => n = m

\* client_app.cpp logs "Need to wait for download or upload to finish." when
\* a transfer would begin during another, which has the one m_file.
OneTransfer == [][~(file.stream.mode = "in" /\ file'.stream.mode = "out")]_vars

\* The same message says that a transfer finishes.  After a drop during a
\* download, tellg is -1, never m_file_size: chunks are sent without end.
ChunksEnd ==
    \A n \in Connection :
        InQueue("FileDataChunk", n) /\ n = current ~>
            ~InQueue("FileDataChunk", n) \/ n # current \/ ~Running

\* "Broadcast chat for all connected users": while m_chat_packet is queued
\* the Send button does nothing, so on a connection it is sent at some time.
ChatUsable ==
    \A n \in Connection :
        ChatIsQueued /\ n = current ~> ~ChatIsQueued \/ n # current \/ ~Running
=============================================================================
