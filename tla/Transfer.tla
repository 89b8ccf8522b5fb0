------------------------------- MODULE Transfer -------------------------------
(***************************************************************************)
(* One client and the server, joined by their connections: Client says     *)
(* what may come from a server, Server what may come from a client, and    *)
(* here each gets what the other one sent, in order, while more of it is   *)
(* on the way in both directions.                                          *)
(*                                                                         *)
(* A connection is two bounded channels (external: TCP and the buffers of  *)
(* asio).  It may be lost with what is in it; a side that closed it, or    *)
(* ended, drops what arrives.  Reads and writes fail for these reasons     *)
(* only, and then they do fail at some time.  The client has the right     *)
(* password, and drops files of the names in Name.                         *)
(***************************************************************************)
EXTENDS Integers, Sequences

CONSTANTS
    Connection, Acts, MaxActs, MaxChunks,  \* as in Client
    Name, Stored, MaxCopies, MaxInputs,    \* as in Server
    MaxInTransit                           \* the packets a channel holds

VARIABLES
    socket, resolving, connecting, made, current, pms, file, fileList, selected,
    doing, acts, handler, server, crashed, crossed, mixed, late,

    alive, waiting, sessiones, session, pm, disk, client, inputs, view, owed, finished,

    toServer,   \* connection -> the packets on the way to the server
    toClient,   \* connection -> the packets on the way to the client
    lost,       \* the connections that were lost
    uploaded,   \* history: the size of the file each session gets
    raced       \* history: a file was dropped before a download that was
                \* asked for had ended

C == INSTANCE Client
S == INSTANCE Server
       WITH Session <- Connection, MaxListed <- 9,
            Inputs <- {"MessageChat", "FileDataHeader", "FileDataChunk", "FileDataEnd",
                       "FileDownloadRequest", "FileDeleteRequest", "UpdateWriteRate"}

ASSUME ChannelAssumption == MaxInTransit \in Nat \ {0}
ASSUME ClientAssumption ==
    /\ Acts \subseteq C!CheckedAct \cup C!UncheckedAct
    /\ MaxActs \in Nat /\ MaxChunks \in Nat
    /\ Connection \cap {"opening", "closed", C!NoPM} = {}
ASSUME ServerAssumption == Stored \subseteq S!Path /\ MaxCopies \in Nat /\ MaxInputs \in Nat

clientVars == <<socket, resolving, connecting, made, current, pms, file, fileList, selected,
                doing, acts, handler, server, crashed, crossed, mixed, late>>
serverVars == <<alive, waiting, sessiones, session, pm, disk, client, inputs, view, owed,
                finished>>
channels == <<toServer, toClient, lost>>
history == <<uploaded, raced>>
vars == <<clientVars, serverVars, channels, history>>

Init ==
    /\ C!Init /\ S!Init
    /\ toServer = [n \in Connection |-> <<>>]
    /\ toClient = [n \in Connection |-> <<>>]
    /\ lost = {}
    /\ uploaded = [n \in Connection |-> S!NoFile]
    /\ raced = FALSE

-----------------------------------------------------------------------------
(* The connections *)

ClientGone(n) == n \in made /\ (socket # n \/ ~C!Running)
ServerGone(n) ==
    \/ ~alive
    \/ /\ n \notin waiting
       /\ session[n].socket = "closed" \/ (n \notin sessiones /\ pm[n].reads = 0 /\ pm[n].writes = <<>>)

Broken(n) == n \in lost \/ ClientGone(n) \/ ServerGone(n)

\* p is put on the connection n, or is dropped.
Transmit(channel, n, p) ==
    IF Broken(n) THEN UNCHANGED channel
                 ELSE /\ Len(channel[n]) < MaxInTransit
                      /\ channel' = [channel EXCEPT ![n] = Append(@, p)]

\* The client has read the front of toClient[n] and goes on to handle it.
InHand(n) == handler.of = n /\ handler.does \in C!Handled

Lose(n) ==
    /\ n \in made \ lost
    /\ lost' = lost \cup {n}
    /\ toServer' = [toServer EXCEPT ![n] = <<>>]
    /\ toClient' = [toClient EXCEPT ![n] = IF InHand(n) THEN <<Head(@)>> ELSE <<>>]
    /\ UNCHANGED <<clientVars, serverVars, history>>

\* A download was asked for, and its end did not come yet.
Carries(packets, types) == \E i \in 1..Len(packets) : packets[i].type \in types
Answer == {"FileDataHeader", "FileDataChunk", "FileDataEnd"}

DownloadUnderWay(n) ==
    \/ C!InQueue("FileDownloadRequest", n)
    \/ Carries(toServer[n], {"FileDownloadRequest"})
    \/ Carries(pm[n].queue, Answer)
    \/ Carries(toClient[n], Answer)

-----------------------------------------------------------------------------
(* The client *)

ClientActs ==
    /\ C!UiStep
    /\ raced' = (raced \/ (doing = "Drop" /\ current # C!NoPM /\ DownloadUnderWay(current)))
    /\ UNCHANGED <<serverVars, channels, uploaded>>

ClientConnects ==
    /\ C!ResolveFails \/ C!Resolved \/ C!ConnectFails \/ \E n \in Connection : C!Connected(n)
    /\ UNCHANGED <<serverVars, channels, history>>

\* The rest of Client::onConnect.
ClientGreets(n) ==
    /\ \/ C!StartsReceiving(n) \/ C!Greets(n)
       \/ C!UpdatesRates(n) \/ C!OnConnectHasNoManager(n)
    /\ UNCHANGED <<serverVars, channels, history>>

\* A packet that goes to the server: the name it is about, which the user
\* chose from some list, and for a header the size of the file that follows.
OnTheWay(n) ==
    [type : {C!Sent(n)},
     path : CASE C!Sent(n) = "FileDataHeader" -> Name \X {0}
              [] C!Sent(n) \in {"FileDownloadRequest", "FileDeleteRequest"} -> S!Path
              [] OTHER -> {S!NoPath},
     size : IF C!Sent(n) = "FileDataHeader" THEN {file.size} ELSE {S!NoFile}]

ClientWrites(n) ==
    /\ C!WriteSucceeds(n)
    /\ \E p \in OnTheWay(n) : Transmit(toServer, Head(pms[n].writes).on, p)
    /\ UNCHANGED <<serverVars, toClient, lost, history>>

ClientWaits(n) == C!TimerFires(n) /\ UNCHANGED <<serverVars, channels, history>>

\* A read completes: a text is only shown.
ClientReads(n) ==
    /\ toClient[n] # <<>>
    /\ \/ /\ Head(toClient[n]).type \in C!Handled
          /\ C!Arrives(n, Head(toClient[n]).type)
          /\ UNCHANGED toClient
       \/ /\ Head(toClient[n]).type \notin C!Handled
          /\ C!Receives(n)
          /\ toClient' = [toClient EXCEPT ![n] = Tail(@)]
          /\ UNCHANGED clientVars
    /\ UNCHANGED <<serverVars, toServer, lost, history>>

\* Client::onPacketReceive
ClientHandles(n) ==
    /\ \/ C!HandlesList(n)
       \/ C!HandlesHeader(n) /\ file'.size = Head(toClient[n]).size
       \/ C!HandlesChunk(n)
       \/ C!HandlesEnd(n)
    /\ toClient' = [toClient EXCEPT ![n] = Tail(@)]
    /\ UNCHANGED <<serverVars, toServer, lost, history>>

\* What was sent before the server closed still arrives.
ClientReadEnds(n) ==
    /\ Broken(n) /\ (toClient[n] # <<>> => socket # n)
    /\ C!ReadFails(n) \/ C!ReadStops(n)
    /\ UNCHANGED <<serverVars, channels, history>>

ClientWriteFails(n) ==
    /\ pms[n].writes # <<>>
    /\ LET on == Head(pms[n].writes).on IN on \in Connection => Broken(on)
    /\ C!WriteFails(n)
    /\ UNCHANGED <<serverVars, channels, history>>

-----------------------------------------------------------------------------
(* The server *)

ServerAccepts(n) ==
    /\ n \in made
    /\ S!Accept(n)
    /\ UNCHANGED <<clientVars, channels, history>>

\* Session::onPacketReceive.  A packet that overtook the greeting is rejected.
Serves(n, p) ==
    \/ p.type # "UserInfo" /\ S!Rejects(n, p.type)
    \/ p.type = "UserInfo" /\ S!UserInfo(n)
    \/ p.type = "UpdateWriteRate" /\ S!UpdateWriteRate(n)
    \/ p.type = "MessageChat" /\ S!MessageChat(n)
    \/ p.type = "FileDataHeader" /\ S!FileDataHeader(n, p.path)
    \/ p.type = "FileDataChunk" /\ S!FileDataChunk(n)
    \/ p.type = "FileDataEnd" /\ S!FileDataEnd(n)
    \/ p.type = "FileDownloadRequest" /\ S!FileDownloadRequest(n, p.path)
    \/ p.type = "FileDeleteRequest" /\ S!FileDeleteRequest(n, p.path)

ServerReceives(n) ==
    /\ toServer[n] # <<>>
    /\ LET p == Head(toServer[n]) IN
         /\ Serves(n, p)
         /\ uploaded' = IF p.type = "FileDataHeader" THEN [uploaded EXCEPT ![n] = p.size]
                                                     ELSE uploaded
    /\ toServer' = [toServer EXCEPT ![n] = Tail(@)]
    /\ UNCHANGED <<clientVars, toClient, lost, raced>>

ServerWrites(n) ==
    /\ S!WriteSucceeds(n)
    /\ Transmit(toClient, n,
         [type |-> S!Sent(n).type,
          size |-> IF S!Sent(n).type = "FileDataHeader" THEN session[n].fileSize ELSE S!NoFile])
    /\ UNCHANGED <<clientVars, toServer, lost, history>>

ServerReadEnds(n) ==
    /\ Broken(n)
    /\ S!ReadFails(n) \/ S!ReadStops(n)
    /\ UNCHANGED <<clientVars, channels, history>>

ServerWriteFails(n) ==
    /\ Broken(n)
    /\ S!WriteFails(n)
    /\ UNCHANGED <<clientVars, channels, history>>

-----------------------------------------------------------------------------
Next ==
    \/ ClientActs
    \/ ClientConnects
    \/ \E n \in Connection :
        \/ ClientGreets(n) \/ ClientReads(n) \/ ClientHandles(n)
        \/ ClientWrites(n) \/ ClientWaits(n) \/ ClientReadEnds(n) \/ ClientWriteFails(n)
        \/ ServerAccepts(n) \/ ServerReceives(n) \/ ServerWrites(n)
        \/ ServerReadEnds(n) \/ ServerWriteFails(n)
        \/ Lose(n)

Spec == Init /\ [][Next]_vars

\* The UI thread goes on with what it has begun.
ClientActsOn == doing # "nothing" /\ ClientActs

\* What was sent arrives, a read or a write that was started completes, and
\* what is broken is noticed.  The user does as he likes, and no connection
\* has to be lost.
FairSpec ==
    /\ Spec /\ WF_vars(ClientActsOn)
    /\ \A n \in Connection :
         /\ WF_vars(ClientGreets(n) \/ ClientHandles(n))
         /\ WF_vars(ClientReads(n) \/ ClientReadEnds(n))
         /\ WF_vars(ClientWrites(n) \/ ClientWriteFails(n)) /\ WF_vars(ClientWaits(n))
         /\ WF_vars(ServerAccepts(n))
         /\ WF_vars(ServerReceives(n) \/ ServerReadEnds(n))
         /\ WF_vars(ServerWrites(n) \/ ServerWriteFails(n))

-----------------------------------------------------------------------------
(* Properties *)

\* Each side takes whatever the other one sends when it comes: a client
\* greets once, a header comes between transfers, chunks and the end come in
\* one and are not too many, and what the client has read can be handled.
\* This is what Client and Server assume of each other.
Expected(n) ==
    /\ toServer[n] # <<>> /\ S!Receiving(n) => ENABLED ServerReceives(n)
    /\ toClient[n] # <<>> /\ C!Receives(n) => ENABLED ClientReads(n)
    /\ C!Running /\ InHand(n) => ENABLED ClientHandles(n)

AsAssumed == ~raced /\ ~crossed => \A n \in Connection : Expected(n)

\* A transfer is whole at the other end: an upload has the size of the file
\* that was dropped when the server closes it at its end, a download has
\* the announced size when the client does.
Arrived(n) ==
    /\ client[n].uploading /\ ~client'[n].uploading /\ session[n].file.mode = "out"
         => disk[session[n].file.path] = uploaded[n]
    /\ server[n].sending /\ ~server'[n].sending /\ file.stream.mode = "out"
         => file.stream.pos = file.size

TransfersWhole == [][~raced /\ ~crossed => \A n \in Connection : Arrived(n)]_vars

\* A transfer ends on both sides, although each waits for the other one to
\* make room: at its end, or with the connection, so that again and again
\* the one file of each is closed.  Not so when the user's disconnect came
\* late, see TransferFinishes.
TransferEnds ==
    /\ []<>(file.stream.mode = "closed" \/ late \/ crossed \/ ~C!Running)
    /\ \A n \in Connection : []<>(~S!IsOpen(n) \/ raced \/ crossed \/ ~alive)

\* The packet manager of a connection that is over comes to rest, although
\* nothing stops its timer: its pending writes and timers end, so that the
\* shared_ptr they hold to it is released.
ManagerReleased ==
    \A n \in Connection : []<>(n = current \/ C!Drained(n) \/ ~C!Running)

-----------------------------------------------------------------------------
(* What a message says, and the code does not do; the README tells what TLC  *)
(* shows                                                                     *)

\* client_app.cpp logs "Need to wait for download or upload to finish.": a
\* transfer finishes, with the connection at the latest.
TransferFinishes == []<>(file.stream.mode = "closed" \/ crossed \/ ~C!Running)
=============================================================================
