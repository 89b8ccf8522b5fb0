---------------------------- MODULE TransferProofs ----------------------------
(***************************************************************************)
(* Theorems about Transfer, checked by TLAPS.                              *)
(*                                                                         *)
(* Each of its two sides is what Client and Server say, so that all that   *)
(* ClientProofs and ServerProofs show of one side alone holds of both      *)
(* together.                                                               *)
(***************************************************************************)
EXTENDS Transfer, SequenceTheorems, TLAPS

CP == INSTANCE ClientProofs
SP == INSTANCE ServerProofs
       WITH Session <- Connection, MaxListed <- 9,
            Inputs <- {"MessageChat", "FileDataHeader", "FileDataChunk", "FileDataEnd",
                       "FileDownloadRequest", "FileDeleteRequest", "UpdateWriteRate"}

-----------------------------------------------------------------------------
(* ClientProofs and ServerProofs instantiate Client and Server a second time *)

\* The client's actions are those that ClientProofs is about.
LEMMA SameActions ==
    /\ C!Init <=> CP!Init
    /\ C!Connect <=> CP!Connect
    /\ C!Select <=> CP!Select
    /\ C!Unselect <=> CP!Unselect
    /\ \A act : C!Check(act) <=> CP!Check(act)
    /\ C!UseDrop <=> CP!UseDrop
    /\ C!UseDropFails <=> CP!UseDropFails
    /\ \A act, p : C!UseQueue(act, p) <=> CP!UseQueue(act, p)
    /\ C!UseDisconnect <=> CP!UseDisconnect
    /\ C!Close <=> CP!Close
    /\ C!Leave <=> CP!Leave
    /\ C!UseNull <=> CP!UseNull
    /\ C!ResolveFails <=> CP!ResolveFails
    /\ C!Resolved <=> CP!Resolved
    /\ C!ConnectFails <=> CP!ConnectFails
    /\ \A n \in Connection : C!Connected(n) <=> CP!Connected(n)
    /\ \A n \in Connection : C!WriteSucceeds(n) <=> CP!WriteSucceeds(n)
    /\ \A n \in Connection : C!WriteFails(n) <=> CP!WriteFails(n)
    /\ \A n \in Connection : C!TimerFires(n) <=> CP!TimerFires(n)
    /\ C!Handled = CP!Handled
    /\ \A n \in Connection : C!Receives(n) <=> CP!Receives(n)
    /\ \A n \in Connection : \A type : C!Arrives(n, type) <=> CP!Arrives(n, type)
    /\ \A n \in Connection : C!StartsReceiving(n) <=> CP!StartsReceiving(n)
    /\ \A n \in Connection : C!Greets(n) <=> CP!Greets(n)
    /\ \A n \in Connection : C!UpdatesRates(n) <=> CP!UpdatesRates(n)
    /\ \A n \in Connection : C!OnConnectHasNoManager(n) <=> CP!OnConnectHasNoManager(n)
    /\ \A n \in Connection : C!HandlesList(n) <=> CP!HandlesList(n)
    /\ \A n \in Connection : C!HandlesHeader(n) <=> CP!HandlesHeader(n)
    /\ \A n \in Connection : C!HandlesChunk(n) <=> CP!HandlesChunk(n)
    /\ \A n \in Connection : C!HandlesEnd(n) <=> CP!HandlesEnd(n)
    /\ \A n \in Connection : C!ReadFails(n) <=> CP!ReadFails(n)
    /\ \A n \in Connection : C!ReadStops(n) <=> CP!ReadStops(n)
<1> USE DEF
       C!CheckedAct, CP!CheckedAct, C!UncheckedAct, CP!UncheckedAct, C!NoPM, CP!NoPM,
       C!conn, CP!conn, C!owned, CP!owned, C!user, CP!user, C!hist, CP!hist, C!Closed,
       CP!Closed, C!Init, CP!Init, C!Running, CP!Running, C!IsConnected, CP!IsConnected,
       C!IsLoadingFile, CP!IsLoadingFile, C!InQueue, CP!InQueue, C!ChatIsQueued,
       CP!ChatIsQueued, C!UploadQueued, CP!UploadQueued, C!OpenFile, CP!OpenFile, C!QueueOn,
       CP!QueueOn, C!Foreign, CP!Foreign, C!Crossing, CP!Crossing, C!OnDisconnect,
       CP!OnDisconnect, C!Connect, CP!Connect, C!ResolveFails, CP!ResolveFails, C!Resolved,
       CP!Resolved, C!ConnectFails, CP!ConnectFails, C!Ended, CP!Ended, C!Connected,
       CP!Connected, C!Select, CP!Select, C!Unselect, CP!Unselect, C!MayDo, CP!MayDo,
       C!Check, CP!Check, C!Uses, CP!Uses, C!OnlyQueues, CP!OnlyQueues, C!UseDrop,
       CP!UseDrop, C!UseDropFails, CP!UseDropFails, C!UseQueue, CP!UseQueue,
       C!UseDisconnect, CP!UseDisconnect, C!UseNull, CP!UseNull, C!Sent, CP!Sent,
       C!Continuations, CP!Continuations, C!Popped, CP!Popped, C!SendsNext, CP!SendsNext,
       C!Tell, CP!Tell, C!Remaining, CP!Remaining, C!ReadChunk, CP!ReadChunk, C!WriteChunk,
       CP!WriteChunk, C!Serve, CP!Serve, C!Uploads, CP!Uploads, C!UploadGoesOn,
       CP!UploadGoesOn, C!UploadHasNoManager, CP!UploadHasNoManager, C!NothingToSend,
       CP!NothingToSend, C!WriteSucceeds, CP!WriteSucceeds, C!WriteFails, CP!WriteFails,
       C!TimerFires, CP!TimerFires, C!Receives, CP!Receives, C!ReadFails, CP!ReadFails,
       C!ReadStops, CP!ReadStops, C!Nothing, CP!Nothing, C!Idle, CP!Idle, C!At, CP!At,
       C!Goto, CP!Goto, C!StartsReceiving, CP!StartsReceiving, C!Greets, CP!Greets,
       C!UpdatesRates, CP!UpdatesRates, C!OnConnectHasNoManager, CP!OnConnectHasNoManager,
       C!OnlyConnects, CP!OnlyConnects, C!Close, CP!Close, C!Leave, CP!Leave, C!Handled,
       CP!Handled, C!MaySend, CP!MaySend, C!Arrives, CP!Arrives, C!Handles, CP!Handles,
       C!HandlesList, CP!HandlesList, C!HandlesHeader, CP!HandlesHeader, C!HandlesChunk,
       CP!HandlesChunk, C!HandlesEnd, CP!HandlesEnd, C!PM!NewPacketManager,
       CP!PM!NewPacketManager, C!PM!StartReceive, CP!PM!StartReceive, C!PM!StopReceive,
       CP!PM!StopReceive, C!PM!EndReceive, CP!PM!EndReceive, C!PM!AsyncSend,
       CP!PM!AsyncSend, C!PM!ArmTimer, CP!PM!ArmTimer, C!PM!DoSend, CP!PM!DoSend,
       C!PM!Enqueue, CP!PM!Enqueue, C!PM!EnqueueFirst, CP!PM!EnqueueFirst, C!PM!QueuePacket,
       CP!PM!QueuePacket, C!PM!PopSent, CP!PM!PopSent, C!PM!AfterSent, CP!PM!AfterSent,
       C!PM!SendFailed, CP!PM!SendFailed, C!PM!TimerFired, CP!PM!TimerFired
<1>1. C!Init <=> CP!Init
  OBVIOUS
<1>2. /\ C!Connect <=> CP!Connect
      /\ C!Select <=> CP!Select
      /\ C!Unselect <=> CP!Unselect
  OBVIOUS
<1>3. \A act : C!Check(act) <=> CP!Check(act)
  OBVIOUS
<1>4. C!UseDrop <=> CP!UseDrop
  OBVIOUS
<1>5. C!UseDropFails <=> CP!UseDropFails
  OBVIOUS
<1>6. \A act, p : C!UseQueue(act, p) <=> CP!UseQueue(act, p)
  OBVIOUS
<1>7. C!UseDisconnect <=> CP!UseDisconnect
  OBVIOUS
<1>8. (C!Close <=> CP!Close) /\ (C!Leave <=> CP!Leave)
  OBVIOUS
<1>9. C!UseNull <=> CP!UseNull
  OBVIOUS
<1>10. C!ResolveFails <=> CP!ResolveFails
  OBVIOUS
<1>11. C!Resolved <=> CP!Resolved
  OBVIOUS
<1>12. C!ConnectFails <=> CP!ConnectFails
  OBVIOUS
<1>13. \A n \in Connection : C!Connected(n) <=> CP!Connected(n)
  OBVIOUS
<1>14. \A n \in Connection : C!WriteSucceeds(n) <=> CP!WriteSucceeds(n)
  OBVIOUS
<1>15. \A n \in Connection : C!WriteFails(n) <=> CP!WriteFails(n)
  OBVIOUS
<1>16. \A n \in Connection : C!TimerFires(n) <=> CP!TimerFires(n)
  OBVIOUS
<1>17. /\ C!Handled = CP!Handled
       /\ \A n \in Connection : C!Receives(n) <=> CP!Receives(n)
       /\ \A n \in Connection : \A type : C!Arrives(n, type) <=> CP!Arrives(n, type)
  OBVIOUS
<1>18. /\ \A n \in Connection : C!StartsReceiving(n) <=> CP!StartsReceiving(n)
       /\ \A n \in Connection : C!Greets(n) <=> CP!Greets(n)
       /\ \A n \in Connection : C!UpdatesRates(n) <=> CP!UpdatesRates(n)
       /\ \A n \in Connection : C!OnConnectHasNoManager(n) <=> CP!OnConnectHasNoManager(n)
  OBVIOUS
<1>19. /\ \A n \in Connection : C!HandlesList(n) <=> CP!HandlesList(n)
       /\ \A n \in Connection : C!HandlesHeader(n) <=> CP!HandlesHeader(n)
       /\ \A n \in Connection : C!HandlesChunk(n) <=> CP!HandlesChunk(n)
       /\ \A n \in Connection : C!HandlesEnd(n) <=> CP!HandlesEnd(n)
  OBVIOUS
<1>20. /\ \A n \in Connection : C!ReadFails(n) <=> CP!ReadFails(n)
       /\ \A n \in Connection : C!ReadStops(n) <=> CP!ReadStops(n)
  OBVIOUS
<1>21. QED
  BY <1>1, <1>2, <1>3, <1>4, <1>5, <1>6, <1>7, <1>8, <1>9, <1>10, <1>11, <1>12, <1>13, <1>14, <1>15,
     <1>16, <1>17, <1>18, <1>19, <1>20

LEMMA SameClient ==
    /\ C!Init <=> CP!Init
    /\ C!UiStep <=> CP!UiStep
    /\ C!ResolveFails <=> CP!ResolveFails
    /\ C!Resolved <=> CP!Resolved
    /\ C!ConnectFails <=> CP!ConnectFails
    /\ \A n \in Connection : C!Connected(n) <=> CP!Connected(n)
    /\ \A n \in Connection : C!WriteSucceeds(n) <=> CP!WriteSucceeds(n)
    /\ \A n \in Connection : C!WriteFails(n) <=> CP!WriteFails(n)
    /\ \A n \in Connection : C!TimerFires(n) <=> CP!TimerFires(n)
    /\ C!Handled = CP!Handled
    /\ \A n \in Connection : C!Receives(n) <=> CP!Receives(n)
    /\ \A n \in Connection : \A type : C!Arrives(n, type) <=> CP!Arrives(n, type)
    /\ \A n \in Connection : C!Continues(n) <=> CP!Continues(n)
    /\ \A n \in Connection : C!StartsReceiving(n) <=> CP!StartsReceiving(n)
    /\ \A n \in Connection : C!Greets(n) <=> CP!Greets(n)
    /\ \A n \in Connection : C!UpdatesRates(n) <=> CP!UpdatesRates(n)
    /\ \A n \in Connection : C!OnConnectHasNoManager(n) <=> CP!OnConnectHasNoManager(n)
    /\ \A n \in Connection : C!HandlesList(n) <=> CP!HandlesList(n)
    /\ \A n \in Connection : C!HandlesHeader(n) <=> CP!HandlesHeader(n)
    /\ \A n \in Connection : C!HandlesChunk(n) <=> CP!HandlesChunk(n)
    /\ \A n \in Connection : C!HandlesEnd(n) <=> CP!HandlesEnd(n)
    /\ \A n \in Connection : C!ReadFails(n) <=> CP!ReadFails(n)
    /\ \A n \in Connection : C!ReadStops(n) <=> CP!ReadStops(n)
<1>1. C!UiStep <=> CP!UiStep
  BY SameActions DEF C!UiStep, CP!UiStep
<1>2. \A n \in Connection : C!Continues(n) <=> CP!Continues(n)
  BY SameActions DEF C!Continues, CP!Continues
<1>3. QED
  BY <1>1, <1>2, SameActions

\* The server's are those that ServerProofs is about.
LEMMA SameServer ==
    /\ S!Path = SP!Path
    /\ S!Init <=> SP!Init
    /\ \A n \in Connection : S!Accept(n) <=> SP!Accept(n)
    /\ \A n \in Connection : S!UserInfo(n) <=> SP!UserInfo(n)
    /\ \A n \in Connection : S!UpdateWriteRate(n) <=> SP!UpdateWriteRate(n)
    /\ \A n \in Connection : S!MessageChat(n) <=> SP!MessageChat(n)
    /\ \A n \in Connection : \A type : S!Rejects(n, type) <=> SP!Rejects(n, type)
    /\ \A n \in Connection : S!FileDataChunk(n) <=> SP!FileDataChunk(n)
    /\ \A n \in Connection : S!FileDataEnd(n) <=> SP!FileDataEnd(n)
    /\ \A n \in Connection : S!WriteSucceeds(n) <=> SP!WriteSucceeds(n)
    /\ \A n \in Connection : S!WriteFails(n) <=> SP!WriteFails(n)
    /\ \A n \in Connection : S!ReadFails(n) <=> SP!ReadFails(n)
    /\ \A n \in Connection : S!ReadStops(n) <=> SP!ReadStops(n)
    /\ \A n \in Connection : \A f : S!FileDataHeader(n, f) <=> SP!FileDataHeader(n, f)
    /\ \A n \in Connection : \A f : S!FileDownloadRequest(n, f) <=> SP!FileDownloadRequest(n, f)
    /\ \A n \in Connection : \A f : S!FileDeleteRequest(n, f) <=> SP!FileDeleteRequest(n, f)
<1> USE DEF
       S!Cardinality, SP!Cardinality, S!TooLarge, SP!TooLarge, S!Path, SP!Path, S!NoPath,
       SP!NoPath, S!NoFile, SP!NoFile, S!ChatPacket, SP!ChatPacket, S!InfoPacket, SP!InfoPacket,
       S!KickPacket, SP!KickPacket, S!ListPacket, SP!ListPacket, S!HeaderPacket,
       SP!HeaderPacket, S!ChunkPacket, SP!ChunkPacket, S!EndPacket, SP!EndPacket, S!Closed,
       SP!Closed, S!NewSession, SP!NewSession, S!Init, SP!Init, S!IsQueued, SP!IsQueued,
       S!QueueTo, SP!QueueTo, S!BroadcastPacket, SP!BroadcastPacket, S!GetFileList,
       SP!GetFileList, S!BroadcastFileList, SP!BroadcastFileList, S!IsFileOpened,
       SP!IsFileOpened, S!IsFileEdited, SP!IsFileEdited, S!FileExists, SP!FileExists,
       S!FreeCopies, SP!FreeCopies, S!NewFilePath, SP!NewFilePath, S!OpenSomewhere,
       SP!OpenSomewhere, S!IsOpen, SP!IsOpen, S!OnDisconnect, SP!OnDisconnect, S!Kick, SP!Kick,
       S!OnConnect, SP!OnConnect, S!Accept, SP!Accept, S!Receiving, SP!Receiving, S!UserInfo,
       SP!UserInfo, S!Arrives, SP!Arrives, S!ArrivesRegistered, SP!ArrivesRegistered,
       S!ClientUploads, SP!ClientUploads, S!HeaderSent, SP!HeaderSent, S!ChunkSent, SP!ChunkSent,
       S!EndSent, SP!EndSent, S!Rejects, SP!Rejects, S!NewChatText, SP!NewChatText, S!MessageChat,
       SP!MessageChat, S!FileDataHeader, SP!FileDataHeader, S!FileDataChunk, SP!FileDataChunk,
       S!FileDataEnd, SP!FileDataEnd, S!RefuseRequest, SP!RefuseRequest, S!FileDownloadRequest,
       SP!FileDownloadRequest, S!FileDeleteRequest, SP!FileDeleteRequest, S!UpdateWriteRate,
       SP!UpdateWriteRate, S!Continue, SP!Continue, S!Tell, SP!Tell, S!Remaining, SP!Remaining,
       S!ReadChunk, SP!ReadChunk, S!ContinueWith, SP!ContinueWith, S!TransferEnds,
       SP!TransferEnds, S!TransferContinues, SP!TransferContinues, S!KickEnds, SP!KickEnds,
       S!OnPacketSend, SP!OnPacketSend, S!Writing, SP!Writing, S!Sent, SP!Sent, S!OwedAfter,
       SP!OwedAfter, S!WriteSucceeds, SP!WriteSucceeds, S!WriteFails, SP!WriteFails,
       S!ReadFails, SP!ReadFails, S!ReadStops, SP!ReadStops, S!PM!NewPacketManager,
       SP!PM!NewPacketManager, S!PM!StartReceive, SP!PM!StartReceive, S!PM!StopReceive,
       SP!PM!StopReceive, S!PM!EndReceive, SP!PM!EndReceive, S!PM!AsyncSend, SP!PM!AsyncSend,
       S!PM!ArmTimer, SP!PM!ArmTimer, S!PM!DoSend, SP!PM!DoSend, S!PM!Enqueue, SP!PM!Enqueue,
       S!PM!EnqueueFirst, SP!PM!EnqueueFirst, S!PM!QueuePacket, SP!PM!QueuePacket, S!PM!PopSent,
       SP!PM!PopSent, S!PM!AfterSent, SP!PM!AfterSent, S!PM!SendFailed, SP!PM!SendFailed
<1>1. S!Path = SP!Path /\ (S!Init <=> SP!Init)
  OBVIOUS
<1>2. \A n \in Connection : S!Accept(n) <=> SP!Accept(n)
  OBVIOUS
<1>3. \A n \in Connection : S!UserInfo(n) <=> SP!UserInfo(n)
  OBVIOUS
<1>4. \A n \in Connection : S!UpdateWriteRate(n) <=> SP!UpdateWriteRate(n)
  OBVIOUS
<1>5. \A n \in Connection : S!MessageChat(n) <=> SP!MessageChat(n)
  OBVIOUS
<1>6. \A n \in Connection : S!FileDataChunk(n) <=> SP!FileDataChunk(n)
  OBVIOUS
<1>7. \A n \in Connection : S!FileDataEnd(n) <=> SP!FileDataEnd(n)
  OBVIOUS
<1>8. \A n \in Connection : S!WriteSucceeds(n) <=> SP!WriteSucceeds(n)
  OBVIOUS
<1>9. \A n \in Connection : S!WriteFails(n) <=> SP!WriteFails(n)
  OBVIOUS
<1>10. \A n \in Connection : S!ReadFails(n) <=> SP!ReadFails(n)
  OBVIOUS
<1>11. \A n \in Connection : S!ReadStops(n) <=> SP!ReadStops(n)
  OBVIOUS
<1>12. \A n \in Connection : \A f : S!FileDataHeader(n, f) <=> SP!FileDataHeader(n, f)
  OBVIOUS
<1>13. \A n \in Connection : \A f : S!FileDownloadRequest(n, f) <=> SP!FileDownloadRequest(n, f)
  OBVIOUS
<1>14. \A n \in Connection : \A f : S!FileDeleteRequest(n, f) <=> SP!FileDeleteRequest(n, f)
  OBVIOUS
<1>15. \A n \in Connection : \A type : S!Rejects(n, type) <=> SP!Rejects(n, type)
  OBVIOUS
<1>16. QED
  BY <1>1, <1>2, <1>3, <1>4, <1>5, <1>6, <1>7, <1>8, <1>9, <1>10, <1>11, <1>12, <1>13, <1>14, <1>15

LEMMA SameClientNext == [C!Next]_(C!vars) <=> [CP!Next]_(CP!vars)
<1>1. C!Next <=> CP!Next
  BY SameClient DEF C!Next, C!Completion, CP!Next, CP!Completion
<1>2. UNCHANGED C!vars <=> UNCHANGED CP!vars
  BY DEF C!vars, C!conn, C!owned, C!user, C!hist, CP!vars, CP!conn, CP!owned, CP!user, CP!hist
<1>3. QED
  BY <1>1, <1>2

\* What Client and Server assume of their constants.
LEMMA ClientAssumed ==
    /\ Acts \subseteq CP!CheckedAct \cup CP!UncheckedAct
    /\ MaxActs \in Nat /\ MaxChunks \in Nat
    /\ Connection \cap {"opening", "closed", CP!NoPM} = {}
  BY ClientAssumption
     DEF CP!CheckedAct, CP!UncheckedAct, C!CheckedAct, C!UncheckedAct, CP!NoPM, C!NoPM

LEMMA ServerAssumed ==
    /\ {"MessageChat", "FileDataHeader", "FileDataChunk", "FileDataEnd", "FileDownloadRequest",
        "FileDeleteRequest", "UpdateWriteRate"} \subseteq SP!InputType
    /\ MaxCopies \in Nat /\ MaxChunks \in Nat /\ MaxInputs \in Nat /\ 9 \in Nat
    /\ Stored \subseteq SP!Path
  BY ClientAssumption, ServerAssumption, SameServer DEF SP!InputType

LEMMA SameServerNext ==
    ASSUME NEW n \in Connection,
           \/ SP!Accept(n) \/ SP!UserInfo(n) \/ SP!MessageChat(n) \/ SP!UpdateWriteRate(n)
           \/ SP!RejectUnregistered(n)
           \/ \E f \in SP!Path : \/ SP!FileDataHeader(n, f) \/ SP!FileDownloadRequest(n, f)
                                 \/ SP!FileDeleteRequest(n, f)
           \/ SP!FileDataChunk(n) \/ SP!FileDataEnd(n)
           \/ SP!WriteSucceeds(n) \/ SP!WriteFails(n) \/ SP!ReadFails(n) \/ SP!ReadStops(n)
    PROVE  SP!Next /\ S!Next
<1>1. SP!Next
  BY DEF SP!Next
<1>2. S!RejectUnregistered(n) <=> SP!RejectUnregistered(n)
  BY SameServer DEF S!RejectUnregistered, SP!RejectUnregistered
<1>3. S!Next
  BY <1>2, SameServer DEF S!Next
<1>4. QED
  BY <1>1, <1>3

-----------------------------------------------------------------------------
(* The client of Transfer is a Client *)

LEMMA ClientStep == [Next]_vars => [C!Next]_(C!vars)
<1> SUFFICES ASSUME [Next]_vars PROVE [C!Next]_(C!vars)
  OBVIOUS
<1>1. CASE UNCHANGED clientVars
  BY <1>1 DEF clientVars, C!vars, C!conn, C!owned, C!user, C!hist
<1>2. CASE ClientActs \/ ClientConnects
  BY <1>2 DEF ClientActs, ClientConnects, C!Next
<1>3. ASSUME NEW n \in Connection,
             ClientWrites(n) \/ ClientWaits(n) \/ ClientReadEnds(n) \/ ClientWriteFails(n)
      PROVE  [C!Next]_(C!vars)
  BY <1>3 DEF ClientWrites, ClientWaits, ClientReadEnds, ClientWriteFails, C!Next, C!Completion
<1>4. ASSUME NEW n \in Connection, ClientGreets(n) \/ ClientReads(n) \/ ClientHandles(n)
      PROVE  [C!Next]_(C!vars)
  BY <1>1, <1>4 DEF ClientGreets, ClientReads, ClientHandles, C!Next, C!Completion, C!Continues
<1>5. ASSUME NEW n \in Connection,
             \/ ServerAccepts(n) \/ ServerReceives(n) \/ ServerWrites(n)
             \/ ServerReadEnds(n) \/ ServerWriteFails(n) \/ Lose(n)
      PROVE  UNCHANGED clientVars
  BY <1>5 DEF ServerAccepts, ServerReceives, ServerWrites, ServerReadEnds, ServerWriteFails, Lose
<1>6. CASE UNCHANGED vars
  BY <1>1, <1>6 DEF vars
<1>7. QED
  BY <1>1, <1>2, <1>3, <1>4, <1>5, <1>6 DEF Next

\* Whatever the server sends, and however the connections fail, the client
\* does what Client says: so its theorems hold of it here.
THEOREM ClientIsClient == Spec => C!Spec
  BY ClientStep, PTL DEF Spec, Init, C!Spec

LEMMA ClientInvariant == Spec => []CP!IInv
<1>1. CP!Spec => []CP!IInv
  BY CP!Invariant, ClientAssumed
<1>2. Spec => CP!Init
  BY SameClient DEF Spec, Init
<1>3. [Next]_vars => [CP!Next]_(CP!vars)
  BY ClientStep, SameClientNext
<1>4. Spec => CP!Spec
  BY <1>2, <1>3, PTL DEF Spec, CP!Spec
<1>5. QED
  BY <1>1, <1>4, PTL

-----------------------------------------------------------------------------
(* The server of Transfer is a Server *)

\* What is on the way: a request, a delete and a header name a file, and a
\* header announces its size.
UpPacket ==
    {p \in [type : CP!PacketType, path : S!Path \cup {S!NoPath}, size : Nat \cup {-1}] :
       p.type \in {"FileDataHeader", "FileDownloadRequest", "FileDeleteRequest"} => p.path \in S!Path}
DownPacket == [type : SP!PacketType, size : Nat \cup {-1}]

Channels ==
    /\ toServer \in [Connection -> Seq(UpPacket)]
    /\ toClient \in [Connection -> Seq(DownPacket)]
    /\ uploaded \in [Connection -> Nat \cup {-1}]

\* What the client goes on to handle is still in front.
Held ==
    \A n \in Connection : InHand(n) => toClient[n] # <<>> /\ Head(toClient[n]).type = handler.does

\* One more packet on a channel.
LEMMA PutEffect ==
    ASSUME NEW P, NEW channel \in [Connection -> Seq(P)], NEW n \in Connection, NEW p \in P
    PROVE  [channel EXCEPT ![n] = Append(@, p)] \in [Connection -> Seq(P)]
  OBVIOUS

LEMMA HeadIsOne == ASSUME NEW P, NEW s \in Seq(P), s # <<>> PROVE Head(s) \in P
  OBVIOUS

LEMMA ToServerTyped ==
    ASSUME CP!IInv, Channels, NEW n \in Connection, ClientWrites(n)
    PROVE  /\ toServer' \in [Connection -> Seq(UpPacket)]
           /\ Head(pms[n].writes).on \in Connection
           /\ \E p \in UpPacket : /\ p.type = C!Sent(n)
                                  /\ p.type = "FileDataHeader" => p.size = file.size
                                  /\ Transmit(toServer, Head(pms[n].writes).on, p)
<1>1. /\ pms[n].writes # <<>>
      /\ Head(pms[n].writes).on \in Connection
      /\ \E p \in OnTheWay(n) : Transmit(toServer, Head(pms[n].writes).on, p)
  BY DEF ClientWrites, C!WriteSucceeds
<1>2. Head(pms[n].writes).packet \in CP!PacketType
  <2>1. pms[n].writes \in Seq([packet : CP!PacketType, on : CP!SocketState])
    BY DEF CP!IInv, CP!Pms, CP!PmState
  <2>2. Head(pms[n].writes) \in [packet : CP!PacketType, on : CP!SocketState]
    BY <1>1, <2>1, HeadIsOne
  <2>3. QED
    BY <2>2
<1>3. file.size \in Nat \cup {-1}
  BY DEF CP!IInv, CP!Others, CP!FileType
<1>4. Name \X {0} \subseteq S!Path /\ S!NoFile = -1
  BY ServerAssumption DEF S!Path, S!NoFile
<1>5. PICK p \in OnTheWay(n) : Transmit(toServer, Head(pms[n].writes).on, p)
  BY <1>1
<1>6. p \in UpPacket /\ p.type = C!Sent(n) /\ (p.type = "FileDataHeader" => p.size = file.size)
  BY <1>2, <1>3, <1>4 DEF OnTheWay, UpPacket, C!Sent
<1>7. toServer' \in [Connection -> Seq(UpPacket)]
  <2> DEFINE on == Head(pms[n].writes).on
  <2>1. on \in Connection /\ toServer \in [Connection -> Seq(UpPacket)] /\ p \in UpPacket
    BY <1>1, <1>6 DEF Channels
  <2>2. toServer' = toServer \/ toServer' = [toServer EXCEPT ![on] = Append(@, p)]
    BY <1>5 DEF Transmit
  <2> HIDE DEF on
  <2>3. [toServer EXCEPT ![on] = Append(@, p)] \in [Connection -> Seq(UpPacket)]
    BY <2>1, PutEffect
  <2>4. QED
    BY <2>1, <2>2, <2>3
<1>8. QED
  BY <1>1, <1>5, <1>6, <1>7

LEMMA ToClientTyped ==
    ASSUME SP!IInv, Channels, NEW n \in Connection, ServerWrites(n)
    PROVE  toClient' \in [Connection -> Seq(DownPacket)]
<1> DEFINE p == [type |-> S!Sent(n).type,
                 size |-> IF S!Sent(n).type = "FileDataHeader" THEN session[n].fileSize ELSE S!NoFile]
<1>1. SP!Writing(n) /\ Transmit(toClient, n, p)
  BY DEF ServerWrites, S!WriteSucceeds, SP!Writing, S!Writing
<1>2. SP!Sent(n) \in SP!SentPacket
  BY <1>1, SP!SentIsFront, ServerAssumed
<1>3. S!Sent(n) = SP!Sent(n)
  BY DEF S!Sent, SP!Sent
<1>4. session[n].fileSize \in Nat \cup {-1}
  BY DEF SP!IInv, SP!TypeOK, SP!SessionState
<1>5. S!Sent(n).type \in SP!PacketType
  BY <1>2, <1>3 DEF SP!SentPacket, SP!Packet
<1>6. p \in DownPacket
  BY <1>4, <1>5 DEF DownPacket, S!NoFile
<1> HIDE DEF p
<1>7. toClient' = toClient \/ toClient' = [toClient EXCEPT ![n] = Append(@, p)]
  BY <1>1 DEF Transmit
<1>8. toClient \in [Connection -> Seq(DownPacket)]
  BY DEF Channels
<1>9. [toClient EXCEPT ![n] = Append(@, p)] \in [Connection -> Seq(DownPacket)]
  BY <1>6, <1>8, PutEffect
<1>10. QED
  BY <1>7, <1>8, <1>9

\* Taking the front off a channel.
LEMMA TakenEffect ==
    ASSUME NEW P, NEW channel \in [Connection -> Seq(P)], NEW n \in Connection, channel[n] # <<>>
    PROVE  /\ Head(channel[n]) \in P
           /\ [channel EXCEPT ![n] = Tail(@)] \in [Connection -> Seq(P)]
  BY HeadTailProperties

\* What is handled is in hand.
LEMMA HandsOver ==
    ASSUME NEW n \in Connection, ClientHandles(n)
    PROVE  InHand(n) /\ handler' = C!Nothing
<1>1. \E type \in C!Handled : C!At(type, n) /\ handler' = C!Nothing
  BY DEF ClientHandles, C!HandlesList, C!HandlesHeader, C!HandlesChunk, C!HandlesEnd, C!Handles, C!Handled
<1>2. QED
  BY <1>1 DEF C!At, InHand

LEMMA HeldKept == Channels /\ Held /\ [Next]_vars => Held'
<1> SUFFICES ASSUME Channels, Held, [Next]_vars PROVE Held'
  OBVIOUS
<1>1. CASE UNCHANGED <<handler, toClient>>
  BY <1>1 DEF Held, InHand
<1>2. CASE handler'.does \notin C!Handled
  BY <1>2 DEF Held, InHand
<1>3. C!Nothing.does \notin C!Handled
  BY DEF C!Nothing, C!Handled
<1>4. CASE ClientActs
  BY <1>1, <1>4
     DEF ClientActs, channels, C!UiStep, C!Connect, C!Select, C!Unselect, C!Check, C!UseDrop, C!UseDropFails,
         C!UseQueue, C!UseDisconnect, C!Close, C!Leave, C!UseNull, C!OnlyQueues
<1>5. CASE ClientConnects
  BY <1>1, <1>2, <1>5
     DEF ClientConnects, channels, C!ResolveFails, C!Resolved, C!ConnectFails, C!Connected, C!Goto, C!Handled
<1>6. ASSUME NEW n \in Connection, ClientGreets(n) PROVE Held'
  BY <1>1, <1>2, <1>3, <1>6
     DEF ClientGreets, channels, C!StartsReceiving, C!Greets, C!UpdatesRates, C!OnConnectHasNoManager,
         C!Goto, C!Handled
<1>7. ASSUME NEW n \in Connection,
             ClientWrites(n) \/ ClientWaits(n) \/ ClientReadEnds(n) \/ ClientWriteFails(n)
      PROVE  Held'
  BY <1>1, <1>7
     DEF ClientWrites, ClientWaits, ClientReadEnds, ClientWriteFails, channels, C!WriteSucceeds,
         C!TimerFires, C!ReadFails, C!ReadStops, C!WriteFails
<1>8. ASSUME NEW n \in Connection, ClientReads(n) PROVE Held'
  <2>1. CASE C!Arrives(n, Head(toClient[n]).type) /\ UNCHANGED toClient
    <3>1. handler' = [does |-> Head(toClient[n]).type, of |-> n] /\ toClient[n] # <<>>
      BY <1>8, <2>1 DEF ClientReads, C!Arrives, C!Goto
    <3>2. QED
      BY <2>1, <3>1 DEF Held, InHand
  <2>2. CASE C!Receives(n) /\ UNCHANGED clientVars
    BY <1>2, <1>3, <2>2 DEF C!Receives, C!Idle, clientVars
  <2>3. QED
    BY <1>8, <2>1, <2>2 DEF ClientReads
<1>9. ASSUME NEW n \in Connection, ClientHandles(n) PROVE Held'
  BY <1>2, <1>3, <1>9, HandsOver
<1>10. ASSUME NEW n \in Connection, ServerWrites(n) PROVE Held'
  <2>1. PICK p : toClient' = toClient \/ toClient' = [toClient EXCEPT ![n] = Append(@, p)]
    BY <1>10 DEF ServerWrites, Transmit
  <2>2. handler' = handler /\ toClient \in [Connection -> Seq(DownPacket)]
    BY <1>10 DEF ServerWrites, clientVars, Channels
  <2>3. ASSUME NEW m \in Connection, toClient[m] # <<>>
        PROVE  toClient'[m] # <<>> /\ Head(toClient'[m]) = Head(toClient[m])
    <3>1. toClient[m] \in Seq(DownPacket)
      BY <2>2
    <3>2. toClient'[m] \in {toClient[m], Append(toClient[m], p)}
      BY <2>1, <2>2
    <3>3. QED
      BY <2>3, <3>1, <3>2
  <2>4. QED
    BY <2>2, <2>3 DEF Held, InHand
<1>11. ASSUME NEW n \in Connection, Lose(n) PROVE Held'
  <2>1. /\ toClient' = [toClient EXCEPT ![n] = IF InHand(n) THEN <<Head(toClient[n])>> ELSE <<>>]
        /\ handler' = handler /\ toClient \in [Connection -> Seq(DownPacket)]
    BY <1>11 DEF Lose, clientVars, Channels
  <2>2. QED
    BY <2>1 DEF Held, InHand
<1>12. ASSUME NEW n \in Connection,
              ServerAccepts(n) \/ ServerReceives(n) \/ ServerReadEnds(n) \/ ServerWriteFails(n)
       PROVE  Held'
  BY <1>1, <1>12 DEF ServerAccepts, ServerReceives, ServerReadEnds, ServerWriteFails, clientVars, channels
<1>13. CASE UNCHANGED vars
  BY <1>1, <1>13 DEF vars, clientVars, channels
<1>14. QED
  BY <1>4, <1>5, <1>6, <1>7, <1>8, <1>9, <1>10, <1>11, <1>12, <1>13 DEF Next

LEMMA ChannelsKept == CP!IInv /\ SP!IInv /\ Channels /\ Held /\ [Next]_vars => Channels'
<1> SUFFICES ASSUME CP!IInv, SP!IInv, Channels, Held, [Next]_vars PROVE Channels'
  OBVIOUS
<1>1. CASE UNCHANGED <<toServer, toClient, uploaded>>
  BY <1>1 DEF Channels
<1>2. CASE ClientActs \/ ClientConnects
  BY <1>1, <1>2 DEF ClientActs, ClientConnects, channels, history
<1>3. ASSUME NEW n \in Connection, ClientWrites(n) PROVE Channels'
  BY <1>3, ToServerTyped DEF ClientWrites, Channels, history
<1>4. ASSUME NEW n \in Connection, ServerWrites(n) PROVE Channels'
  BY <1>4, ToClientTyped DEF ServerWrites, Channels, history
<1>5. ASSUME NEW n \in Connection, ClientReads(n) \/ ClientHandles(n) PROVE Channels'
  <2>1. toClient[n] # <<>>
    <3>1. ClientHandles(n) => InHand(n)
      BY HandsOver
    <3>2. QED
      BY <1>5, <3>1 DEF ClientReads, Held
  <2>2. toClient' \in {toClient, [toClient EXCEPT ![n] = Tail(@)]}
    BY <1>5 DEF ClientReads, ClientHandles
  <2>3. toClient \in [Connection -> Seq(DownPacket)]
    BY DEF Channels
  <2>4. [toClient EXCEPT ![n] = Tail(@)] \in [Connection -> Seq(DownPacket)]
    BY <2>1, <2>3, TakenEffect
  <2>5. QED
    BY <1>5, <2>2, <2>3, <2>4 DEF ClientReads, ClientHandles, Channels, history
<1>6. ASSUME NEW n \in Connection, ServerReceives(n) PROVE Channels'
  <2>1. Head(toServer[n]) \in UpPacket /\ toServer' \in [Connection -> Seq(UpPacket)]
    BY <1>6, TakenEffect DEF ServerReceives, Channels
  <2>2. uploaded' \in [Connection -> Nat \cup {-1}]
    BY <1>6, <2>1 DEF ServerReceives, Channels, UpPacket
  <2>3. QED
    BY <1>6, <2>1, <2>2 DEF ServerReceives, Channels
<1>7. ASSUME NEW n \in Connection, Lose(n) PROVE Channels'
  <2>1. InHand(n) => Head(toClient[n]) \in DownPacket
    BY TakenEffect DEF Held, Channels
  <2>2. (IF InHand(n) THEN <<Head(toClient[n])>> ELSE <<>>) \in Seq(DownPacket)
    BY <2>1
  <2>3. QED
    BY <1>7, <2>2 DEF Lose, Channels, history
<1>8. ASSUME NEW n \in Connection,
             \/ ClientGreets(n) \/ ClientWaits(n) \/ ClientReadEnds(n) \/ ClientWriteFails(n)
             \/ ServerAccepts(n) \/ ServerReadEnds(n) \/ ServerWriteFails(n)
      PROVE  Channels'
  BY <1>1, <1>8 DEF ClientGreets, ClientWaits, ClientReadEnds, ClientWriteFails, ServerAccepts,
                    ServerReadEnds, ServerWriteFails, channels, history
<1>9. CASE UNCHANGED vars
  BY <1>1, <1>9 DEF vars, channels, history
<1>10. QED
  BY <1>2, <1>3, <1>4, <1>5, <1>6, <1>7, <1>8, <1>9 DEF Next

\* What the server gets is a packet that its session handles.
LEMMA ServedEffect ==
    ASSUME Channels, NEW n \in Connection, ServerReceives(n)
    PROVE  /\ Head(toServer[n]) \in UpPacket
           /\ SP!Receives(n)
           /\ \/ SP!RejectUnregistered(n)
              \/ /\ Head(toServer[n]).type = "FileDataHeader"
                 /\ \E f \in SP!Path : SP!FileDataHeader(n, f)
              \/ Head(toServer[n]).type = "FileDataChunk" /\ SP!FileDataChunk(n)
              \/ Head(toServer[n]).type = "FileDataEnd" /\ SP!FileDataEnd(n)
              \/ /\ Head(toServer[n]).type = "FileDownloadRequest"
                 /\ \E f \in SP!Path : SP!FileDownloadRequest(n, f)
              \/ /\ Head(toServer[n]).type \notin {"FileDataHeader", "FileDataChunk", "FileDataEnd",
                                                   "FileDownloadRequest"}
                 /\ \/ SP!UserInfo(n) \/ SP!UpdateWriteRate(n) \/ SP!MessageChat(n)
                    \/ \E f \in SP!Path : SP!FileDeleteRequest(n, f)
<1> DEFINE p == Head(toServer[n])
<1>1. p \in UpPacket /\ Serves(n, p)
  BY TakenEffect DEF ServerReceives, Channels
<1>2. p.type \in {"FileDataHeader", "FileDownloadRequest", "FileDeleteRequest"} => p.path \in SP!Path
  BY <1>1, SameServer DEF UpPacket
<1> HIDE DEF p
<1>3. \/ p.type # "UserInfo" /\ SP!Rejects(n, p.type)
      \/ p.type = "FileDataHeader" /\ \E f \in SP!Path : SP!FileDataHeader(n, f)
      \/ p.type = "FileDataChunk" /\ SP!FileDataChunk(n)
      \/ p.type = "FileDataEnd" /\ SP!FileDataEnd(n)
      \/ p.type = "FileDownloadRequest" /\ \E f \in SP!Path : SP!FileDownloadRequest(n, f)
      \/ p.type = "UserInfo" /\ SP!UserInfo(n)
      \/ p.type = "UpdateWriteRate" /\ SP!UpdateWriteRate(n)
      \/ p.type = "MessageChat" /\ SP!MessageChat(n)
      \/ p.type = "FileDeleteRequest" /\ \E f \in SP!Path : SP!FileDeleteRequest(n, f)
  BY <1>1, <1>2, SameServer DEF Serves
<1>4. SP!Rejects(n, p.type) => SP!RejectUnregistered(n)
  BY DEF SP!RejectUnregistered, SP!Rejects, SP!Arrives
<1>5. SP!Receives(n)
  BY <1>3, <1>4 DEF SP!Receives
<1>6. QED
  BY <1>1, <1>3, <1>4, <1>5 DEF p

\* The step of the server, if it is one.
LEMMA ServerStep == Channels /\ [Next]_vars => [S!Next /\ SP!Next]_serverVars
<1> SUFFICES ASSUME Channels, [Next]_vars PROVE [S!Next /\ SP!Next]_serverVars
  OBVIOUS
<1>1. CASE UNCHANGED vars
  BY <1>1 DEF vars
<1>2. ASSUME NEW n \in Connection, ServerReceives(n) PROVE S!Next /\ SP!Next
  BY <1>2, ServedEffect, SameServerNext DEF SP!Receives
<1>3. ASSUME NEW n \in Connection,
             ServerAccepts(n) \/ ServerWrites(n) \/ ServerReadEnds(n) \/ ServerWriteFails(n)
      PROVE  S!Next /\ SP!Next
  BY <1>3, SameServer, SameServerNext
     DEF ServerAccepts, ServerWrites, ServerReadEnds, ServerWriteFails
<1>4. ASSUME NEW n \in Connection,
             \/ ClientActs \/ ClientConnects \/ ClientGreets(n) \/ ClientReads(n) \/ ClientHandles(n)
             \/ ClientWrites(n) \/ ClientWaits(n) \/ ClientReadEnds(n) \/ ClientWriteFails(n) \/ Lose(n)
      PROVE  UNCHANGED serverVars
  BY <1>4 DEF ClientActs, ClientConnects, ClientGreets, ClientReads, ClientHandles, ClientWrites,
              ClientWaits, ClientReadEnds, ClientWriteFails, Lose
<1>5. CASE ClientActs \/ ClientConnects
  BY <1>5 DEF ClientActs, ClientConnects
<1>6. QED
  BY <1>1, <1>2, <1>3, <1>4, <1>5 DEF Next

LEMMA SameServerVars ==
    /\ UNCHANGED serverVars <=> UNCHANGED SP!vars
    /\ UNCHANGED serverVars <=> UNCHANGED S!vars
  BY DEF serverVars, SP!vars, S!vars

\* The inductive invariant of Server, what its last theorem adds to it, and
\* what is on the way.
ServerInv == SP!IInv /\ SP!DownloadInv /\ SP!LeavingInv /\ SP!Storing

LEMMA ServerInvInit == Init => ServerInv /\ Channels /\ Held
<1> SUFFICES ASSUME Init PROVE ServerInv /\ Channels /\ Held
  OBVIOUS
<1>1. SP!Init
  BY SameServer DEF Init
<1>2. SP!IInv
  BY <1>1, SP!InitInv, ServerAssumed
<1>3. SP!DownloadInv
  BY <1>1, SP!DownloadInit, ServerAssumed
<1>4. SP!LeavingInv
  BY <1>1 DEF SP!Init, SP!NewSession, SP!LeavingInv, SP!Leaving
<1>5. SP!Storing
  BY <1>1 DEF SP!Init, SP!NewSession, SP!Closed, SP!Storing, SP!Uploads
<1>6. Channels
  BY DEF Init, Channels, S!NoFile
<1>7. Held
  BY DEF Init, Held, InHand, C!Init, C!Nothing, C!Handled
<1>8. QED
  BY <1>2, <1>3, <1>4, <1>5, <1>6, <1>7 DEF ServerInv

LEMMA ServerInvNext ==
    CP!IInv /\ ServerInv /\ Channels /\ Held /\ [Next]_vars => ServerInv' /\ Channels' /\ Held'
<1> SUFFICES ASSUME CP!IInv, ServerInv, Channels, Held, [Next]_vars PROVE ServerInv' /\ Channels' /\ Held'
  OBVIOUS
<1>1. SP!IInv /\ SP!DownloadInv /\ SP!LeavingInv /\ SP!Storing
  BY DEF ServerInv
<1>2. [SP!Next]_(SP!vars)
  BY ServerStep, SameServerVars
<1>3. SP!IInv'
  BY <1>1, <1>2, SP!NextInv, ServerAssumed
<1>4. SP!DownloadInv'
  BY <1>1, <1>2, SP!DownloadNext, ServerAssumed
<1>5. SP!LeavingInv'
  BY <1>1, <1>2, SP!LeavingKept, ServerAssumed
<1>6. SP!Storing'
  BY <1>1, <1>2, SP!StoringKept, ServerAssumed
<1>7. Channels' /\ Held'
  BY <1>1, ChannelsKept, HeldKept
<1>8. QED
  BY <1>3, <1>4, <1>5, <1>6, <1>7 DEF ServerInv

LEMMA BothInvariants == Spec => [](CP!IInv /\ ServerInv /\ Channels /\ Held)
  BY ClientInvariant, ServerInvInit, ServerInvNext, PTL DEF Spec

\* Whatever the client sends, when the connections are lost, and whenever
\* what is on the way comes, the server does what Server says: so its
\* theorems hold of it here.
THEOREM ServerIsServer == Spec => S!Spec
<1>1. Channels /\ [Next]_vars => [S!Next]_(S!vars)
  BY ServerStep, SameServerVars
<1>2. QED
  BY <1>1, BothInvariants, PTL DEF Spec, Init, S!Spec
=============================================================================
