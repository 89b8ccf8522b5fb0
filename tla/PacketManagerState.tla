------------------------- MODULE PacketManagerState -------------------------
(***************************************************************************)
(* The state of one vsa::PacketManager and what each of its functions does *)
(* to it, as operators from one state to the next.  PacketManager.tla runs *)
(* one packet manager against an arbitrary owner; Server.tla holds one of  *)
(* these records for every session.                                        *)
(*                                                                         *)
(* A packet manager is a record:                                           *)
(*   queue      m_packet_queue: the packets accepted and not yet sent      *)
(*   sending    m_sending: some doSend chain is believed to be active      *)
(*   writes     the async_write operations in flight, oldest first; "on" *)
(*              is the state of the socket when the write was started      *)
(*   waits      the async_wait operations pending on m_packet_timer        *)
(*   recieveing m_recieveing (spelled as in the code)                      *)
(*   reads      the async_read operations pending, one per doReceive chain *)
(*                                                                         *)
(* m_socket.is_open() is given to the operators as "open" or "closed".     *)
(*                                                                         *)
(* The code intends at most one write or wait, and one read, at a time.    *)
(* The record can hold more, so that this is something to check.           *)
(*                                                                         *)
(* A definition marked Mutation is a plausible bug in the code of the one  *)
(* that follows.  It is used nowhere: put in the other's place, it must    *)
(* make a property fail.                                                   *)
(***************************************************************************)
EXTENDS Naturals, Sequences

\* The packets whose size exceeds Packet::c_max_packet_size.
CONSTANT Oversized

NewPacketManager ==
    [queue |-> <<>>, sending |-> FALSE, writes |-> <<>>, waits |-> 0,
     recieveing |-> FALSE, reads |-> 0]

-----------------------------------------------------------------------------
(* Receiving *)

\* Mutation: doReceive is called a second time.
StartReceiveTwice(pm, socket) == [pm EXCEPT !.recieveing = TRUE, !.reads = @ + 2]

StartReceive(pm, socket) ==
    IF socket = "open" THEN [pm EXCEPT !.recieveing = TRUE, !.reads = @ + 1] ELSE pm

StopReceive(pm) == [pm EXCEPT !.recieveing = FALSE]

\* A completion handler of doReceive that does not call doReceive again.
EndReceive(pm) == [pm EXCEPT !.reads = @ - 1]

-----------------------------------------------------------------------------
(* Sending *)

\* Packet::asyncSend on the front of the queue.  A packet over the maximum
\* size is logged and dropped on the floor: no write is started, and the
\* handler that continues the chain is never called.
AsyncSend(pm, socket) ==
    IF Head(pm.queue) \in Oversized
      THEN pm
      ELSE [pm EXCEPT !.writes = Append(@, [packet |-> Head(pm.queue), on |-> socket])]

\* The pacing branch of doSend: wait until the 10 ms window is paid for.
ArmTimer(pm) == [pm EXCEPT !.waits = @ + 1]

\* What doSend may do; which branch is a matter of the clock.  Right after
\* m_next_upload_check was set 10 ms ahead it is always AsyncSend.
DoSend(pm, socket) == {AsyncSend(pm, socket), ArmTimer(pm)}

\* Mutation: push_front.
EnqueueInFront(pm, p) == [pm EXCEPT !.queue = <<p>> \o @]

\* The two effects of queuePacket: join the active chain, or start one.
Enqueue(pm, p) == [pm EXCEPT !.queue = Append(@, p)]
EnqueueFirst(pm, p) == [pm EXCEPT !.queue = Append(@, p), !.sending = TRUE]

\* Mutation: m_sending is not looked at.
QueuePacketAlwaysStarts(pm, socket, p) ==
    IF socket = "closed" THEN pm ELSE AsyncSend(EnqueueFirst(pm, p), socket)

QueuePacket(pm, socket, p) ==
    IF socket = "closed" THEN pm
    ELSE IF pm.sending
      THEN Enqueue(pm, p)
      ELSE AsyncSend(EnqueueFirst(pm, p), socket)

\* The write's completion handler, called with successful = TRUE: the part
\* before m_send_handler and the part after it.
PopSent(pm) == [pm EXCEPT !.writes = Tail(@), !.queue = Tail(@)]

\* Mutation: the chain ends although packets were queued meanwhile.
AfterSentStops(pm, socket) == {pm}

AfterSent(pm, socket) ==
    IF pm.queue = <<>> THEN {[pm EXCEPT !.sending = FALSE]} ELSE DoSend(pm, socket)

\* Mutations: receiving goes on, m_sending is reset, the packet is dropped.
SendFailedStillReceives(pm) == [pm EXCEPT !.writes = Tail(@)]
SendFailedResets(pm) == [StopReceive(pm) EXCEPT !.writes = Tail(@), !.sending = FALSE]
SendFailedDrops(pm) == [StopReceive(pm) EXCEPT !.writes = Tail(@), !.queue = Tail(@)]

\* The same handler called with successful = FALSE: the queue is left as it
\* is and m_sending stays set.
SendFailed(pm) == [StopReceive(pm) EXCEPT !.writes = Tail(@)]

\* Mutation: doSend is not called again.
TimerFiredForgets(pm, socket) == [pm EXCEPT !.waits = @ - 1]

\* Mutation: the window is not opened again, so that doSend waits as before.
TimerFiredWaits(pm, socket) == pm

\* The timer's completion handler.
TimerFired(pm, socket) == AsyncSend([pm EXCEPT !.waits = @ - 1], socket)
=============================================================================
