--------------------------- MODULE PacketManager ---------------------------
(***************************************************************************)
(* One vsa::PacketManager on one connected socket, driven by an arbitrary  *)
(* owner (a server Session, or the Client) on the thread that runs the     *)
(* io_context.  The model starts where the owner's onConnect has called    *)
(* startReceive and set the three handlers.                                *)
(*                                                                         *)
(* asio is external: a started write completes with success or with an     *)
(* error, a write started on a closed socket only with an error, a read    *)
(* completes with a packet or an error, a timer fires.  asio::dispatch     *)
(* without an executor runs its function inline, so queuePacket is one     *)
(* step.  The error branch of the timer's handler is unreachable: nothing  *)
(* cancels the timer, and arming it twice is what OneSendChain excludes.   *)
(***************************************************************************)
EXTENDS PacketManagerState, Integers, FiniteSets

CONSTANTS
    Packet,       \* the packet objects of the owner
    MaxAccepted,  \* bound: packets accepted in a behaviour
    MaxReceived   \* bound: packets received in a behaviour

ASSUME PacketAssumption == Oversized \subseteq Packet
ASSUME BoundAssumption == MaxAccepted \in Nat /\ MaxReceived \in Nat

VARIABLES
    pm,           \* the packet manager
    socket,       \* "open" or "closed", m_socket.is_open()
    queuedCount,  \* Packet::m_queued_count of every packet
    wire,         \* the packets written to the socket, in order
    sendFailed,   \* a write has completed with an error
    received,     \* calls of m_receive_handler
    disconnects   \* calls of m_disconnect_handler

vars == <<pm, socket, queuedCount, wire, sendFailed, received, disconnects>>

Init ==
    /\ pm = StartReceive(NewPacketManager, "open")
    /\ socket = "open"
    /\ queuedCount = [p \in Packet |-> 0]
    /\ wire = <<>>
    /\ sendFailed = FALSE
    /\ received = 0
    /\ disconnects = 0

\* The bound MaxAccepted.
MayAccept == Len(wire) + Len(pm.queue) < MaxAccepted

-----------------------------------------------------------------------------
(* The owner's calls.  What a receive handler or another session's          *)
(* broadcast queues is a Queue step as well.                                *)

Queue(p) ==
    /\ socket = "open"
    /\ MayAccept
    /\ pm' = QueuePacket(pm, socket, p)
    /\ queuedCount' = [queuedCount EXCEPT ![p] = @ + 1]
    /\ UNCHANGED <<socket, wire, sendFailed, received, disconnects>>

\* stopReceive followed by closing the socket, as in Client::disconnect.
Close ==
    /\ socket = "open"
    /\ socket' = "closed"
    /\ pm' = StopReceive(pm)
    /\ UNCHANGED <<queuedCount, wire, sendFailed, received, disconnects>>

-----------------------------------------------------------------------------
(* Completions of the sending side *)

Sent == Head(pm.writes).packet

\* Mutation: m_queued_count is cleared, as the flag it once was.
CountCleared == [queuedCount EXCEPT ![Sent] = 0]

\* m_queued_count of every packet after the decrement for the one sent.
CountAfterPop == [queuedCount EXCEPT ![Sent] = @ - 1]

\* m_send_handler does nothing that concerns the packet manager.
SendHandled ==
    /\ pm' \in AfterSent(PopSent(pm), socket)
    /\ queuedCount' = CountAfterPop
    /\ UNCHANGED socket

\* m_send_handler queues the next packet of a transfer.
SendHandlerQueues(p) ==
    /\ socket = "open"
    /\ MayAccept
    /\ pm' \in AfterSent(QueuePacket(PopSent(pm), socket, p), socket)
    /\ queuedCount' = [CountAfterPop EXCEPT ![p] = @ + 1]
    /\ UNCHANGED socket

\* m_send_handler ends the connection, as a session does after a kick.
SendHandlerCloses ==
    /\ socket = "open"
    /\ socket' = "closed"
    /\ pm' \in AfterSent(StopReceive(PopSent(pm)), "closed")
    /\ queuedCount' = CountAfterPop

\* A write started on an open socket may complete even after a close.
WriteSucceeds ==
    /\ pm.writes # <<>>
    /\ Head(pm.writes).on = "open"
    /\ wire' = Append(wire, Sent)
    /\ \/ SendHandled
       \/ \E p \in Packet : SendHandlerQueues(p)
       \/ SendHandlerCloses
    /\ UNCHANGED <<sendFailed, received, disconnects>>

WriteFails ==
    /\ pm.writes # <<>>
    /\ pm' = SendFailed(pm)
    /\ sendFailed' = TRUE
    /\ disconnects' = disconnects + 1
    /\ UNCHANGED <<socket, queuedCount, wire, received>>

TimerFires ==
    /\ pm.waits > 0
    /\ pm' = TimerFired(pm, socket)
    /\ UNCHANGED <<socket, queuedCount, wire, sendFailed, received, disconnects>>

-----------------------------------------------------------------------------
(* Completions of the receiving side *)

\* Mutation: doReceive is called before m_receive_handler and after it.
PacketArrivesTwice ==
    /\ pm.reads > 0
    /\ pm.recieveing
    /\ received < MaxReceived
    /\ received' = received + 1
    /\ pm' = [pm EXCEPT !.reads = @ + 1]
    /\ UNCHANGED <<socket, queuedCount, wire, sendFailed, disconnects>>

PacketArrives ==
    /\ pm.reads > 0
    /\ pm.recieveing
    /\ received < MaxReceived
    /\ received' = received + 1
    /\ UNCHANGED <<pm, socket, queuedCount, wire, sendFailed, disconnects>>

ReadFails ==
    /\ pm.reads > 0
    /\ pm.recieveing
    /\ pm' = EndReceive(pm)
    /\ disconnects' = disconnects + 1
    /\ UNCHANGED <<socket, queuedCount, wire, sendFailed, received>>

\* Any completion of a read after stopReceive.
ReadStops ==
    /\ pm.reads > 0
    /\ ~pm.recieveing
    /\ pm' = EndReceive(pm)
    /\ UNCHANGED <<socket, queuedCount, wire, sendFailed, received, disconnects>>

-----------------------------------------------------------------------------
WriteCompletes == WriteSucceeds \/ WriteFails

Next ==
    \/ \E p \in Packet : Queue(p)
    \/ Close
    \/ WriteSucceeds
    \/ WriteFails
    \/ TimerFires
    \/ PacketArrives
    \/ ReadFails
    \/ ReadStops

Spec == Init /\ [][Next]_vars

\* A write on a connection whose peer keeps reading, or that breaks, completes;
\* a timer that was armed fires.  The io_context runs every completion.
FairSpec == Spec /\ WF_vars(WriteCompletes) /\ WF_vars(TimerFires)

-----------------------------------------------------------------------------
(* Properties *)

SocketState == {"open", "closed"}

PmType ==
    [queue : Seq(Packet), sending : BOOLEAN,
     writes : Seq([packet : Packet, on : SocketState]), waits : Nat,
     recieveing : BOOLEAN, reads : 0..1]

\* Types of the variables.  One read is pending at most; that queuedCount
\* never goes below zero is part of QueuedCountExact.
TypeOK ==
    /\ pm \in PmType
    /\ socket \in SocketState
    /\ queuedCount \in [Packet -> Int]
    /\ wire \in Seq(Packet)
    /\ sendFailed \in BOOLEAN
    /\ received \in Nat
    /\ disconnects \in Nat

\* The three states the sending side can be in: nothing pending, one write
\* in flight, one wait pending.
Idle(m) == m.writes = <<>> /\ m.waits = 0
Writing(m) == Len(m.writes) = 1 /\ m.waits = 0
Waiting(m) == m.writes = <<>> /\ m.waits = 1

\* m_sending really is the lock of the send chain: never two writes, two
\* waits, or a write and a wait, on one socket; while one is pending m_sending
\* is set; and while m_sending is set there is a front packet for doSend to
\* take (deque::front on an empty queue is undefined).
OneSendChain ==
    /\ Idle(pm) \/ Writing(pm) \/ Waiting(pm)
    /\ ~Idle(pm) => pm.sending
    /\ pm.sending <=> pm.queue # <<>>

\* The packet being written is the front of the queue, so the pop_front in
\* the completion handler removes the packet that was sent and no other.
InFlightIsFront ==
    pm.writes # <<>> => pm.queue # <<>> /\ Sent = Head(pm.queue)

\* The queue only stands still for a reason: with packets queued a write or
\* a wait is pending, unless a write failed or the front is oversized.
NoSilentStall ==
    pm.queue # <<>> =>
        \/ ~Idle(pm)
        \/ sendFailed
        \/ Head(pm.queue) \in Oversized

\* Packet::isQueued answers for the queue as it is: m_queued_count is the
\* number of places a packet has in the queue, also when the same object is
\* queued again before it was sent, and after a failure.
Occurrences(s, p) == Cardinality({i \in 1..Len(s) : s[i] = p})

QueuedCountExact ==
    \A p \in Packet : queuedCount[p] = Occurrences(pm.queue, p)

\* After the owner was told that the connection is gone, or closed it itself,
\* no packet is handed to it any more, whichever side failed first.
NoReceiveAfterDisconnect ==
    [][received' # received => disconnects = 0 /\ socket = "open"]_vars

\* After a failed write the send chain is dead for good: nothing is pending,
\* and m_sending, never reset, keeps queuePacket from starting it again.
FailureIsFinal ==
    sendFailed => Idle(pm) /\ pm.sending

\* There is one read chain; it is over, or will be at its next completion,
\* once the connection was reported gone or was closed.
ReceiveEnds ==
    /\ pm.reads <= 1
    /\ disconnects > 0 => pm.reads = 0 \/ ~pm.recieveing
    /\ socket = "closed" => ~pm.recieveing

\* The packet manager implements the abstract channel.
Channel == INSTANCE PacketChannel
             WITH accepted <- wire \o pm.queue, delivered <- wire, broken <- sendFailed

ChannelSpec == Channel!Spec

\* Every packet the owner had accepted is written in the end, unless a write
\* fails or the queue is stuck behind an oversized packet.
EveryPacketSent ==
    \A n \in 1..MaxAccepted :
        Len(wire) + Len(pm.queue) >= n ~>
            \/ Len(wire) >= n
            \/ sendFailed
            \/ pm.queue # <<>> /\ Head(pm.queue) \in Oversized
=============================================================================
