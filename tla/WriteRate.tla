------------------------------ MODULE WriteRate ------------------------------
(***************************************************************************)
(* The write rate of a packet manager: the arithmetic behind the choice    *)
(* that PacketManagerState leaves to DoSend.  A window of 10 ms is opened, *)
(* packets are sent in it as fast as the socket takes them, and when it is *)
(* over doSend waits for as long as they should have taken besides.        *)
(*                                                                         *)
(* steady_clock is the action Tick; instead of points in time the model    *)
(* keeps what is left until them.  Opening a window and the doSend that    *)
(* follows happen at one time.  Receiving and closing are left out.        *)
(***************************************************************************)
EXTENDS PacketManagerState, Integers, FiniteSets

CONSTANTS
    Packet,      \* the packet objects of the owner
    Bits,        \* packet -> getBandwidthSize, times 8'000'000'000
    Rates,       \* the values of setWriteBitRate
    Window,      \* 10 ms
    MaxAccepted, \* bound: packets accepted in a behaviour
    MaxElapsed   \* bound: the time a window is watched

\* A slider is dragged from 5 to 2000 Mbit.  What is typed into it is not
\* clamped, and for a rate of 0 the division is undefined.
ASSUME RatesAssumption == Rates \subseteq Nat \ {0}
ASSUME PacketAssumption == Oversized \subseteq Packet /\ Bits \in [Packet -> Nat]
ASSUME BoundAssumption ==
    Window \in Nat \ {0} /\ MaxAccepted \in Nat /\ MaxElapsed \in Nat

VARIABLES
    pm,           \* the packet manager
    rate,         \* m_write_bit_rate
    nextWaitTime, \* m_next_wait_time
    checkIn,      \* time until m_next_upload_check
    timerIn,      \* time until m_packet_timer expires
    wire,         \* the packets written to the socket, in order
    sendFailed,   \* a write has completed with an error
    elapsed,      \* history: time since the window was opened
    owed          \* history: what the packets sent in it should have taken

window == <<nextWaitTime, checkIn, elapsed, owed>>
vars == <<pm, rate, window, timerIn, wire, sendFailed>>

Init ==
    /\ pm = StartReceive(NewPacketManager, "open")
    /\ rate \in Rates
    /\ nextWaitTime = 0 /\ checkIn = 0 /\ timerIn = 0
    /\ wire = <<>> /\ sendFailed = FALSE
    /\ elapsed = 0 /\ owed = 0

MayAccept == Len(wire) + Len(pm.queue) < MaxAccepted

-----------------------------------------------------------------------------
(* doSend *)

Duration(p) == Bits[p] \div rate

\* Mutation: a new window goes on with the time of the last one.
StartTimeKept == nextWaitTime

StartTime == 0

\* A window is opened, and the front of m's queue is sent.
OpenWindow(m) ==
    /\ nextWaitTime' = StartTime + Duration(Head(m.queue))
    /\ checkIn' = Window
    /\ elapsed' = 0 /\ owed' = Duration(Head(m.queue))
    /\ UNCHANGED timerIn

\* Within the window the front is sent, ...
Send(m) ==
    /\ pm' = AsyncSend(m, "open")
    /\ nextWaitTime' = nextWaitTime + Duration(Head(m.queue))
    /\ owed' = owed + Duration(Head(m.queue))
    /\ UNCHANGED <<checkIn, elapsed, timerIn>>

\* Mutation: two windows are taken off.
DueOfTwo == nextWaitTime - 2 * Window

\* ... and after it what is left of the time is waited for.
Due == nextWaitTime - Window
ExpiresAfter(time) == timerIn' = IF time > 0 THEN time ELSE 0

Wait(m) ==
    /\ pm' = ArmTimer(m)
    /\ nextWaitTime' = Due
    /\ ExpiresAfter(Due)
    /\ UNCHANGED <<checkIn, elapsed, owed>>

DoSendInTime(m) == IF checkIn > 0 THEN Send(m) ELSE Wait(m)

-----------------------------------------------------------------------------
QueueStarts(p) ==
    /\ MayAccept /\ ~pm.sending
    /\ pm' = QueuePacket(pm, "open", p)
    /\ OpenWindow(EnqueueFirst(pm, p))
    /\ UNCHANGED <<rate, wire, sendFailed>>

QueueJoins(p) ==
    /\ MayAccept /\ pm.sending
    /\ pm' = QueuePacket(pm, "open", p)
    /\ UNCHANGED <<rate, window, timerIn, wire, sendFailed>>

\* Mutation: what was sent stays in the queue.
PopNothing == [PopSent(pm) EXCEPT !.queue = pm.queue]

PopFront == PopSent(pm)

\* The packet manager when m_send_handler has returned.
AfterHandler == {PopFront} \cup {Enqueue(PopFront, p) : p \in IF MayAccept THEN Packet ELSE {}}

WriteSucceeds ==
    /\ pm.writes # <<>>
    /\ wire' = Append(wire, Head(pm.writes).packet)
    /\ \E m \in AfterHandler :
        \/ /\ m.queue = <<>>
           /\ pm' = [m EXCEPT !.sending = FALSE]
           /\ UNCHANGED <<window, timerIn>>
        \/ /\ m.queue # <<>>
           /\ DoSendInTime(m)
    /\ UNCHANGED <<rate, sendFailed>>

WriteFails ==
    /\ pm.writes # <<>>
    /\ pm' = SendFailed(pm)
    /\ sendFailed' = TRUE
    /\ UNCHANGED <<rate, window, timerIn, wire>>

TimerFires ==
    /\ pm.waits > 0 /\ timerIn = 0
    /\ pm' = TimerFired(pm, "open")
    /\ OpenWindow(pm)
    /\ UNCHANGED <<rate, wire, sendFailed>>

SetWriteBitRate(r) ==
    /\ rate' = r
    /\ UNCHANGED <<pm, window, timerIn, wire, sendFailed>>

\* External: steady_clock.
Tick ==
    LET Less(time) == IF time > 0 THEN time - 1 ELSE 0
    IN  /\ checkIn' = Less(checkIn)
        /\ timerIn' = Less(timerIn)
        /\ elapsed' = IF elapsed < MaxElapsed THEN elapsed + 1 ELSE elapsed
        /\ UNCHANGED <<pm, rate, nextWaitTime, owed, wire, sendFailed>>

Next ==
    \/ \E p \in Packet : QueueStarts(p) \/ QueueJoins(p)
    \/ WriteSucceeds
    \/ WriteFails
    \/ TimerFires
    \/ \E r \in Rates : SetWriteBitRate(r)
    \/ Tick

Spec == Init /\ [][Next]_vars

\* As in PacketManager, and time passes.
FairSpec ==
    Spec /\ WF_vars(WriteSucceeds \/ WriteFails) /\ WF_vars(TimerFires) /\ WF_vars(Tick)

-----------------------------------------------------------------------------
(* Properties *)

\* The configured rate is kept over every window that is followed by another
\* in one chain: it lasted at least as long as what was sent in it takes at
\* the rate, which may change meanwhile.
RateKept ==
    [][pm.waits > 0 /\ pm'.waits = 0 => elapsed >= IF owed < MaxElapsed THEN owed ELSE MaxElapsed]_vars

\* And it is not missed by waiting longer: a wait is for this window only,
\* and not for an earlier one or an earlier chain.
WaitIsOwed == pm.waits > 0 => timerIn <= IF owed > Window THEN owed - Window ELSE 0

\* "Configurable upload and download rate limits" (README.md:29), also over
\* windows of different chains.  It does not hold: a packet that is queued
\* after the queue went empty opens a window at once, and what the last one
\* still owes is forgotten.
ChainsKeepRate ==
    [][~pm.sending /\ pm'.sending => elapsed >= IF owed < MaxElapsed THEN owed ELSE MaxElapsed]_vars

\* With its clock the packet manager implements the one that chooses when
\* to wait, and every wait ends: what is shown of that one holds here.
Chosen == INSTANCE PacketManager
            WITH socket <- "open", received <- 0, MaxReceived <- 0,
                 disconnects <- IF sendFailed THEN 1 ELSE 0,
                 queuedCount <- [p \in Packet |-> Cardinality({i \in 1..Len(pm.queue) : pm.queue[i] = p})]

PacketManagerSpec == Chosen!FairSpec
=============================================================================
