---------------------------- MODULE ClientQueue ----------------------------
(***************************************************************************)
(* The packet manager of the client, used by two threads without a lock:   *)
(* the UI thread queues packets, the asio thread runs the completion       *)
(* handlers, which queue packets too.  PacketManager runs one handler at a *)
(* time; here queuePacket, doSend and a write's completion handler are cut *)
(* where the other thread can see the difference, at every access to       *)
(* m_packet_queue and m_sending.                                           *)
(*                                                                         *)
(* The model begins in the middle of Client::onConnect, on the asio        *)
(* thread, when m_packet_manager was assigned: from here on isConnected    *)
(* lets the UI thread pass.  It ends when a write fails; what happens to a *)
(* connection after that is another subject.                               *)
(*                                                                         *)
(* Each access takes effect at once, in program order.  What a data race   *)
(* on a std::deque can do beyond that is not modelled.  What front and     *)
(* pop_front do to an empty deque is: they read, and step over, a place    *)
(* that holds no packet any more, or the program crashes.                  *)
(***************************************************************************)
EXTENDS Naturals, Sequences, Functions

CONSTANTS
    Packet,     \* the packets the UI and the send handler queue
    UserInfo,   \* the packet that greets the server
    Rate,       \* the UpdateWriteRate packet that follows it
    MaxPushed,  \* bound: packets pushed in a behaviour
    MaxMissing  \* bound: places the front of the deque is beyond its end

ASSUME GreetingAssumption == UserInfo # Rate /\ {UserInfo, Rate} \cap Packet = {}
ASSUME BoundAssumption == MaxPushed \in Nat /\ MaxMissing \in Nat

Thread == {"ui", "asio"}
AnyPacket == Packet \cup {UserInfo, Rate}

VARIABLES
    queue,      \* m_packet_queue
    missing,    \* how far pop_front has taken its front beyond its end
    sending,    \* m_sending
    writes,     \* async_write operations in flight, oldest first
    waits,      \* async_wait operations pending
    aborted,    \* those a later expires_after has cancelled
    at,         \* where each thread is
    arg,        \* the argument of its queuePacket
    greeted,    \* onConnect has returned
    failed,     \* a write has completed with an error
    crashed,    \* the program was terminated
    raced,      \* history: a thread set an m_sending that was set
    strayed,    \* history: front or pop_front was called on an empty deque
    pushed,     \* history: every packet pushed to the queue, in order
    wire        \* history: the packets whose write succeeded, in order

deque == <<queue, missing, pushed>>
ops == <<writes, waits, aborted>>
ends == <<failed, crashed>>
vars == <<deque, sending, ops, at, arg, greeted, ends, raced, strayed, wire>>

\* The places: "idle" (the asio thread waits for a completion, the UI thread
\* does something else); in queuePacket "push", "test", "start" and "first"
\* (its doSend); in a completion handler "handler", "empty", "send" (its
\* doSend) and "clear".
Place == {"idle", "push", "test", "start", "first", "handler", "empty", "send", "clear"}

Init ==
    /\ queue = <<>> /\ missing = 0 /\ sending = FALSE
    /\ writes = <<>> /\ waits = 0 /\ aborted = 0
    /\ at = [t \in Thread |-> IF t = "asio" THEN "push" ELSE "idle"]
    /\ arg = [t \in Thread |-> UserInfo]
    /\ greeted = FALSE /\ failed = FALSE /\ crashed = FALSE
    /\ raced = FALSE /\ strayed = FALSE
    /\ pushed = <<>> /\ wire = <<>>

At(t, place) == ~crashed /\ at[t] = place
Goto(t, place) == at' = [at EXCEPT ![t] = place]

-----------------------------------------------------------------------------
(* The deque *)

\* m_packet_queue.empty(), also when its front is beyond its end.
Empty == queue = <<>> /\ missing = 0

PushBack(p) ==
    /\ pushed' = Append(pushed, p)
    /\ IF missing = 0
         THEN queue' = Append(queue, p) /\ UNCHANGED missing
         ELSE missing' = missing - 1 /\ UNCHANGED queue

\* What front() may return: of an empty deque, a packet of the past.
Fronts == IF queue # <<>> THEN {Head(queue)} ELSE Range(pushed)

\* Mutation: pop_back.
PopBack ==
    IF queue # <<>>
      THEN queue' = SubSeq(queue, 1, Len(queue) - 1) /\ UNCHANGED <<missing, pushed, strayed>>
      ELSE /\ missing < MaxMissing
           /\ missing' = missing + 1
           /\ strayed' = TRUE
           /\ UNCHANGED <<queue, pushed>>

PopFront ==
    IF queue # <<>>
      THEN queue' = Tail(queue) /\ UNCHANGED <<missing, pushed, strayed>>
      ELSE /\ missing < MaxMissing
           /\ missing' = missing + 1
           /\ strayed' = TRUE
           /\ UNCHANGED <<queue, pushed>>

\* front or pop_front of an empty deque, or what the former returned, ends
\* the program.
Crash ==
    /\ ~crashed /\ queue = <<>>
    /\ \/ \E t \in Thread : at[t] \in {"first", "send"}
       \/ at["asio"] = "idle" /\ (writes # <<>> \/ waits > 0)
    /\ crashed' = TRUE /\ strayed' = TRUE
    /\ UNCHANGED <<deque, sending, ops, at, arg, greeted, failed, raced, wire>>

-----------------------------------------------------------------------------
(* queuePacket *)

Call(t, p) ==
    /\ Len(pushed) < MaxPushed
    /\ arg' = [arg EXCEPT ![t] = p]
    /\ Goto(t, "push")

UiQueues(p) ==
    /\ At("ui", "idle")
    /\ ~failed
    /\ Call("ui", p)
    /\ UNCHANGED <<deque, sending, ops, greeted, ends, raced, strayed, wire>>

Push(t) ==
    /\ At(t, "push")
    /\ PushBack(arg[t])
    /\ Goto(t, "test")
    /\ UNCHANGED <<sending, ops, arg, greeted, ends, raced, strayed, wire>>

\* Where queuePacket returns to: onConnect queues the rate after the
\* greeting and is done then; the send handler returns to its caller.
Return(t) ==
    IF t = "ui"
      THEN Goto(t, "idle") /\ UNCHANGED <<arg, greeted>>
    ELSE IF arg[t] = UserInfo
      THEN Goto(t, "push") /\ arg' = [arg EXCEPT ![t] = Rate] /\ UNCHANGED greeted
    ELSE IF ~greeted
      THEN Goto(t, "idle") /\ greeted' = TRUE /\ UNCHANGED arg
    ELSE Goto(t, "empty") /\ UNCHANGED <<arg, greeted>>

Test(t) ==
    /\ At(t, "test")
    /\ IF sending THEN Return(t) ELSE Goto(t, "start") /\ UNCHANGED <<arg, greeted>>
    /\ UNCHANGED <<deque, sending, ops, ends, raced, strayed, wire>>

\* Mutation: m_sending is not set.
StartUnmarked(t) ==
    /\ At(t, "start")
    /\ raced' = (raced \/ sending)
    /\ Goto(t, "first")
    /\ UNCHANGED <<deque, sending, ops, arg, greeted, ends, strayed, wire>>

\* m_sending is set; doSend follows at once and does not wait (the window
\* was just opened).
Start(t) ==
    /\ At(t, "start")
    /\ raced' = (raced \/ sending)
    /\ sending' = TRUE
    /\ Goto(t, "first")
    /\ UNCHANGED <<deque, ops, arg, greeted, ends, strayed, wire>>

\* Mutation: the timer's expiry is not set before it is waited for.
WaitBeside == waits' = waits + 1 /\ UNCHANGED <<writes, aborted, strayed>>

\* The two branches of doSend.  expires_after cancels a wait that is pending.
Write ==
    /\ \E p \in Fronts : writes' = Append(writes, p)
    /\ strayed' = (strayed \/ queue = <<>>)
    /\ UNCHANGED <<waits, aborted>>
Wait == waits' = 1 /\ aborted' = aborted + waits /\ UNCHANGED <<writes, strayed>>

SendFromQueuePacket(t) ==
    /\ At(t, "first")
    /\ Write
    /\ Return(t)
    /\ UNCHANGED <<deque, sending, ends, raced, wire>>

-----------------------------------------------------------------------------
(* The asio thread *)

\* doSend called by a completion handler, which returns to the io_context.
SendFromHandler ==
    /\ At("asio", "send")
    /\ Write \/ Wait
    /\ Goto("asio", "idle")
    /\ UNCHANGED <<deque, sending, arg, greeted, ends, raced, wire>>

WriteSucceeds ==
    /\ At("asio", "idle")
    /\ writes # <<>>
    /\ PopFront
    /\ writes' = Tail(writes)
    /\ wire' = Append(wire, Head(writes))
    /\ Goto("asio", "handler")
    /\ UNCHANGED <<sending, waits, aborted, arg, greeted, ends, raced>>

SendHandlerReturns ==
    /\ At("asio", "handler")
    /\ Goto("asio", "empty")
    /\ UNCHANGED <<deque, sending, ops, arg, greeted, ends, raced, strayed, wire>>

SendHandlerQueues(p) ==
    /\ At("asio", "handler")
    /\ Call("asio", p)
    /\ UNCHANGED <<deque, sending, ops, greeted, ends, raced, strayed, wire>>

\* Mutation: an empty queue ends the chain, m_sending is not reset.
TestEmptyForgets ==
    /\ At("asio", "empty")
    /\ Goto("asio", IF Empty THEN "idle" ELSE "send")
    /\ UNCHANGED <<deque, sending, ops, arg, greeted, ends, raced, strayed, wire>>

TestEmpty ==
    /\ At("asio", "empty")
    /\ Goto("asio", IF Empty THEN "clear" ELSE "send")
    /\ UNCHANGED <<deque, sending, ops, arg, greeted, ends, raced, strayed, wire>>

Clear ==
    /\ At("asio", "clear")
    /\ sending' = FALSE
    /\ Goto("asio", "idle")
    /\ UNCHANGED <<deque, ops, arg, greeted, ends, raced, strayed, wire>>

WriteFails ==
    /\ At("asio", "idle")
    /\ writes # <<>>
    /\ writes' = Tail(writes)
    /\ failed' = TRUE
    /\ UNCHANGED <<deque, sending, waits, aborted, at, arg, greeted, crashed, raced, strayed, wire>>

\* The window was opened again: doSend does not wait.
TimerFires ==
    /\ At("asio", "idle")
    /\ waits > 0
    /\ waits' = waits - 1
    /\ \E p \in Fronts : writes' = Append(writes, p)
    /\ strayed' = (strayed \/ queue = <<>>)
    /\ UNCHANGED <<deque, sending, aborted, at, arg, greeted, ends, raced, wire>>

\* The handler of a wait that was cancelled.
TimerAborted ==
    /\ At("asio", "idle")
    /\ aborted > 0
    /\ aborted' = aborted - 1
    /\ sending' = FALSE
    /\ UNCHANGED <<deque, writes, waits, at, arg, greeted, ends, raced, strayed, wire>>

-----------------------------------------------------------------------------
QueuePacket(t) == Push(t) \/ Test(t) \/ Start(t) \/ SendFromQueuePacket(t)

Completion ==
    \/ SendFromHandler
    \/ WriteSucceeds
    \/ SendHandlerReturns
    \/ \E p \in Packet : SendHandlerQueues(p)
    \/ TestEmpty
    \/ Clear
    \/ WriteFails
    \/ TimerFires
    \/ TimerAborted

Next ==
    \/ \E p \in Packet : UiQueues(p)
    \/ \E t \in Thread : QueuePacket(t)
    \/ Completion
    \/ Crash

Spec == Init /\ [][Next]_vars

\* Both threads run, and writes and timers complete.  That the user does
\* something is not assumed.
FairSpec == Spec /\ WF_vars(QueuePacket("ui")) /\ WF_vars(QueuePacket("asio") \/ Completion)
-----------------------------------------------------------------------------
(* Properties *)

\* Types of the variables.  The one timer has one wait pending at most, also
\* when two chains wait for it.
TypeOK ==
    /\ queue \in Seq(AnyPacket) /\ writes \in Seq(AnyPacket)
    /\ pushed \in Seq(AnyPacket) /\ wire \in Seq(AnyPacket)
    /\ missing \in 0..MaxMissing /\ waits \in 0..1 /\ aborted \in Nat
    /\ sending \in BOOLEAN /\ greeted \in BOOLEAN
    /\ failed \in BOOLEAN /\ crashed \in BOOLEAN
    /\ raced \in BOOLEAN /\ strayed \in BOOLEAN
    /\ at \in [Thread -> Place] /\ arg \in [Thread -> AnyPacket]

\* A set m_sending always has someone behind it who will go on with the
\* queue or reset it, unless a write failed: however many chains the threads
\* have started, and whatever they found in the deque.  So a packet that the
\* chain missed goes out with the next one: the next queuePacket finds
\* m_sending reset and starts at the front.
SendingIsCarried ==
    sending => \/ writes # <<>> \/ waits > 0 \/ failed \/ crashed
               \/ at["ui"] = "first" \/ at["asio"] # "idle"

\* One chain sends, with one operation pending, as long as the threads do
\* not both find m_sending reset: the UI thread's tests and the asio
\* thread's resets may otherwise meet in any order.
OneChain == ~raced => Len(writes) + waits <= 1

\* Then, and while no thread has come to an empty deque, what was pushed is
\* what was written followed by what is queued, each packet once and in
\* order, and the write in flight is of the front, which its completion will
\* pop.
InOrder ==
    ~raced /\ ~strayed =>
        /\ pushed = wire \o queue
        /\ writes # <<>> => queue # <<>> /\ Head(writes) = Head(queue)

-----------------------------------------------------------------------------
(* What the code relies on or the README says, and does not hold; the README *)
(* tells what TLC shows                                                      *)

\* asio/write.hpp, of async_write: "The program must ensure that the stream
\* performs no other write operations [...] until this operation completes".
OneWrite == Len(writes) <= 1

\* "Broadcast chat for all connected users", and client_ui.cpp sends a
\* message when the button is pressed: what was pushed is written, whether
\* or not the user does something more.  Said only of behaviours in which the
\* threads have not started two chains or come to an empty deque.
EveryPacketSent ==
    \A n \in 1..MaxPushed :
        Len(pushed) >= n ~> Len(wire) >= n \/ failed \/ raced \/ strayed

\* The test of packet_manager.cpp:74, and the push before line 96: doSend
\* never looks at the front of an empty queue, whichever thread takes the
\* last packet out or puts the first one in.
FrontExists == \A t \in Thread : at[t] \in {"first", "send"} => queue # <<>>
=============================================================================
