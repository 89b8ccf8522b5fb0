--------------------------- MODULE FrameLoopProofs ---------------------------
(***************************************************************************)
(* Proofs about FrameLoop for every number of images.                      *)
(*                                                                         *)
(* renderFrame waits for one fence, that of the image it acquired, and for *)
(* no semaphore.  That the semaphores are free all the same follows from   *)
(* counting: frames that the GPU has not finished have different images,   *)
(* and so have frames that it has and that are not shown, so there are at  *)
(* most as many of each as images, and semaphores are one more.            *)
(***************************************************************************)
EXTENDS FrameLoop, SequenceTheorems, FiniteSetTheorems, TLAPS

-----------------------------------------------------------------------------
(* The semaphores go round *)

\* The semaphore that was d before s; d is less than two rounds.
Back(s, d) ==
    IF s >= d THEN s - d
    ELSE IF s + SemaphoreCount >= d THEN s + SemaphoreCount - d
    ELSE s + 2 * SemaphoreCount - d

\* Frames less than a round apart have different semaphores.
LEMMA BackDiffers ==
    ASSUME NEW s \in Semaphore, NEW c \in Nat, NEW d \in Nat,
           c < d, d - c <= ImageCount, d <= 2 * ImageCount
    PROVE  Back(s, c) # Back(s, d)
  BY ImageCountAssumption DEF Back, Semaphore, SemaphoreCount

LEMMA BackZero == ASSUME NEW s \in Semaphore PROVE Back(s, 0) = s
  BY ImageCountAssumption DEF Back, Semaphore, SemaphoreCount

LEMMA Next1 ==
    ASSUME NEW s \in Semaphore
    PROVE  (s + 1) % SemaphoreCount = IF s = ImageCount THEN 0 ELSE s + 1
  BY ImageCountAssumption DEF Semaphore, SemaphoreCount

\* Going on by one semaphore moves every earlier one back by one.
LEMMA BackNext ==
    ASSUME NEW s \in Semaphore, NEW d \in Nat, d <= 2 * ImageCount
    PROVE  /\ (s + 1) % SemaphoreCount \in Semaphore
           /\ Back((s + 1) % SemaphoreCount, d + 1) = Back(s, d)
  BY Next1, ImageCountAssumption DEF Back, Semaphore, SemaphoreCount

-----------------------------------------------------------------------------
(* Types *)

LEMMA InitTypes == Init => TypeOK
<1> SUFFICES ASSUME Init PROVE TypeOK
  OBVIOUS
<1>1. 0 \in Image /\ 0 \in Semaphore
  BY ImageCountAssumption DEF Image, Semaphore, SemaphoreCount
<1>2. <<>> \in Seq(Work)
  OBVIOUS
<1>3. fence \in [Image -> BOOLEAN] /\ complete \in [Semaphore -> BOOLEAN]
  BY DEF Init, NewFences
<1>4. acquired \in [Semaphore -> Image \cup {Idle, Signaled}]
  BY DEF Init
<1>5. QED
  BY <1>1, <1>2, <1>3, <1>4 DEF Init, TypeOK, Place

\* The frame that is drawn.
Current == [image |-> frameIndex, semaphore |-> semaphoreIndex]

LEMMA CurrentType == ASSUME TypeOK PROVE Current \in Work
  BY DEF TypeOK, Current, Work

\* Appending a frame to a list, and taking the first one away.
LEMMA Lists ==
    ASSUME NEW q \in Seq(Work), NEW w \in Work
    PROVE  /\ Append(q, w) \in Seq(Work)
           /\ Len(q) \in Nat
           /\ Len(Append(q, w)) = Len(q) + 1
           /\ \A k \in 1..Len(q) : Append(q, w)[k] = q[k] /\ q[k] \in Work
           /\ Append(q, w)[Len(q) + 1] = w
  BY AppendProperties, LenProperties

LEMMA Fronts ==
    ASSUME NEW q \in Seq(Work), q # <<>>
    PROVE  /\ Head(q) = q[1] /\ q[1] \in Work
           /\ Len(q) \in Nat /\ Len(q) >= 1
           /\ Tail(q) \in Seq(Work)
           /\ Len(Tail(q)) = Len(q) - 1
           /\ \A k \in 1..(Len(q) - 1) : Tail(q)[k] = q[k + 1]
<1>1. Len(q) \in Nat /\ Len(q) # 0
  BY EmptySeq, LenProperties
<1>2. Tail(q) \in Seq(Work) /\ Len(Tail(q)) = Len(q) - 1 /\ Head(q) = q[1]
  BY HeadTailProperties
<1>3. \A k \in 1..Len(Tail(q)) : Tail(q)[k] = q[k + 1]
  BY HeadTailProperties
<1>4. q[1] \in Work
  BY <1>1, ElementOfSeq
<1>5. QED
  BY <1>1, <1>2, <1>3, <1>4

LEMMA UiTypes == ASSUME TypeOK, UiThread PROVE TypeOK'
<1> USE DEF TypeOK, Place, ui, device
<1>1. CASE PollEvents
  BY <1>1 DEF PollEvents
<1>2. CASE NewSwapchain
  <2>1. 0 \in Image
    BY ImageCountAssumption DEF Image
  <2>2. fence' \in [Image -> BOOLEAN] /\ complete' \in [Semaphore -> BOOLEAN]
    BY <1>2 DEF NewSwapchain, NewFrames, NewFences
  <2>3. acquired' \in [Semaphore -> Image \cup {Idle, Signaled}]
    BY <1>2 DEF NewSwapchain, NewFrames
  <2>4. submissions' \in Seq(Work) /\ presents' \in Seq(Work) /\ shown' = NoImage
    BY <1>2 DEF NewSwapchain, NewImages
  <2>5. QED
    BY <1>2, <2>1, <2>2, <2>3, <2>4 DEF NewSwapchain
<1>3. CASE SameSwapchain \/ CaptureFrame \/ CopyFrame \/ Render \/ PresentSkips
           \/ Close \/ DestroyStaging \/ Destroy
  BY <1>3 DEF SameSwapchain, CaptureFrame, CopyFrame, Render, PresentSkips,
              Close, DestroyStaging, Destroy
<1>4. CASE Acquire
  BY <1>4 DEF Acquire
<1>5. CASE AcquireAsksRebuild
  BY <1>5 DEF AcquireAsksRebuild
<1>6. CASE Wait
  BY <1>6 DEF Wait
<1>7. CASE RecordAndSubmit
  <2>1. submissions' \in Seq(Work)
    BY <1>7, CurrentType, Lists DEF RecordAndSubmit, Current
  <2>2. QED
    BY <1>7, <2>1 DEF RecordAndSubmit
<1>8. CASE Present
  <2>1. presents' \in Seq(Work)
    BY <1>8, CurrentType, Lists DEF Present, Current
  <2>2. semaphoreIndex' \in Semaphore
    BY <1>8, BackNext, ImageCountAssumption DEF Present, NextSemaphore
  <2>3. QED
    BY <1>8, <2>1, <2>2 DEF Present
<1>9. CASE PresentAsksRebuild
  <2>1. presents' \in Seq(Work)
    BY <1>9, CurrentType, Lists DEF PresentAsksRebuild, Current
  <2>2. QED
    BY <1>9, <2>1 DEF PresentAsksRebuild
<1>10. QED
  BY <1>1, <1>2, <1>3, <1>4, <1>5, <1>6, <1>7, <1>8, <1>9 DEF UiThread

LEMMA DeviceTypes == ASSUME TypeOK, ImageIsFree \/ Execute \/ Show PROVE TypeOK'
<1> USE DEF TypeOK, ui
<1>1. CASE ImageIsFree
  BY <1>1 DEF ImageIsFree
<1>2. CASE Execute
  <2>1. submissions' \in Seq(Work)
    BY <1>2, Fronts DEF Execute
  <2>2. QED
    BY <1>2, <2>1 DEF Execute
<1>3. CASE Show
  <2>1. presents' \in Seq(Work) /\ Head(presents) \in Work
    BY <1>3, Fronts DEF Show
  <2>2. shown' \in Image
    BY <1>3, <2>1 DEF Show, Work
  <2>3. QED
    BY <1>3, <2>1, <2>2 DEF Show
<1>4. QED
  BY <1>1, <1>2, <1>3

\* The types, for every number of images: the indices stay in range.
THEOREM TypesHold == Spec => []TypeOK
<1>1. TypeOK /\ [Next]_vars => TypeOK'
  <2> SUFFICES ASSUME TypeOK, [Next]_vars PROVE TypeOK'
    OBVIOUS
  <2>1. CASE UNCHANGED vars
    BY <2>1 DEF vars, ui, device, TypeOK
  <2>2. QED
    BY <2>1, UiTypes, DeviceTypes DEF Next
<1>2. QED
  BY <1>1, InitTypes, PTL DEF Spec

-----------------------------------------------------------------------------
(* The frames on their way *)

\* The frames f that were submitted and are not shown; the GPU has finished
\* the first n of them and has the others before it.
Listed(f, n) ==
    /\ f \in Seq(Work) /\ n \in Nat /\ n <= Len(f)
    /\ Len(submissions) = Len(f) - n
    /\ \A k \in 1..Len(submissions) : submissions[k] = f[n + k]

\* They were presented in this order, but perhaps the last one, which is the
\* current one.  The semaphore index is e ahead of the last frame: 0 between
\* its submission and its present, and after a present that asks for a new
\* swapchain.
Presented(f, e) ==
    /\ e \in {0, 1}
    /\ \A k \in 1..Len(presents) : presents[k] = f[k]
    /\ \/ Len(presents) = Len(f)
       \/ Len(presents) = Len(f) - 1 /\ e = 0 /\ f[Len(f)] = Current
    /\ ~rebuild => /\ e = IF at = "present" THEN 0 ELSE 1
                   /\ Len(presents) = Len(f) - 1 + e

\* They took the semaphores one after the other.
RoundRobin(f, e) ==
    \A k \in 1..Len(f) : f[k].semaphore = Back(semaphoreIndex, Len(f) - k + e)

\* The frames from a + 1 to b are of different images.
Apart(f, a, b) == \A j, k \in (a + 1)..b : j # k => f[j].image # f[k].image

\* The fence of a frame before the GPU is reset.
FencesReset(f, n) == \A k \in (n + 1)..Len(f) : ~fence[f[k].image]

\* A render-complete semaphore is signaled by a finished frame, until that is shown.
Completes(f, n) ==
    \A s \in Semaphore : complete[s] <=> \E k \in 1..n : f[k].semaphore = s

\* The image-acquired semaphore of a frame before the GPU is signaled, or
\* will be for its image; it is when no earlier frame of the image is to be shown.
Held(f, n) ==
    \A k \in (n + 1)..Len(f) :
        /\ acquired[f[k].semaphore] \in {Signaled, f[k].image}
        /\ acquired[f[k].semaphore] = Signaled
             => \A j \in 1..(k - 1) : f[j].image # f[k].image

\* The same of the frame that is not submitted yet.
CurrentHeld(f) ==
    at \in {"wait", "record"} =>
        /\ acquired[semaphoreIndex] \in {Signaled, frameIndex}
        /\ acquired[semaphoreIndex] = Signaled
             => \A j \in 1..Len(f) : f[j].image # frameIndex

\* The frame that is recorded is not before the GPU.
Recorded(f, n) ==
    at = "record" =>
        /\ ~fence[frameIndex]
        /\ \A k \in (n + 1)..Len(f) : f[k].image # frameIndex

\* The other image-acquired semaphores have nothing pending.
OthersIdle(f, n) ==
    \A s \in Semaphore :
        \/ acquired[s] = Idle
        \/ \E k \in (n + 1)..Len(f) : f[k].semaphore = s
        \/ s = semaphoreIndex /\ (at \in {"wait", "record"} \/ rebuild)

Frames(f, n, e) ==
    /\ Listed(f, n) /\ Presented(f, e) /\ RoundRobin(f, e)
    /\ Apart(f, 0, n) /\ Apart(f, n, Len(f))
    /\ FencesReset(f, n) /\ Completes(f, n)
    /\ Held(f, n) /\ CurrentHeld(f) /\ Recorded(f, n) /\ OthersIdle(f, n)

\* A swapchain that is to be rebuilt is, before the next image is acquired.
Rebuilds ==
    /\ at \in {"acquire", "wait", "record"} => ~rebuild
    /\ at \in {"update", "copy", "render"} /\ rebuild => ~HasPixels

Order == \E f \in Seq(Work), n \in Nat, e \in {0, 1} : Frames(f, n, e)

-----------------------------------------------------------------------------
(* Counting *)

LEMMA Values ==
    /\ Idle # Signaled /\ NoImage \notin Image
    /\ Idle \notin Image /\ Signaled \notin Image
  BY ImageCountAssumption DEF Idle, Signaled, Image, NoImage

LEMMA Elements ==
    ASSUME NEW f \in Seq(Work)
    PROVE  /\ Len(f) \in Nat
           /\ \A k \in 1..Len(f) :
                /\ f[k] \in Work
                /\ f[k].image \in Image
                /\ f[k].semaphore \in Semaphore
<1>1. Len(f) \in Nat /\ \A k \in 1..Len(f) : f[k] \in Work
  BY LenProperties, ElementOfSeq
<1>2. QED
  BY <1>1 DEF Work

\* Frames of different images are not more than there are images.
LEMMA Pigeons ==
    ASSUME NEW f \in Seq(Work), NEW a \in Nat, NEW b \in Nat,
           a <= b, b <= Len(f), Apart(f, a, b)
    PROVE  b - a <= ImageCount
<1> DEFINE S == (a + 1)..b
<1> DEFINE g == [k \in S |-> f[k].image]
<1>1. g \in [S -> Image]
  BY Elements
<1>2. IsFiniteSet(S) /\ Cardinality(S) = b - a
  <2>1. a + 1 \in Int /\ b \in Int
    OBVIOUS
  <2>2. /\ IsFiniteSet((a + 1)..b)
        /\ Cardinality((a + 1)..b) = IF a + 1 > b THEN 0 ELSE b - (a + 1) + 1
    BY <2>1, FS_Interval
  <2>3. QED
    BY <2>2
<1>3. IsFiniteSet(Image) /\ Cardinality(Image) = ImageCount
  BY FS_Interval, ImageCountAssumption DEF Image
<1>4. \A j, k \in S : j # k => g[j] # g[k]
  BY DEF Apart
<1> HIDE DEF S, g
<1>5. ~(Cardinality(Image) < Cardinality(S))
  BY <1>1, <1>2, <1>3, <1>4, FS_PigeonHole
<1>6. QED
  BY <1>2, <1>3, <1>5, ImageCountAssumption

LEMMA Counts ==
    ASSUME NEW f \in Seq(Work), NEW n \in Nat, n <= Len(f),
           Apart(f, 0, n), Apart(f, n, Len(f))
    PROVE  n <= ImageCount /\ Len(f) - n <= ImageCount /\ Len(f) <= 2 * ImageCount
<1>1. n <= ImageCount /\ Len(f) - n <= ImageCount
  BY Pigeons, Elements
<1>2. QED
  BY <1>1, ImageCountAssumption, Elements

\* Frames that are less than a round apart have different semaphores, and
\* the last ones have not the current one.
LEMMA SemaphoresDiffer ==
    ASSUME NEW f \in Seq(Work), NEW e \in {0, 1}, semaphoreIndex \in Semaphore,
           Len(f) <= 2 * ImageCount, RoundRobin(f, e)
    PROVE  /\ \A j, k \in 1..Len(f) :
                j < k /\ k - j <= ImageCount => f[j].semaphore # f[k].semaphore
           /\ e = 1 => \A k \in 1..Len(f) :
                Len(f) - k < ImageCount => f[k].semaphore # semaphoreIndex
<1>1. Len(f) \in Nat
  BY Elements
<1>2. ASSUME NEW j \in 1..Len(f), NEW k \in 1..Len(f), j < k, k - j <= ImageCount
      PROVE  f[j].semaphore # f[k].semaphore
  <2> DEFINE c == Len(f) - k + e
  <2> DEFINE d == Len(f) - j + e
  <2>1. /\ c \in Nat /\ d \in Nat /\ c < d /\ d - c <= ImageCount /\ d <= 2 * ImageCount
    BY <1>1, <1>2, ImageCountAssumption
  <2>2. f[j].semaphore = Back(semaphoreIndex, d) /\ f[k].semaphore = Back(semaphoreIndex, c)
    BY DEF RoundRobin
  <2> HIDE DEF c, d
  <2>3. QED
    BY <2>1, <2>2, BackDiffers
<1>3. ASSUME e = 1, NEW k \in 1..Len(f), Len(f) - k < ImageCount
      PROVE  f[k].semaphore # semaphoreIndex
  <2> DEFINE d == Len(f) - k + e
  <2>1. d \in Nat /\ 0 < d /\ d - 0 <= ImageCount /\ d <= 2 * ImageCount
    BY <1>1, <1>3, ImageCountAssumption
  <2>2. f[k].semaphore = Back(semaphoreIndex, d)
    BY DEF RoundRobin
  <2> HIDE DEF d
  <2>3. QED
    BY <2>1, <2>2, BackDiffers, BackZero
<1>4. QED
  BY <1>2, <1>3

\* What the semaphores of the frames are not.
LEMMA Distances ==
    ASSUME TypeOK, NEW f, NEW n, NEW e, Frames(f, n, e)
    PROVE  /\ f \in Seq(Work) /\ n \in Nat /\ e \in {0, 1}
           /\ n <= Len(f) /\ n <= ImageCount /\ Len(f) - n <= ImageCount
           /\ Len(f) <= 2 * ImageCount
           /\ \A j, k \in (n + 1)..Len(f) : j # k => f[j].semaphore # f[k].semaphore
           /\ \A j, k \in 1..n : j # k => f[j].semaphore # f[k].semaphore
           /\ n < Len(f) => \A j \in 1..n : f[j].semaphore # f[n + 1].semaphore
           /\ e = 1 => \A k \in (n + 1)..Len(f) : f[k].semaphore # semaphoreIndex
<1>1. f \in Seq(Work) /\ n \in Nat /\ e \in {0, 1} /\ n <= Len(f) /\ Len(f) \in Nat
  BY Elements DEF Frames, Listed, Presented
<1>2. n <= ImageCount /\ Len(f) - n <= ImageCount /\ Len(f) <= 2 * ImageCount
  BY <1>1, Counts DEF Frames
<1>3. /\ \A j, k \in 1..Len(f) :
           j < k /\ k - j <= ImageCount => f[j].semaphore # f[k].semaphore
      /\ e = 1 => \A k \in 1..Len(f) :
           Len(f) - k < ImageCount => f[k].semaphore # semaphoreIndex
  BY <1>1, <1>2, SemaphoresDiffer DEF Frames, TypeOK
<1>4. \A j, k \in (n + 1)..Len(f) : j # k => f[j].semaphore # f[k].semaphore
  <2> SUFFICES ASSUME NEW j \in (n + 1)..Len(f), NEW k \in (n + 1)..Len(f), j < k
               PROVE  f[j].semaphore # f[k].semaphore
    BY <1>1
  <2>1. j \in 1..Len(f) /\ k \in 1..Len(f) /\ k - j <= ImageCount
    BY <1>1, <1>2, ImageCountAssumption
  <2>2. QED
    BY <1>3, <2>1
<1>5. \A j, k \in 1..n : j # k => f[j].semaphore # f[k].semaphore
  <2> SUFFICES ASSUME NEW j \in 1..n, NEW k \in 1..n, j < k
               PROVE  f[j].semaphore # f[k].semaphore
    BY <1>1
  <2>1. j \in 1..Len(f) /\ k \in 1..Len(f) /\ k - j <= ImageCount
    BY <1>1, <1>2, ImageCountAssumption
  <2>2. QED
    BY <1>3, <2>1
<1>6. ASSUME n < Len(f), NEW j \in 1..n PROVE f[j].semaphore # f[n + 1].semaphore
  <2> DEFINE k == n + 1
  <2>1. j \in 1..Len(f) /\ k \in 1..Len(f) /\ j < k /\ k - j <= ImageCount
    BY <1>1, <1>2, <1>6, ImageCountAssumption
  <2> HIDE DEF k
  <2>2. f[j].semaphore # f[k].semaphore
    BY <1>3, <2>1
  <2>3. QED
    BY <2>2 DEF k
<1>7. ASSUME e = 1, NEW k \in (n + 1)..Len(f) PROVE f[k].semaphore # semaphoreIndex
  <2>1. k \in 1..Len(f) /\ Len(f) - k < ImageCount
    BY <1>1, <1>2, <1>7, ImageCountAssumption
  <2>2. QED
    BY <1>3, <1>7, <2>1
<1>8. QED
  BY <1>1, <1>2, <1>4, <1>5, <1>6, <1>7

-----------------------------------------------------------------------------
(* The steps of the UI thread *)

\* Any frames that are in order show the order.
LEMMA Witness ==
    ASSUME NEW f, NEW n, NEW e, Frames(f, n, e)'
    PROVE  Order'
<1>1. f \in Seq(Work) /\ n \in Nat /\ e \in {0, 1}
  BY DEF Frames, Listed, Presented
<1>2. QED
  BY <1>1 DEF Order

\* A step away from the frames leaves them in order.
LEMMA Bystander ==
    ASSUME NEW f, NEW n, NEW e, Frames(f, n, e),
           at \notin {"wait", "record"}, at' \notin {"wait", "record", "present"},
           at = "present" => rebuild,
           UNCHANGED <<rebuild, frameIndex, semaphoreIndex, fence, acquired, complete,
                       submissions, presents>>
    PROVE  Frames(f, n, e)'
<1>1. Listed(f, n)'
  BY DEF Frames, Listed
<1>2. Presented(f, e)'
  BY DEF Frames, Presented, Current
<1>3. RoundRobin(f, e)'
  BY DEF Frames, RoundRobin
<1>4. FencesReset(f, n)' /\ Completes(f, n)' /\ Held(f, n)'
  BY DEF Frames, FencesReset, Completes, Held
<1>5. CurrentHeld(f)' /\ Recorded(f, n)'
  BY DEF CurrentHeld, Recorded
<1>6. OthersIdle(f, n)'
  BY DEF Frames, OthersIdle
<1>7. QED
  BY <1>1, <1>2, <1>3, <1>4, <1>5, <1>6 DEF Frames, Apart

LEMMA Elsewhere ==
    ASSUME TypeOK, Order,
           \/ PollEvents \/ SameSwapchain \/ CaptureFrame \/ CopyFrame \/ Render
           \/ PresentSkips \/ Close \/ DestroyStaging \/ Destroy
    PROVE  Order'
<1>1. PICK f \in Seq(Work), n \in Nat, e \in {0, 1} : Frames(f, n, e)
  BY DEF Order
<1>2. UNCHANGED <<rebuild, frameIndex, semaphoreIndex, fence, acquired, complete,
                  submissions, presents>>
  BY DEF PollEvents, SameSwapchain, CaptureFrame, CopyFrame, Render, PresentSkips,
         Close, DestroyStaging, Destroy, ui, device
<1>3. /\ at \notin {"wait", "record"} /\ at' \notin {"wait", "record", "present"}
      /\ at = "present" => rebuild
  BY DEF PollEvents, SameSwapchain, CaptureFrame, CopyFrame, Render, PresentSkips, MayPresent,
         Close, DestroyStaging, Destroy
<1>4. QED
  BY <1>1, <1>2, <1>3, Bystander, Witness

\* A new swapchain begins with no frame.
LEMMA NewSwapchainOrder ==
    ASSUME TypeOK, NewSwapchain
    PROVE  Order'
<1>1. /\ submissions' = <<>> /\ presents' = <<>> /\ at' = "update" /\ ~rebuild'
      /\ acquired' = [s \in Semaphore |-> Idle]
      /\ complete' = [s \in Semaphore |-> FALSE]
  BY DEF NewSwapchain, NewImages, NewFrames, DeviceIsIdle
<1>2. PICK f : f = <<>>
  OBVIOUS
<1>3. f \in Seq(Work) /\ Len(f) = 0
  BY <1>2
<1>4. Listed(f, 0)'
  BY <1>1, <1>3 DEF Listed
<1>5. Presented(f, 1)'
  BY <1>1, <1>3 DEF Presented
<1>6. RoundRobin(f, 1)' /\ Apart(f, 0, 0) /\ Apart(f, 0, Len(f))
  BY <1>3 DEF RoundRobin, Apart
<1>7. FencesReset(f, 0)' /\ Held(f, 0)'
  BY <1>3 DEF FencesReset, Held
<1>8. Completes(f, 0)' /\ OthersIdle(f, 0)'
  BY <1>1 DEF Completes, OthersIdle
<1>9. CurrentHeld(f)' /\ Recorded(f, 0)'
  BY <1>1 DEF CurrentHeld, Recorded
<1>10. Frames(f, 0, 1)'
  BY <1>4, <1>5, <1>6, <1>7, <1>8, <1>9 DEF Frames, Apart
<1>11. QED
  BY <1>10, Witness

\* An image is acquired, with the current semaphore, which no frame uses.
LEMMA AcquireOrder ==
    ASSUME TypeOK, Rebuilds, Order, Acquire
    PROVE  Order'
<1>1. PICK f \in Seq(Work), n \in Nat, e \in {0, 1} : Frames(f, n, e)
  BY DEF Order
<1>2. PICK i \in Image : acquired' = [acquired EXCEPT ![semaphoreIndex] = i] /\ frameIndex' = i
  BY DEF Acquire
<1>3. /\ at = "acquire" /\ at' = "wait" /\ ~rebuild
      /\ UNCHANGED <<rebuild, semaphoreIndex, fence, complete, submissions, presents>>
  BY DEF Acquire, Rebuilds
<1>4. e = 1 /\ Len(presents) = Len(f)
  BY <1>1, <1>3, Elements DEF Frames, Presented
<1>5. /\ semaphoreIndex \in Semaphore /\ acquired'[semaphoreIndex] = i
      /\ \A s \in Semaphore \ {semaphoreIndex} : acquired'[s] = acquired[s]
  BY <1>2 DEF TypeOK
<1>6. \A k \in (n + 1)..Len(f) : f[k].semaphore \in Semaphore \ {semaphoreIndex}
  BY <1>1, <1>4, Distances, Elements
<1>7. Listed(f, n)'
  BY <1>1, <1>3 DEF Frames, Listed
<1>8. Presented(f, e)'
  BY <1>1, <1>3, <1>4, Elements DEF Frames, Presented
<1>9. RoundRobin(f, e)' /\ FencesReset(f, n)' /\ Completes(f, n)'
  BY <1>1, <1>3 DEF Frames, RoundRobin, FencesReset, Completes
<1>10. Held(f, n)'
  BY <1>1, <1>5, <1>6 DEF Frames, Held
<1>11. CurrentHeld(f)'
  BY <1>2, <1>3, <1>5, Values DEF CurrentHeld
<1>12. Recorded(f, n)'
  BY <1>3 DEF Recorded
<1>13. OthersIdle(f, n)'
  BY <1>1, <1>3, <1>5 DEF Frames, OthersIdle
<1>14. Frames(f, n, e)'
  BY <1>1, <1>7, <1>8, <1>9, <1>10, <1>11, <1>12, <1>13 DEF Frames, Apart
<1>15. QED
  BY <1>14, Witness

\* The same, and a new swapchain will be made; or no image is acquired.
LEMMA AcquireAsksOrder ==
    ASSUME TypeOK, Rebuilds, Order, AcquireAsksRebuild
    PROVE  Order'
<1>1. PICK f \in Seq(Work), n \in Nat, e \in {0, 1} : Frames(f, n, e)
  BY DEF Order
<1>2. \/ UNCHANGED acquired
      \/ \E i \in Image : acquired' = [acquired EXCEPT ![semaphoreIndex] = i]
  BY DEF AcquireAsksRebuild
<1>3. /\ at = "acquire" /\ at' = "present" /\ ~rebuild /\ rebuild'
      /\ UNCHANGED <<frameIndex, semaphoreIndex, fence, complete, submissions, presents>>
  BY DEF AcquireAsksRebuild, Rebuilds
<1>4. e = 1 /\ Len(presents) = Len(f)
  BY <1>1, <1>3, Elements DEF Frames, Presented
<1>5. \A s \in Semaphore \ {semaphoreIndex} : acquired'[s] = acquired[s]
  BY <1>2 DEF TypeOK
<1>6. \A k \in (n + 1)..Len(f) : f[k].semaphore \in Semaphore \ {semaphoreIndex}
  BY <1>1, <1>4, Distances, Elements
<1>7. Listed(f, n)'
  BY <1>1, <1>3 DEF Frames, Listed
<1>8. Presented(f, e)'
  BY <1>1, <1>3, <1>4, Elements DEF Frames, Presented
<1>9. RoundRobin(f, e)' /\ FencesReset(f, n)' /\ Completes(f, n)'
  BY <1>1, <1>3 DEF Frames, RoundRobin, FencesReset, Completes
<1>10. Held(f, n)'
  BY <1>1, <1>5, <1>6 DEF Frames, Held
<1>11. CurrentHeld(f)' /\ Recorded(f, n)'
  BY <1>3 DEF CurrentHeld, Recorded
<1>12. OthersIdle(f, n)'
  BY <1>1, <1>3, <1>5 DEF Frames, OthersIdle
<1>13. Frames(f, n, e)'
  BY <1>1, <1>7, <1>8, <1>9, <1>10, <1>11, <1>12 DEF Frames, Apart
<1>14. QED
  BY <1>13, Witness

\* The fence of the frame is signaled: it is not before the GPU.  It is reset.
LEMMA WaitOrder ==
    ASSUME TypeOK, Rebuilds, Order, Wait
    PROVE  Order'
<1>1. PICK f \in Seq(Work), n \in Nat, e \in {0, 1} : Frames(f, n, e)
  BY DEF Order
<1>2. /\ at = "wait" /\ at' = "record" /\ fence[frameIndex]
      /\ fence' = [fence EXCEPT ![frameIndex] = FALSE]
      /\ UNCHANGED <<rebuild, frameIndex, semaphoreIndex, acquired, complete, submissions,
                     presents>>
  BY DEF Wait, FenceIsSignaled, ui
<1>3. /\ ~fence'[frameIndex]
      /\ \A i \in Image \ {frameIndex} : fence'[i] = fence[i]
  BY <1>2 DEF TypeOK
<1>4. n \in Nat /\ Len(f) \in Nat
      /\ \A k \in (n + 1)..Len(f) : f[k].image \in Image \ {frameIndex} /\ ~fence[f[k].image]
  BY <1>1, <1>2, Elements DEF Frames, FencesReset
<1>5. Listed(f, n)'
  BY <1>1, <1>2 DEF Frames, Listed
<1>6. Presented(f, e)'
  BY <1>1, <1>2 DEF Frames, Presented, Current
<1>7. RoundRobin(f, e)' /\ Completes(f, n)' /\ Held(f, n)'
  BY <1>1, <1>2 DEF Frames, RoundRobin, Completes, Held
<1>8. FencesReset(f, n)'
  BY <1>3, <1>4 DEF FencesReset
<1>9. CurrentHeld(f)'
  BY <1>1, <1>2 DEF Frames, CurrentHeld
<1>10. Recorded(f, n)'
  BY <1>2, <1>3, <1>4 DEF Recorded
<1>11. OthersIdle(f, n)'
  BY <1>1, <1>2 DEF Frames, OthersIdle
<1>12. Frames(f, n, e)'
  BY <1>1, <1>5, <1>6, <1>7, <1>8, <1>9, <1>10, <1>11 DEF Frames, Apart
<1>13. QED
  BY <1>12, Witness


\* The frame is submitted: it is the last one, with the current semaphore.
LEMMA RecordOrder ==
    ASSUME TypeOK, Rebuilds, Order, RecordAndSubmit
    PROVE  Order'
<1>1. PICK f \in Seq(Work), n \in Nat, e \in {0, 1} : Frames(f, n, e)
  BY DEF Order
<1>2. /\ at = "record" /\ at' = "present" /\ ~rebuild
      /\ submissions' = Append(submissions, Current)
      /\ UNCHANGED <<rebuild, frameIndex, semaphoreIndex, fence, acquired, complete, presents>>
  BY DEF RecordAndSubmit, Rebuilds, Current, ui
<1>3. /\ e = 1 /\ Len(presents) = Len(f) /\ n <= Len(f)
      /\ Len(f) \in Nat /\ Len(f) <= 2 * ImageCount
      /\ Len(submissions) = Len(f) - n
      /\ \A k \in 1..Len(submissions) : submissions[k] = f[n + k]
      /\ \A k \in 1..Len(presents) : presents[k] = f[k]
  <2>1. Len(f) \in Nat /\ n <= Len(f) /\ Len(f) <= 2 * ImageCount
    BY <1>1, Elements, Distances
  <2>2. Presented(f, e) /\ Listed(f, n)
    BY <1>1 DEF Frames
  <2>3. e = 1 /\ Len(presents) = Len(f) /\ \A k \in 1..Len(presents) : presents[k] = f[k]
    BY <1>2, <2>1, <2>2 DEF Presented
  <2>4. QED
    BY <2>1, <2>2, <2>3 DEF Listed
<1>4. PICK g : g = Append(f, Current)
  OBVIOUS
<1>5. /\ g \in Seq(Work) /\ Len(g) = Len(f) + 1
      /\ \A k \in 1..Len(f) : g[k] = f[k]
      /\ g[Len(g)] = Current
  BY <1>3, <1>4, CurrentType, Lists
<1>6. Current.image = frameIndex /\ Current.semaphore = semaphoreIndex
  BY DEF Current
<1>7. \A k \in 1..Len(g) : k \in 1..Len(f) \/ k = Len(g)
  BY <1>3, <1>5
<1>8. Listed(g, n)'
  <2>1. /\ Len(submissions') = Len(submissions) + 1
        /\ \A k \in 1..Len(submissions) : submissions'[k] = submissions[k]
        /\ submissions'[Len(submissions) + 1] = Current
    BY <1>2, CurrentType, Lists DEF TypeOK
  <2>2. Len(submissions') = Len(g) - n /\ n <= Len(g)
    BY <1>3, <1>5, <2>1
  <2>3. ASSUME NEW k \in 1..Len(submissions') PROVE submissions'[k] = g[n + k]
    <3>1. CASE k = Len(submissions) + 1
      <4>1. n + k = Len(g)
        BY <1>3, <1>5, <3>1
      <4>2. QED
        BY <1>5, <2>1, <3>1, <4>1
    <3>2. CASE k # Len(submissions) + 1
      <4>1. k \in 1..Len(submissions) /\ n + k \in 1..Len(f)
        BY <1>3, <2>1, <3>2
      <4>2. QED
        BY <1>3, <1>5, <2>1, <4>1
    <3>3. QED
      BY <3>1, <3>2
  <2>4. QED
    BY <1>5, <2>2, <2>3 DEF Listed
<1>9. Presented(g, 0)'
  <2>1. Current' = Current
    BY <1>2 DEF Current
  <2>2. QED
    BY <1>2, <1>3, <1>5, <2>1 DEF Presented
<1>10. RoundRobin(g, 0)'
  <2> SUFFICES ASSUME NEW k \in 1..Len(g)
               PROVE  g[k].semaphore = Back(semaphoreIndex, Len(g) - k + 0)
    BY <1>2 DEF RoundRobin
  <2>1. CASE k \in 1..Len(f)
    <3>1. f[k].semaphore = Back(semaphoreIndex, Len(f) - k + 1)
      BY <1>1, <1>3, <2>1 DEF Frames, RoundRobin
    <3>2. Len(g) - k + 0 = Len(f) - k + 1
      BY <1>3, <1>5, <2>1
    <3>3. QED
      BY <1>5, <2>1, <3>1, <3>2
  <2>2. CASE k = Len(g)
    <3>1. Len(g) - k + 0 = 0
      BY <1>3, <1>5, <2>2
    <3>2. QED
      BY <1>5, <1>6, <2>2, <3>1, BackZero DEF TypeOK
  <2>3. QED
    BY <1>7, <2>1, <2>2
<1>11. Apart(g, 0, n) /\ Apart(g, n, Len(g))
  <2>1. Apart(g, 0, n)
    BY <1>1, <1>3, <1>5 DEF Frames, Apart
  <2>2. \A k \in (n + 1)..Len(f) : f[k].image # frameIndex
    BY <1>1, <1>2 DEF Frames, Recorded
  <2>3. ASSUME NEW j \in (n + 1)..Len(g), NEW k \in (n + 1)..Len(g), j # k
        PROVE  g[j].image # g[k].image
    <3>1. CASE j \in (n + 1)..Len(f) /\ k \in (n + 1)..Len(f)
      <4>1. g[j] = f[j] /\ g[k] = f[k]
        BY <1>3, <1>5, <3>1
      <4>2. f[j].image # f[k].image
        BY <1>1, <2>3, <3>1 DEF Frames, Apart
      <4>3. QED
        BY <4>1, <4>2
    <3>2. CASE k = Len(g)
      <4>1. j \in (n + 1)..Len(f) /\ g[j] = f[j]
        BY <1>3, <1>5, <2>3, <3>2
      <4>2. QED
        BY <1>5, <1>6, <2>2, <3>2, <4>1
    <3>3. CASE j = Len(g)
      <4>1. k \in (n + 1)..Len(f) /\ g[k] = f[k]
        BY <1>3, <1>5, <2>3, <3>3
      <4>2. QED
        BY <1>5, <1>6, <2>2, <3>3, <4>1
    <3>4. QED
      BY <1>3, <1>5, <3>1, <3>2, <3>3
  <2>4. Apart(g, n, Len(g))
    BY <2>3 DEF Apart
  <2>5. QED
    BY <2>1, <2>4
<1>12. FencesReset(g, n)'
  <2>1. ~fence[frameIndex] /\ \A k \in (n + 1)..Len(f) : ~fence[f[k].image]
    BY <1>1, <1>2 DEF Frames, Recorded, FencesReset
  <2>2. ASSUME NEW k \in (n + 1)..Len(g) PROVE ~fence[g[k].image]
    <3>1. CASE k = Len(g)
      BY <1>5, <1>6, <2>1, <3>1
    <3>2. CASE k # Len(g)
      <4>1. k \in (n + 1)..Len(f) /\ g[k] = f[k]
        BY <1>3, <1>5, <3>2
      <4>2. QED
        BY <2>1, <4>1
    <3>3. QED
      BY <3>1, <3>2
  <2>3. QED
    BY <1>2, <2>2 DEF FencesReset
<1>13. Completes(g, n)'
  <2>1. \A k \in 1..n : g[k] = f[k]
    BY <1>3, <1>5
  <2>2. QED
    BY <1>1, <1>2, <2>1 DEF Frames, Completes
<1>14. Held(g, n)'
  <2> SUFFICES ASSUME NEW k \in (n + 1)..Len(g)
               PROVE  /\ acquired[g[k].semaphore] \in {Signaled, g[k].image}
                      /\ acquired[g[k].semaphore] = Signaled
                           => \A j \in 1..(k - 1) : g[j].image # g[k].image
    BY <1>2 DEF Held
  <2>1. CASE k \in 1..Len(f)
    BY <1>1, <1>3, <1>5, <2>1 DEF Frames, Held
  <2>2. CASE k = Len(g)
    <3>1. \A j \in 1..(k - 1) : g[j] = f[j] /\ j \in 1..Len(f)
      BY <1>3, <1>5, <2>2
    <3>2. /\ acquired[semaphoreIndex] \in {Signaled, frameIndex}
          /\ acquired[semaphoreIndex] = Signaled
               => \A j \in 1..Len(f) : f[j].image # frameIndex
      BY <1>1, <1>2 DEF Frames, CurrentHeld
    <3>3. g[k].image = frameIndex /\ g[k].semaphore = semaphoreIndex
      BY <1>5, <1>6, <2>2
    <3>4. QED
      BY <3>1, <3>2, <3>3
  <2>3. QED
    <3>1. k \in 1..Len(g)
      BY <1>3, <1>5
    <3>2. QED
      BY <1>7, <2>1, <2>2, <3>1
<1>15. CurrentHeld(g)' /\ Recorded(g, n)'
  BY <1>2 DEF CurrentHeld, Recorded
<1>16. OthersIdle(g, n)'
  <2> SUFFICES ASSUME NEW s \in Semaphore, acquired[s] # Idle
               PROVE  \E k \in (n + 1)..Len(g) : g[k].semaphore = s
    BY <1>2 DEF OthersIdle
  <2>1. CASE s = semaphoreIndex
    <3>1. Len(g) \in (n + 1)..Len(g) /\ g[Len(g)].semaphore = s
      BY <1>3, <1>5, <1>6, <2>1
    <3>2. QED
      BY <3>1
  <2>2. CASE \E k \in (n + 1)..Len(f) : f[k].semaphore = s
    BY <1>3, <1>5, <2>2
  <2>3. QED
    BY <1>1, <2>1, <2>2 DEF Frames, OthersIdle
<1>17. Frames(g, n, 0)'
  BY <1>8, <1>9, <1>10, <1>11, <1>12, <1>13, <1>14, <1>15, <1>16 DEF Frames, Apart
<1>18. QED
  BY <1>17, Witness

\* The frame is presented and the semaphore index goes on.
LEMMA PresentOrder ==
    ASSUME TypeOK, Order, Present
    PROVE  Order'
<1>1. PICK f \in Seq(Work), n \in Nat, e \in {0, 1} : Frames(f, n, e)
  BY DEF Order
<1>2. /\ at = "present" /\ at' = "poll" /\ ~rebuild
      /\ presents' = Append(presents, Current)
      /\ semaphoreIndex' = (semaphoreIndex + 1) % SemaphoreCount
      /\ UNCHANGED <<rebuild, frameIndex, fence, acquired, complete, submissions>>
  BY DEF Present, MayPresent, NextSemaphore, Current
<1>3. /\ e = 0 /\ Len(presents) = Len(f) - 1 /\ f[Len(f)] = Current
      /\ Len(f) \in Nat /\ Len(f) <= 2 * ImageCount
      /\ \A k \in 1..Len(presents) : presents[k] = f[k]
  BY <1>1, <1>2, Elements, Distances DEF Frames, Presented
<1>4. Listed(f, n)'
  BY <1>1, <1>2 DEF Frames, Listed
<1>5. Presented(f, 1)'
  <2>1. /\ Len(presents') = Len(presents) + 1
        /\ \A k \in 1..Len(presents) : presents'[k] = presents[k]
        /\ presents'[Len(presents) + 1] = Current
    BY <1>2, CurrentType, Lists DEF TypeOK
  <2>2. \A k \in 1..Len(presents') : k \in 1..Len(presents) \/ k = Len(presents) + 1
    BY <1>3, <2>1
  <2>3. Len(presents') = Len(f) /\ \A k \in 1..Len(presents') : presents'[k] = f[k]
    BY <1>3, <2>1, <2>2
  <2>4. QED
    BY <1>2, <1>3, <2>3 DEF Presented
<1>6. RoundRobin(f, 1)'
  <2> SUFFICES ASSUME NEW k \in 1..Len(f)
               PROVE  f[k].semaphore = Back(semaphoreIndex', Len(f) - k + 1)
    BY DEF RoundRobin
  <2> DEFINE d == Len(f) - k
  <2>1. d \in Nat /\ d <= 2 * ImageCount /\ d + 0 = d
    BY <1>3, ImageCountAssumption
  <2>2. f[k].semaphore = Back(semaphoreIndex, d)
    BY <1>1, <1>3, <2>1 DEF Frames, RoundRobin
  <2> HIDE DEF d
  <2>3. Back((semaphoreIndex + 1) % SemaphoreCount, d + 1) = Back(semaphoreIndex, d)
    BY <2>1, BackNext DEF TypeOK
  <2>4. f[k].semaphore = Back(semaphoreIndex', d + 1)
    BY <1>2, <2>2, <2>3
  <2>5. QED
    BY <2>4 DEF d
<1>7. FencesReset(f, n)' /\ Completes(f, n)' /\ Held(f, n)'
  BY <1>1, <1>2 DEF Frames, FencesReset, Completes, Held
<1>8. CurrentHeld(f)' /\ Recorded(f, n)'
  BY <1>2 DEF CurrentHeld, Recorded
<1>9. OthersIdle(f, n)'
  BY <1>1, <1>2 DEF Frames, OthersIdle
<1>10. Frames(f, n, 1)'
  BY <1>1, <1>4, <1>5, <1>6, <1>7, <1>8, <1>9 DEF Frames, Apart
<1>11. QED
  BY <1>10, Witness

\* The engine may take the frame or not; the semaphore index stays.
LEMMA PresentAsksOrder ==
    ASSUME TypeOK, Order, PresentAsksRebuild
    PROVE  Order'
<1>1. PICK f \in Seq(Work), n \in Nat, e \in {0, 1} : Frames(f, n, e)
  BY DEF Order
<1>2. /\ at = "present" /\ at' = "poll" /\ ~rebuild /\ rebuild'
      /\ UNCHANGED <<frameIndex, semaphoreIndex, fence, acquired, complete, submissions>>
      /\ (presents' = Append(presents, Current) \/ presents' = presents)
  BY DEF PresentAsksRebuild, MayPresent, Current
<1>3. /\ e = 0 /\ Len(presents) = Len(f) - 1 /\ f[Len(f)] = Current
      /\ Len(f) \in Nat /\ Len(f) <= 2 * ImageCount
      /\ \A k \in 1..Len(presents) : presents[k] = f[k]
  BY <1>1, <1>2, Elements, Distances DEF Frames, Presented
<1>4. Listed(f, n)'
  BY <1>1, <1>2 DEF Frames, Listed
<1>5. Presented(f, e)'
  <2>1. Current' = Current
    BY <1>2 DEF Current
  <2>2. CASE presents' = presents
    BY <1>2, <1>3, <2>1, <2>2 DEF Presented
  <2>3. CASE presents' = Append(presents, Current)
    <3>1. /\ Len(presents') = Len(presents) + 1
          /\ \A k \in 1..Len(presents) : presents'[k] = presents[k]
          /\ presents'[Len(presents) + 1] = Current
      BY <2>3, CurrentType, Lists DEF TypeOK
    <3>2. \A k \in 1..Len(presents') : k \in 1..Len(presents) \/ k = Len(presents) + 1
      BY <1>3, <3>1
    <3>3. Len(presents') = Len(f) /\ \A k \in 1..Len(presents') : presents'[k] = f[k]
      BY <1>3, <3>1, <3>2
    <3>4. QED
      BY <1>2, <1>3, <3>3 DEF Presented
  <2>4. QED
    BY <1>2, <2>2, <2>3
<1>6. RoundRobin(f, e)' /\ FencesReset(f, n)' /\ Completes(f, n)' /\ Held(f, n)'
  BY <1>1, <1>2 DEF Frames, RoundRobin, FencesReset, Completes, Held
<1>7. CurrentHeld(f)' /\ Recorded(f, n)'
  BY <1>2 DEF CurrentHeld, Recorded
<1>8. OthersIdle(f, n)'
  BY <1>1, <1>2 DEF Frames, OthersIdle
<1>9. Frames(f, n, e)'
  BY <1>1, <1>4, <1>5, <1>6, <1>7, <1>8 DEF Frames, Apart
<1>10. QED
  BY <1>9, Witness

-----------------------------------------------------------------------------
(* The steps of the GPU and of the engine *)

\* A semaphore is signaled when no earlier frame of the image is to be shown.
LEMMA ImageIsFreeOrder ==
    ASSUME TypeOK, Rebuilds, Order, ImageIsFree
    PROVE  Order'
<1>1. PICK f \in Seq(Work), n \in Nat, e \in {0, 1} : Frames(f, n, e)
  BY DEF Order
<1>2. PICK s \in Semaphore :
         /\ acquired[s] \in Image
         /\ \A k \in 1..Len(presents) :
              presents[k].image = acquired[s] => presents[k].semaphore = s /\ ~complete[s]
         /\ acquired' = [acquired EXCEPT ![s] = Signaled]
  BY DEF ImageIsFree
<1>3. UNCHANGED <<at, rebuild, frameIndex, semaphoreIndex, fence, complete, submissions, presents>>
  BY DEF ImageIsFree, ui
<1>4. acquired'[s] = Signaled /\ \A u \in Semaphore \ {s} : acquired'[u] = acquired[u]
  BY <1>2 DEF TypeOK
<1>5. Len(f) \in Nat /\ n <= Len(f)
  BY <1>1, Elements, Distances
<1>6. /\ \A k \in 1..Len(presents) : presents[k] = f[k]
      /\ Len(presents) = Len(f) \/ Len(presents) = Len(f) - 1
      /\ ~rebuild /\ at # "present" => e = 1 /\ Len(presents) = Len(f)
  BY <1>1, <1>5 DEF Frames, Presented
\* A frame of the image that is presented is before the GPU, with that semaphore.
<1>7. ASSUME NEW j \in 1..Len(presents), f[j].image = acquired[s]
      PROVE  f[j].semaphore = s /\ j \in (n + 1)..Len(f)
  <2>1. presents[j] = f[j] /\ j \in 1..Len(f)
    BY <1>5, <1>6
  <2>2. f[j].semaphore = s /\ ~complete[s]
    BY <1>2, <1>7, <2>1
  <2>3. j \notin 1..n
    BY <1>1, <2>2 DEF Frames, Completes
  <2>4. QED
    BY <1>5, <2>1, <2>2, <2>3
<1>8. Listed(f, n)'
  BY <1>1, <1>3 DEF Frames, Listed
<1>9. Presented(f, e)'
  BY <1>1, <1>3 DEF Frames, Presented, Current
<1>10. RoundRobin(f, e)' /\ FencesReset(f, n)' /\ Completes(f, n)'
  BY <1>1, <1>3 DEF Frames, RoundRobin, FencesReset, Completes
<1>11. Held(f, n)'
  <2> SUFFICES ASSUME NEW k \in (n + 1)..Len(f)
               PROVE  /\ acquired'[f[k].semaphore] \in {Signaled, f[k].image}
                      /\ acquired'[f[k].semaphore] = Signaled
                           => \A j \in 1..(k - 1) : f[j].image # f[k].image
    BY DEF Held
  <2>1. f[k].semaphore \in Semaphore
    BY <1>5, Elements
  <2>2. /\ acquired[f[k].semaphore] \in {Signaled, f[k].image}
        /\ acquired[f[k].semaphore] = Signaled
             => \A j \in 1..(k - 1) : f[j].image # f[k].image
    BY <1>1 DEF Frames, Held
  <2>3. CASE f[k].semaphore # s
    BY <1>4, <2>1, <2>2, <2>3
  <2>4. CASE f[k].semaphore = s
    <3>1. acquired[s] = f[k].image
      BY <1>2, <2>2, <2>4, Values
    <3>2. ASSUME NEW j \in 1..(k - 1), f[j].image = f[k].image PROVE FALSE
      <4>1. j \in 1..Len(presents)
        BY <1>5, <1>6
      <4>2. f[j].semaphore = s /\ j \in (n + 1)..Len(f) /\ j # k
        BY <1>5, <1>7, <3>1, <3>2, <4>1
      <4>3. QED
        BY <1>1, <2>4, <4>2, Distances
    <3>3. QED
      BY <1>4, <2>4, <3>2
  <2>5. QED
    BY <2>3, <2>4
<1>12. CurrentHeld(f)'
  <2> SUFFICES ASSUME at \in {"wait", "record"}
               PROVE  /\ acquired'[semaphoreIndex] \in {Signaled, frameIndex}
                      /\ acquired'[semaphoreIndex] = Signaled
                           => \A j \in 1..Len(f) : f[j].image # frameIndex
    BY <1>3 DEF CurrentHeld
  <2>1. e = 1 /\ Len(presents) = Len(f)
    BY <1>6 DEF Rebuilds
  <2>2. /\ acquired[semaphoreIndex] \in {Signaled, frameIndex}
        /\ acquired[semaphoreIndex] = Signaled
             => \A j \in 1..Len(f) : f[j].image # frameIndex
    BY <1>1 DEF Frames, CurrentHeld
  <2>3. CASE semaphoreIndex # s
    BY <1>4, <2>2, <2>3 DEF TypeOK
  <2>4. CASE semaphoreIndex = s
    <3>1. acquired[s] = frameIndex
      BY <1>2, <2>2, <2>4, Values
    <3>2. ASSUME NEW j \in 1..Len(f), f[j].image = frameIndex PROVE FALSE
      <4>1. f[j].semaphore = s /\ j \in (n + 1)..Len(f)
        BY <1>7, <2>1, <3>1, <3>2
      <4>2. QED
        BY <1>1, <2>1, <2>4, <4>1, Distances
    <3>3. QED
      BY <1>4, <2>4, <3>2
  <2>5. QED
    BY <2>3, <2>4
<1>13. Recorded(f, n)'
  BY <1>1, <1>3 DEF Frames, Recorded
<1>14. OthersIdle(f, n)'
  <2>1. acquired[s] # Idle
    BY <1>2, Values
  <2>2. QED
    BY <1>1, <1>3, <1>4, <2>1 DEF Frames, OthersIdle
<1>15. Frames(f, n, e)'
  BY <1>1, <1>8, <1>9, <1>10, <1>11, <1>12, <1>13, <1>14 DEF Frames, Apart
<1>16. QED
  BY <1>15, Witness

\* The GPU finishes the first frame before it.
LEMMA ExecuteOrder ==
    ASSUME TypeOK, Rebuilds, Order, Execute
    PROVE  Order'
<1>1. PICK f \in Seq(Work), n \in Nat, e \in {0, 1} : Frames(f, n, e)
  BY DEF Order
<1>2. PICK h : h = Head(submissions)
  OBVIOUS
<1>3. /\ submissions # <<>> /\ submissions' = Tail(submissions)
      /\ acquired[h.semaphore] = Signaled
      /\ acquired' = [acquired EXCEPT ![h.semaphore] = Idle]
      /\ complete' = [complete EXCEPT ![h.semaphore] = TRUE]
      /\ fence' = [fence EXCEPT ![h.image] = TRUE]
      /\ UNCHANGED <<at, rebuild, frameIndex, semaphoreIndex, presents>>
  BY <1>2 DEF Execute, ui
<1>4. /\ Len(f) \in Nat /\ n <= Len(f)
      /\ Len(submissions) = Len(f) - n
      /\ \A k \in 1..Len(submissions) : submissions[k] = f[n + k]
  BY <1>1, Elements, Distances DEF Frames, Listed
<1>5. /\ h = submissions[1] /\ Len(submissions) >= 1
      /\ Len(submissions') = Len(submissions) - 1
      /\ \A k \in 1..(Len(submissions) - 1) : submissions'[k] = submissions[k + 1]
  BY <1>2, <1>3, Fronts DEF TypeOK
<1>6. PICK m : m = n + 1
  OBVIOUS
<1>7. /\ m \in 1..Len(f) /\ m \in (n + 1)..Len(f) /\ m \in Nat
      /\ \A k \in (m + 1)..Len(f) : k \in (n + 1)..Len(f) /\ k # m /\ k \in 1..Len(f)
      /\ \A k \in 1..m : k \in 1..n \/ k = m
      /\ \A k \in 1..n : k \in 1..m
      /\ \A k \in (n + 1)..Len(f) : k \in (m + 1)..Len(f) \/ k = m
  BY <1>4, <1>5, <1>6
<1>8. h = f[m] /\ h.image \in Image /\ h.semaphore \in Semaphore
  <2>1. h = f[m]
    BY <1>4, <1>5, <1>6
  <2>2. QED
    BY <1>7, <2>1, Elements
<1>9. /\ acquired'[h.semaphore] = Idle
      /\ \A s \in Semaphore \ {h.semaphore} : acquired'[s] = acquired[s]
      /\ complete'[h.semaphore]
      /\ \A s \in Semaphore \ {h.semaphore} : complete'[s] = complete[s]
      /\ \A i \in Image \ {h.image} : fence'[i] = fence[i]
  BY <1>3, <1>8 DEF TypeOK
\* What differs from the frame that is finished.
<1>10. ASSUME NEW k \in (m + 1)..Len(f)
       PROVE  f[k].image \in Image \ {h.image} /\ f[k].semaphore \in Semaphore \ {h.semaphore}
  BY <1>1, <1>7, <1>8, Distances, Elements DEF Frames, Apart
<1>11. Listed(f, m)'
  <2>1. m <= Len(f) /\ Len(submissions') = Len(f) - m
    BY <1>4, <1>5, <1>6, <1>7
  <2>2. ASSUME NEW k \in 1..Len(submissions') PROVE submissions'[k] = f[m + k]
    <3>1. k + 1 \in 1..Len(submissions) /\ k \in 1..(Len(submissions) - 1) /\ n + (k + 1) = m + k
      BY <1>4, <1>5, <1>6
    <3>2. submissions'[k] = submissions[k + 1] /\ submissions[k + 1] = f[n + (k + 1)]
      BY <1>4, <1>5, <3>1
    <3>3. QED
      BY <3>1, <3>2
  <2>3. QED
    BY <1>7, <2>1, <2>2 DEF Listed
<1>12. Presented(f, e)'
  BY <1>1, <1>3 DEF Frames, Presented, Current
<1>13. RoundRobin(f, e)'
  BY <1>1, <1>3 DEF Frames, RoundRobin
<1>14. Apart(f, 0, m)
  <2>1. \A j \in 1..n : f[j].image # f[m].image
    <3>1. 1..(m - 1) = 1..n
      BY <1>6
    <3>2. QED
      BY <1>1, <1>3, <1>7, <1>8, <3>1 DEF Frames, Held
  <2>2. QED
    BY <1>1, <1>7, <2>1 DEF Frames, Apart
<1>15. Apart(f, m, Len(f))
  BY <1>1, <1>7 DEF Frames, Apart
<1>16. FencesReset(f, m)'
  BY <1>1, <1>7, <1>9, <1>10 DEF Frames, FencesReset
<1>17. Completes(f, m)'
  <2> SUFFICES ASSUME NEW s \in Semaphore
               PROVE  complete'[s] <=> \E k \in 1..m : f[k].semaphore = s
    BY DEF Completes
  <2>1. complete[s] <=> \E k \in 1..n : f[k].semaphore = s
    BY <1>1 DEF Frames, Completes
  <2>2. CASE s = h.semaphore
    <3>1. m \in 1..m
      BY <1>7
    <3>2. QED
      BY <1>8, <1>9, <2>2, <3>1
  <2>3. CASE s # h.semaphore
    BY <1>7, <1>8, <1>9, <2>1, <2>3
  <2>4. QED
    BY <2>2, <2>3
<1>18. Held(f, m)'
  BY <1>1, <1>7, <1>9, <1>10 DEF Frames, Held
<1>19. CurrentHeld(f)'
  <2> SUFFICES ASSUME at \in {"wait", "record"}
               PROVE  /\ acquired'[semaphoreIndex] \in {Signaled, frameIndex}
                      /\ acquired'[semaphoreIndex] = Signaled
                           => \A j \in 1..Len(f) : f[j].image # frameIndex
    BY <1>3 DEF CurrentHeld
  <2>1. e = 1
    BY <1>1 DEF Frames, Presented, Rebuilds
  <2>2. semaphoreIndex \in Semaphore \ {h.semaphore}
    BY <1>1, <1>7, <1>8, <2>1, Distances DEF TypeOK
  <2>3. QED
    BY <1>1, <1>9, <2>2 DEF Frames, CurrentHeld
<1>20. Recorded(f, m)'
  <2> SUFFICES ASSUME at = "record"
               PROVE  ~fence'[frameIndex] /\ \A k \in (m + 1)..Len(f) : f[k].image # frameIndex
    BY <1>3 DEF Recorded
  <2>1. ~fence[frameIndex] /\ \A k \in (n + 1)..Len(f) : f[k].image # frameIndex
    BY <1>1 DEF Frames, Recorded
  <2>2. frameIndex \in Image \ {h.image}
    BY <1>7, <1>8, <2>1 DEF TypeOK
  <2>3. QED
    BY <1>7, <1>9, <2>1, <2>2
<1>21. OthersIdle(f, m)'
  <2> SUFFICES ASSUME NEW s \in Semaphore
               PROVE  \/ acquired'[s] = Idle
                      \/ \E k \in (m + 1)..Len(f) : f[k].semaphore = s
                      \/ s = semaphoreIndex /\ (at \in {"wait", "record"} \/ rebuild)
    BY <1>3 DEF OthersIdle
  <2>1. CASE s = h.semaphore
    BY <1>9, <2>1
  <2>2. CASE s # h.semaphore
    BY <1>1, <1>7, <1>8, <1>9, <2>2 DEF Frames, OthersIdle
  <2>3. QED
    BY <2>1, <2>2
<1>22. Frames(f, m, e)'
  BY <1>11, <1>12, <1>13, <1>14, <1>15, <1>16, <1>17, <1>18, <1>19, <1>20, <1>21
     DEF Frames, Apart
<1>23. QED
  BY <1>22, Witness


\* The engine shows the first frame that is presented, which is finished.
LEMMA ShowOrder ==
    ASSUME TypeOK, Order, Show
    PROVE  Order'
<1>1. PICK f \in Seq(Work), n \in Nat, e \in {0, 1} : Frames(f, n, e)
  BY DEF Order
<1>2. PICK h : h = Head(presents)
  OBVIOUS
<1>3. /\ presents # <<>> /\ presents' = Tail(presents) /\ complete[h.semaphore]
      /\ complete' = [complete EXCEPT ![h.semaphore] = FALSE]
      /\ UNCHANGED <<at, rebuild, frameIndex, semaphoreIndex, fence, acquired, submissions>>
  BY <1>2 DEF Show, ui
<1>4. /\ Len(f) \in Nat /\ n <= Len(f)
      /\ Len(submissions) = Len(f) - n
      /\ \A k \in 1..Len(submissions) : submissions[k] = f[n + k]
  BY <1>1, Elements, Distances DEF Frames, Listed
<1>5. /\ \A k \in 1..Len(presents) : presents[k] = f[k]
      /\ \/ Len(presents) = Len(f)
         \/ Len(presents) = Len(f) - 1 /\ e = 0 /\ f[Len(f)] = Current
      /\ ~rebuild => /\ e = IF at = "present" THEN 0 ELSE 1
                     /\ Len(presents) = Len(f) - 1 + e
  BY <1>1 DEF Frames, Presented
<1>6. /\ h = presents[1] /\ Len(presents) \in Nat /\ Len(presents) >= 1
      /\ Len(presents') = Len(presents) - 1
      /\ \A k \in 1..(Len(presents) - 1) : presents'[k] = presents[k + 1]
  BY <1>2, <1>3, Fronts DEF TypeOK
<1>7. /\ h = f[1] /\ 1 \in 1..Len(f) /\ h.semaphore \in Semaphore
  BY <1>4, <1>5, <1>6, Elements
<1>8. n >= 1
  BY <1>1, <1>3, <1>7 DEF Frames, Completes
<1>9. PICK g, m : g = Tail(f) /\ m = n - 1
  OBVIOUS
<1>10. /\ g \in Seq(Work) /\ Len(g) = Len(f) - 1
       /\ \A k \in 1..(Len(f) - 1) : g[k] = f[k + 1]
  <2>1. f # <<>>
    BY <1>7
  <2>2. QED
    BY <1>9, <2>1, Fronts
<1>11. /\ m \in Nat /\ m <= Len(g)
       /\ \A k \in 1..Len(g) : g[k] = f[k + 1] /\ k + 1 \in 1..Len(f)
       /\ \A k \in 1..m : k \in 1..Len(g) /\ k + 1 \in 1..n /\ k + 1 # 1
       /\ \A k \in (m + 1)..Len(g) : k \in 1..Len(g) /\ k + 1 \in (n + 1)..Len(f)
  BY <1>4, <1>8, <1>9, <1>10
<1>12. /\ ~complete'[h.semaphore]
       /\ \A s \in Semaphore \ {h.semaphore} : complete'[s] = complete[s]
  BY <1>3, <1>7 DEF TypeOK
<1>13. Listed(g, m)'
  <2>1. Len(submissions) = Len(g) - m
    BY <1>4, <1>9, <1>10
  <2>2. ASSUME NEW k \in 1..Len(submissions) PROVE submissions[k] = g[m + k]
    <3>1. m + k \in 1..(Len(f) - 1) /\ (m + k) + 1 = n + k
      BY <1>4, <1>8, <1>9
    <3>2. g[m + k] = f[(m + k) + 1]
      BY <1>10, <3>1
    <3>3. QED
      BY <1>4, <3>1, <3>2
  <2>3. QED
    BY <1>3, <1>10, <1>11, <2>1, <2>2 DEF Listed
<1>14. Presented(g, e)'
  <2>1. ASSUME NEW k \in 1..Len(presents') PROVE presents'[k] = g[k]
    <3>1. k \in 1..(Len(presents) - 1) /\ k \in 1..(Len(f) - 1) /\ k + 1 \in 1..Len(presents)
      BY <1>4, <1>5, <1>6
    <3>2. QED
      BY <1>5, <1>6, <1>10, <3>1
  <2>2. \/ Len(presents') = Len(g)
        \/ Len(presents') = Len(g) - 1 /\ e = 0 /\ g[Len(g)] = Current
    <3>1. CASE Len(presents) = Len(f)
      BY <1>6, <1>10, <3>1
    <3>2. CASE Len(presents) = Len(f) - 1 /\ e = 0 /\ f[Len(f)] = Current
      <4>1. Len(g) \in 1..(Len(f) - 1) /\ Len(g) + 1 = Len(f)
        BY <1>4, <1>6, <1>10, <3>2
      <4>2. g[Len(g)] = Current
        BY <1>10, <3>2, <4>1
      <4>3. QED
        BY <1>6, <1>10, <3>2, <4>2
    <3>3. QED
      BY <1>5, <3>1, <3>2
  <2>3. ~rebuild => /\ e = IF at = "present" THEN 0 ELSE 1
                    /\ Len(presents') = Len(g) - 1 + e
    BY <1>4, <1>5, <1>6, <1>10
  <2>4. Current' = Current
    BY <1>3 DEF Current
  <2>5. QED
    BY <1>3, <2>1, <2>2, <2>3, <2>4 DEF Presented
<1>15. RoundRobin(g, e)'
  <2> SUFFICES ASSUME NEW k \in 1..Len(g)
               PROVE  g[k].semaphore = Back(semaphoreIndex, Len(g) - k + e)
    BY <1>3 DEF RoundRobin
  <2>1. f[k + 1].semaphore = Back(semaphoreIndex, Len(f) - (k + 1) + e)
    BY <1>1, <1>11 DEF Frames, RoundRobin
  <2>2. Len(f) - (k + 1) + e = Len(g) - k + e
    BY <1>4, <1>10
  <2>3. QED
    BY <1>11, <2>1, <2>2
<1>16. Apart(g, 0, m)
  <2> SUFFICES ASSUME NEW j \in 1..m, NEW k \in 1..m, j # k
               PROVE  g[j].image # g[k].image
    BY DEF Apart
  <2>1. j + 1 \in (0 + 1)..n /\ k + 1 \in (0 + 1)..n /\ j + 1 # k + 1
    BY <1>11
  <2>2. f[j + 1].image # f[k + 1].image
    BY <1>1, <2>1 DEF Frames, Apart
  <2>3. QED
    BY <1>11, <2>2
<1>17. Apart(g, m, Len(g))
  <2> SUFFICES ASSUME NEW j \in (m + 1)..Len(g), NEW k \in (m + 1)..Len(g), j # k
               PROVE  g[j].image # g[k].image
    BY DEF Apart
  <2>1. j + 1 \in (n + 1)..Len(f) /\ k + 1 \in (n + 1)..Len(f) /\ j + 1 # k + 1
    BY <1>11
  <2>2. f[j + 1].image # f[k + 1].image
    BY <1>1, <2>1 DEF Frames, Apart
  <2>3. QED
    BY <1>11, <2>2
<1>18. FencesReset(g, m)'
  BY <1>1, <1>3, <1>11 DEF Frames, FencesReset
<1>19. Completes(g, m)'
  <2> SUFFICES ASSUME NEW s \in Semaphore
               PROVE  complete'[s] <=> \E k \in 1..m : g[k].semaphore = s
    BY DEF Completes
  <2>1. complete[s] <=> \E k \in 1..n : f[k].semaphore = s
    BY <1>1 DEF Frames, Completes
  <2>2. CASE s = h.semaphore
    <3>1. ASSUME NEW k \in 1..m PROVE g[k].semaphore # s
      <4>1. k + 1 \in 1..n /\ k + 1 # 1 /\ 1 \in 1..n /\ g[k] = f[k + 1]
        BY <1>8, <1>11
      <4>2. f[k + 1].semaphore # f[1].semaphore
        BY <1>1, <4>1, Distances
      <4>3. QED
        BY <1>7, <2>2, <4>1, <4>2
    <3>2. QED
      BY <1>12, <2>2, <3>1
  <2>3. CASE s # h.semaphore
    <3>1. ASSUME NEW k \in 1..n, f[k].semaphore = s PROVE \E j \in 1..m : g[j].semaphore = s
      <4>1. k # 1
        BY <1>7, <2>3, <3>1
      <4>2. k - 1 \in 1..m /\ (k - 1) + 1 = k
        BY <1>9, <4>1
      <4>3. g[k - 1] = f[k]
        BY <1>11, <4>2
      <4>4. QED
        BY <3>1, <4>2, <4>3
    <3>2. ASSUME NEW k \in 1..m, g[k].semaphore = s PROVE \E j \in 1..n : f[j].semaphore = s
      BY <1>11, <3>2
    <3>3. QED
      BY <1>12, <2>1, <2>3, <3>1, <3>2
  <2>4. QED
    BY <2>2, <2>3
<1>20. Held(g, m)'
  <2> SUFFICES ASSUME NEW k \in (m + 1)..Len(g)
               PROVE  /\ acquired[g[k].semaphore] \in {Signaled, g[k].image}
                      /\ acquired[g[k].semaphore] = Signaled
                           => \A j \in 1..(k - 1) : g[j].image # g[k].image
    BY <1>3 DEF Held
  <2>1. k + 1 \in (n + 1)..Len(f) /\ g[k] = f[k + 1] /\ k \in 1..Len(g)
    BY <1>11
  <2>2. /\ acquired[f[k + 1].semaphore] \in {Signaled, f[k + 1].image}
        /\ acquired[f[k + 1].semaphore] = Signaled
             => \A j \in 1..((k + 1) - 1) : f[j].image # f[k + 1].image
    BY <1>1, <2>1 DEF Frames, Held
  <2>3. ASSUME NEW j \in 1..(k - 1) PROVE j + 1 \in 1..((k + 1) - 1) /\ g[j] = f[j + 1]
    BY <1>10, <1>11, <2>1
  <2>4. QED
    BY <2>1, <2>2, <2>3
<1>21. CurrentHeld(g)'
  BY <1>1, <1>3, <1>11 DEF Frames, CurrentHeld
<1>22. Recorded(g, m)'
  BY <1>1, <1>3, <1>11 DEF Frames, Recorded
<1>23. OthersIdle(g, m)'
  <2>1. ASSUME NEW k \in (n + 1)..Len(f)
        PROVE  \E j \in (m + 1)..Len(g) : g[j].semaphore = f[k].semaphore
    <3>1. k - 1 \in (m + 1)..Len(g) /\ (k - 1) + 1 = k
      BY <1>4, <1>9, <1>10
    <3>2. g[k - 1] = f[k]
      BY <1>11, <3>1
    <3>3. QED
      BY <3>1, <3>2
  <2>2. QED
    BY <1>1, <1>3, <2>1 DEF Frames, OthersIdle
<1>24. Frames(g, m, e)'
  BY <1>13, <1>14, <1>15, <1>16, <1>17, <1>18, <1>19, <1>20, <1>21, <1>22, <1>23
     DEF Frames, Apart
<1>25. QED
  BY <1>24, Witness

-----------------------------------------------------------------------------
(* The invariant, and what follows from it *)

LEMMA RebuildsKept == TypeOK /\ Rebuilds /\ [Next]_vars => Rebuilds'
<1> SUFFICES ASSUME TypeOK, Rebuilds, [Next]_vars PROVE Rebuilds'
  OBVIOUS
<1> USE DEF Rebuilds, HasPixels, ui, device
<1>1. CASE PollEvents \/ NewSwapchain \/ SameSwapchain
  BY <1>1 DEF PollEvents, NewSwapchain, SameSwapchain, NeedsSwapchain
<1>2. CASE CaptureFrame \/ CopyFrame \/ Render
  BY <1>2 DEF CaptureFrame, CopyFrame, Render
<1>3. CASE Acquire \/ AcquireAsksRebuild \/ Wait \/ RecordAndSubmit
  BY <1>3 DEF Acquire, AcquireAsksRebuild, Wait, RecordAndSubmit
<1>4. CASE \/ Present \/ PresentAsksRebuild \/ PresentSkips
           \/ Close \/ DestroyStaging \/ Destroy
  BY <1>4 DEF Present, PresentAsksRebuild, PresentSkips, Close, DestroyStaging, Destroy
<1>5. CASE ImageIsFree \/ Execute \/ Show
  BY <1>5 DEF ImageIsFree, Execute, Show
<1>6. CASE UNCHANGED vars
  BY <1>6 DEF vars
<1>7. QED
  BY <1>1, <1>2, <1>3, <1>4, <1>5, <1>6 DEF Next, UiThread

LEMMA OrderKept == TypeOK /\ Rebuilds /\ Order /\ [Next]_vars => Order'
<1> SUFFICES ASSUME TypeOK, Rebuilds, Order, [Next]_vars PROVE Order'
  OBVIOUS
<1>1. CASE UNCHANGED vars
  <2>1. PICK f \in Seq(Work), n \in Nat, e \in {0, 1} : Frames(f, n, e)
    BY DEF Order
  <2>2. Frames(f, n, e)'
    BY <1>1, <2>1 DEF vars, ui, device, Frames, Listed, Presented, RoundRobin, Apart,
       FencesReset, Completes, Held, CurrentHeld, Recorded, OthersIdle, Current
  <2>3. QED
    BY <2>2, Witness
<1>2. CASE UiThread
  BY <1>2, Elsewhere, NewSwapchainOrder, AcquireOrder, AcquireAsksOrder, WaitOrder,
     RecordOrder, PresentOrder, PresentAsksOrder DEF UiThread
<1>3. CASE ImageIsFree \/ Execute \/ Show
  BY <1>3, ImageIsFreeOrder, ExecuteOrder, ShowOrder
<1>4. QED
  BY <1>1, <1>2, <1>3 DEF Next

LEMMA InitOrder == Init => Rebuilds /\ Order
<1> SUFFICES ASSUME Init PROVE Rebuilds /\ Order
  OBVIOUS
<1>1. PICK f : f = <<>>
  OBVIOUS
<1>2. f \in Seq(Work) /\ Len(f) = 0
  BY <1>1
<1>3. Listed(f, 0) /\ Presented(f, 1)
  BY <1>2 DEF Init, Listed, Presented
<1>4. RoundRobin(f, 1) /\ Apart(f, 0, 0) /\ Apart(f, 0, Len(f))
  BY <1>2 DEF RoundRobin, Apart
<1>5. FencesReset(f, 0) /\ Held(f, 0)
  BY <1>2 DEF FencesReset, Held
<1>6. Completes(f, 0) /\ OthersIdle(f, 0) /\ CurrentHeld(f) /\ Recorded(f, 0)
  BY DEF Init, Completes, OthersIdle, CurrentHeld, Recorded
<1>7. Frames(f, 0, 1)
  BY <1>3, <1>4, <1>5, <1>6 DEF Frames
<1>8. Rebuilds
  BY DEF Init, Rebuilds
<1>9. ASSUME NEW n, NEW e, n = 0, e = 1, Frames(f, n, e) PROVE Order
  <2>1. f \in Seq(Work) /\ n \in Nat /\ e \in {0, 1}
    BY <1>2, <1>9
  <2>2. QED
    BY <1>9, <2>1 DEF Order
<1>10. QED
  BY <1>7, <1>8, <1>9

LEMMA Invariance == Spec => [](TypeOK /\ Rebuilds /\ Order)
<1>1. QED
  BY TypesHold, InitOrder, RebuildsKept, OrderKept, PTL DEF Spec

\* The command pool of a frame is reset when the GPU has finished it: for
\* every number of images, and through every rebuild of the swapchain.
THEOREM FramesAreFinished == Spec => []FrameIsFinished
<1>1. TypeOK /\ Order => FrameIsFinished
  <2> SUFFICES ASSUME TypeOK, Order, at = "record", NEW k \in 1..Len(submissions)
               PROVE  submissions[k].image # frameIndex
    BY DEF FrameIsFinished
  <2>1. PICK f \in Seq(Work), n \in Nat, e \in {0, 1} : Frames(f, n, e)
    BY DEF Order
  <2>2. submissions[k] = f[n + k] /\ n + k \in (n + 1)..Len(f)
    BY <2>1, Elements DEF Frames, Listed
  <2>3. QED
    BY <2>1, <2>2 DEF Frames, Recorded
<1>2. QED
  BY <1>1, Invariance, PTL

\* Every frame that is presented was submitted, so that the engine never
\* waits for a semaphore that nothing signals.
THEOREM PresentsAreRendered == Spec => []PresentedIsRendered
<1>1. TypeOK /\ Order => PresentedIsRendered
  <2> SUFFICES ASSUME TypeOK, Order, NEW k \in 1..Len(presents)
               PROVE  \/ complete[presents[k].semaphore]
                      \/ InWork(presents[k].semaphore, submissions)
    BY DEF PresentedIsRendered
  <2>1. PICK f \in Seq(Work), n \in Nat, e \in {0, 1} : Frames(f, n, e)
    BY DEF Order
  <2>2. /\ Len(f) \in Nat /\ n <= Len(f)
        /\ Len(submissions) = Len(f) - n
        /\ \A j \in 1..Len(submissions) : submissions[j] = f[n + j]
    BY <2>1, Elements, Distances DEF Frames, Listed
  <2>3. presents[k] = f[k] /\ k \in 1..Len(f)
    BY <2>1, <2>2 DEF Frames, Presented
  <2>4. CASE k \in 1..n
    BY <2>1, <2>3, <2>4, Elements DEF Frames, Completes
  <2>5. CASE k \notin 1..n
    <3>1. k - n \in 1..Len(submissions) /\ n + (k - n) = k
      BY <2>2, <2>3, <2>5
    <3>2. submissions[k - n] = f[k]
      BY <2>2, <3>1
    <3>3. QED
      BY <2>3, <3>1, <3>2 DEF InWork
  <2>6. QED
    BY <2>4, <2>5
<1>2. QED
  BY <1>1, Invariance, PTL

\* The semaphores that renderFrame uses have nothing pending, though no
\* fence is waited for on their account: with one semaphore more than images,
\* their round is longer than the frames that are on their way.
THEOREM SemaphoresAreFree == Spec => []SemaphoresUnused
<1>1. TypeOK /\ Rebuilds /\ Order => SemaphoresUnused
  <2> SUFFICES ASSUME TypeOK, Rebuilds, Order PROVE SemaphoresUnused
    OBVIOUS
  <2>1. PICK f \in Seq(Work), n \in Nat, e \in {0, 1} : Frames(f, n, e)
    BY DEF Order
  <2>2. /\ Len(f) \in Nat /\ n <= Len(f)
        /\ Len(submissions) = Len(f) - n
        /\ \A j \in 1..Len(submissions) : submissions[j] = f[n + j]
    BY <2>1, Elements, Distances DEF Frames, Listed
  <2>3. ASSUME at = "acquire"
        PROVE  acquired[semaphoreIndex] = Idle /\ ~InWork(semaphoreIndex, submissions)
    <3>1. ~rebuild /\ e = 1
      BY <2>1, <2>3 DEF Rebuilds, Frames, Presented
    <3>2. \A k \in (n + 1)..Len(f) : f[k].semaphore # semaphoreIndex
      BY <2>1, <3>1, Distances
    <3>3. acquired[semaphoreIndex] = Idle
      BY <2>1, <2>3, <3>1, <3>2 DEF Frames, OthersIdle, TypeOK
    <3>4. \A k \in 1..Len(submissions) :
             submissions[k] = f[n + k] /\ n + k \in (n + 1)..Len(f)
      BY <2>2
    <3>5. QED
      BY <3>2, <3>3, <3>4 DEF InWork
  <2>4. ASSUME submissions # <<>>, acquired[Head(submissions).semaphore] = Signaled
        PROVE  ~complete[Head(submissions).semaphore]
    <3>1. Head(submissions) = submissions[1] /\ Len(submissions) >= 1
      BY <2>4, Fronts DEF TypeOK
    <3>2. n < Len(f) /\ n + 1 \in 1..Len(f) /\ submissions[1] = f[n + 1]
      BY <2>2, <3>1
    <3>3. \A j \in 1..n : f[j].semaphore # f[n + 1].semaphore
      BY <2>1, <3>2, Distances
    <3>4. f[n + 1].semaphore \in Semaphore
      BY <3>2, Elements
    <3>5. QED
      BY <2>1, <3>1, <3>2, <3>3, <3>4 DEF Frames, Completes
  <2>5. QED
    BY <2>3, <2>4 DEF SemaphoresUnused
<1>2. QED
  BY <1>1, Invariance, PTL
=============================================================================
