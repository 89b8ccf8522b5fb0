------------------------------ MODULE FrameLoop ------------------------------
(***************************************************************************)
(* The client's frame loop: AppBase::run draws on the UI thread through    *)
(* VulkanContext, and the GPU and the presentation engine work behind it.  *)
(* Each swapchain image has a frame (command pool and fence); semaphores   *)
(* go round on an index of their own, one more than there are images.      *)
(*                                                                         *)
(* Vulkan is external.  The queue executes submissions in order; one waits *)
(* for its image-acquired semaphore and, done, signals its fence and its   *)
(* render-complete semaphore.  The engine shows images in the order they   *)
(* are presented, each after its render-complete semaphore.  Acquiring an  *)
(* image may return before the image is free: the semaphore tells when.    *)
(* Every swapchain has the same number of images.  What is drawn, the      *)
(* windows imgui opens by itself, and results that abort are left out.     *)
(***************************************************************************)
EXTENDS Integers, Sequences

CONSTANT ImageCount

\* c_min_image_count is 2.
ASSUME ImageCountAssumption == ImageCount \in Nat /\ ImageCount >= 2

Image == 0..(ImageCount - 1)
SemaphoreCount == ImageCount + 1
Semaphore == 0..(SemaphoreCount - 1)
NoImage == -1

\* An ImageAcquiredSemaphore is one of these, or the image it will be signaled for.
Idle == -2
Signaled == -1

VARIABLES
    at,             \* where the UI thread is
    window,         \* "shown", "resized", "empty" (no pixels) or "iconified"
    rebuild,        \* m_swapchain_rebuild
    frameIndex,     \* m_window_data.FrameIndex
    semaphoreIndex, \* m_window_data.SemaphoreIndex
    fence,          \* frame -> its Fence is signaled
    acquired,       \* ImageAcquiredSemaphore
    complete,       \* RenderCompleteSemaphore is signaled
    submissions,    \* what the GPU has not finished
    presents,       \* what the engine has not shown
    shown           \* the image on the screen

ui == <<window, rebuild, frameIndex, semaphoreIndex>>
device == <<fence, acquired, complete, submissions, presents, shown>>
vars == <<at, ui, device>>

\* Mutation: fences are created unsignaled.
NewFencesUnsignaled == [i \in Image |-> FALSE]

NewFences == [i \in Image |-> TRUE]

Work == [image : Image, semaphore : Semaphore]

Init ==
    /\ at = "poll" /\ window = "shown" /\ rebuild = FALSE
    /\ frameIndex = 0 /\ semaphoreIndex = 0
    /\ fence = NewFences
    /\ acquired = [s \in Semaphore |-> Idle]
    /\ complete = [s \in Semaphore |-> FALSE]
    /\ submissions = <<>> /\ presents = <<>> /\ shown = NoImage

-----------------------------------------------------------------------------
(* The UI thread *)

\* glfwPollEvents: the user moves and resizes the window.  On Windows an
\* iconified window has no pixels.
PollEvents ==
    /\ at = "poll"
    /\ at' = "newFrame"
    /\ window' \in {"shown", "resized", "empty", "iconified"}
    /\ UNCHANGED <<rebuild, frameIndex, semaphoreIndex, device>>

HasPixels == window \in {"shown", "resized"}

NeedsSwapchain == HasPixels /\ (rebuild \/ window = "resized")

\* ImGui_ImplVulkanH_CreateWindowSwapChain waits for the device first.
DeviceIsIdle == submissions = <<>>
NewImages == DeviceIsIdle /\ presents' = <<>> /\ shown' = NoImage

\* ImGui_ImplVulkanH_CreateWindowCommandBuffers; SemaphoreIndex it leaves alone.
NewFrames ==
    /\ fence' = NewFences
    /\ acquired' = [s \in Semaphore |-> Idle]
    /\ complete' = [s \in Semaphore |-> FALSE]

NewSwapchain ==
    /\ at = "newFrame" /\ NeedsSwapchain
    /\ NewImages
    /\ NewFrames
    /\ frameIndex' = 0
    /\ rebuild' = FALSE
    /\ window' = "shown"
    /\ at' = "update"
    /\ UNCHANGED <<semaphoreIndex, submissions>>

SameSwapchain ==
    /\ at = "newFrame" /\ ~NeedsSwapchain
    /\ at' = IF window = "iconified" THEN "poll" ELSE "update"
    /\ UNCHANGED <<ui, device>>

\* update() asks for the screen and waits for half a second at most.  After
\* an error no new duplication is made.
CaptureFrame ==
    /\ at = "update"
    /\ at' \in {"copy", "render"}
    /\ UNCHANGED <<ui, device>>

\* The captured screen is written to the staging memory.
CopyFrame ==
    /\ at = "copy"
    /\ at' = "render"
    /\ UNCHANGED <<ui, device>>

\* render() draws nothing in a window without pixels.
Render ==
    /\ at = "render"
    /\ at' = IF HasPixels THEN "acquire" ELSE "poll"
    /\ UNCHANGED <<ui, device>>

\* External: the engine hands out an image that it holds, but for the one it
\* shows in the end, which it may keep.
LastPresented == IF presents = <<>> THEN shown ELSE presents[Len(presents)].image
Available(i) == i # LastPresented /\ \A s \in Semaphore : acquired[s] # i

Acquire ==
    /\ at = "acquire"
    /\ \E i \in Image :
        /\ Available(i)
        /\ acquired' = [acquired EXCEPT ![semaphoreIndex] = i]
        /\ frameIndex' = i
    /\ at' = "wait"
    /\ UNCHANGED <<window, rebuild, semaphoreIndex, fence, complete, submissions, presents,
                   shown>>

\* Out of date, or suboptimal: then an image was acquired, and its semaphore
\* will be signaled.
AcquireAsksRebuild ==
    /\ at = "acquire"
    /\ \/ UNCHANGED acquired
       \/ \E i \in Image :
            /\ Available(i)
            /\ acquired' = [acquired EXCEPT ![semaphoreIndex] = i]
    /\ rebuild' = TRUE
    /\ at' = "present"
    /\ UNCHANGED <<window, frameIndex, semaphoreIndex, fence, complete, submissions, presents,
                   shown>>

\* Mutation: the fence is not waited for.
FenceIgnored == TRUE

FenceIsSignaled == fence[frameIndex]

Wait ==
    /\ at = "wait"
    /\ FenceIsSignaled
    /\ fence' = [fence EXCEPT ![frameIndex] = FALSE]
    /\ at' = "record"
    /\ UNCHANGED <<ui, acquired, complete, submissions, presents, shown>>

\* Reset of the command pool, uploadStaging, the render pass and the submit.
RecordAndSubmit ==
    /\ at = "record"
    /\ submissions' = Append(submissions, [image |-> frameIndex, semaphore |-> semaphoreIndex])
    /\ at' = "present"
    /\ UNCHANGED <<ui, fence, acquired, complete, presents, shown>>

\* Mutation: the index does not go round.
NextSemaphoreUnbounded == semaphoreIndex + 1

\* Mutation: as many semaphores as images.
NextSemaphoreOfImages == (semaphoreIndex + 1) % ImageCount

NextSemaphore == (semaphoreIndex + 1) % SemaphoreCount

\* Mutation: presentFrame does not ask whether there is a frame.
MayPresentAlways == TRUE

MayPresent == ~rebuild

Present ==
    /\ at = "present" /\ MayPresent
    /\ presents' = Append(presents, [image |-> frameIndex, semaphore |-> semaphoreIndex])
    /\ semaphoreIndex' = NextSemaphore
    /\ at' = "poll"
    /\ UNCHANGED <<window, rebuild, frameIndex, fence, acquired, complete, submissions, shown>>

\* The engine takes the image when the result is suboptimal, and does not
\* when it is out of date.
PresentAsksRebuild ==
    /\ at = "present" /\ MayPresent
    /\ \/ presents' = Append(presents, [image |-> frameIndex, semaphore |-> semaphoreIndex])
       \/ UNCHANGED presents
    /\ rebuild' = TRUE
    /\ at' = "poll"
    /\ UNCHANGED <<window, frameIndex, semaphoreIndex, fence, acquired, complete, submissions,
                   shown>>

PresentSkips ==
    /\ at = "present" /\ ~MayPresent
    /\ at' = "poll"
    /\ UNCHANGED <<ui, device>>

\* The window is closed: Client::destroy frees the staging memory, ...
Close ==
    /\ at = "poll"
    /\ at' = "destroyStaging"
    /\ UNCHANGED <<ui, device>>

DestroyStaging ==
    /\ at = "destroyStaging"
    /\ at' = "destroy"
    /\ UNCHANGED <<ui, device>>

\* ... and VulkanTexture::destroy waits for the device.
Destroy ==
    /\ at = "destroy"
    /\ DeviceIsIdle
    /\ at' = "closed"
    /\ UNCHANGED <<ui, device>>

UiThread ==
    \/ PollEvents \/ NewSwapchain \/ SameSwapchain
    \/ CaptureFrame \/ CopyFrame \/ Render
    \/ Acquire \/ AcquireAsksRebuild \/ Wait \/ RecordAndSubmit
    \/ Present \/ PresentAsksRebuild \/ PresentSkips
    \/ Close \/ DestroyStaging \/ Destroy

-----------------------------------------------------------------------------
(* External: the GPU and the presentation engine *)

\* The engine is done with what it showed of an image: only the frame the
\* semaphore is for may still be to come, and that is not rendered yet (an
\* earlier frame that used the same semaphore may be rendered and not shown).
ImageIsFree ==
    /\ \E s \in Semaphore :
        /\ acquired[s] \in Image \ {shown}
        /\ \A k \in 1..Len(presents) :
            presents[k].image = acquired[s] => presents[k].semaphore = s /\ ~complete[s]
        /\ acquired' = [acquired EXCEPT ![s] = Signaled]
    /\ UNCHANGED <<at, ui, fence, complete, submissions, presents, shown>>

Execute ==
    /\ submissions # <<>>
    /\ LET work == Head(submissions) IN
        /\ acquired[work.semaphore] = Signaled
        /\ acquired' = [acquired EXCEPT ![work.semaphore] = Idle]
        /\ complete' = [complete EXCEPT ![work.semaphore] = TRUE]
        /\ fence' = [fence EXCEPT ![work.image] = TRUE]
    /\ submissions' = Tail(submissions)
    /\ UNCHANGED <<at, ui, presents, shown>>

Show ==
    /\ presents # <<>>
    /\ complete[Head(presents).semaphore]
    /\ complete' = [complete EXCEPT ![Head(presents).semaphore] = FALSE]
    /\ shown' = Head(presents).image
    /\ presents' = Tail(presents)
    /\ UNCHANGED <<at, ui, fence, acquired, submissions>>

Next == UiThread \/ ImageIsFree \/ Execute \/ Show

Spec == Init /\ [][Next]_vars

\* The UI thread runs while the window is open; the driver makes progress.
FairSpec ==
    /\ Spec
    /\ WF_vars(UiThread) /\ WF_vars(ImageIsFree) /\ WF_vars(Execute) /\ WF_vars(Show)

-----------------------------------------------------------------------------
(* Properties *)

Place == {"poll", "newFrame", "update", "copy", "render", "acquire", "wait", "record",
          "present", "destroyStaging", "destroy", "closed"}

\* The types of the variables.
TypeOK ==
    /\ at \in Place
    /\ window \in {"shown", "resized", "empty", "iconified"}
    /\ rebuild \in BOOLEAN
    /\ frameIndex \in Image /\ semaphoreIndex \in Semaphore
    /\ fence \in [Image -> BOOLEAN]
    /\ acquired \in [Semaphore -> Image \cup {Idle, Signaled}]
    /\ complete \in [Semaphore -> BOOLEAN]
    /\ submissions \in Seq(Work) /\ presents \in Seq(Work)
    /\ shown \in Image \cup {NoImage}

InWork(s, work) == \E k \in 1..Len(work) : work[k].semaphore = s

\* renderFrame resets the command pool of a frame only when the GPU has
\* finished what was recorded from it.
FrameIsFinished ==
    at = "record" => \A k \in 1..Len(submissions) : submissions[k].image # frameIndex

\* The image-acquired semaphore that is given to acquireNextImageKHR has
\* nothing pending: nothing will signal it, and no submission waits for it.
\* And a submission that is done signals a render-complete semaphore that
\* every earlier present has waited for.  No fence is waited for between: it
\* follows from the number of semaphores.
SemaphoresUnused ==
    /\ at = "acquire" => acquired[semaphoreIndex] = Idle /\ ~InWork(semaphoreIndex, submissions)
    /\ submissions # <<>> /\ acquired[Head(submissions).semaphore] = Signaled
         => ~complete[Head(submissions).semaphore]

\* Every frame that is presented was submitted: its render-complete
\* semaphore is signaled or will be.
PresentedIsRendered ==
    \A k \in 1..Len(presents) :
        complete[presents[k].semaphore] \/ InWork(presents[k].semaphore, submissions)

\* The UI thread never waits for the GPU for ever: a fence that was reset
\* belongs to a submission.
FrameEnds == at # "poll" ~> at \in {"poll", "closed"}

\* The staging memory is written (client_app.cpp:121) or freed (line 138)
\* when no submission reads it.  It does not hold: nothing waits for the
\* frame before.
StagingUnread == at \in {"copy", "destroyStaging"} => submissions = <<>>
=============================================================================
