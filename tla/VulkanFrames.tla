---------------------------- MODULE VulkanFrames ----------------------------
(***************************************************************************)
(* The frames of the Vulkan renderer hook (src/Linux/VulkanHook.cpp): what  *)
(* it keeps for each image of the game's swapchain, the fences it waits     *)
(* for, and what it makes on the game's device.                             *)
(*                                                                          *)
(* One thread of the game creates and destroys devices and swapchains,      *)
(* acquires images and presents them, through functions the hook intercepts.*)
(* The GPU completes the overlay's submissions in the order in which they   *)
(* were made, as the fences of one queue do; the n-th one is number n.      *)
(*                                                                          *)
(* The game keeps the rules of Vulkan: its device is idle when it destroys  *)
(* it, and it presents images it has acquired, one at a time.  It may       *)
(* replace its swapchain at any time: the GPU may still be at work, and an  *)
(* image acquired from the old swapchain, which is then retired, may still  *)
(* be presented.  A present shows one swapchain.                            *)
(***************************************************************************)
EXTENDS Integers, FiniteSets

CONSTANTS ImageCounts,   \* images a swapchain may have
          Formats,       \* image formats a swapchain may have
          Fails,         \* calls that may fail
          MaxFrames,     \* bound: overlay frames submitted
          MaxDevices,    \* bound: devices created
          MaxSwapchains, \* bound: swapchains created
          None           \* no image, no swapchain, no format

\* The steps of _PrepareForOverlay's initialisation that can fail, and what
\* has been made (or looked up) on the device before each of them.
Made == [window |-> {}, display |-> {}, pass |-> {"queue"},
         pools |-> {"queue", "pass"}, images |-> {"queue", "pass", "pools"},
         targets |-> {"queue", "pass", "pools", "images"}]
Objects == {"queue", "pass", "pools", "images"}

ASSUME ImageCountsAssumption == ImageCounts \subseteq Nat \ {0}
ASSUME FailsAssumption ==
    Fails \subseteq DOMAIN Made \cup {"swapchain", "rebuild"}
ASSUME BoundsAssumption ==
    MaxFrames \in Nat /\ MaxDevices \in Nat /\ MaxSwapchains \in Nat
ASSUME NoneAssumption ==
    None \notin Formats \cup [id : Nat, images : Nat, format : Formats]

VARIABLES
    device,    \* the game's last device: numbered from 1, and alive or not
    swapchain, \* its swapchain (numbered, with images and format) or None
    chains,    \* number of swapchains created so far
    acquired,  \* the image it acquired: index and swapchain; or NoImage
    at,        \* where the game's thread is in _PrepareForOverlay
    hook,      \* members: vkDevice, state, sent, target, passFormat
    made,      \* the device each of the hook's objects was made on, or 0
    frames,    \* _OverlayFrames: swapchain, device and fence of each image;
               \*   latest is history: the swapchains there were when it was made
    current,   \* _CurrentFrame: number of overlay frames submitted
    done,      \* submissions that the GPU has completed
    since,     \* history: submissions made before _OverlayFrames was replaced
    ring,      \* ImGui's vertex buffers, one per image when initialised
    x11        \* X11Hook: is there a _Display, is the backend _Initialized

game == <<device, swapchain, chains, acquired>>
vars == <<device, swapchain, chains, acquired, at, hook, made, frames,
          current, done, since, ring, x11>>

NoImage == [index |-> -1, of |-> None]

Init == /\ device = [id |-> 0, alive |-> FALSE]
        /\ swapchain = None
        /\ chains = 0
        /\ acquired = NoImage
        /\ at = "idle"
        /\ hook = [vkDevice |-> 0, state |-> "removing", sent |-> FALSE,
                   target |-> None, passFormat |-> None]
        /\ made = [o \in Objects |-> 0]
        /\ frames = [i \in {} |-> 0]
        /\ current = 0
        /\ done = 0
        /\ since = 0
        /\ ring = 0
        /\ x11 = [display |-> FALSE, initialized |-> FALSE]

\* A fence holds the number of the submission that signals it: 0 when it was
\* created signaled, Unsubmitted when it was reset and nothing submitted.
Unsubmitted == -1
Signaled(f) == f # Unsubmitted /\ f <= done

Indices(n) == 0 .. n - 1
NoFrames == [i \in {} |-> 0]

\* _CreateRenderTargets, for a swapchain of the hook's device.
CreateRenderTargets(s) ==
    frames' = [i \in Indices(s.images) |->
                 [chain |-> s.id, device |-> hook.vkDevice, fence |-> 0,
                  latest |-> chains']]

-----------------------------------------------------------------------------
(* Devices and swapchains                                                  *)

CreateDevice ==
    /\ at = "idle" /\ ~ device.alive /\ device.id < MaxDevices
    /\ device' = [id |-> device.id + 1, alive |-> TRUE]
    /\ UNCHANGED <<swapchain, chains, acquired, at, hook, made, frames,
                   current, done, since, ring, x11>>

\* The swapchain is of the device the hook draws on, and it has frames.
Drawing == hook.vkDevice = device.id /\ hook.state # "removing"
Rebuild == Drawing /\ frames # NoFrames

\* Mutant: the frames of the old swapchain are kept.
KeepFrames(s, outcome) == frames' = frames

\* The old frames are destroyed, whatever the GPU still does with them.  There
\* are new ones if there were old ones, the swapchain was created, and
\* _CreateRenderTargets did not fail.
ResetFrames(s, outcome) ==
    IF ~ Drawing THEN frames' = frames
    ELSE IF Rebuild /\ outcome = "ok" THEN CreateRenderTargets(s)
    ELSE frames' = NoFrames

\* The state goes to reset, and back to ready once there is a swapchain,
\* whatever _CreateRenderTargets answers.
ResetState(outcome) ==
    IF ~ Drawing THEN hook.state
    ELSE IF Rebuild /\ outcome # "swapchain" THEN "ready" ELSE "reset"

\* _MyVkCreateSwapchainKHR.  The old swapchain is retired in any case; an image
\* acquired from it can be presented unless the game destroys it before.
CreateSwapchain(n, f) ==
    LET s == [id |-> chains + 1, images |-> n, format |-> f]
    IN  /\ at = "idle" /\ device.alive /\ chains < MaxSwapchains
        /\ chains' = chains + 1
        /\ acquired' \in {acquired, NoImage}
        /\ \E outcome \in {"ok"} \cup (Fails \cap {"swapchain", "rebuild"}) :
              /\ swapchain' = IF outcome = "swapchain" THEN None ELSE s
              /\ hook' = [hook EXCEPT !.sent = TRUE, !.target = f,
                                      !.state = ResetState(outcome)]
              /\ ResetFrames(s, outcome)
        /\ since' = current
        /\ UNCHANGED <<device, at, made, current, done, ring, x11>>

\* Mutant: the queue is kept for the next device.
KeepQueue == [o \in Objects |-> IF o \in {"pass", "queue"} THEN made[o] ELSE 0]

\* What is left of the hook's objects by _FreeVulkanRessources.  The render
\* pass stays: _DestroyRenderPass is never called.
FreeObjects == [o \in Objects |-> IF o = "pass" THEN made[o] ELSE 0]

\* _ResetRenderState(Removing), of the hook and of X11Hook.
Removing ==
    /\ hook' = [hook EXCEPT !.state = "removing", !.vkDevice = 0,
                            !.sent = FALSE]
    /\ made' = FreeObjects
    /\ frames' = NoFrames
    /\ x11' = IF x11.initialized
              THEN [display |-> FALSE, initialized |-> FALSE] ELSE x11

\* _MyVkDestroyDevice.
DestroyDevice ==
    /\ at = "idle" /\ device.alive /\ done = current
    /\ device' = [device EXCEPT !.alive = FALSE]
    /\ swapchain' = None
    /\ acquired' = NoImage
    /\ IF hook.vkDevice = device.id /\ hook.state # "removing" THEN Removing
       ELSE UNCHANGED <<hook, made, frames, x11>>
    /\ since' = current
    /\ UNCHANGED <<chains, at, current, done, ring>>

\* _MyVkAcquireNextImageKHR.
Acquire(i) ==
    /\ at = "idle" /\ swapchain # None /\ acquired = NoImage
    /\ i \in Indices(swapchain.images)
    /\ acquired' = [index |-> i, of |-> swapchain]
    /\ hook' = [hook EXCEPT !.vkDevice = device.id]
    /\ UNCHANGED <<device, swapchain, chains, at, made, frames, current, done,
                   since, ring, x11>>

\* The game polls its X11 events, and X11Hook sees the display.
PollEvents ==
    /\ ~ x11.display
    /\ x11' = [x11 EXCEPT !.display = TRUE]
    /\ UNCHANGED <<game, at, hook, made, frames, current, done, since, ring>>

-----------------------------------------------------------------------------
(* _MyVkQueuePresentKHR                                                    *)

\* The first present only suggests to the game to recreate its swapchain;
\* without a device there is nothing to draw on.
PresentPlain ==
    /\ at = "idle" /\ acquired # NoImage
    /\ ~ hook.sent \/ hook.vkDevice = 0
    /\ hook' = [hook EXCEPT !.sent = TRUE]
    /\ acquired' = NoImage
    /\ UNCHANGED <<device, swapchain, chains, at, made, frames, current, done,
                   since, ring, x11>>

\* The present reaches _PrepareForOverlay.
Enters == /\ at = "idle" /\ acquired # NoImage
          /\ hook.sent /\ hook.vkDevice # 0 /\ current < MaxFrames

\* The objects in os that do not exist yet are made on the device.
Make(os) ==
    made' = [o \in Objects |-> IF o \in os /\ made[o] = 0 THEN hook.vkDevice
                               ELSE made[o]]

PassFormat == IF made["pass"] = 0 THEN hook.target ELSE hook.passFormat

\* _PrepareForOverlay fails to initialise at step s, and the present goes on
\* without the overlay.  What exists is not made again and cannot fail.
PresentFails(s) ==
    /\ Enters /\ hook.state = "removing"
    /\ s = "display" => ~ x11.display
    /\ s \in Objects => made[s] = 0
    /\ Make(Made[s])
    /\ hook' = IF "pass" \in Made[s] THEN [hook EXCEPT !.passFormat = PassFormat]
               ELSE hook
    /\ x11' = IF s \in {"window", "display"} THEN x11
              ELSE [x11 EXCEPT !.display = TRUE]
    /\ acquired' = NoImage
    /\ UNCHANGED <<device, swapchain, chains, at, frames, current, done, since,
                   ring>>

\* SetInitialWindowSize opens a display of its own if there is none.
OpenDisplay == [x11 EXCEPT !.display = TRUE]

\* _PrepareForOverlay initialises, and goes on with the frame.  The frames are
\* those of the swapchain presented, which may be retired.
PresentInit ==
    /\ Enters /\ hook.state = "removing"
    /\ UNCHANGED <<game, current, done>>
    /\ Make(Objects)
    /\ CreateRenderTargets(acquired.of)
    /\ hook' = [hook EXCEPT !.state = "ready", !.passFormat = PassFormat]
    /\ since' = current
    /\ ring' = acquired.of.images
    /\ x11' = OpenDisplay
    /\ at' = "wait"

PresentReady ==
    /\ Enters /\ hook.state # "removing"
    /\ at' = "wait"
    /\ UNCHANGED <<game, hook, made, frames, current, done, since, ring, x11>>

\* The frame of the index presented, whatever swapchain the image is of.  An
\* index beyond the end of _OverlayFrames is undefined: the model stops.
InRange == acquired.index \in DOMAIN frames

\* Mutant: the hook does not wait for the fence of the image's last frame.
NoWait == InRange

\* The fence of the image's last frame is signaled.
FenceSignaled == InRange /\ Signaled(frames[acquired.index].fence)

\* _vkWaitForFences, _vkResetFences.
FrameWait ==
    /\ at = "wait" /\ FenceSignaled
    /\ frames' = [frames EXCEPT ![acquired.index].fence = Unsubmitted]
    /\ at' = "record"
    /\ UNCHANGED <<game, hook, made, current, done, since, ring, x11>>

\* Mutant: the frame is submitted without the fence.
SubmitUnfenced == frames' = frames

\* _vkQueueSubmit: the fence is signaled when this submission completes.
Submit == frames' = [frames EXCEPT ![acquired.index].fence = current + 1]

\* The frame is recorded and submitted, and the game's present called.  When
\* X11Hook has no display the frame is abandoned after its fence was reset.
FrameSubmit ==
    /\ at = "record"
    /\ IF x11.display
       THEN /\ current' = current + 1
            /\ Submit
            /\ x11' = [x11 EXCEPT !.initialized = TRUE]
       ELSE UNCHANGED <<current, frames, x11>>
    /\ at' = "idle"
    /\ acquired' = NoImage
    /\ UNCHANGED <<device, swapchain, chains, hook, made, done, since, ring>>

GpuComplete ==
    /\ done' \in done + 1 .. current
    /\ UNCHANGED <<game, at, hook, made, frames, current, since, ring, x11>>

Present == PresentPlain \/ PresentInit \/ PresentReady
             \/ \E s \in Fails \cap DOMAIN Made : PresentFails(s)
Frame == FrameWait \/ FrameSubmit

Next == \/ CreateDevice \/ DestroyDevice \/ PollEvents
        \/ \E n \in ImageCounts, f \in Formats : CreateSwapchain(n, f)
        \/ swapchain # None /\ \E i \in Indices(swapchain.images) : Acquire(i)
        \/ Present \/ Frame \/ GpuComplete

Spec == Init /\ [][Next]_vars
-----------------------------------------------------------------------------
(* Properties                                                              *)

Devices == 0 .. device.id
Chains == [id : 1 .. chains, images : ImageCounts, format : Formats]

TypeOK ==
    /\ device \in [id : Nat, alive : BOOLEAN]
    /\ swapchain = None \/ swapchain \in Chains
    /\ chains \in Nat
    /\ \/ acquired = NoImage
       \/ acquired.of \in Chains /\ acquired \in
             [index : Indices(acquired.of.images), of : Chains]
    /\ at \in {"idle", "wait", "record"}
    /\ at # "idle" => acquired # NoImage
    /\ hook \in [vkDevice : Devices, state : {"removing", "ready", "reset"},
                 sent : BOOLEAN, target : Formats \cup {None},
                 passFormat : Formats \cup {None}]
    /\ made \in [Objects -> Devices]
    /\ \E n \in {0} \cup ImageCounts :
          frames \in [Indices(n) -> [chain : 1 .. chains, device : Devices,
                                    fence : Int, latest : 1 .. chains]]
    /\ current \in Nat /\ done \in 0 .. current /\ since \in 0 .. current
    /\ ring \in {0} \cup ImageCounts
    /\ x11 \in [display : BOOLEAN, initialized : BOOLEAN]

\* The frames were made for the swapchain the game had then, and not for a
\* retired one of which an image was presented late.
MadeForLatest ==
    frames # NoFrames /\ \A i \in DOMAIN frames : frames[i].chain = frames[i].latest

\* A present of an image of the game's swapchain finds a frame that draws on
\* this image, and not on one of a swapchain before, whatever devices and
\* swapchains came and went.  Images of a retired swapchain are not meant (see
\* OnAnyImage), nor frames that were made for one (RetiredNeverUsed), nor an
\* empty vector of frames (FramesThere).
OnPresentedImage ==
    at # "idle" /\ acquired.of = swapchain /\ MadeForLatest =>
        InRange /\ frames[acquired.index].chain = swapchain.id

\* All that the hook makes on a device, but the render pass, is made again on
\* the next: a frame finds nothing else of a device that is gone.  The render
\* pass of the first device is used on every later one (see PassCurrent).
DeviceCurrent ==
    at # "idle" =>
        /\ device.alive /\ hook.vkDevice = device.id
        /\ \A o \in Objects \ {"pass"} : made[o] = device.id
        /\ \A i \in DOMAIN frames : frames[i].device = device.id

\* The frames submitted since _OverlayFrames was replaced that the GPU has not
\* finished are the last ones, as many as there are images, the one being
\* recorded included: so its command buffer is free.  On this rely
\* _ReleaseResources, which destroys older textures, and ImGui, which writes
\* into the vertex buffer it used as many frames ago as it has buffers.  What
\* was submitted before the replacement comes on top (see IdleWhenReplaced).
InFlightRecent ==
    LET flying == IF done > since THEN current - done ELSE current - since
    IN  /\ flying <= Cardinality(DOMAIN frames)
        /\ at = "record" => flying < Cardinality(DOMAIN frames)

\* No frame is abandoned between the reset of its fence and its submission, so
\* that nobody waits for a fence that nothing signals.
NeverAbandoned == at = "record" => x11.display

-----------------------------------------------------------------------------
(* What one might expect and the code does not do                          *)

\* The overlay is drawn in the format of the swapchain it is presented in.
DrawnInFormat == at = "record" => hook.passFormat = acquired.of.format

\* A frame draws on the image presented, also when it is of a retired swapchain.
OnAnyImage == at = "record" => frames[acquired.index].chain = acquired.of.id

\* Frames are never made for a swapchain that is retired.
RetiredNeverUsed == frames # NoFrames => MadeForLatest

\* There are frames whenever one is wanted (fails with "swapchain" or "rebuild"
\* in Fails).
FramesThere == at # "idle" => frames # NoFrames

\* The render pass, too, is of the device it is used on.
PassCurrent == at # "idle" => made["pass"] = device.id

\* The GPU is done with the fences and command buffers that are destroyed.
IdleWhenReplaced == [][frames # NoFrames /\ since' # since => done = current]_vars

\* The vertex buffer ImGui writes into is not one the GPU reads.
BufferFree == at = "record" => current - done < ring
=============================================================================
