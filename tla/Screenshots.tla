----------------------------- MODULE Screenshots -----------------------------
(***************************************************************************)
(* Screenshots (src/RendererHookInternal.cpp) in the frames of the Vulkan   *)
(* hook.  A request is one member, _TakeScreenshotType, that any thread may *)
(* set at any time.  A frame reads it once, takes the picture before or     *)
(* after it draws the overlay, clears the member and calls the callback.    *)
(* A capture that fails clears it too, and nobody is told.                  *)
(*                                                                          *)
(* What a capture copies is left out; that it waits until the GPU is idle   *)
(* is not.                                                                  *)
(***************************************************************************)
EXTENDS VulkanFrames

VARIABLES wanted,  \* _TakeScreenshotType
          shot,    \* screenshotType of the frame, and how far it got
          unread   \* history: the last request, if no frame has read it and it
                   \*   did not come while a frame served another

shotVars == <<wanted, shot, unread>>
allVars == <<vars, shotVars>>

Types == {"before", "after"}
ASSUME TypesAssumption == None \notin Types
NoShot == [at |-> "none", type |-> None]

ShotInit == Init /\ wanted = None /\ shot = NoShot /\ unread = None

\* A frame has read a request and not yet cleared it.
Serving == shot.type # None

\* TakeScreenshot, by any thread, by OverlayProc or by the callback.
TakeScreenshot(t) ==
    /\ wanted' = t
    /\ unread' = IF Serving THEN unread ELSE t
    /\ UNCHANGED <<vars, shot>>

\* The frame reads the type, once its window and display are found.
ReadType ==
    /\ at = "record" /\ x11.display /\ shot = NoShot
    /\ shot' = [type |-> wanted,
                at |-> IF wanted = "before" THEN "capture" ELSE "overlay"]
    /\ unread' = None
    /\ UNCHANGED <<vars, wanted>>

\* The frame goes on: it has still to be drawn, or it is over.
Drawn == at = "idle"
GoesOn == [at |-> IF Drawn THEN "none" ELSE "overlay", type |-> None]

\* _HandleScreenshot: a submission of its own, and _vkQueueWaitIdle ...
Capture ==
    /\ shot.at = "capture"
    /\ done' = current
    /\ shot' = [shot EXCEPT !.at = "send"]
    /\ UNCHANGED <<game, at, hook, made, frames, current, since, ring, x11, wanted,
                   unread>>

\* ... or an error, before the wait or after it: _SendScreenshot(nullptr).
CaptureFails ==
    /\ shot.at = "capture"
    /\ done' \in {done, current}
    /\ wanted' = None
    /\ shot' = GoesOn
    /\ UNCHANGED <<game, at, hook, made, frames, current, since, ring, x11, unread>>

\* _SendScreenshot clears the request, whichever it is now ...
SendScreenshot ==
    /\ shot.at = "send"
    /\ wanted' = None
    /\ shot' = [at |-> "callback", type |-> None]
    /\ UNCHANGED <<vars, unread>>

\* Mutant: the request is cleared when the callback has returned.
CallbackClears ==
    /\ shot.at = "callback"
    /\ shot' = GoesOn
    /\ wanted' = None
    /\ UNCHANGED <<vars, unread>>

\* ... and then calls the callback, which may ask for another picture.
CallbackReturns ==
    /\ shot.at = "callback"
    /\ shot' = GoesOn
    /\ UNCHANGED <<vars, wanted, unread>>

\* The frame is submitted, or abandoned; the picture of it comes now.
EndFrame ==
    /\ x11.display => shot.at = "overlay"
    /\ FrameSubmit
    /\ shot' = IF Serving THEN [shot EXCEPT !.at = "capture"] ELSE NoShot
    /\ UNCHANGED <<wanted, unread>>

\* The game's thread waits for a fence.
Wait == FrameWait /\ UNCHANGED shotVars

\* It is elsewhere while no picture is taken.
Elsewhere ==
    /\ shot = NoShot
    /\ \/ CreateDevice \/ DestroyDevice \/ Present
       \/ \E n \in ImageCounts, f \in Formats : CreateSwapchain(n, f)
       \/ swapchain # None /\ \E i \in Indices(swapchain.images) : Acquire(i)
    /\ UNCHANGED shotVars

Complete == GpuComplete /\ UNCHANGED shotVars

InHook == Wait \/ ReadType \/ Capture \/ CaptureFails \/ SendScreenshot
            \/ CallbackReturns \/ EndFrame

ShotNext == \/ \E t \in Types : TakeScreenshot(t)
            \/ Elsewhere \/ InHook \/ Complete
            \/ PollEvents /\ UNCHANGED shotVars

\* The GPU works, and a thread inside the hook goes on.
ShotSpec == /\ ShotInit /\ [][ShotNext]_allVars
            /\ WF_allVars(Complete) /\ WF_allVars(InHook)
-----------------------------------------------------------------------------
(* Properties                                                              *)

\* Whenever no frame is between reading a request and clearing it, the member is
\* exactly the last request that no frame has read: such a request outlives
\* abandoned frames, lost devices and new swapchains and may come from the
\* callback, and none is read again after its picture was sent or its capture
\* failed.  A request made in between is cleared with the one being served.
AskedIsRead == ~ Serving => wanted = unread

\* A frame that takes pictures returns to the game, with the picture sent, if
\* the image presented has a frame (an image of a retired swapchain may not).
ShotReturns ==
    (at = "wait" /\ InRange) \/ at = "record" \/ shot # NoShot
        ~> at = "idle" /\ shot = NoShot
=============================================================================
