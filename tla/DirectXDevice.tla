---------------------------- MODULE DirectXDevice ----------------------------
(***************************************************************************)
(* How the Direct3D 11 hook (src/Windows/DX11Hook.cpp) lets go of the       *)
(* game's device.  The hook and its objects hold references to the device,  *)
(* so the game's last Release would not free it.  The hook therefore counts *)
(* what it holds, _HookDeviceRefCount, and when a Release leaves no more    *)
(* than that it removes itself.  The hooks of Direct3D 9, 10 and 12 follow  *)
(* the same protocol with other counts.                                     *)
(*                                                                          *)
(* One thread of the game presents and resizes; others may create and       *)
(* release objects of the device at any time.  An object holds one          *)
(* reference to its device, as _UpdateHookDeviceRefCount has it.  Textures  *)
(* are counted, not named: ImageResources has their life.                   *)
(***************************************************************************)
EXTENDS Integers

CONSTANTS Fixed,       \* references of ImGui from its initialization on
          Lazy,        \* and of what it makes when it draws first
          MaxGame,     \* bound: references of the game
          MaxTextures  \* bound: textures of the overlay

ASSUME CountsAssumption == /\ Fixed \in Nat /\ Lazy \in Nat
                           /\ MaxGame \in Nat /\ MaxTextures \in Nat

VARIABLES game,       \* references the game and its swap chain hold
          state,      \* _HookState
          held,       \* what the hook holds while not removed
          waiting,    \* textures allocated and not loaded
          unloaded,   \* textures in the release list that were never loaded
          threshold,  \* _HookDeviceRefCount
          at,         \* where the presenting thread is
          broken,     \* the hook was removed under a frame, or twice
          uncounted   \* history: textures let go since the hook last counted

hook == <<state, held, waiting, unloaded, threshold, uncounted>>
vars == <<game, hook, at, broken>>

Nothing == [target |-> 0, lazy |-> 0, loaded |-> 0, gone |-> 0]

\* References of the hook: its own, ImGui's, the render target, the views of
\* the textures, and a texture whose view has just been made.
Holds == IF state = "removing" THEN 0
         ELSE 1 + Fixed + held.target + held.lazy + held.loaded + held.gone
                + IF at = "texture" THEN 1 ELSE 0

\* What Release of the device returns.
Refs == game + Holds

Textures == waiting + unloaded + held.loaded + held.gone

Init == /\ game = 0
        /\ state = "removing" /\ held = Nothing
        /\ waiting = 0 /\ unloaded = 0
        /\ threshold = 0
        /\ at = "idle" /\ broken = FALSE /\ uncounted = 0

\* Mutant: textures count as soon as they are allocated.
CountAllocated(h) == 3 + Fixed + Lazy + (h.gone + unloaded) + h.loaded + waiting

\* _UpdateHookDeviceRefCount when ready: one that is not the hook's, its own,
\* a render target, what ImGui has or will have, the release list, and the
\* textures that are loaded.
Count(h) == 3 + Fixed + Lazy + (h.gone + unloaded) + h.loaded

-----------------------------------------------------------------------------
(* Removal                                                                 *)

\* _ResetRenderState(Removing).  _DeviceReleasing keeps the releases of all
\* the hook's objects from removing it again.
Remove == /\ state' = "removing"
          /\ held' = Nothing
          /\ waiting' = 0 /\ unloaded' = 0
          /\ threshold' = 3 /\ uncounted' = 0

\* _MyID3D11DeviceRelease, with a result: does it remove the hook?
Noticed(result) == state # "removing" /\ result <= threshold

\* It must not while the hook is using what a removal destroys.
Break == broken' = TRUE /\ UNCHANGED <<game, hook, at>>

InFrame == at \notin {"idle", "resize"}

-----------------------------------------------------------------------------
(* The game                                                                *)

\* A device and a swap chain, which refers to it.
CreateDevice ==
    /\ game = 0 /\ Holds = 0 /\ game' = 2
    /\ UNCHANGED <<hook, at, broken>>

\* An object of the device, AddRef.
Obtain ==
    /\ game \in 1..(MaxGame - 1) /\ game' = game + 1
    /\ UNCHANGED <<hook, at, broken>>

\* Release.  The swap chain that is being presented or resized is kept.
Release ==
    /\ game > IF at = "idle" THEN 0 ELSE 1
    /\ game' = game - 1
    /\ \/ ~ Noticed(Refs - 1) /\ UNCHANGED <<hook, at, broken>>
       \/ Noticed(Refs - 1) /\ InFrame /\ broken' = TRUE /\ UNCHANGED <<hook, at>>
       \/ Noticed(Refs - 1) /\ ~ InFrame /\ Remove /\ UNCHANGED <<at, broken>>

-----------------------------------------------------------------------------
(* The application, in OverlayProc or between two frames                   *)

AllocImageResource ==
    /\ at \in {"idle", "proc"} /\ Textures < MaxTextures
    /\ waiting' = waiting + 1
    /\ UNCHANGED <<game, state, held, unloaded, threshold, uncounted, at, broken>>

ReleaseLoaded ==
    /\ at \in {"idle", "proc"} /\ held.loaded > 0
    /\ held' = [held EXCEPT !.loaded = @ - 1, !.gone = @ + 1]
    /\ UNCHANGED <<game, state, waiting, unloaded, threshold, uncounted, at, broken>>

ReleaseWaiting ==
    /\ at \in {"idle", "proc"} /\ waiting > 0
    /\ waiting' = waiting - 1 /\ unloaded' = unloaded + 1
    /\ UNCHANGED <<game, state, held, threshold, uncounted, at, broken>>

Application == AllocImageResource \/ ReleaseLoaded \/ ReleaseWaiting

-----------------------------------------------------------------------------
(* The presenting thread: _PrepareForOverlay.  An initialization that fails *)
(* undoes what it did; the releases this takes find the hook removed.       *)

PresentInit ==
    /\ at = "idle" /\ state = "removing" /\ game > 0
    /\ state' = "ready" /\ at' = "proc"
    /\ held' = [Nothing EXCEPT !.target = 1]
    /\ threshold' = Count(held')
    /\ UNCHANGED <<game, waiting, unloaded, uncounted, broken>>

PresentReady ==
    /\ at = "idle" /\ state = "ready" /\ game > 0
    /\ at' = "proc"
    /\ UNCHANGED <<game, hook, broken>>

OverlayProc ==
    /\ at = "proc" /\ at' = "load"
    /\ UNCHANGED <<game, hook, broken>>

\* _LoadResources makes a texture of the batch and its view.  The release list
\* keeps a texture alive, so one that is in it and was queued is loaded too.
LoadResources ==
    /\ at \in {"load", "loaded"} /\ at' = "texture"
    /\ \/ /\ waiting > 0 /\ waiting' = waiting - 1
          /\ held' = [held EXCEPT !.loaded = @ + 1]
          /\ UNCHANGED unloaded
       \/ /\ unloaded > 0 /\ unloaded' = unloaded - 1
          /\ held' = [held EXCEPT !.gone = @ + 1]
          /\ UNCHANGED waiting
    /\ UNCHANGED <<game, state, threshold, uncounted, broken>>

\* texture->Release(): the view keeps the texture.
KeepView ==
    /\ at = "texture"
    /\ IF Noticed(Refs - 1) THEN Break
       ELSE at' = "loaded" /\ UNCHANGED <<game, hook, broken>>

LoadNothing ==
    /\ at = "load" /\ at' = "release"
    /\ UNCHANGED <<game, hook, broken>>

\* The end of _LoadResources, and of _ReleaseResources.
Counting == at = "loaded" \/ (at = "releasing" /\ held.gone + unloaded = 0)

CountAgain ==
    /\ Counting
    /\ at' = IF at = "loaded" THEN "release" ELSE "draw"
    /\ UNCHANGED <<game, state, held, waiting, unloaded, broken>>

\* Mutant: what was loaded is not counted.
UpdateAfterRelease ==
    /\ CountAgain
    /\ threshold' = IF at = "loaded" THEN threshold ELSE Count(held)
    /\ uncounted' = 0

UpdateHookDeviceRefCount ==
    /\ CountAgain
    /\ threshold' = Count(held)
    /\ uncounted' = 0

\* _ReleaseResources: the textures go one by one, a loaded one with a Release.
ReleaseResources ==
    /\ at = "release"
    /\ at' = IF held.gone + unloaded = 0 THEN "draw" ELSE "releasing"
    /\ UNCHANGED <<game, hook, broken>>

ReleaseTexture ==
    /\ at = "releasing"
    /\ \/ /\ unloaded > 0 /\ unloaded' = unloaded - 1
          /\ uncounted' = uncounted + 1
          /\ UNCHANGED <<game, state, held, waiting, threshold, at, broken>>
       \/ held.gone > 0 /\ Noticed(Refs - 1) /\ Break
       \/ /\ held.gone > 0 /\ ~ Noticed(Refs - 1)
          /\ held' = [held EXCEPT !.gone = @ - 1]
          /\ uncounted' = uncounted + 1
          /\ UNCHANGED <<game, state, waiting, unloaded, threshold, at, broken>>

Drawn(h) == [h EXCEPT !.lazy = Lazy]

\* RenderDrawData: the first time it makes its buffers and the font, later it
\* may replace a buffer by a larger one.
Draw == /\ at = "draw"
        /\ \/ /\ at' = "drawn" /\ held' = Drawn(held)
              /\ UNCHANGED <<game, state, waiting, unloaded, threshold, uncounted,
                             broken>>
           \/ held.lazy > 0 /\ Noticed(Refs - 1) /\ Break

\* Nothing to draw.
DrawNothing ==
    /\ at = "draw" /\ at' = "drawn"
    /\ UNCHANGED <<game, hook, broken>>

\* _HandleScreenshot, before OverlayProc or after: its staging texture is one
\* more object of the device until it is released.
HandleScreenshot == at \in {"proc", "drawn"} /\ Noticed(Refs) /\ Break

PresentReturns ==
    /\ at = "drawn" /\ at' = "idle"
    /\ UNCHANGED <<game, hook, broken>>

\* ResizeBuffers and ResizeTarget: _ResetRenderState(Reset) ...
ResizeReset ==
    /\ at = "idle" /\ state = "ready" /\ game > 0
    /\ IF Noticed(Refs - 1) THEN Break
       ELSE /\ state' = "reset" /\ at' = "resize"
            /\ held' = [held EXCEPT !.target = 0]
            /\ UNCHANGED <<game, waiting, unloaded, threshold, uncounted, broken>>

\* ... and after the original, unless it took the device along.
ResizeCreate ==
    /\ at = "resize" /\ at' = "idle" /\ UNCHANGED <<game, broken>>
    /\ \/ /\ state = "reset"
          /\ state' = "ready" /\ held' = [held EXCEPT !.target = 1]
          /\ threshold' = Count(held')
          /\ UNCHANGED <<waiting, unloaded, uncounted>>
       \/ state = "reset" /\ Remove
       \/ state = "removing" /\ UNCHANGED hook

Present == \/ PresentInit \/ PresentReady \/ OverlayProc
           \/ LoadResources \/ KeepView \/ LoadNothing
           \/ UpdateHookDeviceRefCount \/ ReleaseResources \/ ReleaseTexture
           \/ Draw \/ DrawNothing \/ HandleScreenshot \/ PresentReturns
           \/ ResizeReset \/ ResizeCreate

Next == /\ ~ broken
        /\ CreateDevice \/ Obtain \/ Release \/ Application \/ Present

Spec == Init /\ [][Next]_vars
-----------------------------------------------------------------------------
(* Properties                                                              *)

TypeOK ==
    /\ game \in Nat
    /\ state \in {"removing", "ready", "reset"}
    /\ held \in [target : {0, 1}, lazy : {0, Lazy}, loaded : Nat, gone : Nat]
    /\ waiting \in Nat /\ unloaded \in Nat /\ threshold \in Nat
    /\ uncounted \in Nat
    /\ at \in {"idle", "proc", "load", "texture", "loaded", "release", "releasing",
               "draw", "drawn", "resize"}
    /\ broken \in BOOLEAN

\* When the game has given its last reference up, the hook has too and the
\* device is freed, whatever was loaded, released or resized before.
DeviceFreed == game = 0 => Holds = 0

\* The count is never too low outside of _LoadResources: a Release that
\* leaves the game with the swap chain alone is noticed.
ReleaseNoticed ==
    [][game' < game /\ game' <= 1 /\ at \notin {"texture", "loaded"}
         => state' = "removing" \/ broken']_vars

\* What the hook counts and does not hold: what ImGui makes when it first
\* draws, the render target during a resize, the textures in the release list
\* that were never loaded, and those let go since it last counted.
Slack == (Lazy - held.lazy) + (1 - held.target) + unloaded + uncounted

\* A Release, of the game or of the hook, takes the overlay away only from a
\* game that has two references left, or as many more as the hook counts and
\* does not hold: at any place in a frame or a resize, and whatever was
\* loaded or released there.  (That a resize fails removes the hook too.)
NotEarly ==
    [][(/\ state # "removing"
        /\ broken' \/ (state' = "removing" /\ game' < game))
         => game' <= 2 + Slack]_vars

-----------------------------------------------------------------------------
(* What the code does not do: TLC refutes it                               *)

\* The hook is not removed under the frame it is drawing.  In the code the
\* slack lets it be: with two textures let go and not uncounted, a Release of
\* another thread that leaves the game three references does it.
NotInFrame == ~ broken
=============================================================================
