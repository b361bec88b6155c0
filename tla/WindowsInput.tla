---------------------------- MODULE WindowsInput ----------------------------
(***************************************************************************)
(* The input hook of Windows (src/Windows/WindowsHook.cpp): the messages    *)
(* the game fetches, the raw input it reads, the position of the cursor it  *)
(* is told, and the region it confines the cursor to.                       *)
(*                                                                          *)
(* The game's message thread calls the hook.  The user types meanwhile,     *)
(* another thread presents, resizes and releases the device, and the        *)
(* application shows or hides the overlay from any thread.  Neighbouring    *)
(* reads and writes of the members they share are one step only where none  *)
(* of the others can tell.  The cursor may be anywhere at any time.         *)
(*                                                                          *)
(* The application shows the overlay when the combination is pressed or by  *)
(* itself, under a lock as the bridge's (everyone_overlay.cpp:126); as long *)
(* as it does, the inputs are to be the overlay's.                          *)
(***************************************************************************)
EXTENDS Integers, Sequences

CONSTANTS Keys,       \* _NativeKeyCombination
          Positions,  \* of the cursor
          Regions,    \* the game confines the cursor to
          Default,    \* _DefaultClipCursor: the cursor is free
          RawSize,    \* cells of _WindowEvents: 512
          Others,     \* bound: kinds of messages beside the combination's
          MaxQueue    \* bound: messages in the queue

\* WM_INPUT is not ignored: the hook hides its data instead.
Ignored == {"key", "mouse"}
Kinds == Ignored \cup {"input", "focus"}

ASSUME KeysAssumption == Keys # {}
ASSUME PositionsAssumption == Positions # {}
ASSUME DefaultAssumption == Default \in Regions
ASSUME SizesAssumption == RawSize \in Nat \ {0} /\ MaxQueue \in Nat \ {0}
ASSUME OthersAssumption == Others \subseteq Kinds

VARIABLES
    down,     \* keys of the combination that are down
    clip,     \* the region the cursor is confined to
    queue,    \* kinds of the messages in the queue
    call,     \* the call the message thread is in, and its locals
    raws,     \* raw events in _WindowEvents
    win,      \* members of WindowsHook_t; is the present thread resetting them
    hook,     \* _HookState of the renderer hook; "leaving": inside Removing
    shown,    \* does the application show the overlay
    request,  \* who holds the application's lock, and the call it is at
    calls,    \* calls of the callback since the combination was completed
    late,     \* history: calls that set the region have overlapped
    own,      \* history: the game's inputs were its own during the call
    asked     \* history: positions the game was told of since they are hidden

vars == <<down, clip, queue, call, raws, win, hook, shown, request, calls,
          late, own, asked>>
members == <<clip, win, late>>
overlay == <<win, hook, shown, request>>

Idle == [at |-> "idle", msg |-> "focus", app |-> FALSE, overlay |-> FALSE,
         region |-> Default]
NoRequest == [by |-> "nobody", at |-> "done"]

Init == /\ down = {}
        /\ clip = Default
        /\ queue = <<>>
        /\ call = Idle
        /\ raws = 0
        /\ \E p \in Positions :
              win = [initialized |-> FALSE, resetting |-> FALSE,
                     pushed |-> FALSE, hideApp |-> FALSE, hideOverlay |-> TRUE,
                     saved |-> p, savedClip |-> Default]
        /\ hook = "removing"
        /\ shown = FALSE
        /\ request = NoRequest
        /\ calls = 0
        /\ late = FALSE /\ own = FALSE /\ asked = {}

-----------------------------------------------------------------------------
(* The user                                                                *)

Posted(kind) == Len(queue) < MaxQueue /\ queue' = Append(queue, kind)

Press(k) ==
    /\ k \notin down /\ down' = down \cup {k}
    /\ Posted("key")
    /\ UNCHANGED <<clip, call, raws, overlay, calls, late>>

Release(k) ==
    /\ k \in down /\ down' = down \ {k}
    /\ calls' = 0
    /\ Posted("key")
    /\ UNCHANGED <<clip, call, raws, overlay, late>>

\* Another key, or one that repeats; a move, WM_INPUT if the game registered
\* for it; a change of focus.
Other(kind) ==
    Posted(kind) /\ UNCHANGED <<down, clip, call, raws, overlay, calls, late>>

User == \/ \E k \in Keys : Press(k) \/ Release(k)
        \/ \E kind \in Others : Other(kind)

-----------------------------------------------------------------------------
(* Calls that set the region: they read or store the members, then call     *)
(* _ClipCursor                                                              *)

AppSets == request.at = "clipApp"
PresentSets == win.resetting
GameSets == call.at \in {"clip", "save", "restore"}

\* While the game's inputs are hidden, the cursor is to be free.
Confine(hidden) == IF hidden THEN Default ELSE win.savedClip

-----------------------------------------------------------------------------
(* The application                                                         *)

\* The overlay is shown or hidden: with the lock, the renderer hook is told
\* whose the inputs are, in two calls.
Asks(by, yes) ==
    /\ request = NoRequest
    /\ request' = [by |-> by, at |-> "testApp"]
    /\ shown' = yes

\* A thread of the application does so by itself.
Show(yes) ==
    /\ Asks("application", yes)
    /\ UNCHANGED <<down, queue, call, raws, members, hook, calls>>

\* HideAppInputs of the renderer hook tests that it is ready, then that of
\* WindowsHook stores and sets the region.
HideAppInputs ==
    /\ \/ /\ request.at = "testApp"
          /\ request' = [request EXCEPT
                !.at = IF hook = "ready" THEN "storeApp" ELSE "testOverlay"]
          /\ UNCHANGED members
       \/ /\ request.at = "storeApp"
          /\ request' = [request EXCEPT !.at = "clipApp"]
          /\ win' = [win EXCEPT !.hideApp = shown]
          /\ late' = (PresentSets \/ GameSets)
          /\ UNCHANGED clip
       \/ /\ request.at = "clipApp"
          /\ request' = [request EXCEPT !.at = "testOverlay"]
          /\ clip' = Confine(shown)
          /\ UNCHANGED <<win, late>>
    /\ UNCHANGED <<down, queue, call, raws, hook, shown, calls>>

\* HideOverlayInputs.  The lock is given back.
HideOverlayInputs ==
    /\ \/ /\ request.at = "testOverlay"
          /\ request' = IF hook = "ready"
                        THEN [request EXCEPT !.at = "storeOverlay"]
                        ELSE NoRequest
          /\ UNCHANGED win
       \/ /\ request.at = "storeOverlay"
          /\ request' = NoRequest
          /\ win' = [win EXCEPT !.hideOverlay = ~ shown]
    /\ UNCHANGED <<down, clip, queue, call, raws, hook, shown, calls, late>>

-----------------------------------------------------------------------------
(* The present thread                                                      *)

\* _ResetRenderState(Ready): after the initialisation, or when the buffers are
\* resized.  The application is told, but what it asks for is ignored until
\* _HookState is set.
BecomesReady ==
    /\ hook \in {"removing", "reset"}
    /\ hook' = "ready"
    /\ UNCHANGED <<down, queue, call, raws, members, shown, request, calls>>

\* _ResetRenderState(Reset), when the game resizes its buffers: the input hook
\* stays as it is.
Reset ==
    /\ hook = "ready" /\ ~ win.resetting
    /\ hook' = "reset"
    /\ UNCHANGED <<down, queue, call, raws, members, shown, request, calls>>

\* _ResetRenderState(Removing), when the device is released or the targets of
\* the new buffers cannot be made: it goes on to reset the input hook, if that
\* is initialized.
Removing ==
    /\ hook \in {"ready", "reset"} /\ ~ win.resetting
    /\ hook' = IF win.initialized THEN "leaving" ELSE "removing"
    /\ UNCHANGED <<down, queue, call, raws, members, shown, request, calls>>

\* WindowsHook_t::ResetRenderState, when the renderer hook is removed and when
\* the game presents in another window or in none: HideAppInputs(false) ...
StartReset ==
    /\ win.initialized
    /\ hook # "removing"
    /\ win' = [win EXCEPT !.initialized = FALSE, !.resetting = TRUE,
                          !.hideApp = FALSE]
    /\ late' = (AppSets \/ GameSets)
    /\ UNCHANGED <<down, clip, queue, call, raws, hook, shown, request, calls>>

\* Mutant: the region is left as it is when the game gets its inputs back.
ResetKeep == clip

ResetClip == win.savedClip

\* ... which sets the region, and HideOverlayInputs(true).
EndReset ==
    /\ win.resetting
    /\ win' = [win EXCEPT !.resetting = FALSE, !.hideOverlay = TRUE]
    /\ clip' = ResetClip
    /\ hook' = IF hook = "leaving" THEN "removing" ELSE hook
    /\ UNCHANGED <<down, queue, call, raws, shown, request, calls, late>>

\* PrepareForOverlay of WindowsHook, in a frame.  If the game presents in no
\* window, the renderer hook is ready and this one is not initialized.
PrepareForOverlay(hWnd) ==
    /\ hook \in {"ready", "reset"}
    /\ ~ win.initialized /\ ~ win.resetting
    /\ win' = [win EXCEPT !.initialized = (hWnd # "nullptr")]
    /\ UNCHANGED <<down, clip, queue, call, raws, hook, shown, request, calls,
                   late>>

Overlay == \/ \E yes \in BOOLEAN : Show(yes)
           \/ HideAppInputs \/ HideOverlayInputs
           \/ BecomesReady \/ Reset
           \/ Removing \/ StartReset \/ EndReset
           \/ \E hWnd \in {"window", "nullptr"} : PrepareForOverlay(hWnd)

-----------------------------------------------------------------------------
(* The game's message thread: GetMessage, PeekMessage                      *)

\* A message of a hook that is not initialized goes to the game.
Called == [Idle EXCEPT !.at = IF win.initialized THEN "app" ELSE "return",
                       !.msg = Head(queue)]

\* GetMessage, or PeekMessage with PM_REMOVE.
Fetch ==
    /\ call.at = "idle" /\ queue # <<>>
    /\ queue' = Tail(queue)
    /\ call' = Called
    /\ UNCHANGED <<down, clip, raws, overlay, calls, late>>

\* PeekMessage without PM_REMOVE.  The message stays, unless it is one the game
\* must not see; _HandleEvent treats it now, and again when it is fetched.
Look ==
    /\ call.at = "idle" /\ queue # <<>> /\ win.initialized
    /\ queue' = IF win.hideApp /\ Head(queue) \in Ignored THEN Tail(queue)
                ELSE queue
    /\ call' = Called
    /\ UNCHANGED <<down, clip, raws, overlay, calls, late>>

\* _HandleEvent: whose are the inputs.  One of the two members is read ...
AppHidden ==
    /\ call.at = "app"
    /\ call' = [call EXCEPT !.at = "overlay", !.app = win.hideApp]
    /\ UNCHANGED <<down, queue, raws, members, hook, shown, request, calls>>

\* ... then the other, and _Initialized again.
OverlayHidden ==
    /\ call.at = "overlay"
    /\ call' = IF win.initialized
               THEN [call EXCEPT !.at = IF call.msg = "key" THEN "keys"
                                        ELSE "deliver",
                                 !.overlay = win.hideOverlay]
               ELSE [call EXCEPT !.at = "return", !.app = FALSE]
    /\ UNCHANGED <<down, queue, raws, members, hook, shown, request, calls>>

\* Mutant: the combination is not remembered.
RememberNot(held) == win

\* Mutant: the position is taken with every key; the cursor has moved.
RememberSave(held) ==
    [win EXCEPT !.pushed = held, !.saved = CHOOSE p \in Positions : p # @]

\* _KeyCombinationPushed.
Remember(held) == [win EXCEPT !.pushed = held]

\* A key: GetAsyncKeyState, the keyboard as it is now.
CheckKeys ==
    /\ call.at = "keys"
    /\ IF Keys \subseteq down /\ ~ win.pushed
       THEN /\ call' = [call EXCEPT !.at = "call"]
            /\ calls' = calls + 1
            /\ UNCHANGED win
       ELSE /\ call' = [call EXCEPT !.at = "deliver"]
            /\ win' = Remember(Keys \subseteq down)
            /\ UNCHANGED calls
    /\ UNCHANGED <<down, clip, queue, raws, hook, shown, request, late>>

\* The callback: the application shows or hides the overlay.
Callback ==
    /\ call.at = "call"
    /\ Asks("callback", ~ shown)
    /\ call' = [call EXCEPT !.at = "callback"]
    /\ UNCHANGED <<down, queue, raws, members, hook, calls>>

\* When the callback has returned, the key is hidden from the overlay as well
\* if its inputs are hidden now ...
TreatOverlay ==
    /\ call.at = "callback" /\ request.by # "callback"
    /\ call' = [call EXCEPT !.at = "treat", !.overlay = @ \/ win.hideOverlay]
    /\ UNCHANGED <<down, queue, raws, members, hook, shown, request, calls>>

\* ... and from the game if its are; one of the two is to be set then.
TreatApp ==
    /\ call.at = "treat"
    /\ call' = [call EXCEPT !.at = IF win.hideApp THEN "save" ELSE "restore",
                            !.app = @ \/ win.hideApp]
    /\ late' = (AppSets \/ PresentSets \/ (late /\ win.hideApp))
    /\ UNCHANGED <<down, clip, queue, raws, overlay, calls>>

\* The game's inputs are hidden: the position is saved, and the region, the one
\* HideAppInputs has just set.
Save ==
    /\ call.at = "save"
    /\ \E p \in Positions :
          win' = [Remember(TRUE) EXCEPT !.saved = p, !.savedClip = clip]
    /\ call' = [call EXCEPT !.at = "deliver"]
    /\ UNCHANGED <<down, clip, queue, raws, hook, shown, request, calls, late>>

\* The game has its inputs: the region it asked for last is set again.
Restore ==
    /\ call.at = "restore"
    /\ win' = Remember(TRUE)
    /\ clip' = Confine(FALSE)
    /\ call' = [call EXCEPT !.at = "deliver"]
    /\ UNCHANGED <<down, queue, raws, hook, shown, request, calls, late>>

\* The message, or the raw input, goes to the game.
Passes == ~ (call.app /\ call.msg \in Ignored \cup {"data"})

\* The overlay is given the message.
Given == ~ call.overlay \/ call.msg = "focus"

\* The game, told of raw input, reads it.
Returned == IF call.msg = "input" THEN [Idle EXCEPT !.at = "input", !.msg = "data"]
            ELSE Idle

\* _HandleEvent, the rest: all raw events go to the overlay.
Deliver ==
    /\ call.at = "deliver"
    /\ raws' = 0
    /\ call' = Returned
    /\ UNCHANGED <<down, clip, queue, overlay, calls, late>>

\* Calls that have nothing to deliver return.
Return ==
    /\ call.at = "return"
    /\ call' = Returned
    /\ UNCHANGED <<down, clip, queue, raws, overlay, calls, late>>

-----------------------------------------------------------------------------
(* The game's message thread: raw input, the cursor                        *)

\* _AppendEvent: a full queue refuses the event.
AppendEvent == IF raws < RawSize THEN raws + 1 ELSE raws

\* GetRawInputData or GetRawInputBuffer: the overlay's part of a movement, ...
ReadInput ==
    /\ call.at = "input"
    /\ IF win.initialized
       THEN /\ raws' = IF win.hideOverlay THEN raws ELSE AppendEvent
            /\ call' = [call EXCEPT !.at = "give"]
       ELSE /\ call' = [call EXCEPT !.at = "return"]
            /\ UNCHANGED raws
    /\ UNCHANGED <<down, clip, queue, overlay, calls, late>>

\* Mutant: the wrong member is asked.
WhoseOverlay == win.hideOverlay

Whose == win.hideApp

\* ... and the game's: nothing if its inputs are hidden.
GiveInput ==
    /\ call.at = "give"
    /\ call' = [call EXCEPT !.at = "return", !.app = Whose]
    /\ UNCHANGED <<down, clip, queue, raws, overlay, calls, late>>

\* Are calls of the game about the cursor answered with what is saved?
Hidden == win.initialized /\ win.hideApp

\* ClipCursor: the region is saved and the members are read, ...
ClipCursor(r) ==
    /\ call.at = "idle"
    /\ win' = [win EXCEPT !.savedClip = r]
    /\ call' = [Idle EXCEPT !.at = "clip",
                            !.region = IF Hidden THEN Default ELSE r]
    /\ late' = (AppSets \/ PresentSets \/ (win.hideApp /\ ~ win.initialized))
    /\ UNCHANGED <<down, clip, queue, raws, hook, shown, request, calls>>

\* ... then a region is set.
ClipSet ==
    /\ call.at = "clip"
    /\ clip' = call.region
    /\ call' = Idle
    /\ UNCHANGED <<down, queue, raws, overlay, calls, late>>

Game == \/ Fetch \/ Look \/ AppHidden \/ OverlayHidden
        \/ CheckKeys \/ Callback \/ TreatOverlay \/ TreatApp \/ Save \/ Restore
        \/ Deliver \/ Return \/ ReadInput \/ GiveInput
        \/ \E r \in Regions : ClipCursor(r)
        \/ ClipSet

-----------------------------------------------------------------------------
(* What the game sees                                                      *)

\* The game's cursor stands still, and the application wants it so.
Frozen == shown /\ Hidden

\* GetCursorPos on the message thread, while its answer is spoofed.
GetCursorPos ==
    /\ call.at = "idle" /\ Frozen
    /\ asked' = asked \cup {win.saved}
    /\ UNCHANGED <<down, clip, queue, call, raws, overlay, calls, late>>

\* What the game was told counts until its inputs are its own again.
Forget == asked' = IF Frozen' THEN asked ELSE {}

\* Were the game's inputs its own at any time during the call?
Watch == own' = /\ call'.at \notin {"idle", "clip"}
                /\ ~ Hidden' \/ (own /\ (call'.at = "input" => call.at = "input"))

Next == \/ (User \/ Overlay \/ Game) /\ Forget /\ Watch
        \/ GetCursorPos /\ Watch

Spec == Init /\ [][Next]_vars
-----------------------------------------------------------------------------
(* Properties                                                              *)

TypeOK ==
    /\ down \subseteq Keys /\ clip \in Regions
    /\ queue \in Seq(Kinds)
    /\ call \in [at : {"idle", "app", "overlay", "keys", "call", "callback",
                       "treat", "save", "restore", "deliver", "return", "input",
                       "give", "clip"},
                 msg : Kinds \cup {"data"}, app : BOOLEAN, overlay : BOOLEAN,
                 region : Regions]
    /\ raws \in 0 .. RawSize
    /\ win \in [initialized : BOOLEAN, resetting : BOOLEAN, pushed : BOOLEAN,
                hideApp : BOOLEAN, hideOverlay : BOOLEAN, saved : Positions,
                savedClip : Regions]
    /\ hook \in {"ready", "reset", "leaving", "removing"} /\ shown \in BOOLEAN
    /\ request \in [by : {"nobody", "application", "callback"},
                    at : {"done", "testApp", "storeApp", "clipApp",
                          "testOverlay", "storeOverlay"}]
    /\ calls \in Nat /\ late \in BOOLEAN /\ own \in BOOLEAN
    /\ asked \subseteq Positions

\* While the game's inputs are hidden the cursor is free, afterwards it is
\* confined to the region saved, whatever regions the game asks for meanwhile
\* and whoever hides its inputs: unless calls that set the region overlapped
\* last, or the game asked for one when its inputs were hidden by a hook that
\* is not initialized.
ClipRight ==
    ~ AppSets /\ ~ PresentSets /\ ~ GameSets /\ ~ late
        => clip = Confine(win.hideApp)

\* The callback is called once each time the combination is held, although a
\* message that is looked at before it is fetched is handled twice.
OncePerHold == calls <= 1

\* A call gives the game a key, a movement or raw input only if the game's
\* inputs were its own at some time during the call: not when the callback or
\* another thread changes other members meanwhile.
NoLeak ==
    call.at \in {"deliver", "return"} /\ call.msg \in Ignored \cup {"data"} /\ Passes
        => own

\* As long as the overlay is shown and its inputs hidden from the game, the
\* game's message thread is always told the same position, whatever becomes of
\* the hook and whoever else asks for the inputs.
CursorFrozen == \A p, q \in asked : p = q

-----------------------------------------------------------------------------
(* What the documentation says and the code does not do                    *)

\* No input is seen by both the game and the overlay.
OneReader ==
    call.at = "deliver" /\ call.msg \in Ignored => ~ (Passes /\ Given)

\* Unless somebody is about to change it, the game is deaf only while the
\* overlay is shown.
NotDeaf ==
    Hidden /\ request = NoRequest /\ hook = "ready" => shown

\* The region is right whenever nobody is about to set it.
ClipAlways ==
    ~ AppSets /\ ~ PresentSets /\ ~ GameSets => clip = Confine(win.hideApp)

\* Inputs that are hidden from the overlay do not reach it.
RawHidden == call.at = "deliver" /\ win.hideOverlay => raws = 0
=============================================================================
