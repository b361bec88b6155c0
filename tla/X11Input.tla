------------------------------ MODULE X11Input ------------------------------
(***************************************************************************)
(* The input hook of Linux (src/Linux/X11Hook.cpp): which events the game   *)
(* and the overlay see, the key combination, and the pointer the game is    *)
(* told about.                                                              *)
(*                                                                          *)
(* The game's event thread asks Xlib how many events are queued.  The hook  *)
(* looks at the events before it answers, and takes away those the game     *)
(* must not see.  The user types meanwhile, another thread presents, and    *)
(* the application shows or hides the overlay from any thread: each read    *)
(* and each write of a member they share is a step.  A key event is told    *)
(* from others, but not which key it is of: the hook looks at the keyboard  *)
(* instead.                                                                 *)
(*                                                                          *)
(* The game takes as many events as it was told there are, then asks again. *)
(* The application shows the overlay when the combination is pressed or by  *)
(* itself, under a lock as the bridge's (everyone_overlay.cpp:126); as long *)
(* as it does, the inputs are to be the overlay's.                          *)
(***************************************************************************)
EXTENDS Integers, Sequences

CONSTANTS Keys,       \* _NativeKeyCombination
          Positions,  \* of the pointer
          Others,     \* bound: kinds of events beside those of the combination
          MaxQueue    \* bound: events in the queue

ASSUME KeysAssumption == Keys # {}
ASSUME MaxQueueAssumption == MaxQueue \in Nat \ {0}

\* IgnoreEvent: keyboard, buttons, motion, requests for the selection.
Inputs == {"key", "motion"}
Kinds == Inputs \cup {"focus"}
ASSUME OthersAssumption == Others \subseteq Kinds

VARIABLES
    down,     \* keys of the combination that are down
    queue,    \* Xlib's: their kind; did the hook let them pass at the last poll
    told,     \* events the game was told of and has not taken
    poll,     \* the call of _CheckForOverlay: event, events left, its locals
    x11,      \* members of X11Hook_t
    hook,     \* _HookState of the renderer hook; "leaving": inside Removing
    shown,    \* does the application show the overlay
    request,  \* who holds the application's lock, and the call it is at
    calls,    \* calls of the callback since the combination was completed
    asked     \* history: positions the game was told of since they are hidden

vars == <<down, queue, told, poll, x11, hook, shown, request, calls,
          asked>>
overlay == <<x11, hook, shown, request, asked>>

Idle == [at |-> "idle", left |-> 0, app |-> FALSE, overlay |-> FALSE]
NoRequest == [by |-> "nobody", at |-> "done"]

Init == /\ down = {}
        /\ queue = <<>>
        /\ told = 0
        /\ poll = Idle
        \* the constructor leaves _SavedCursorX and the others uninitialized
        /\ \E p \in Positions :
              x11 = [initialized |-> FALSE, window |-> FALSE, pushed |-> FALSE,
                     hideApp |-> FALSE, hideOverlay |-> TRUE, saved |-> p]
        /\ hook = "removing"
        /\ shown = FALSE
        /\ request = NoRequest
        /\ calls = 0
        /\ asked = {}

-----------------------------------------------------------------------------
(* The user                                                                *)

Arrives(kind) == /\ Len(queue) < MaxQueue
                 /\ queue' = Append(queue, [kind |-> kind, passed |-> FALSE])

Press(k) ==
    /\ k \notin down
    /\ down' = down \cup {k}
    /\ Arrives("key")
    /\ UNCHANGED <<told, poll, overlay, calls>>

Release(k) ==
    /\ k \in down
    /\ down' = down \ {k}
    /\ calls' = 0
    /\ Arrives("key")
    /\ UNCHANGED <<told, poll, overlay>>

\* Another key, or one that repeats; a move; a change of focus.
Other(kind) == Arrives(kind) /\ UNCHANGED <<down, told, poll, overlay, calls>>

User == \/ \E k \in Keys : Press(k) \/ Release(k)
        \/ \E kind \in Others : Other(kind)

-----------------------------------------------------------------------------
(* The application                                                         *)

\* The game's pointer stands still, and the application wants it so.
Frozen == shown /\ x11.initialized /\ x11.hideApp

\* What the game was told counts until its inputs are its own again.
Forget == asked' = IF Frozen' THEN asked ELSE {}

\* The overlay is shown or hidden: with the lock, the renderer hook is told
\* whose the inputs are, in two calls.
Asks(by, yes) ==
    /\ request = NoRequest
    /\ request' = [by |-> by, at |-> "testApp"]
    /\ shown' = yes

\* A thread of the application does so by itself.
Show(yes) ==
    /\ Asks("application", yes)
    /\ UNCHANGED <<down, queue, told, poll, x11, hook, calls>>
    /\ Forget

\* HideAppInputs of the renderer hook tests that it is ready, then that of
\* X11Hook stores.
HideAppInputs ==
    /\ \/ /\ request.at = "testApp"
          /\ request' = [request EXCEPT
                !.at = IF hook = "ready" THEN "storeApp" ELSE "testOverlay"]
          /\ UNCHANGED x11
       \/ /\ request.at = "storeApp"
          /\ request' = [request EXCEPT !.at = "testOverlay"]
          /\ x11' = [x11 EXCEPT !.hideApp = shown]
    /\ UNCHANGED <<down, queue, told, poll, hook, shown, calls>>
    /\ Forget

\* HideOverlayInputs.  The lock is given back.
HideOverlayInputs ==
    /\ \/ /\ request.at = "testOverlay"
          /\ request' = IF hook = "ready"
                        THEN [request EXCEPT !.at = "storeOverlay"]
                        ELSE NoRequest
          /\ UNCHANGED x11
       \/ /\ request.at = "storeOverlay"
          /\ request' = NoRequest
          /\ x11' = [x11 EXCEPT !.hideOverlay = ~ shown]
    /\ UNCHANGED <<down, queue, told, poll, hook, shown, calls, asked>>

Requested == HideAppInputs \/ HideOverlayInputs

-----------------------------------------------------------------------------
(* The present thread                                                      *)

\* _ResetRenderState(Ready): after the initialisation, or when the frames of a
\* new swapchain are made.  The application is told, but what it asks for is
\* ignored until _HookState is set.
BecomesReady ==
    /\ hook \in {"removing", "reset"}
    /\ hook' = "ready"
    /\ UNCHANGED <<down, queue, told, poll, x11, shown, request, calls, asked>>

\* Is the present thread inside ResetRenderState of X11Hook?
Resetting == x11.initialized /\ ~ x11.window

\* _ResetRenderState(Reset), when the game replaces its swapchain: the input
\* hook stays as it is.  If the new swapchain is not created, so does this.
Reset ==
    /\ hook = "ready" /\ ~ Resetting
    /\ hook' = "reset"
    /\ UNCHANGED <<down, queue, told, poll, x11, shown, request, calls, asked>>

\* _ResetRenderState(Removing), which goes on to reset the input hook, if that
\* is initialized.
Removing ==
    /\ hook \in {"ready", "reset"} /\ ~ Resetting
    /\ hook' = IF x11.initialized THEN "leaving" ELSE "removing"
    /\ UNCHANGED <<down, queue, told, poll, x11, shown, request, calls, asked>>

\* X11Hook_t::ResetRenderState, when the renderer hook is removed and when the
\* game presents in another window: _GameWnd and HideAppInputs(false) ...
StartReset ==
    /\ x11.initialized /\ x11.window
    /\ hook # "removing"
    /\ x11' = [x11 EXCEPT !.window = FALSE, !.hideApp = FALSE]
    /\ UNCHANGED <<down, queue, told, poll, hook, shown, request, calls>>
    /\ Forget

\* ... HideOverlayInputs(true), and the end of ImGui's backend.
EndReset ==
    /\ Resetting
    /\ x11' = [x11 EXCEPT !.hideOverlay = TRUE, !.initialized = FALSE]
    /\ hook' = IF hook = "leaving" THEN "removing" ELSE hook
    /\ UNCHANGED <<down, queue, told, poll, shown, request, calls>>
    /\ Forget

\* PrepareForOverlay of X11Hook, in a frame.
PrepareForOverlay ==
    /\ hook \in {"ready", "reset"}
    /\ ~ x11.initialized
    /\ x11' = [x11 EXCEPT !.initialized = TRUE, !.window = TRUE]
    /\ UNCHANGED <<down, queue, told, poll, hook, shown, request, calls>>
    /\ Forget

Overlay == \/ \E yes \in BOOLEAN : Show(yes)
           \/ Requested
           \/ BecomesReady \/ Reset
           \/ Removing \/ StartReset \/ EndReset
           \/ PrepareForOverlay

-----------------------------------------------------------------------------
(* The game's event thread                                                 *)

\* XPending or XEventsQueued.  An uninitialized hook lets everything pass.
PollCall ==
    /\ poll.at = "idle" /\ queue # <<>>
    /\ IF x11.initialized
       THEN /\ poll' = [Idle EXCEPT !.at = "hidden", !.left = Len(queue)]
            /\ told' = 0
       ELSE /\ told' = Len(queue)
            /\ UNCHANGED poll
    /\ queue' = [i \in DOMAIN queue |->
                   [queue[i] EXCEPT !.passed = ~ x11.initialized]]
    /\ UNCHANGED <<down, overlay, calls>>

\* Whose are the inputs: the first of the two members is read.
AppHidden ==
    /\ poll.at = "hidden"
    /\ poll' = [poll EXCEPT !.at = "peek", !.app = x11.hideApp]
    /\ UNCHANGED <<down, queue, told, overlay, calls>>

\* The second is read, and the event.  XPeekEvent blocks on an empty queue.
Peek ==
    /\ poll.at = "peek" /\ queue # <<>>
    /\ poll' = [poll EXCEPT !.at = IF Head(queue).kind = "key" THEN "keys"
                                   ELSE "deliver",
                            !.overlay = x11.hideOverlay]
    /\ UNCHANGED <<down, queue, told, overlay, calls>>

\* The position is saved if the game's inputs are hidden.  The pointer may be
\* anywhere.
Save(x) == IF x.hideApp THEN {[x EXCEPT !.saved = p] : p \in Positions} ELSE {x}

\* Mutant: the combination is not remembered.
RememberNot(xs, held) == xs

\* Mutant: the position is taken with every key.
RememberSave(xs, held) ==
    {[x EXCEPT !.pushed = held] : x \in UNION {Save(y) : y \in xs}}

\* _KeyCombinationPushed.
Remember(xs, held) == {[x EXCEPT !.pushed = held] : x \in xs}

\* XQueryKeymap: the keyboard as it is now.
CheckKeys ==
    /\ poll.at = "keys"
    /\ IF Keys \subseteq down /\ ~ x11.pushed
       THEN /\ poll' = [poll EXCEPT !.at = "call"]
            /\ calls' = calls + 1
            /\ UNCHANGED x11
       ELSE /\ poll' = [poll EXCEPT !.at = "deliver"]
            /\ x11' \in Remember({x11}, Keys \subseteq down)
            /\ UNCHANGED calls
    /\ UNCHANGED <<down, queue, told, hook, shown, request, asked>>

\* The callback: the application shows or hides the overlay.
Callback ==
    /\ poll.at = "call"
    /\ Asks("callback", ~ shown)
    /\ poll' = [poll EXCEPT !.at = "callback"]
    /\ UNCHANGED <<down, queue, told, x11, hook, calls>>
    /\ Forget

\* When the callback has returned, an event is hidden from the overlay as well
\* if its inputs are hidden now ...
TreatOverlay ==
    /\ poll.at = "callback" /\ request.by # "callback"
    /\ poll' = [poll EXCEPT !.at = "save", !.overlay = @ \/ x11.hideOverlay]
    /\ UNCHANGED <<down, queue, told, overlay, calls>>

\* ... and from the game if its are.
TreatApp ==
    /\ poll.at = "save"
    /\ x11' \in Remember(Save(x11), TRUE)
    /\ poll' = [poll EXCEPT !.at = "deliver", !.app = @ \/ x11.hideApp]
    /\ UNCHANGED <<down, queue, told, hook, shown, request, calls, asked>>

\* The event goes to the game.
Passes == ~ poll.app \/ Head(queue).kind \notin Inputs

\* The overlay is given the event.
Given == ~ poll.overlay \/ Head(queue).kind = "focus"

\* Mutant: the game is told of the events the hook has not looked at.
AnswerAll == told' = poll.left

\* The game is told of one event.
AnswerOne == told' = 1

\* Mutant: the events left are counted once only.
LeftKeep == poll.left

LeftNext == poll.left - 1

\* ImGui_ImplX11_EventHandler, and what becomes of the event.
Deliver ==
    /\ poll.at = "deliver"
    /\ IF Passes
       THEN /\ AnswerOne
            /\ queue' = [queue EXCEPT ![1].passed = TRUE]
            /\ poll' = Idle
       ELSE /\ queue' = Tail(queue)
            /\ poll' = IF LeftNext = 0 THEN Idle
                       ELSE [Idle EXCEPT !.at = "hidden", !.left = LeftNext]
            /\ UNCHANGED told
    /\ UNCHANGED <<down, overlay, calls>>

\* XNextEvent.
Take ==
    /\ poll.at = "idle" /\ told > 0
    /\ queue' = Tail(queue)
    /\ told' = told - 1
    /\ UNCHANGED <<down, poll, overlay, calls>>

\* MyXQueryPointer on the event thread, while its answer is spoofed.
QueryPointer ==
    /\ poll.at = "idle" /\ Frozen
    /\ asked' = asked \cup {x11.saved}
    /\ UNCHANGED <<down, queue, told, poll, x11, hook, shown, request, calls>>

CheckForOverlay == \/ AppHidden \/ Peek
                   \/ CheckKeys \/ Callback \/ TreatOverlay \/ TreatApp
                   \/ Deliver

Game == PollCall \/ CheckForOverlay \/ Take \/ QueryPointer

Next == User \/ Overlay \/ Game

Spec == Init /\ [][Next]_vars

\* A thread inside the hook or with the application's lock goes on, and one that
\* waits for the lock gets it.
FairSpec == /\ Spec
            /\ WF_vars(CheckForOverlay) /\ WF_vars(Requested)
            /\ SF_vars(Callback)

\* The game asks for its events and takes them.
ReadingSpec == FairSpec /\ WF_vars(PollCall) /\ SF_vars(Take)

-----------------------------------------------------------------------------
(* Properties                                                              *)

TypeOK ==
    /\ down \subseteq Keys
    /\ queue \in Seq([kind : Kinds, passed : BOOLEAN])
    /\ told \in 0 .. Len(queue)
    /\ poll \in [at : {"idle", "hidden", "peek", "keys", "call", "callback",
                       "save", "deliver"},
                 left : Nat, app : BOOLEAN, overlay : BOOLEAN]
    /\ poll.at # "idle" => poll.left \in 1 .. Len(queue) /\ told = 0
    /\ x11 \in [initialized : BOOLEAN, window : BOOLEAN,
                pushed : BOOLEAN, hideApp : BOOLEAN, hideOverlay : BOOLEAN,
                saved : Positions]
    /\ x11.window => x11.initialized
    /\ hook \in {"ready", "reset", "leaving", "removing"}
    /\ shown \in BOOLEAN
    /\ request \in [by : {"nobody", "application", "callback"},
                    at : {"done", "testApp", "storeApp", "testOverlay",
                          "storeOverlay"}]
    /\ calls \in Nat
    /\ asked \subseteq Positions

\* The game takes only events that the hook has looked at and let pass: none
\* that follows in the queue, whatever arrives meanwhile.
NoLeak == \A i \in 1 .. told : queue[i].passed

\* The callback is called once each time the combination is held, however the
\* keys repeat and whatever else is typed before the hook sees it.
OncePerHold == calls <= 1

\* As long as the overlay is shown and its inputs hidden from the game, the
\* game's event thread is always told the same position, whatever becomes of
\* the hook and whoever else asks for the inputs.
PointerFrozen == \A p, q \in asked : p = q

\* The game's question how many events there are is answered.
PollReturns == poll.at # "idle" ~> poll.at = "idle"

-----------------------------------------------------------------------------
(* What the documentation says and the code does not do                    *)

\* No input is seen by both the game and the overlay.
OneReader ==
    poll.at = "deliver" /\ Head(queue).kind \in Inputs => ~ (Passes /\ Given)

\* Unless somebody is about to change it, the game is deaf only while the
\* overlay is shown.
NotDeaf ==
    x11.initialized /\ x11.hideApp /\ request = NoRequest /\ hook = "ready"
        => shown

Held == Keys \subseteq down /\ x11.initialized

\* The callback is called when all keys of the combination are down: at the
\* latest when the hook looks at the last of their events.
CalledWhenHeld ==
    Held /\ (\E i \in DOMAIN queue : queue[i] = [kind |-> "key", passed |-> FALSE])
        ~> calls > 0 \/ ~ Held
=============================================================================
