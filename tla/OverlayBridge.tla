--------------------------- MODULE OverlayBridge ---------------------------
(***************************************************************************)
(* The bridge (bridge/everyone_overlay.cpp) on top of the Linux detector   *)
(* and the renderer hook it hands over.                                    *)
(*                                                                         *)
(* A controller (the C# mod, the auto-start thread) calls                  *)
(* everyone_overlay_start and everyone_overlay_stop.  start spawns a       *)
(* worker that polls the detector, takes the hook over, sets its callbacks *)
(* and starts it.  From then on every present of the game runs the         *)
(* overlay on the game's thread.  stop joins the worker and deletes the    *)
(* hook, while the game keeps presenting.                                  *)
(***************************************************************************)
EXTENDS RendererDetector

CONSTANTS Controllers,  \* threads that call start and stop
          MaxStops      \* bound: successful calls of stop

ASSUME StopsAssumption == MaxStops \in Nat

VARIABLES g_started, g_stop, g_ready, g_renderer,
          g_worker,   \* the thread object, NoThread when null
          spawned,    \* worker threads ever created
          wpc,        \* where each worker is in WorkerMain
          cpc,        \* where each controller is in start or stop
          victim,     \* stop's local renderer
          fpc,        \* where each game thread is in a hooked frame
          fgen,       \* the hook object a frame is running on
          stops       \* counts successful stops

bridgeVars == <<g_started, g_stop, g_ready, g_renderer, g_worker, spawned,
                wpc, cpc, victim, fpc, fgen, stops>>
vars == <<detVars, bridgeVars>>

Workers == Callers

BridgeInit ==
    /\ g_started = FALSE /\ g_stop = FALSE /\ g_ready = FALSE
    /\ g_renderer = "none"
    /\ g_worker = NoThread
    /\ spawned = {}
    /\ wpc = [w \in Workers |-> "none"]
    /\ cpc = [c \in Controllers |-> "idle"]
    /\ victim = [c \in Controllers |-> "none"]
    /\ fpc = [g \in GameThreads |-> "out"]
    /\ fgen = [g \in GameThreads |-> 0]
    /\ stops = 0

Init == DetectorInit /\ BridgeInit

-----------------------------------------------------------------------------
(* everyone_overlay_start                                                  *)

CGo(c, from, to) == /\ fault = "none" /\ cpc[c] = from
                    /\ cpc' = [cpc EXCEPT ![c] = to]

StartExchange(c) ==
    /\ ~ g_started
    /\ CGo(c, "idle", "clear")
    /\ g_started' = TRUE
    /\ UNCHANGED <<detVars, g_stop, g_ready, g_renderer, g_worker, spawned,
                   wpc, victim, fpc, fgen, stops>>

StartClear(c) ==
    /\ CGo(c, "clear", "spawn")
    /\ g_stop' = FALSE
    /\ UNCHANGED <<detVars, g_started, g_ready, g_renderer, g_worker, spawned,
                   wpc, victim, fpc, fgen, stops>>

StartSpawn(c) ==
    /\ CGo(c, "spawn", "idle")
    /\ \E w \in Workers \ spawned :
          /\ g_worker' = w
          /\ spawned' = spawned \cup {w}
          /\ wpc' = [wpc EXCEPT ![w] = "begin"]
    /\ UNCHANGED <<detVars, g_started, g_stop, g_ready, g_renderer, victim,
                   fpc, fgen, stops>>

-----------------------------------------------------------------------------
(* everyone_overlay_stop                                                   *)

StopExchange(c) ==
    /\ g_started
    /\ stops < MaxStops
    /\ CGo(c, "idle", "signal")
    /\ g_started' = FALSE
    /\ stops' = stops + 1
    /\ UNCHANGED <<detVars, g_stop, g_ready, g_renderer, g_worker, spawned,
                   wpc, victim, fpc, fgen>>

\* Mutant: the worker is not told to stop.
StopNoSignal(c) ==
    /\ CGo(c, "signal", "join")
    /\ UNCHANGED <<detVars, g_started, g_stop, g_ready, g_renderer, g_worker,
                   spawned, wpc, victim, fpc, fgen, stops>>

StopSignal(c) ==
    /\ CGo(c, "signal", "join")
    /\ g_stop' = TRUE
    /\ UNCHANGED <<detVars, g_started, g_ready, g_renderer, g_worker, spawned,
                   wpc, victim, fpc, fgen, stops>>

\* Mutant: the thread object is deleted without joining it.
StopNoJoin(c) ==
    /\ CGo(c, "join", "take")
    /\ g_worker' = NoThread
    /\ UNCHANGED <<detVars, g_started, g_stop, g_ready, g_renderer, spawned,
                   wpc, victim, fpc, fgen, stops>>

StopJoin(c) ==
    /\ CGo(c, "join", "take")
    /\ g_worker # NoThread => wpc[g_worker] = "ended"
    /\ g_worker' = NoThread
    /\ UNCHANGED <<detVars, g_started, g_stop, g_ready, g_renderer, spawned,
                   wpc, victim, fpc, fgen, stops>>

\* Under g_mutex: from here on no callback reaches the renderer.
StopTake(c) ==
    /\ CGo(c, "take", "notify")
    /\ victim' = [victim EXCEPT ![c] = g_renderer]
    /\ g_renderer' = "none"
    /\ UNCHANGED <<detVars, g_started, g_stop, g_ready, g_worker, spawned, wpc,
                   fpc, fgen, stops>>

\* delete renderer, first half.  The OpenGL hook reports Removing (which ends
\* g_ready) and forgets that it was initialized; the Vulkan hook does not.
StopNotify(c) ==
    LET a == victim[c]
    IN  /\ CGo(c, "notify", IF a = "none" THEN "clearReady" ELSE "unhook")
        /\ IF a = "glx" /\ hookObj[a].ready
           THEN /\ g_ready' = FALSE
                /\ hookObj' = [hookObj EXCEPT ![a].ready = FALSE]
           ELSE UNCHANGED <<g_ready, hookObj>>
        /\ UNCHANGED <<loaded, redirects, instance, created, freed, det, pc, self,
                       lib, restart, ret, fault, g_started, g_stop, g_renderer,
                       g_worker, spawned, wpc, victim, fpc, fgen, stops>>

\* The redirection is undone, and with a detour its trampoline freed.
StopUnhook(c) ==
    LET a == victim[c]
    IN  /\ CGo(c, "unhook", "free")
        /\ table' = IF hookObj[a].patched THEN "driver" ELSE table
        /\ entry' = IF entry[a] = "hook" THEN Redirect({a}, "driver") ELSE entry
        /\ UNCHANGED <<loaded, hookObj, instance, created, freed, det, pc, self,
                       lib, restart, ret, fault, g_started, g_stop, g_ready,
                       g_renderer, g_worker, spawned, wpc, victim, fpc, fgen,
                       stops>>

\* _Instance becomes null and the object's memory is freed.
StopFree(c) ==
    LET a == victim[c]
    IN  /\ CGo(c, "free", "clearReady")
        /\ hookObj' = [hookObj EXCEPT
                         ![a] = [NoHook EXCEPT !.gen = hookObj[a].gen + 1]]
        /\ victim' = [victim EXCEPT ![c] = "none"]
        /\ UNCHANGED <<loaded, redirects, instance, created, freed, det, pc, self,
                       lib, restart, ret, fault, g_started, g_stop, g_ready,
                       g_renderer, g_worker, spawned, wpc, fpc, fgen, stops>>

StopReturn(c) ==
    /\ CGo(c, "clearReady", "idle")
    /\ g_ready' = FALSE
    /\ UNCHANGED <<detVars, g_started, g_stop, g_renderer, g_worker, spawned,
                   wpc, victim, fpc, fgen, stops>>

-----------------------------------------------------------------------------
(* WorkerMain and the bridge's DetectRenderer                              *)

\* A worker moves on only when its call into the detector has returned.
WGo(w, from, to) == /\ fault = "none" /\ wpc[w] = from /\ pc[w] = "out"
                    /\ wpc' = [wpc EXCEPT ![w] = to]

sharedVars == <<g_started, g_stop, g_ready, g_renderer, g_worker, spawned,
                cpc, victim, fpc, fgen, stops>>

FirstPass(w) == WGo(w, "begin", "stopFirst") /\ DetectCall(w, FALSE)
                /\ UNCHANGED sharedVars
StopFirst(w) == WGo(w, "stopFirst", "poll") /\ StopCall(w)
                /\ UNCHANGED sharedVars

PollAgain(w) == /\ ~ g_stop
                /\ WGo(w, "poll", "polled")
                /\ DetectCall(w, TRUE)
                /\ UNCHANGED sharedVars

PollEnd(w) == /\ g_stop
              /\ WGo(w, "poll", "get")
              /\ UNCHANGED <<detVars, sharedVars>>

Polled(w) == /\ WGo(w, "polled", IF ret[w] = "done" THEN "get" ELSE "poll")
             /\ UNCHANGED <<detVars, sharedVars>>

GetRenderer(w) == WGo(w, "get", "got") /\ GetCall(w) /\ UNCHANGED sharedVars

\* Asked to stop, or nothing found: give up.  Otherwise own the renderer.
Got(w) ==
    /\ WGo(w, "got", IF g_stop \/ ret[w] = "none" THEN "giveUp" ELSE "own")
    /\ UNCHANGED <<detVars, sharedVars>>

GiveUp(w) == WGo(w, "giveUp", "free") /\ StopCall(w) /\ UNCHANGED sharedVars

\* Under g_mutex; then the callbacks are set, before the hook is started.
Own(w) ==
    /\ WGo(w, "own", "start")
    /\ g_renderer' = ret[w]
    /\ UNCHANGED <<detVars, g_started, g_stop, g_ready, g_worker, spawned, cpc,
                   victim, fpc, fgen, stops>>

\* renderer->StartHook: the game's presents are redirected to the hook, then
\* the patched address is recorded or the saved original becomes the
\* trampoline.
StartHook(w) ==
    LET a == ret[w]
        start == hookObj[a].orig # "null" /\ ~ hookObj[a].hooked
    IN  /\ wpc[w] = "start"
        /\ WGo(w, "start", IF start THEN "startSaved" ELSE "free")
        /\ table' = IF start /\ Patchable(a) THEN "hook" ELSE table
        /\ entry' = IF start /\ ~ Patchable(a) THEN Redirect({a}, "hook")
                                               ELSE entry
        /\ UNCHANGED <<loaded, hookObj, instance, created, freed, det, pc,
                       self, lib, restart, ret, fault, sharedVars>>

StartHookSaved(w) ==
    LET a == ret[w]
    IN  /\ WGo(w, "startSaved", "free")
        /\ hookObj' = [hookObj EXCEPT
                         ![a].orig = IF entry[a] = "hook" THEN "tramp" ELSE @,
                         ![a].patched = entry[a] # "hook",
                         ![a].hooked = TRUE]
        /\ UNCHANGED <<loaded, redirects, instance, created, freed, det, pc, self,
                       lib, restart, ret, fault, sharedVars>>

FreeLast(w) == WGo(w, "free", "end") /\ FreeCall(w) /\ UNCHANGED sharedVars
WorkerEnd(w) == WGo(w, "end", "ended") /\ UNCHANGED <<detVars, sharedVars>>

-----------------------------------------------------------------------------
(* A frame of the game through the started hook                            *)

FGo(g, from, to) == /\ fault = "none" /\ fpc[g] = from
                    /\ fpc' = [fpc EXCEPT ![g] = to]

\* Inst() may construct a hook anew when the redirection outlives the object.
HookInst(a) == IF hookObj[a].alive THEN hookObj
               ELSE [hookObj EXCEPT ![a].alive = TRUE]

\* The frame runs on a hook object that has been deleted.
Dangling(g) == fgen[g] # hookObj[PresentAPI[g]].gen

frameFrame == <<loaded, redirects, instance, created, freed, det, pc, self, lib,
                restart, ret, g_started, g_stop, g_renderer, g_worker, spawned,
                wpc, cpc, victim, stops>>

FrameEnter(g) ==
    LET a == PresentAPI[g]
    IN  /\ pc[g] = "out"
        /\ a \in loaded
        /\ Lands(a) = "hook"
        /\ FGo(g, "out", "prepare")
        /\ hookObj' = HookInst(a)
        /\ fgen' = [fgen EXCEPT ![g] = hookObj[a].gen]
        /\ UNCHANGED <<frameFrame, fault, g_ready>>

\* _PrepareForOverlay on a hook that is not ready yet calls OverlayHookReady.
FrameReady(g) ==
    /\ ~ Dangling(g)
    /\ FGo(g, "prepare", IF hookObj[PresentAPI[g]].ready THEN "draw" ELSE "callback")
    /\ UNCHANGED <<frameFrame, fault, hookObj, fgen, g_ready>>

\* It returns before that when its initialization fails (no display, no window,
\* an object of Vulkan that cannot be made), and later, without drawing, when
\* the backends have no frame for it.
FrameSkip(g) ==
    /\ ~ Dangling(g)
    /\ FGo(g, "prepare", "original")
    /\ UNCHANGED <<frameFrame, fault, hookObj, fgen, g_ready>>

\* The bridge's callback runs on the game's thread and sets g_ready; then the
\* hook records its state.
FrameCallback(g) ==
    /\ FGo(g, "callback", "state")
    /\ g_ready' = TRUE
    /\ UNCHANGED <<frameFrame, fault, hookObj, fgen>>

FrameState(g) ==
    /\ ~ Dangling(g)
    /\ FGo(g, "state", "draw")
    /\ hookObj' = [hookObj EXCEPT ![PresentAPI[g]].ready = TRUE]
    /\ UNCHANGED <<frameFrame, fault, fgen, g_ready>>

\* OverlayProc().
FrameDraw(g) ==
    /\ ~ Dangling(g)
    /\ FGo(g, "draw", "original")
    /\ UNCHANGED <<frameFrame, fault, hookObj, fgen, g_ready>>

\* The original present: OpenGL asks Inst() again, Vulkan uses its inst.
\* While the saved original is still the redirected function itself, the call
\* lands in the hook again and is simply the next FrameEnter.
FrameOriginal(g) ==
    LET a == PresentAPI[g]
        o == hookObj[a].orig
    IN  /\ a = "glx" \/ ~ Dangling(g)
        /\ o = "raw" \/ (o = "tramp" /\ entry[a] = "hook")
        /\ FGo(g, "original", "out")
        /\ UNCHANGED <<frameFrame, fault, hookObj, fgen, g_ready>>

\* The hook has been deleted meanwhile and Inst() constructs one without
\* functions, or its trampoline is gone.
FrameOriginalLost(g) ==
    LET a == PresentAPI[g]
        o == hookObj[a].orig
    IN  /\ fault = "none" /\ fpc[g] = "original"
        /\ a = "glx" \/ ~ Dangling(g)
        /\ \/ o = "null" /\ fault' = "null"
           \/ o = "tramp" /\ entry[a] # "hook" /\ fault' = "trampoline"
        /\ UNCHANGED <<frameFrame, hookObj, fgen, g_ready, fpc>>

FrameUseFreed(g) ==
    /\ fault = "none"
    /\ fpc[g] \in {"prepare", "state", "draw"}
       \/ (fpc[g] = "original" /\ PresentAPI[g] = "vk")
    /\ Dangling(g)
    /\ fault' = "freed"
    /\ UNCHANGED <<frameFrame, hookObj, fgen, g_ready, fpc>>

-----------------------------------------------------------------------------
Controller(c) ==
    \/ StartExchange(c) \/ StartClear(c) \/ StartSpawn(c)
    \/ StopExchange(c) \/ StopSignal(c) \/ StopJoin(c) \/ StopTake(c)
    \/ StopNotify(c) \/ StopUnhook(c) \/ StopFree(c) \/ StopReturn(c)

Worker(w) ==
    \/ CallerStep(w) /\ UNCHANGED bridgeVars
    \/ FirstPass(w) \/ StopFirst(w) \/ PollAgain(w) \/ PollEnd(w) \/ Polled(w)
    \/ GetRenderer(w) \/ Got(w) \/ GiveUp(w) \/ Own(w)
    \/ StartHook(w) \/ StartHookSaved(w)
    \/ FreeLast(w) \/ WorkerEnd(w)

Game(g) ==
    \/ fpc[g] = "out" /\ Present(g) /\ UNCHANGED bridgeVars
    \/ PresentStep(g) /\ UNCHANGED bridgeVars
    \/ FrameEnter(g) \/ FrameReady(g) \/ FrameSkip(g) \/ FrameCallback(g)
    \/ FrameState(g) \/ FrameDraw(g) \/ FrameOriginal(g)
    \/ FrameOriginalLost(g) \/ FrameUseFreed(g)

Load == (\E a \in APIs : LoadLibrary(a)) /\ UNCHANGED bridgeVars

\* The process has crashed.
Crashed == fault # "none" /\ UNCHANGED vars

Next == \/ \E c \in Controllers : Controller(c)
        \/ \E w \in Workers : Worker(w)
        \/ \E g \in GameThreads : Game(g)
        \/ \E t \in Threads : UseFreed(t) /\ UNCHANGED bridgeVars
        \/ Load
        \/ Crashed

Spec == Init /\ [][Next]_vars

\* Every thread keeps running and no mutex starves it: holders release it, the
\* worker sleeps between polls.  The game loads its graphics library and goes
\* on presenting.  The hook tries to initialize in every frame; the display and
\* the window it needs are there in some of them (the code does not see to
\* that: without them there is no overlay).  Nobody has to call start or stop.
Fairness ==
    /\ \A c \in Controllers : WF_vars(cpc[c] # "idle" /\ Controller(c))
    /\ \A w \in Workers : SF_vars(Worker(w))
    /\ \A t \in Threads : WF_vars(UseFreed(t) /\ UNCHANGED bridgeVars)
    /\ \A g \in GameThreads : /\ SF_vars(Game(g))
                              /\ SF_vars(FrameReady(g))
                              /\ WF_vars(LoadLibrary(PresentAPI[g])
                                         /\ UNCHANGED bridgeVars)

FairSpec == Spec /\ Fairness

-----------------------------------------------------------------------------
(* Properties                                                              *)

TypeOK ==
    /\ DetectorTypeOK
    /\ g_started \in BOOLEAN /\ g_stop \in BOOLEAN /\ g_ready \in BOOLEAN
    /\ g_renderer \in APIs \cup {"none"}
    /\ g_worker \in spawned \cup {NoThread}
    /\ spawned \subseteq Workers
    /\ \A w \in Workers : wpc[w] = "none" <=> w \notin spawned
    /\ victim \in [Controllers -> APIs \cup {"none"}]
    /\ fgen \in [GameThreads -> 0 .. MaxStops]
    /\ stops \in 0 .. MaxStops

\* Until somebody calls stop no thread ends the process: whatever a present is
\* redirected to exists, and the original it calls through is a function or a
\* live trampoline.
NoFault == stops = 0 => fault = "none"

\* The renderer that the callbacks reach through g_renderer has not been
\* deleted, neither by stop nor by the detector that handed it over.
RendererAlive == g_renderer # "none" => hookObj[g_renderer].alive

\* How the presents of an API are redirected, at both places.
Redirection(a) == <<entry[a], IF a = "vk" THEN table ELSE "driver">>

\* The hook or the detector redirects the game's presents while the other, or
\* an earlier detector, still does.
Stacks ==
    \E g \in GameThreads :
        LET a == PresentAPI[g]
        IN  /\ Redirection(a)' # Redirection(a)
            /\ Lands(a) # "driver" /\ Lands(a)' # "driver"

\* That never happens: the second would take the first one's function for the
\* original, and a pointer is not found once it is patched.
NeverStacked == [][~ Stacks]_vars

\* With patched pointers it does not happen before somebody calls stop.
NeverStackedUnstopped == [][stops = 0 => ~ Stacks]_vars

\* The overlay is not started and nobody is inside start or stop.
Stopped == ~ g_started /\ \A c \in Controllers : cpc[c] = "idle"

\* Not started means undone: no worker runs, no renderer is kept, and no
\* present of the game is redirected to the hook.
StopUndoes ==
    Stopped => /\ \A w \in Workers : wpc[w] \in {"none", "ended"}
               /\ g_renderer = "none"
               /\ \A a \in APIs : Lands(a) # "hook"

\* Once every worker has freed its detector and ended, no present of the game
\* lands in a detector any more.
DetectorRemoved ==
    (\A w \in Workers : wpc[w] \in {"none", "ended"})
    => \A g \in GameThreads : Lands(PresentAPI[g]) # "detector"

\* A frame on its way to OverlayProc runs on a hook that still exists.
OverlayProcStops ==
    \A g \in GameThreads : fpc[g] \in {"prepare", "state", "draw"} => ~ Dangling(g)

\* A game that keeps presenting, and whose display and window the hook can use,
\* gets its overlay, unless it is stopped first.
EventuallyReady ==
    g_started ~> (g_ready \/ ~ g_started \/ fault # "none")

\* stop waits for the worker, which always ends.
StopReturns ==
    \A c \in Controllers : cpc[c] = "join" ~> (cpc[c] = "idle" \/ fault # "none")
=============================================================================
